---------------------------- MODULE SerialProofs ----------------------------
(***************************************************************************)
(* The serial port, for every size of its rings.                           *)
(*                                                                         *)
(* Receiving: the port is whole again after a tool change, every received  *)
(* character is accounted for once and comes out in order as long as no    *)
(* interrupt has hit one of the foreground's windows, and a reset is never *)
(* followed by input from before it.                                       *)
(*                                                                         *)
(* Transmitting: what serialPutC accepts reaches the UART in order, as     *)
(* long as neither hazard recorded in Clean has struck, and no wake-up of  *)
(* the transmit interrupt is ever lost.                                    *)
(***************************************************************************)
EXTENDS SerialRx, SerialTx, TLAPS, FiniteSetTheorems

\* The types of the history variables the arguments are about.
HistoryType ==
    /\ out \in Seq([item : Item, toolchange : BOOLEAN])
    /\ lastReset \in [at : -1 .. MaxStamp, len : Nat]

\* Slot s is one of those from t up to, but not including, h.
Between(t, s, h) == IF t <= h THEN t <= s /\ s < h ELSE s >= t \/ s < h

\* How far slot s is behind slot t.
Behind(t, s) == IF s >= t THEN s - t ELSE s - t + RxSize

\* The contents of slot s of ring b.
At(b, s) == Stamp(b.data[s])

\* The occupied slots of ring b.
Occupied(b) == {s \in Slot : Between(b.tail, s, b.head)}

-----------------------------------------------------------------------------
(* The port *)

\* No interrupt has hit the suspension or the restoration of the input.
PortClean == raced \cap (SuspendWindow \cup RestoreWindow) = {}

Installed == handler = "protocol" /\ saved = "NULL" /\ read = "serialGetC"
Forwarding == handler = "await_toolchange_ack" /\ saved = "protocol"

\* What is installed at each place of the foreground.
PortInv ==
    PortClean =>
        /\ ~fault
        /\ pc \in SuspendWindow \cup RestoreWindow => suspended
        /\ ~suspended => Installed /\ ~rxbuf.backup
        /\ pc = "suspend_handler" => Installed /\ ~rxbuf.backup
        /\ pc = "suspend_saved" => /\ handler = "await_toolchange_ack" /\ lprev = "protocol"
                                   /\ saved = "NULL" /\ ~rxbuf.backup
        /\ pc = "suspend_read" => Forwarding /\ ~rxbuf.backup
        /\ pc = "restore_data" => Installed /\ ~rxbuf.backup
        /\ pc = "restore_port" => (Installed \/ Forwarding) /\ ~rxbuf.backup
        /\ suspended /\ pc \notin SuspendWindow \cup RestoreWindow =>
             \/ Installed /\ rxbuf.backup
             \/ Forwarding /\ read = "stream_get_null" /\ ~rxbuf.backup
        /\ pc \in GetWindow => read = "serialGetC"
        /\ rxbuf.backup \/ pc = "restore_data" => ~rxbackup.backup

-----------------------------------------------------------------------------
(* The stream of characters *)

\* The ring as it is when a restore has been completed.
Ring == IF pc = "restore_data" THEN [rxbuf EXCEPT !.data = rxbackup.data] ELSE rxbuf

\* Ring b holds characters in the order of arrival, none later than n.
Ordered(b, n) ==
    /\ \A s \in Occupied(b) : At(b, s) \in 1 .. n
    /\ \A s, t \in Occupied(b) : Behind(b.tail, s) < Behind(b.tail, t) => At(b, s) < At(b, t)

\* What was returned with the mark that characters of ring b get came before those that are
\* in it.
Follows(b, o, mark) ==
    \A k \in 1 .. Len(o) : o[k].toolchange = mark =>
        \A s \in Occupied(b) : Stamp(o[k].item) < At(b, s)

\* Where the foreground stands in serialGetC, serialRxFlush and serialRxCancel.
Windows ==
    /\ pc \in GetWindow => ltail = rxbuf.tail
    /\ pc = "get_store" => rxbuf.tail # rxbuf.head /\ ldata = rxbuf.data[rxbuf.tail]
    /\ pc = "flush_store" =>
         resetPending # -1 /\ (ltail = rxbuf.head \/ Between(rxbuf.tail, ltail, rxbuf.head))
    /\ pc \in CancelWindow => clock > 0 /\ rxbuf.data[rxbuf.head] = -clock
    /\ pc = "cancel_head" => rxbuf.tail = rxbuf.head
    /\ pc = "restore_data" => rxbuf.tail = rxbackup.tail /\ rxbuf.head = rxbackup.head

\* The stamp a foreground cancel has put into the ring and not yet published.
Unpublished == IF pc \in CancelWindow THEN {clock} ELSE {}

RingStamps(b) == {At(b, s) : s \in Occupied(b)}
Aside == IF rxbuf.backup THEN RingStamps(rxbackup) ELSE {}

\* The characters 1 .. n are in exactly one of six places each.
Partition(n, r, k, a, g, d, u) ==
    /\ 1 .. n = r \cup k \cup a \cup g \cup d \cup u
    /\ r \cap (k \cup a \cup g \cup d \cup u) = {}
    /\ k \cap (a \cup g \cup d \cup u) = {}
    /\ a \cap (g \cup d \cup u) = {}
    /\ g \cap (d \cup u) = {}
    /\ d \cap u = {}

Accounted == Partition(clock, Returned, RingStamps(Ring), Aside, gone, dropped, Unpublished)

\* No character is returned twice.
ReturnedOnce ==
    \A j, k \in 1 .. Len(out) : j # k => Stamp(out[j].item) # Stamp(out[k].item)

StreamInv ==
    raced = {} =>
        /\ Windows
        /\ Ordered(Ring, clock) /\ Follows(Ring, out, rxbuf.backup)
        /\ rxbuf.backup => Ordered(rxbackup, clock) /\ Follows(rxbackup, out, FALSE)
        /\ Accounted /\ ReturnedOnce /\ InOrder

-----------------------------------------------------------------------------
(* Resets *)

\* No interrupt has hit a window that can bring old input back.
ResetClean == raced \cap (SuspendWindow \cup RestoreWindow \cup CancelWindow) = {}

\* The slots of b from t to the head hold nothing from before n.
Newer(b, t, n) == \A s \in Slot : Between(t, s, b.head) => At(b, s) > n

ResetInv ==
    ResetClean =>
        /\ lastReset.at <= clock /\ resetPending <= clock /\ lastReset.len <= Len(out)
        /\ resetPending # -1 => ~suspended
        /\ pc = "flush_store" => resetPending # -1 /\ Newer(rxbuf, ltail, resetPending)
        /\ pc = "restore_data" => rxbuf.tail = rxbackup.tail /\ rxbuf.head = rxbackup.head
        /\ resetPending = -1 =>
             /\ Newer(Ring, rxbuf.tail, lastReset.at)
             /\ rxbuf.backup => Newer(rxbackup, rxbackup.tail, lastReset.at)
             /\ pc = "get_check" => Newer(rxbuf, ltail, lastReset.at)
             /\ pc = "get_store" => /\ Newer(rxbuf, BUFNEXT(ltail), lastReset.at)
                                    /\ Stamp(ldata) > lastReset.at
             /\ pc \in CancelWindow => At(rxbuf, rxbuf.head) > lastReset.at
             /\ \A k \in lastReset.len + 1 .. Len(out) : Stamp(out[k].item) > lastReset.at

-----------------------------------------------------------------------------
(* Types *)

\* The mask of BUFNEXT is a conditional wrap, and so is that of the k-th slot after t.
LEMMA MaskWraps ==
    ASSUME NEW t \in Slot, NEW k \in Slot
    PROVE  (t + k) % RxSize = IF t + k < RxSize THEN t + k ELSE t + k - RxSize
<1>1. CASE t + k < RxSize
  BY <1>1, RxSizeAssumption DEF Slot
<1>2. CASE t + k >= RxSize
  <2>1. t + k = 1 * RxSize + (t + k - RxSize) /\ t + k - RxSize \in 0 .. RxSize - 1
    BY <1>2, RxSizeAssumption DEF Slot
  <2>. QED
    BY <1>2, <2>1, RxSizeAssumption DEF Slot
<1>. QED
  BY <1>1, <1>2, RxSizeAssumption DEF Slot

LEMMA BufNextWraps ==
    ASSUME NEW p \in Slot
    PROVE  BUFNEXT(p) = (IF p + 1 < RxSize THEN p + 1 ELSE 0) /\ BUFNEXT(p) \in Slot
<1>1. 1 \in Slot
  BY RxSizeAssumption DEF Slot
<1>2. (p + 1) % RxSize = IF p + 1 < RxSize THEN p + 1 ELSE p + 1 - RxSize
  BY <1>1, MaskWraps
<1>. QED
  BY <1>2, RxSizeAssumption DEF Slot, BUFNEXT

\* The types of the ring, its copy and the foreground's locals are kept.
LEMMA TypeStep == TypeOK /\ [Next]_vars => TypeOK'
<1>. SUFFICES ASSUME TypeOK, [Next]_vars PROVE TypeOK'
  OBVIOUS
<1>a. 0 \in Slot /\ 0 \in Item /\ clock \in -1 .. MaxStamp /\ -1 \in -1 .. MaxStamp
  BY RxSizeAssumption, MaxStampAssumption DEF Slot, Item, TypeOK
<1>b. ASSUME clock < MaxStamp
      PROVE  clock + 1 \in 0 .. MaxStamp /\ clock + 1 \in Item /\ -(clock + 1) \in Item
  BY <1>b, MaxStampAssumption DEF Item, TypeOK
<1>c. \A s \in Slot : BUFNEXT(s) \in Slot
  BY BufNextWraps
<1>0. EmptyBuffer \in RxBuffer
  BY <1>a DEF EmptyBuffer, RxBuffer
<1>. USE <1>a, <1>c
     DEF TypeOK, RxBuffer, GetWindow, CancelWindow, SuspendWindow, RestoreWindow
<1>1. CASE RxOrdinary
  BY <1>1, <1>b DEF RxOrdinary, port, locals, Enqueue
<1>2. CASE RxCancel
  BY <1>2, <1>b DEF RxCancel, port, locals, Cancelled
<1>3. CASE RxToolAck
  BY <1>3 DEF RxToolAck, locals, SetRtHandler, Handler
<1>4. CASE RxReset
  BY <1>0, <1>4, ZenonT(40) DEF RxReset, port, locals, RestorePort, SetRtHandler, Handler
<1>5. CASE RxFault
  BY <1>5 DEF RxFault, port, locals
<1>6. CASE GetLoad
  BY <1>6 DEF GetLoad, Step, port
<1>7. CASE GetCheck
  BY <1>7 DEF GetCheck, Step, port
<1>8. CASE GetStore
  BY <1>8 DEF GetStore, Step, port
<1>9. CASE FlushLoad
  BY <1>9 DEF FlushLoad, Step, port
<1>10. CASE FlushStore
  BY <1>10 DEF FlushStore, Step, port
<1>11. CASE CancelData
  BY <1>11, <1>b DEF CancelData, Step, port, locals
<1>12. CASE CancelTail
  BY <1>12 DEF CancelTail, Step, port, locals
<1>13. CASE CancelHead
  BY <1>13 DEF CancelHead, Step, port, locals
<1>14. CASE Suspend
  BY <1>14 DEF Suspend, SuspendEnter, SuspendHandler, SuspendSaved, SuspendRead, Step, locals,
               Handler
<1>15. CASE RestoreWords
  BY <1>15 DEF RestoreWords, port, locals
<1>16. CASE RestoreData
  BY <1>0, <1>16 DEF RestoreData, Step, port, locals
<1>17. CASE RestoreHandler
  BY <1>17 DEF RestoreHandler, RestorePort, SetRtHandler, Step, locals, Handler
<1>18. CASE UNCHANGED vars
  BY <1>18 DEF vars, port, locals
<1>. QED
  BY <1>1, <1>2, <1>3, <1>4, <1>5, <1>6, <1>7, <1>8, <1>9, <1>10, <1>11, <1>12, <1>13, <1>14,
     <1>15, <1>16, <1>17, <1>18
  DEF Next, Interrupt, Get, Flush, Cancel, Restore

\* The initial state satisfies the types.
LEMMA TypeInit == Init => TypeOK
<1>1. 0 \in Slot /\ 0 \in Item /\ 0 \in 0 .. MaxStamp /\ -1 \in -1 .. MaxStamp
  BY RxSizeAssumption, MaxStampAssumption DEF Slot, Item
<1>2. EmptyBuffer \in RxBuffer
  BY <1>1 DEF EmptyBuffer, RxBuffer
<1>. QED
  BY <1>1, <1>2 DEF Init, TypeOK, Handler

\* The receive ring's pointers, flags and locals stay in their domains for every ring size
\* (Src/serial.c and the suspension in grbl/stream.c).
THEOREM TypeCorrect == Spec => []TypeOK
<1>. QED
  BY TypeInit, TypeStep, PTL DEF Spec

-----------------------------------------------------------------------------
(* The port *)

\* Every step of the suspension, the acknowledgement, a reset and the restoration leaves
\* the port as PortInv says.
LEMMA PortStep == TypeOK /\ PortInv /\ [Next]_vars => PortInv'
<1>. SUFFICES ASSUME TypeOK, PortInv, [Next]_vars, PortClean' PROVE PortInv'
  BY DEF PortInv
<1>. USE DEF Installed, Forwarding, GetWindow, CancelWindow, SuspendWindow, RestoreWindow
<1>0. PortClean
  BY DEF Next, Interrupt, Get, Flush, Cancel, Suspend, Restore, vars, port, locals, Hit,
         RxOrdinary, RxCancel, RxToolAck, RxReset, RxFault, GetLoad, GetCheck, GetStore,
         FlushLoad, FlushStore, CancelData, CancelTail, CancelHead, SuspendEnter,
         SuspendHandler, SuspendSaved, SuspendRead, RestoreWords, RestoreData, RestoreHandler,
         PortClean
<1>t. rxbuf \in RxBuffer /\ rxbackup \in RxBuffer
  BY DEF TypeOK
<1>. USE <1>0, <1>t DEF PortInv
<1>1. CASE RxOrdinary \/ RxCancel
  BY <1>1 DEF RxOrdinary, RxCancel, port, locals, Enqueue, Cancelled, RxBuffer, Hit, PortClean
<1>3. CASE RxToolAck
  BY <1>3 DEF RxToolAck, locals, SetRtHandler, RxBuffer, Hit, PortClean
<1>4. CASE RxReset
  BY <1>4 DEF RxReset, port, locals, RestorePort, SetRtHandler, RxBuffer, Hit, PortClean,
              EmptyBuffer
<1>5. CASE RxFault
  BY <1>5 DEF RxFault, Forwarded, Hit, PortClean, TypeOK, Handler
<1>6. CASE Get
  BY <1>6 DEF Get, GetLoad, GetCheck, GetStore, Step, port, RxBuffer
<1>7. CASE Flush
  BY <1>7 DEF Flush, FlushLoad, FlushStore, Step, port, RxBuffer
<1>8. CASE Cancel
  BY <1>8 DEF Cancel, CancelData, CancelTail, CancelHead, Step, port, locals, RxBuffer
<1>9. CASE Suspend
  BY <1>9 DEF Suspend, SuspendEnter, SuspendHandler, SuspendSaved, SuspendRead, Step, locals
<1>10. CASE Restore
  BY <1>10 DEF Restore, RestoreWords, RestoreData, RestoreHandler, RestorePort, SetRtHandler,
               Step, port, locals, RxBuffer, EmptyBuffer
<1>11. CASE UNCHANGED vars
  BY <1>11 DEF vars, port, locals
<1>. QED
  BY <1>1, <1>3, <1>4, <1>5, <1>6, <1>7, <1>8, <1>9, <1>10, <1>11 DEF Next, Interrupt

\* For every ring size, once no tool change is pending the port is as it was before one,
\* and the forwarding handler never calls through a bad pointer, unless an interrupt has
\* hit the suspension or the restoration itself (stream_rx_suspend, await_toolchange_ack).
THEOREM PortComesBack == Spec => []PortRestored
<1>1. Init => PortInv
  BY DEF Init, PortInv, Installed, GetWindow, SuspendWindow, RestoreWindow, EmptyBuffer
<1>2. PortInv => PortRestored
  BY DEF PortInv, PortRestored, PortClean, Installed, SuspendWindow, RestoreWindow
<1>. QED
  BY <1>1, <1>2, TypeInit, TypeStep, PortStep, PTL DEF Spec

-----------------------------------------------------------------------------
(* Regions of the ring *)

\* The head moves on by one slot; the tail does.
LEMMA HeadMoves ==
    ASSUME NEW t \in Slot, NEW s \in Slot, NEW h \in Slot, Between(t, s, BUFNEXT(h))
    PROVE  Between(t, s, h) \/ s = h
BY BufNextWraps, RxSizeAssumption DEF Between, Slot

LEMMA TailMoves ==
    ASSUME NEW t \in Slot, NEW s \in Slot, NEW h \in Slot, t # h
    PROVE  Between(BUFNEXT(t), s, h) <=> Between(t, s, h) /\ s # t
BY BufNextWraps, RxSizeAssumption DEF Between, Slot

\* An empty region has no slot.
LEMMA Empty ==
    ASSUME NEW h \in Slot, NEW s \in Slot
    PROVE  ~Between(h, s, h)
BY RxSizeAssumption DEF Between, Slot

\* The slot at the head is free, that at the tail is not unless the ring is empty.
LEMMA Ends ==
    ASSUME NEW t \in Slot, NEW h \in Slot
    PROVE  ~Between(t, h, h) /\ (t # h => Between(t, t, h))
BY RxSizeAssumption DEF Between, Slot

\* Stamps are natural numbers.
LEMMA StampType == \A i \in Item : Stamp(i) \in 0 .. MaxStamp
BY MaxStampAssumption DEF Stamp, Item

\* The types of the history variables are kept.
LEMMA HistoryStep == TypeOK /\ HistoryType /\ [Next]_vars => HistoryType'
<1>. SUFFICES ASSUME TypeOK, HistoryType, [Next]_vars PROVE HistoryType'
  OBVIOUS
<1>1. CASE GetStore
  <2>1. [item |-> ldata, toolchange |-> rxbuf.backup] \in [item : Item, toolchange : BOOLEAN]
    BY DEF TypeOK, RxBuffer
  <2>. QED
    BY <1>1, <2>1 DEF GetStore, HistoryType
<1>2. CASE FlushStore
  BY <1>2, MaxStampAssumption DEF FlushStore, HistoryType, TypeOK
<1>3. CASE UNCHANGED << out, lastReset >>
  BY <1>3 DEF HistoryType
<1>. QED
  BY <1>1, <1>2, <1>3
  DEF Next, Interrupt, Get, Flush, Cancel, Suspend, Restore, vars, RxOrdinary, RxCancel,
      RxToolAck, RxReset, RxFault, GetLoad, GetCheck, FlushLoad, CancelData, CancelTail,
      CancelHead, SuspendEnter, SuspendHandler, SuspendSaved, SuspendRead, RestoreWords,
      RestoreData, RestoreHandler

-----------------------------------------------------------------------------
(* Resets *)

\* What ResetInv says of the ring, once the pending reset has been dealt with.
LEMMA ResetStep ==
    TypeOK /\ TypeOK' /\ HistoryType /\ PortInv /\ ResetInv /\ [Next]_vars => ResetInv'
<1>. SUFFICES ASSUME TypeOK, TypeOK', HistoryType, PortInv, ResetInv, [Next]_vars, ResetClean'
              PROVE  ResetInv'
  BY DEF ResetInv
<1>. USE DEF GetWindow, CancelWindow, SuspendWindow, RestoreWindow
<1>0. ResetClean /\ PortClean
  BY DEF Next, Interrupt, Get, Flush, Cancel, Suspend, Restore, vars, port, locals, Hit,
         RxOrdinary, RxCancel, RxToolAck, RxReset, RxFault, GetLoad, GetCheck, GetStore,
         FlushLoad, FlushStore, CancelData, CancelTail, CancelHead, SuspendEnter,
         SuspendHandler, SuspendSaved, SuspendRead, RestoreWords, RestoreData, RestoreHandler,
         ResetClean, PortClean
<1>t. /\ rxbuf \in RxBuffer /\ rxbackup \in RxBuffer /\ ltail \in Slot
      /\ lastReset.at \in Int /\ clock \in Nat /\ lastReset.len \in Nat
      /\ Len(out) \in Nat /\ resetPending \in Int
  BY DEF TypeOK, HistoryType
<1>n. \A s \in Slot : BUFNEXT(s) \in Slot
  BY BufNextWraps
<1>c. ASSUME clock < MaxStamp
      PROVE  Stamp(clock + 1) = clock + 1 /\ Stamp(-(clock + 1)) = clock + 1
  BY DEF Stamp, TypeOK
<1>. USE <1>0, <1>t, <1>n
<1>1. CASE RxOrdinary
  <2>. USE <1>1 DEF RxOrdinary, port, locals
  <2>1. pc \notin CancelWindow \cup {"restore_data"}
    BY DEF Hit, ResetClean
  <2>2. ASSUME NEW t \in Slot, NEW n \in Int, n <= clock, Newer(rxbuf, t, n)
        PROVE  Newer(rxbuf', t, n)
    <3>1. CASE Full(rxbuf)
      BY <2>2, <3>1 DEF Newer, At, Enqueue, RxBuffer
    <3>2. CASE ~Full(rxbuf)
      <4>1. rxbuf'.head = BUFNEXT(rxbuf.head)
            /\ rxbuf'.data = [rxbuf.data EXCEPT ![rxbuf.head] = clock + 1]
        BY <3>2 DEF Enqueue, RxBuffer
      <4>. QED
        BY <2>2, <4>1, <1>c, HeadMoves DEF Newer, At, RxBuffer
    <3>. QED
      BY <3>1, <3>2
  <2>3. rxbuf'.tail = rxbuf.tail /\ rxbuf'.backup = rxbuf.backup /\ rxbuf.tail \in Slot
    BY DEF Enqueue, RxBuffer
  <2>4. Ring = rxbuf /\ Ring' = rxbuf'
    BY <2>1 DEF Ring
  <2>5. pc = "flush_store" => Newer(rxbuf', ltail, resetPending)
    BY <2>2 DEF ResetInv
  <2>6. resetPending = -1 =>
          /\ Newer(rxbuf', rxbuf'.tail, lastReset.at)
          /\ rxbuf.backup => Newer(rxbackup, rxbackup.tail, lastReset.at)
          /\ pc = "get_check" => Newer(rxbuf', ltail, lastReset.at)
          /\ pc = "get_store" => Newer(rxbuf', BUFNEXT(ltail), lastReset.at)
    BY <2>2, <2>3, <2>4 DEF ResetInv
  <2>. QED
    BY <2>1, <2>3, <2>4, <2>5, <2>6 DEF ResetInv
<1>2. CASE RxCancel
  <2>. USE <1>2 DEF RxCancel, port, locals
  <2>1. pc \notin CancelWindow \cup {"restore_data"}
    BY DEF Hit, ResetClean
  <2>2. /\ rxbuf'.head = BUFNEXT(rxbuf.head) /\ rxbuf'.tail = rxbuf.head
        /\ rxbuf'.data = [rxbuf.data EXCEPT ![rxbuf.head] = -(clock + 1)]
        /\ rxbuf'.backup = rxbuf.backup
    BY DEF Cancelled, RxBuffer
  <2>3. ASSUME NEW t \in Slot, NEW n \in Int, n <= clock, Newer(rxbuf, t, n) \/ t = rxbuf.head
        PROVE  Newer(rxbuf', t, n)
    BY <2>2, <2>3, <1>c, HeadMoves, Empty DEF Newer, At, RxBuffer
  <2>4. rxbuf.head \in Slot
    BY DEF RxBuffer
  <2>. QED
    BY <2>1, <2>2, <2>3, <2>4, SMTT(30) DEF ResetInv, Ring, TypeOK, Newer, At
<1>3. CASE RxToolAck
  <2>. USE <1>3 DEF RxToolAck, locals
  <2>1. pc \notin SuspendWindow \cup RestoreWindow
    BY DEF Hit, ResetClean
  <2>2. suspended /\ resetPending = -1 /\ pc # "flush_store" /\ pc \notin GetWindow
    BY <2>1 DEF PortInv, Installed, Forwarding, ResetInv
  <2>3. /\ rxbuf'.head = rxbuf.head /\ rxbuf'.tail = rxbuf.head /\ rxbuf'.data = rxbuf.data
        /\ rxbackup' = rxbuf /\ rxbuf.head \in Slot
    BY DEF RxBuffer
  <2>4. Newer(rxbuf', rxbuf'.tail, lastReset.at)
    BY <2>3, Empty DEF Newer
  <2>. QED
    BY <2>1, <2>2, <2>3, <2>4 DEF ResetInv, Ring, At
<1>4. CASE RxReset
  <2>1. resetPending' = clock /\ clock # -1 /\ pc' = pc /\ clock' = clock
        /\ lastReset' = lastReset /\ out' = out /\ resetPending = -1
    BY <1>4 DEF RxReset, TypeOK
  <2>2. pc # "flush_store" /\ ~suspended'
    BY <1>4 DEF RxReset, RestorePort, port, ResetInv
  <2>3. pc # "restore_data"
    BY <1>4 DEF RxReset, Hit, ResetClean, PortInv
  <2>. QED
    BY <2>1, <2>2, <2>3 DEF ResetInv
<1>5. CASE RxFault
  BY <1>5 DEF RxFault, ResetInv, Ring, port, locals, Newer, At
<1>6. CASE GetLoad
  BY <1>6 DEF GetLoad, Step, ResetInv, Ring, port, Newer, At
<1>7. CASE GetCheck
  <2>. USE <1>7 DEF GetCheck, Step, port
  <2>1. CASE ltail = rxbuf.head
    BY <2>1 DEF ResetInv, Ring, Newer, At
  <2>2. CASE ltail # rxbuf.head
    BY <2>2, TailMoves, Ends DEF ResetInv, Ring, Newer, At, RxBuffer
  <2>. QED
    BY <2>1, <2>2
<1>8. CASE GetStore
  <2>. USE <1>8 DEF GetStore, Step, port
  <2>1. /\ rxbuf'.tail = BUFNEXT(ltail) /\ rxbuf'.head = rxbuf.head
        /\ rxbuf'.data = rxbuf.data /\ rxbuf'.backup = rxbuf.backup
    BY DEF RxBuffer
  <2>2. /\ Len(out') = Len(out) + 1
        /\ \A k \in 1 .. Len(out) : out'[k] = out[k]
        /\ out'[Len(out) + 1].item = ldata
    BY DEF HistoryType
  <2>3. resetPending = -1 =>
           \A k \in lastReset.len + 1 .. Len(out') : Stamp(out'[k].item) > lastReset.at
    BY <2>2 DEF ResetInv
  <2>. QED
    BY <2>1, <2>2, <2>3 DEF ResetInv, Ring, Newer, At
<1>9. CASE FlushLoad
  BY <1>9, Empty DEF FlushLoad, Step, ResetInv, Ring, port, Newer, At, RxBuffer
<1>10. CASE FlushStore
  <2>. USE <1>10 DEF FlushStore, Step, port
  <2>1. /\ rxbuf'.tail = ltail /\ rxbuf'.head = rxbuf.head
        /\ rxbuf'.data = rxbuf.data /\ rxbuf'.backup = rxbuf.backup
    BY DEF RxBuffer
  <2>2. ~rxbuf.backup
    BY DEF ResetInv, PortInv
  <2>3. lastReset'.at = resetPending /\ lastReset'.len = Len(out) /\ Ring' = rxbuf'
    BY DEF Ring
  <2>4. Newer(rxbuf', rxbuf'.tail, resetPending)
    BY <2>1 DEF ResetInv, Newer, At
  <2>. QED
    BY <2>1, <2>2, <2>3, <2>4 DEF ResetInv
<1>11. CASE CancelData
  <2>. USE <1>11 DEF CancelData, Step, port, locals
  <2>1. /\ rxbuf'.head = rxbuf.head /\ rxbuf'.tail = rxbuf.tail /\ rxbuf'.backup = rxbuf.backup
        /\ rxbuf'.data = [rxbuf.data EXCEPT ![rxbuf.head] = -(clock + 1)] /\ rxbuf.head \in Slot
    BY DEF RxBuffer
  <2>2. At(rxbuf', rxbuf'.head) = clock + 1
    BY <2>1, <1>c DEF At, RxBuffer
  <2>3. Newer(rxbuf, rxbuf.tail, lastReset.at) => Newer(rxbuf', rxbuf.tail, lastReset.at)
    BY <2>1, Ends DEF Newer, At, RxBuffer
  <2>. QED
    BY <2>1, <2>2, <2>3 DEF ResetInv, Ring, TypeOK, Newer, At
<1>12. CASE CancelTail
  <2>1. /\ rxbuf'.head = rxbuf.head /\ rxbuf'.tail = rxbuf.head /\ rxbuf'.data = rxbuf.data
        /\ rxbuf'.backup = rxbuf.backup /\ rxbuf.head \in Slot
    BY <1>12 DEF CancelTail, RxBuffer
  <2>. QED
    BY <1>12, <2>1, Empty DEF CancelTail, Step, port, locals, ResetInv, Ring, Newer, At
<1>13. CASE CancelHead
  <2>. USE <1>13 DEF CancelHead, Step, port, locals
  <2>1. /\ rxbuf'.head = BUFNEXT(rxbuf.head) /\ rxbuf'.tail = rxbuf.tail
        /\ rxbuf'.data = rxbuf.data /\ rxbuf'.backup = rxbuf.backup
        /\ rxbuf.head \in Slot /\ rxbuf.tail \in Slot
    BY DEF RxBuffer
  <2>2. resetPending = -1 => Newer(rxbuf', rxbuf.tail, lastReset.at)
    BY <2>1, HeadMoves DEF ResetInv, Ring, Newer, At
  <2>. QED
    BY <2>1, <2>2 DEF ResetInv, Ring, Newer, At
<1>14. CASE Suspend
  BY <1>14 DEF Suspend, SuspendEnter, SuspendHandler, SuspendSaved, SuspendRead, Step, locals,
               ResetInv, Ring, Newer, At, ResetClean
<1>15. CASE RestoreWords
  <2>. USE <1>15 DEF RestoreWords, port, locals
  <2>1. resetPending = -1
    BY DEF ResetInv
  <2>2. CASE rxbuf.backup
    <3>1. /\ rxbuf'.head = rxbackup.head /\ rxbuf'.tail = rxbackup.tail
          /\ rxbuf'.data = rxbuf.data /\ rxbuf'.backup = rxbackup.backup
          /\ pc' = "restore_data" /\ ~rxbackup.backup
      BY <2>2 DEF RxBuffer, PortInv
    <3>2. Ring'.data = rxbackup.data /\ Ring'.head = rxbackup.head
      BY <3>1 DEF Ring, TypeOK, RxBuffer
    <3>3. Newer(Ring', rxbuf'.tail, lastReset.at)
      BY <2>1, <2>2, <3>1, <3>2 DEF ResetInv, Newer, At
    <3>. QED
      BY <2>1, <3>1, <3>3 DEF ResetInv
  <2>3. CASE ~rxbuf.backup
    BY <2>1, <2>3 DEF ResetInv, Ring, Newer, At
  <2>. QED
    BY <2>2, <2>3
<1>16. CASE RestoreData
  <2>. USE <1>16 DEF RestoreData, Step, port, locals
  <2>1. /\ rxbuf'.head = rxbuf.head /\ rxbuf'.tail = rxbuf.tail
        /\ rxbuf'.data = rxbackup.data /\ rxbuf'.backup = rxbuf.backup /\ ~rxbuf.backup
    BY DEF RxBuffer, PortInv
  <2>2. Ring.data = rxbackup.data /\ Ring.head = rxbuf.head /\ Ring' = rxbuf'
    BY DEF Ring, RxBuffer
  <2>. QED
    BY <2>1, <2>2 DEF ResetInv, Newer, At
<1>17. CASE RestoreHandler
  BY <1>17 DEF RestoreHandler, RestorePort, Step, locals, ResetInv, Ring, Newer, At
<1>18. CASE UNCHANGED vars
  BY <1>18 DEF vars, port, locals, ResetInv, Ring, Newer, At
<1>. QED
  BY <1>1, <1>2, <1>3, <1>4, <1>5, <1>6, <1>7, <1>8, <1>9, <1>10, <1>11, <1>12, <1>13, <1>14,
     <1>15, <1>16, <1>17, <1>18
  DEF Next, Interrupt, Get, Flush, Cancel, Restore

\* The invariants of the initial state.
LEMMA InitInv == Init => HistoryType /\ PortInv /\ ResetInv
<1>. SUFFICES ASSUME Init PROVE HistoryType /\ PortInv /\ ResetInv
  OBVIOUS
<1>1. HistoryType
  BY MaxStampAssumption DEF Init, HistoryType
<1>2. PortInv
  BY DEF Init, PortInv, Installed, GetWindow, SuspendWindow, RestoreWindow, EmptyBuffer
<1>3. ResetInv
  <2>1. 0 \in Slot /\ Ring = rxbuf /\ rxbuf.tail = 0 /\ rxbuf.head = 0
    BY RxSizeAssumption DEF Init, Ring, EmptyBuffer, Slot
  <2>2. Newer(Ring, rxbuf.tail, lastReset.at)
    BY <2>1, Empty DEF Newer
  <2>. QED
    BY <2>1, <2>2 DEF Init, ResetInv, EmptyBuffer, GetWindow, CancelWindow
<1>. QED
  BY <1>1, <1>2, <1>3

\* For every ring size, once a reset has flushed the input nothing received before it is
\* read any more, wherever the reset and the characters around it have struck serialGetC
\* and serialRxFlush (mc_reset, grbl_enter).
THEOREM ResetForgetsInput == Spec => []ResetForgets
<1>1. ResetInv => ResetForgets
  BY DEF ResetInv, ResetForgets, ResetClean
<1>. QED
  BY <1>1, InitInv, TypeInit, TypeStep, HistoryStep, PortStep, ResetStep, PTL DEF Spec

-----------------------------------------------------------------------------
(* What becomes of the contents of a ring *)

\* The positions of slots that are behind the tail.
LEMMA Positions ==
    ASSUME NEW t \in Slot, NEW s \in Slot, NEW h \in Slot, Between(t, s, h)
    PROVE  Behind(t, s) \in Nat /\ Behind(t, s) < Behind(t, h) /\ (s # t => Behind(t, s) > 0)
BY RxSizeAssumption DEF Between, Behind, Slot

\* A character is added at the head.
LEMMA RingGrows ==
    ASSUME NEW b \in RxBuffer, NEW c \in RxBuffer, BUFNEXT(b.head) # b.tail,
           c.tail = b.tail, c.head = BUFNEXT(b.head),
           \A s \in Slot \ {b.head} : c.data[s] = b.data[s]
    PROVE  /\ Occupied(c) = Occupied(b) \cup {b.head}
           /\ b.head \notin Occupied(b)
           /\ \A s \in Occupied(b) : At(c, s) = At(b, s)
           /\ RingStamps(c) = RingStamps(b) \cup {At(c, b.head)}
<1>. b.head \in Slot /\ b.tail \in Slot
  BY DEF RxBuffer
<1>1. \A s \in Slot : Between(b.tail, s, BUFNEXT(b.head)) <=> Between(b.tail, s, b.head) \/ s = b.head
  BY BufNextWraps, RxSizeAssumption DEF Between, Slot
<1>2. Occupied(c) = Occupied(b) \cup {b.head} /\ b.head \notin Occupied(b)
  BY <1>1, Ends DEF Occupied
<1>3. \A s \in Occupied(b) : At(c, s) = At(b, s)
  BY <1>2 DEF Occupied, At
<1>. QED
  BY <1>2, <1>3 DEF RingStamps

\* It is later than all others, and stays behind them.
LEMMA OrderGrows ==
    ASSUME NEW b \in RxBuffer, NEW c \in RxBuffer, BUFNEXT(b.head) # b.tail,
           c.tail = b.tail, c.head = BUFNEXT(b.head),
           \A s \in Slot \ {b.head} : c.data[s] = b.data[s],
           NEW n \in Nat, NEW m \in Nat, n < m, At(c, b.head) \in n + 1 .. m, Ordered(b, n)
    PROVE  Ordered(c, m)
<1>. b.head \in Slot /\ b.tail \in Slot
  BY DEF RxBuffer
<1>1. /\ Occupied(c) = Occupied(b) \cup {b.head}
      /\ \A s \in Occupied(b) : At(c, s) = At(b, s)
  BY RingGrows
<1>2. \A s \in Occupied(b) : At(c, s) \in 1 .. n
  BY <1>1 DEF Ordered
<1>3. \A s \in Occupied(b) : Behind(b.tail, s) \in Nat /\ Behind(b.tail, s) < Behind(b.tail, b.head)
  BY Positions DEF Occupied
<1>4. Behind(b.tail, b.head) \in Nat
  BY RxSizeAssumption DEF Behind, Slot
<1>5. ASSUME NEW s \in Occupied(c), NEW t \in Occupied(c), Behind(c.tail, s) < Behind(c.tail, t)
      PROVE  At(c, s) < At(c, t)
  <2>1. s # b.head
    BY <1>1, <1>3, <1>4, <1>5
  <2>2. CASE t = b.head
    BY <1>1, <1>2, <2>1, <2>2
  <2>3. CASE t # b.head
    BY <1>1, <1>5, <2>1, <2>3 DEF Ordered
  <2>. QED
    BY <2>2, <2>3
<1>6. ASSUME NEW s \in Occupied(c) PROVE At(c, s) \in 1 .. m
  BY <1>1, <1>2
<1>. QED
  BY <1>5, <1>6 DEF Ordered

\* The tail moves forward to slot l: what is left was there before, in the same order.
LEMMA RingShrinks ==
    ASSUME NEW b \in RxBuffer, NEW c \in RxBuffer, NEW l \in Slot,
           l = b.head \/ Between(b.tail, l, b.head),
           c.tail = l, c.head = b.head, c.data = b.data
    PROVE  /\ Occupied(c) \subseteq Occupied(b)
           /\ \A s \in Slot : At(c, s) = At(b, s)
           /\ RingStamps(c) \subseteq RingStamps(b)
           /\ \A n : Ordered(b, n) => Ordered(c, n)
           /\ \A o, mark : Follows(b, o, mark) => Follows(c, o, mark)
<1>. b.head \in Slot /\ b.tail \in Slot
  BY DEF RxBuffer
<1>1. \A s \in Slot : At(c, s) = At(b, s)
  BY DEF At
<1>2. Occupied(c) \subseteq Occupied(b)
  BY RxSizeAssumption DEF Occupied, Between, Slot
<1>3. \A s, t \in Occupied(c) : Behind(l, s) < Behind(l, t) => Behind(b.tail, s) < Behind(b.tail, t)
  BY RxSizeAssumption DEF Occupied, Between, Behind, Slot
<1>4. Occupied(c) \subseteq Slot
  BY DEF Occupied
<1>5. RingStamps(c) \subseteq RingStamps(b)
  BY <1>1, <1>2, <1>4 DEF RingStamps
<1>6. ASSUME NEW n, Ordered(b, n) PROVE Ordered(c, n)
  BY <1>1, <1>2, <1>3, <1>4, <1>6 DEF Ordered
<1>7. ASSUME NEW o, NEW mark, Follows(b, o, mark) PROVE Follows(c, o, mark)
  BY <1>1, <1>2, <1>4, <1>7 DEF Follows
<1>. QED
  BY <1>1, <1>2, <1>5, <1>6, <1>7

\* A ring with equal pointers holds nothing.
LEMMA RingEmpty ==
    ASSUME NEW b, b.head \in Slot, b.tail = b.head
    PROVE  /\ Occupied(b) = {} /\ RingStamps(b) = {}
           /\ \A n : Ordered(b, n)
           /\ \A o, mark : Follows(b, o, mark)
<1>1. Occupied(b) = {}
  BY Empty DEF Occupied
<1>. QED
  BY <1>1 DEF RingStamps, Ordered, Follows

\* Rings with the same pointers and contents hold the same.
LEMMA RingSame ==
    ASSUME NEW b, NEW c, b.tail = c.tail, b.head = c.head, b.data = c.data
    PROVE  /\ Occupied(b) = Occupied(c) /\ RingStamps(b) = RingStamps(c)
           /\ \A n : Ordered(b, n) <=> Ordered(c, n)
           /\ \A o, mark : Follows(b, o, mark) <=> Follows(c, o, mark)
BY DEF RingStamps, Ordered, Follows, Occupied, At

\* Counting from the tail reaches exactly the occupied slots.
LEMMA StampsAreRingStamps ==
    ASSUME NEW b \in RxBuffer
    PROVE  Stamps(b) = RingStamps(b) /\ BUFCOUNT(b) \in Slot
<1>. b.head \in Slot /\ b.tail \in Slot
  BY DEF RxBuffer
<1>1. BUFCOUNT(b) \in Slot
  BY RxSizeAssumption DEF BUFCOUNT, Slot
<1>2. ASSUME NEW k \in 0 .. BUFCOUNT(b) - 1
      PROVE  (b.tail + k) % RxSize \in Occupied(b)
  <2>1. k \in Slot
    BY <1>1, RxSizeAssumption DEF Slot
  <2>2. (b.tail + k) % RxSize = IF b.tail + k < RxSize THEN b.tail + k ELSE b.tail + k - RxSize
    BY <2>1, MaskWraps
  <2>. QED
    BY <2>2, RxSizeAssumption DEF Occupied, Between, BUFCOUNT, Slot
<1>3. ASSUME NEW s \in Occupied(b)
      PROVE  \E k \in 0 .. BUFCOUNT(b) - 1 : (b.tail + k) % RxSize = s
  <2>1. s \in Slot /\ Behind(b.tail, s) \in Slot /\ Behind(b.tail, s) \in 0 .. BUFCOUNT(b) - 1
    BY RxSizeAssumption DEF Occupied, Between, Behind, BUFCOUNT, Slot
  <2>2. (b.tail + Behind(b.tail, s)) % RxSize =
            IF b.tail + Behind(b.tail, s) < RxSize THEN b.tail + Behind(b.tail, s)
                                                   ELSE b.tail + Behind(b.tail, s) - RxSize
    BY <2>1, MaskWraps
  <2>3. (b.tail + Behind(b.tail, s)) % RxSize = s
    BY <2>1, <2>2, RxSizeAssumption DEF Behind, Slot
  <2>. QED
    BY <2>1, <2>3
<1>. QED
  BY <1>1, <1>2, <1>3 DEF Stamps, RingStamps, At

-----------------------------------------------------------------------------
(* The stream of characters *)

\* As long as no window has been hit none is hit by the step, and what that means.
LEMMA NotRaced ==
    ASSUME TypeOK, [Next]_vars, raced' = {}
    PROVE  /\ raced = {}
           /\ RxOrdinary => pc \notin CancelWindow \cup {"restore_data"}
           /\ RxCancel => pc \notin GetWindow \cup CancelWindow \cup {"flush_store", "restore_data"}
           /\ RxToolAck => pc \notin SuspendWindow \cup RestoreWindow \cup {"flush_store"}
           /\ RxReset /\ suspended =>
                pc \notin GetWindow \cup CancelWindow \cup SuspendWindow \cup RestoreWindow
<1>1. raced = {}
  BY DEF Next, Interrupt, Get, Flush, Cancel, Suspend, Restore, vars, Hit,
         RxOrdinary, RxCancel, RxToolAck, RxReset, RxFault, GetLoad, GetCheck, GetStore,
         FlushLoad, FlushStore, CancelData, CancelTail, CancelHead, SuspendEnter,
         SuspendHandler, SuspendSaved, SuspendRead, RestoreWords, RestoreData, RestoreHandler
<1>. QED
  BY <1>1 DEF Hit, RxOrdinary, RxCancel, RxToolAck, RxReset

\* Every step keeps the foreground's place in the ring.
LEMMA WindowsStep ==
    ASSUME TypeOK, PortInv, StreamInv, [Next]_vars, raced' = {}
    PROVE  Windows'
<1>0. raced = {} /\ PortClean /\ Windows /\ rxbuf \in RxBuffer /\ rxbackup \in RxBuffer
  BY NotRaced DEF PortClean, StreamInv, TypeOK
<1>s. rxbuf.head \in Slot /\ rxbuf.tail \in Slot /\ ltail \in Slot
  BY DEF TypeOK, RxBuffer
<1>. USE <1>0, <1>s DEF GetWindow, CancelWindow, SuspendWindow, RestoreWindow
<1>1. CASE RxOrdinary
  <2>1. pc \notin CancelWindow \cup {"restore_data"}
    BY <1>1, NotRaced
  <2>2. pc' = pc /\ ltail' = ltail /\ ldata' = ldata /\ resetPending' = resetPending
    BY <1>1 DEF RxOrdinary, locals
  <2>3. CASE Full(rxbuf)
    <3>1. rxbuf'.head = rxbuf.head /\ rxbuf'.tail = rxbuf.tail /\ rxbuf'.data = rxbuf.data
      BY <1>1, <2>3 DEF RxOrdinary, Enqueue, RxBuffer
    <3>. QED
      BY <2>1, <2>2, <3>1 DEF Windows
  <2>4. CASE ~Full(rxbuf)
    <3>1. /\ rxbuf'.head = BUFNEXT(rxbuf.head) /\ rxbuf'.tail = rxbuf.tail
          /\ rxbuf'.data = [rxbuf.data EXCEPT ![rxbuf.head] = clock + 1]
          /\ BUFNEXT(rxbuf.head) # rxbuf.tail
      BY <1>1, <2>4 DEF RxOrdinary, Enqueue, RxBuffer, Full
    <3>2. ltail = rxbuf.head \/ Between(rxbuf.tail, ltail, rxbuf.head)
          => Between(rxbuf.tail, ltail, BUFNEXT(rxbuf.head))
      BY <3>1, BufNextWraps, RxSizeAssumption DEF Between, Slot
    <3>. QED
      BY <2>1, <2>2, <3>1, <3>2 DEF Windows, RxBuffer
  <2>. QED
    BY <2>3, <2>4
<1>2. CASE RxCancel
  BY <1>2, NotRaced DEF RxCancel, Windows, locals
<1>3. CASE RxToolAck
  <2>1. pc \notin GetWindow
    BY <1>3, NotRaced DEF RxToolAck, PortInv, Installed, Forwarding
  <2>. QED
    BY <1>3, <2>1, NotRaced DEF RxToolAck, Windows, locals, RxBuffer
<1>4. CASE RxReset
  BY <1>4, NotRaced DEF RxReset, Windows, locals, TypeOK
<1>5. CASE RxFault
  BY <1>5 DEF RxFault, Windows, locals
<1>6. CASE Get
  BY <1>6 DEF Get, GetLoad, GetCheck, GetStore, Step, Windows
<1>7. CASE Flush
  BY <1>7 DEF Flush, FlushLoad, FlushStore, Step, Windows
<1>8. CASE CancelData
  BY <1>8 DEF CancelData, Step, Windows, TypeOK, RxBuffer
<1>9. CASE CancelTail
  BY <1>9 DEF CancelTail, Step, Windows, RxBuffer
<1>10. CASE CancelHead
  BY <1>10 DEF CancelHead, Step, Windows
<1>11. CASE Suspend
  BY <1>11 DEF Suspend, SuspendEnter, SuspendHandler, SuspendSaved, SuspendRead, Step, Windows
<1>12. CASE Restore
  BY <1>12 DEF Restore, RestoreWords, RestoreData, RestoreHandler, Step, Windows, RxBuffer
<1>13. CASE UNCHANGED vars
  BY <1>13 DEF vars, locals, Windows
<1>. QED
  BY <1>1, <1>2, <1>3, <1>4, <1>5, <1>6, <1>7, <1>8, <1>9, <1>10, <1>11, <1>12, <1>13
  DEF Next, Interrupt, Cancel

\* A new character gets a place.
LEMMA PartitionGrows ==
    ASSUME NEW n \in Nat, NEW r, NEW k, NEW a, NEW g, NEW d, NEW u,
           Partition(n, r, k, a, g, d, u)
    PROVE  /\ Partition(n + 1, r, k \cup {n + 1}, a, g, d, u)
           /\ Partition(n + 1, r, k, a, g, d \cup {n + 1}, u)
           /\ Partition(n + 1, r, k, a, g, d, u \cup {n + 1})
<1>1. 1 .. n + 1 = (1 .. n) \cup {n + 1} /\ n + 1 \notin 1 .. n
  OBVIOUS
<1>. QED
  BY <1>1 DEF Partition

\* Characters of the ring are returned, discarded, set aside or brought back.
LEMMA PartitionMoves ==
    ASSUME NEW n, NEW r, NEW k, NEW a, NEW g, NEW d, NEW u, NEW m, m \subseteq k,
           Partition(n, r, k, a, g, d, u)
    PROVE  /\ Partition(n, r \cup m, k \ m, a, g, d, u)
           /\ Partition(n, r, k \ m, a, g \cup m, d, u)
           /\ Partition(n, r, a, {}, g \cup k, d, u)
           /\ a = {} => Partition(n, r, {}, k, g, d, u)
           /\ k = {} => Partition(n, r, u, a, g, d, {})
BY DEF Partition

\* The part of StreamInv that is about the contents of the rings.
Contents ==
    /\ Ordered(Ring, clock) /\ Follows(Ring, out, rxbuf.backup)
    /\ rxbuf.backup => Ordered(rxbackup, clock) /\ Follows(rxbackup, out, FALSE)
    /\ Accounted /\ ReturnedOnce /\ InOrder

\* Steps that leave the rings and the history of characters alone.
LEMMA ContentsQuiet ==
    ASSUME Contents, UNCHANGED << rxbuf, out, gone, dropped, clock >>,
           rxbuf.backup => UNCHANGED rxbackup,
           \/ UNCHANGED << pc, rxbackup >>
           \/ {pc, pc'} \cap (CancelWindow \cup {"restore_data"}) = {},
           raced = {}, raced' = {}
    PROVE  Contents'
<1>1. Ring' = Ring /\ Unpublished' = Unpublished /\ Aside' = Aside /\ Returned' = Returned
  BY DEF Ring, Unpublished, Aside, Returned
<1>2. Accounted' /\ ReturnedOnce' /\ InOrder'
  BY <1>1 DEF Contents, Accounted, ReturnedOnce, InOrder
<1>. QED
  BY <1>1, <1>2 DEF Contents

\* A later bound on the stamps.
LEMMA OrderedLater ==
    ASSUME NEW b, NEW n \in Nat, Ordered(b, n)
    PROVE  Ordered(b, n + 1)
BY DEF Ordered

\* Whatever has been returned has been received.
LEMMA ReturnedStamps ==
    ASSUME Accounted, NEW k \in 1 .. Len(out)
    PROVE  Stamp(out[k].item) \in 1 .. clock /\ Stamp(out[k].item) \notin Unpublished
BY DEF Accounted, Partition, Returned

\* A character is received.
LEMMA ContentsRxOrdinary ==
    ASSUME TypeOK, TypeOK', StreamInv, RxOrdinary, raced = {}, raced' = {},
           pc \notin CancelWindow \cup {"restore_data"}
    PROVE  Contents'
<1>. USE DEF RxOrdinary, port, locals
<1>a. Ring = rxbuf /\ Ring' = rxbuf' /\ Contents
  BY DEF Ring, StreamInv, Contents
<1>0. /\ rxbuf \in RxBuffer /\ rxbuf' \in RxBuffer /\ clock \in Nat /\ clock' = clock + 1
      /\ Ring = rxbuf /\ Ring' = rxbuf' /\ Contents
  BY <1>a, MaxStampAssumption DEF TypeOK
<1>1. Returned' = Returned /\ Unpublished = {} /\ Unpublished' = {} /\ rxbuf'.backup = rxbuf.backup
  BY <1>0 DEF Returned, Unpublished, Enqueue, RxBuffer
<1>2. Aside' = Aside /\ ReturnedOnce' /\ InOrder'
  BY <1>0, <1>1 DEF Aside, Contents, ReturnedOnce, InOrder
<1>3. rxbuf.backup => Ordered(rxbackup, clock + 1) /\ Follows(rxbackup, out, FALSE)
  BY <1>0, OrderedLater DEF Contents
<1>4. CASE Full(rxbuf)
  <2>1. rxbuf'.head = rxbuf.head /\ rxbuf'.tail = rxbuf.tail /\ rxbuf'.data = rxbuf.data
    BY <1>4 DEF Enqueue, RxBuffer
  <2>2. /\ RingStamps(rxbuf') = RingStamps(rxbuf) /\ Ordered(rxbuf', clock + 1)
        /\ Follows(rxbuf', out, rxbuf.backup)
    BY <1>0, <2>1, RingSame, OrderedLater DEF Contents
  <2>3. Partition(clock, Returned, RingStamps(rxbuf), Aside, gone, dropped, {})
    BY <1>0, <1>1 DEF Contents, Accounted
  <2>4. Partition(clock + 1, Returned, RingStamps(rxbuf), Aside, gone, dropped \cup {clock + 1}, {})
    BY <1>0, <2>3, PartitionGrows
  <2>5. Accounted'
    BY <1>0, <1>1, <1>2, <1>4, <2>2, <2>4 DEF Accounted
  <2>. QED
    BY <1>0, <1>1, <1>2, <1>3, <2>2, <2>5 DEF Contents
<1>5. CASE ~Full(rxbuf)
  <2>1. /\ rxbuf'.head = BUFNEXT(rxbuf.head) /\ rxbuf'.tail = rxbuf.tail
        /\ rxbuf'.data = [rxbuf.data EXCEPT ![rxbuf.head] = clock + 1]
        /\ BUFNEXT(rxbuf.head) # rxbuf.tail /\ rxbuf.head \in Slot
    BY <1>0, <1>5 DEF Enqueue, RxBuffer, Full
  <2>2. At(rxbuf', rxbuf.head) = clock + 1 /\ \A s \in Slot \ {rxbuf.head} : rxbuf'.data[s] = rxbuf.data[s]
    BY <1>0, <2>1 DEF At, RxBuffer, Stamp
  <2>3. /\ Occupied(rxbuf') = Occupied(rxbuf) \cup {rxbuf.head}
        /\ \A s \in Occupied(rxbuf) : At(rxbuf', s) = At(rxbuf, s)
        /\ RingStamps(rxbuf') = RingStamps(rxbuf) \cup {clock + 1}
    BY <1>0, <2>1, <2>2, RingGrows
  <2>4. Ordered(rxbuf', clock + 1)
    BY <1>0, <2>1, <2>2, OrderGrows DEF Contents
  <2>5. Follows(rxbuf', out, rxbuf.backup)
    BY <1>0, <2>2, <2>3, ReturnedStamps, SMTT(30) DEF Contents, Follows
  <2>a. Partition(clock, Returned, RingStamps(rxbuf), Aside, gone, dropped, {})
    BY <1>0, <1>1 DEF Contents, Accounted
  <2>b. Partition(clock + 1, Returned, RingStamps(rxbuf) \cup {clock + 1}, Aside, gone, dropped, {})
    BY <1>0, <2>a, PartitionGrows
  <2>6. Accounted'
    BY <1>0, <1>1, <1>2, <1>5, <2>3, <2>b DEF Accounted
  <2>. QED
    BY <1>0, <1>1, <1>2, <1>3, <2>4, <2>5, <2>6 DEF Contents
<1>. QED
  BY <1>4, <1>5

\* A cancel from the interrupt: everything goes, and a CAN takes its place.
LEMMA ContentsRxCancel ==
    ASSUME TypeOK, TypeOK', StreamInv, RxCancel, raced = {}, raced' = {},
           pc \notin GetWindow \cup CancelWindow \cup {"flush_store", "restore_data"}
    PROVE  Contents'
<1>. USE DEF RxCancel, port, locals
<1>a. Ring = rxbuf /\ Ring' = rxbuf' /\ Contents
  BY DEF Ring, StreamInv, Contents
<1>0. /\ rxbuf \in RxBuffer /\ rxbuf' \in RxBuffer /\ clock \in Nat /\ clock' = clock + 1
      /\ Ring = rxbuf /\ Ring' = rxbuf' /\ Contents
  BY <1>a, MaxStampAssumption DEF TypeOK
<1>1. /\ Returned' = Returned /\ Unpublished = {} /\ Unpublished' = {}
      /\ rxbuf'.backup = rxbuf.backup /\ gone' = gone \cup RingStamps(rxbuf)
  BY <1>0, StampsAreRingStamps DEF Returned, Unpublished, Cancelled, RxBuffer, Discards, GetWindow
<1>2. Aside' = Aside /\ ReturnedOnce' /\ InOrder'
  BY <1>0, <1>1 DEF Aside, Contents, ReturnedOnce, InOrder
<1>3. rxbuf.backup => Ordered(rxbackup, clock + 1) /\ Follows(rxbackup, out, FALSE)
  BY <1>0, OrderedLater DEF Contents
<1>. DEFINE empty == [rxbuf EXCEPT !.tail = rxbuf.head]
<1>4. /\ empty \in RxBuffer /\ empty.head = rxbuf.head /\ empty.tail = rxbuf.head
      /\ empty.data = rxbuf.data /\ rxbuf.head \in Slot
  BY <1>0 DEF RxBuffer
<1>5. /\ rxbuf'.head = BUFNEXT(rxbuf.head) /\ rxbuf'.tail = rxbuf.head
      /\ rxbuf'.data = [rxbuf.data EXCEPT ![rxbuf.head] = -(clock + 1)]
      /\ BUFNEXT(rxbuf.head) # rxbuf.head
  BY <1>0, <1>4, BufNextWraps, RxSizeAssumption DEF Cancelled, RxBuffer, Slot
<1>6. At(rxbuf', rxbuf.head) = clock + 1 /\ \A s \in Slot \ {rxbuf.head} : rxbuf'.data[s] = rxbuf.data[s]
  BY <1>0, <1>4, <1>5 DEF At, RxBuffer, Stamp
<1>7. Occupied(empty) = {} /\ RingStamps(empty) = {} /\ Ordered(empty, clock)
  BY <1>4, RingEmpty
<1>. HIDE DEF empty
<1>8. Occupied(rxbuf') = {rxbuf.head} /\ RingStamps(rxbuf') = {clock + 1}
  BY <1>0, <1>4, <1>5, <1>6, <1>7, RingGrows
<1>9. Ordered(rxbuf', clock + 1)
  BY <1>0, <1>4, <1>5, <1>6, <1>7, OrderGrows
<1>10. Follows(rxbuf', out, rxbuf.backup)
  BY <1>0, <1>6, <1>8, ReturnedStamps DEF Contents, Follows
<1>11. Accounted'
  <2>1. Partition(clock, Returned, RingStamps(rxbuf), Aside, gone, dropped, {})
    BY <1>0, <1>1 DEF Contents, Accounted
  <2>2. RingStamps(rxbuf) \ RingStamps(rxbuf) = {} /\ {} \cup {clock + 1} = {clock + 1}
    OBVIOUS
  <2>3. Partition(clock, Returned, {}, Aside, gone \cup RingStamps(rxbuf), dropped, {})
    BY <2>1, <2>2, PartitionMoves
  <2>4. Partition(clock + 1, Returned, {} \cup {clock + 1}, Aside, gone \cup RingStamps(rxbuf),
                  dropped, {})
    BY <1>0, <2>3, PartitionGrows
  <2>. QED
    BY <1>0, <1>1, <1>2, <1>8, <2>2, <2>4 DEF Accounted
<1>. QED
  BY <1>0, <1>1, <1>2, <1>3, <1>9, <1>10, <1>11 DEF Contents

\* The acknowledgement of a tool change: the ring is set aside.
LEMMA ContentsRxToolAck ==
    ASSUME TypeOK, TypeOK', PortInv, StreamInv, RxToolAck, raced = {}, raced' = {},
           pc \notin SuspendWindow \cup RestoreWindow \cup {"flush_store"}
    PROVE  Contents'
<1>. USE DEF RxToolAck, locals
<1>0. /\ Ring = rxbuf /\ Ring' = rxbuf' /\ Contents /\ ~rxbuf.backup /\ rxbackup' = rxbuf
      /\ clock' = clock /\ out' = out
  BY DEF Ring, StreamInv, Contents, RestoreWindow
<1>1. /\ rxbuf'.head = rxbuf.head /\ rxbuf'.tail = rxbuf.head /\ rxbuf'.backup
      /\ rxbuf.head \in Slot
  BY DEF TypeOK, RxBuffer
<1>2. RingStamps(rxbuf') = {} /\ Ordered(rxbuf', clock) /\ Follows(rxbuf', out, TRUE)
  BY <1>1, RingEmpty
<1>3. Returned' = Returned /\ Unpublished' = Unpublished /\ Aside = {} /\ Aside' = RingStamps(rxbuf)
  BY <1>0, <1>1 DEF Returned, Unpublished, Aside
<1>4. Partition(clock, Returned, {}, RingStamps(rxbuf), gone, dropped, Unpublished)
  BY <1>0, <1>3, PartitionMoves DEF Contents, Accounted
<1>5. Accounted' /\ ReturnedOnce' /\ InOrder'
  BY <1>0, <1>2, <1>3, <1>4 DEF Contents, Accounted, ReturnedOnce, InOrder
<1>6. rxbuf'.backup = TRUE /\ rxbuf.backup = FALSE
  BY <1>0, <1>1 DEF TypeOK, RxBuffer
<1>. QED
  BY <1>0, <1>2, <1>5, <1>6 DEF Contents

\* A reset brings back what was set aside.
LEMMA ContentsRxReset ==
    ASSUME TypeOK, PortInv, StreamInv, RxReset, raced = {}, raced' = {}, PortClean,
           suspended => pc \notin GetWindow \cup CancelWindow \cup SuspendWindow \cup RestoreWindow
    PROVE  Contents'
<1>0. Contents
  BY DEF StreamInv, Contents
<1>1. CASE suspended /\ rxbuf.backup
  <2>. USE <1>1 DEF RxReset
  <2>1. /\ Ring = rxbuf /\ Ring' = rxbackup /\ rxbuf' = rxbackup /\ ~rxbackup.backup
        /\ pc # "get_store" /\ clock' = clock /\ out' = out /\ dropped' = dropped
    BY DEF Ring, GetWindow, RestoreWindow, PortInv
  <2>2. gone' = gone \cup RingStamps(rxbuf)
    BY <2>1, StampsAreRingStamps DEF Discards, TypeOK
  <2>3. /\ Returned' = Returned /\ Unpublished' = Unpublished /\ Aside' = {}
        /\ Aside = RingStamps(rxbackup)
    BY <2>1 DEF Returned, Unpublished, Aside
  <2>4. Partition(clock, Returned, RingStamps(rxbackup), {}, gone \cup RingStamps(rxbuf), dropped,
                  Unpublished)
    BY <1>0, <2>1, <2>3, PartitionMoves DEF Contents, Accounted
  <2>5. Accounted' /\ ReturnedOnce' /\ InOrder'
    BY <1>0, <2>1, <2>2, <2>3, <2>4 DEF Contents, Accounted, ReturnedOnce, InOrder
  <2>6. rxbackup.backup = FALSE
    BY <2>1 DEF TypeOK, RxBuffer
  <2>. QED
    BY <1>0, <2>1, <2>5, <2>6 DEF Contents
<1>2. CASE ~suspended \/ ~rxbuf.backup
  <2>1. UNCHANGED << rxbuf, out, gone, dropped, clock, pc >> /\ (~suspended => UNCHANGED rxbackup)
    BY <1>2 DEF RxReset
  <2>2. ~suspended => ~rxbuf.backup
    BY DEF PortInv
  <2>. QED
    BY <1>0, <1>2, <2>1, <2>2, ContentsQuiet DEF RestoreWindow
<1>. QED
  BY <1>1, <1>2

\* serialGetC gives out the oldest character.
LEMMA ContentsGetStore ==
    ASSUME TypeOK, TypeOK', HistoryType, StreamInv, GetStore, raced = {}, raced' = {}
    PROVE  Contents'
<1>. USE DEF GetStore, Step, port
<1>0. /\ Ring = rxbuf /\ Ring' = rxbuf' /\ Contents /\ clock' = clock /\ rxbackup' = rxbackup
      /\ ltail = rxbuf.tail /\ rxbuf.tail # rxbuf.head /\ ldata = rxbuf.data[rxbuf.tail]
      /\ rxbuf \in RxBuffer /\ rxbuf' \in RxBuffer
  BY DEF Ring, StreamInv, Contents, Windows, GetWindow, TypeOK
<1>1. /\ rxbuf'.head = rxbuf.head /\ rxbuf'.tail = BUFNEXT(rxbuf.tail) /\ rxbuf'.data = rxbuf.data
      /\ rxbuf'.backup = rxbuf.backup /\ rxbuf.head \in Slot /\ rxbuf.tail \in Slot
      /\ BUFNEXT(rxbuf.tail) \in Slot
  BY <1>0, BufNextWraps DEF RxBuffer
<1>2. BUFNEXT(rxbuf.tail) = rxbuf.head \/ Between(rxbuf.tail, BUFNEXT(rxbuf.tail), rxbuf.head)
  BY <1>0, <1>1, BufNextWraps, RxSizeAssumption, SMTT(30) DEF Between, Slot
<1>3. /\ Occupied(rxbuf') \subseteq Occupied(rxbuf)
      /\ \A s \in Slot : At(rxbuf', s) = At(rxbuf, s)
      /\ Ordered(rxbuf, clock) => Ordered(rxbuf', clock)
      /\ Follows(rxbuf, out, rxbuf.backup) => Follows(rxbuf', out, rxbuf.backup)
  BY <1>0, <1>1, <1>2, RingShrinks, ZenonT(40)
<1>4. Occupied(rxbuf') = Occupied(rxbuf) \ {rxbuf.tail} /\ rxbuf.tail \in Occupied(rxbuf)
  <2>1. \A s \in Slot : Between(BUFNEXT(rxbuf.tail), s, rxbuf.head)
                            <=> Between(rxbuf.tail, s, rxbuf.head) /\ s # rxbuf.tail
    BY <1>0, <1>1, TailMoves
  <2>. QED
    BY <1>0, <1>1, <2>1, Ends DEF Occupied
<1>5. \A s \in Occupied(rxbuf') : Stamp(ldata) < At(rxbuf, s)
  <2>1. ASSUME NEW s \in Occupied(rxbuf') PROVE Behind(rxbuf.tail, rxbuf.tail) < Behind(rxbuf.tail, s)
    BY <1>1, <1>4, RxSizeAssumption DEF Behind, Occupied, Between, Slot
  <2>. QED
    BY <1>0, <1>4, <2>1 DEF Contents, Ordered, At
<1>6. RingStamps(rxbuf') = RingStamps(rxbuf) \ {Stamp(ldata)} /\ Stamp(ldata) \in RingStamps(rxbuf)
  <2>1. \A s \in Occupied(rxbuf') : At(rxbuf, s) # Stamp(ldata)
    <3>1. \A s \in Occupied(rxbuf) : At(rxbuf, s) \in Int
      BY <1>0 DEF Contents, Ordered
    <3>. QED
      BY <1>3, <1>5, <3>1
  <2>2. Stamp(ldata) = At(rxbuf, rxbuf.tail)
    BY <1>0 DEF At
  <2>3. Occupied(rxbuf) \subseteq Slot
    BY DEF Occupied
  <2>. QED
    BY <1>3, <1>4, <2>1, <2>2, <2>3 DEF RingStamps
<1>7. /\ Len(out') = Len(out) + 1 /\ Len(out) \in Nat
      /\ \A k \in 1 .. Len(out) : out'[k] = out[k]
      /\ out'[Len(out) + 1].item = ldata /\ out'[Len(out) + 1].toolchange = rxbuf.backup
  BY DEF HistoryType
<1>8. \A k \in 1 .. Len(out') : k \in 1 .. Len(out) \/ k = Len(out) + 1
  BY <1>7
<1>9. Returned' = Returned \cup {Stamp(ldata)}
  BY <1>7, <1>8 DEF Returned
<1>10. Unpublished = {} /\ Unpublished' = {} /\ Aside' = Aside
  BY <1>0, <1>1 DEF Unpublished, Aside, CancelWindow
<1>11. Accounted'
  <2>1. Partition(clock, Returned, RingStamps(rxbuf), Aside, gone, dropped, {})
    BY <1>0, <1>10 DEF Contents, Accounted
  <2>2. Partition(clock, Returned \cup {Stamp(ldata)}, RingStamps(rxbuf) \ {Stamp(ldata)}, Aside,
                  gone, dropped, {})
    BY <1>6, <2>1, PartitionMoves
  <2>. QED
    BY <1>0, <1>6, <1>9, <1>10, <2>2 DEF Accounted
<1>12. \A k \in 1 .. Len(out) : Stamp(out[k].item) # Stamp(ldata)
  BY <1>0, <1>6 DEF Contents, Accounted, Partition, Returned
<1>13. ReturnedOnce'
  BY <1>0, <1>7, <1>8, <1>12 DEF Contents, ReturnedOnce
<1>14. InOrder'
  <2>1. \A k \in 1 .. Len(out) : out[k].toolchange = rxbuf.backup => Stamp(out[k].item) < Stamp(ldata)
    BY <1>0, <1>4 DEF Contents, Follows, At
  <2>2. ASSUME NEW j \in 1 .. Len(out'), NEW k \in 1 .. Len(out'), j < k,
               out'[j].toolchange = out'[k].toolchange
        PROVE  Stamp(out'[j].item) < Stamp(out'[k].item)
    <3>1. j \in 1 .. Len(out)
      BY <1>7, <2>2
    <3>2. CASE k = Len(out) + 1
      BY <1>7, <2>1, <2>2, <3>1, <3>2
    <3>3. CASE k \in 1 .. Len(out)
      BY <1>0, <1>7, <2>2, <3>1, <3>3 DEF Contents, InOrder
    <3>. QED
      BY <1>8, <3>2, <3>3
  <2>. QED
    BY <2>2 DEF InOrder
<1>15. Follows(rxbuf', out', rxbuf.backup)
  <2>1. Occupied(rxbuf') \subseteq Slot
    BY DEF Occupied
  <2>2. ASSUME NEW k \in 1 .. Len(out'), out'[k].toolchange = rxbuf.backup, NEW s \in Occupied(rxbuf')
        PROVE  Stamp(out'[k].item) < At(rxbuf', s)
    <3>1. CASE k = Len(out) + 1
      BY <1>3, <1>5, <1>7, <2>1, <2>2, <3>1
    <3>2. CASE k \in 1 .. Len(out)
      BY <1>0, <1>3, <1>7, <2>2, <3>2 DEF Contents, Follows
    <3>. QED
      BY <1>8, <3>1, <3>2
  <2>. QED
    BY <2>2 DEF Follows
<1>16. rxbuf.backup => Follows(rxbackup, out', FALSE)
  BY <1>0, <1>7, <1>8 DEF Contents, Follows
<1>. QED
  BY <1>0, <1>1, <1>3, <1>11, <1>13, <1>14, <1>15, <1>16 DEF Contents

\* A flush discards what was received before it began.
LEMMA ContentsFlushStore ==
    ASSUME TypeOK, TypeOK', StreamInv, FlushStore, raced = {}, raced' = {}
    PROVE  Contents'
<1>. USE DEF FlushStore, Step, port
<1>0. /\ Ring = rxbuf /\ Ring' = rxbuf' /\ Contents /\ clock' = clock /\ rxbackup' = rxbackup
      /\ out' = out /\ (ltail = rxbuf.head \/ Between(rxbuf.tail, ltail, rxbuf.head))
      /\ rxbuf \in RxBuffer /\ rxbuf' \in RxBuffer /\ ltail \in Slot
  BY DEF Ring, StreamInv, Contents, Windows, TypeOK
<1>1. /\ rxbuf'.head = rxbuf.head /\ rxbuf'.tail = ltail /\ rxbuf'.data = rxbuf.data
      /\ rxbuf'.backup = rxbuf.backup
  BY <1>0 DEF RxBuffer
<1>2. /\ RingStamps(rxbuf') \subseteq RingStamps(rxbuf)
      /\ Ordered(rxbuf, clock) => Ordered(rxbuf', clock)
      /\ Follows(rxbuf, out, rxbuf.backup) => Follows(rxbuf', out, rxbuf.backup)
  BY <1>0, <1>1, RingShrinks
<1>3. gone' = gone \cup (RingStamps(rxbuf) \ RingStamps(rxbuf'))
  BY <1>0, StampsAreRingStamps
<1>4. Returned' = Returned /\ Unpublished = {} /\ Unpublished' = {} /\ Aside' = Aside
  BY <1>0, <1>1 DEF Returned, Unpublished, Aside, CancelWindow
<1>5. Accounted'
  <2>. DEFINE flushed == RingStamps(rxbuf) \ RingStamps(rxbuf')
  <2>1. Partition(clock, Returned, RingStamps(rxbuf), Aside, gone, dropped, {})
    BY <1>0, <1>4 DEF Contents, Accounted
  <2>2. flushed \subseteq RingStamps(rxbuf) /\ RingStamps(rxbuf) \ flushed = RingStamps(rxbuf')
    BY <1>2
  <2>3. Partition(clock, Returned, RingStamps(rxbuf'), Aside, gone \cup flushed, dropped, {})
    <3>. HIDE DEF flushed
    <3>1. Partition(clock, Returned, RingStamps(rxbuf) \ flushed, Aside, gone \cup flushed, dropped, {})
      BY <2>1, <2>2, PartitionMoves
    <3>. QED
      BY <2>2, <3>1
  <2>. QED
    BY <1>0, <1>3, <1>4, <2>3 DEF Accounted
<1>6. ReturnedOnce' /\ InOrder'
  BY <1>0 DEF Contents, ReturnedOnce, InOrder
<1>. QED
  BY <1>0, <1>1, <1>2, <1>5, <1>6 DEF Contents

\* A cancel by the foreground: the CAN is written beyond the head,
LEMMA ContentsCancelData ==
    ASSUME TypeOK, TypeOK', StreamInv, CancelData, raced = {}, raced' = {}
    PROVE  Contents'
<1>. USE DEF CancelData, Step, port, locals
<1>a. Ring = rxbuf /\ Ring' = rxbuf' /\ Contents
  BY DEF Ring, StreamInv, Contents
<1>0. /\ Ring = rxbuf /\ Ring' = rxbuf' /\ Contents /\ clock' = clock + 1 /\ rxbackup' = rxbackup
      /\ out' = out /\ rxbuf \in RxBuffer /\ clock \in Nat
  BY <1>a, MaxStampAssumption DEF TypeOK
<1>1. /\ rxbuf'.head = rxbuf.head /\ rxbuf'.tail = rxbuf.tail /\ rxbuf'.backup = rxbuf.backup
      /\ rxbuf'.data = [rxbuf.data EXCEPT ![rxbuf.head] = -(clock + 1)]
      /\ rxbuf.head \in Slot /\ rxbuf.tail \in Slot
  BY <1>0 DEF RxBuffer
<1>2. Occupied(rxbuf') = Occupied(rxbuf) /\ rxbuf.head \notin Occupied(rxbuf)
  BY <1>1, Ends DEF Occupied
<1>3. \A s \in Occupied(rxbuf) : At(rxbuf', s) = At(rxbuf, s)
  BY <1>0, <1>1, <1>2 DEF At, RxBuffer, Occupied
<1>4. RingStamps(rxbuf') = RingStamps(rxbuf)
  BY <1>2, <1>3 DEF RingStamps
<1>5. Ordered(rxbuf', clock) /\ Follows(rxbuf', out, rxbuf.backup)
  BY <1>0, <1>1, <1>2, <1>3 DEF Contents, Ordered, Follows
<1>6. /\ Ordered(rxbuf', clock + 1)
      /\ rxbuf.backup => Ordered(rxbackup, clock + 1) /\ Follows(rxbackup, out, FALSE)
  BY <1>0, <1>5, OrderedLater DEF Contents
<1>7. Returned' = Returned /\ Unpublished = {} /\ Unpublished' = {clock + 1} /\ Aside' = Aside
  BY <1>0, <1>1 DEF Returned, Unpublished, Aside, CancelWindow
<1>8. Accounted'
  <2>1. Partition(clock, Returned, RingStamps(rxbuf), Aside, gone, dropped, {})
    BY <1>0, <1>7 DEF Contents, Accounted
  <2>2. Partition(clock + 1, Returned, RingStamps(rxbuf), Aside, gone, dropped, {} \cup {clock + 1})
    BY <1>0, <2>1, PartitionGrows
  <2>3. {} \cup {clock + 1} = {clock + 1}
    OBVIOUS
  <2>. QED
    BY <1>0, <1>4, <1>7, <2>2, <2>3 DEF Accounted
<1>9. ReturnedOnce' /\ InOrder'
  BY <1>0 DEF Contents, ReturnedOnce, InOrder
<1>. QED
  BY <1>0, <1>1, <1>5, <1>6, <1>8, <1>9 DEF Contents

\* the ring is emptied,
LEMMA ContentsCancelTail ==
    ASSUME TypeOK, TypeOK', StreamInv, CancelTail, raced = {}, raced' = {}
    PROVE  Contents'
<1>. USE DEF CancelTail, Step, port, locals
<1>0. /\ Ring = rxbuf /\ Ring' = rxbuf' /\ Contents /\ clock' = clock /\ rxbackup' = rxbackup
      /\ out' = out /\ rxbuf \in RxBuffer
  BY DEF Ring, StreamInv, Contents, TypeOK
<1>1. /\ rxbuf'.head = rxbuf.head /\ rxbuf'.tail = rxbuf.head /\ rxbuf'.backup = rxbuf.backup
      /\ rxbuf.head \in Slot
  BY <1>0 DEF RxBuffer
<1>2. RingStamps(rxbuf') = {} /\ Ordered(rxbuf', clock) /\ Follows(rxbuf', out, rxbuf.backup)
  BY <1>1, RingEmpty
<1>3. gone' = gone \cup RingStamps(rxbuf)
  BY <1>0, StampsAreRingStamps
<1>4. Returned' = Returned /\ Unpublished' = Unpublished /\ Aside' = Aside
  BY <1>0, <1>1 DEF Returned, Unpublished, Aside, CancelWindow
<1>5. Accounted'
  <2>1. RingStamps(rxbuf) \ RingStamps(rxbuf) = {}
    OBVIOUS
  <2>2. Partition(clock, Returned, {}, Aside, gone \cup RingStamps(rxbuf), dropped, Unpublished)
    BY <1>0, <2>1, PartitionMoves DEF Contents, Accounted
  <2>. QED
    BY <1>0, <1>2, <1>3, <1>4, <2>2 DEF Accounted
<1>6. ReturnedOnce' /\ InOrder'
  BY <1>0 DEF Contents, ReturnedOnce, InOrder
<1>. QED
  BY <1>0, <1>1, <1>2, <1>5, <1>6 DEF Contents

\* and the CAN is published.
LEMMA ContentsCancelHead ==
    ASSUME TypeOK, TypeOK', StreamInv, CancelHead, raced = {}, raced' = {}
    PROVE  Contents'
<1>. USE DEF CancelHead, Step, port, locals
<1>a. /\ Ring = rxbuf /\ Ring' = rxbuf' /\ Contents
      /\ rxbuf.tail = rxbuf.head /\ clock > 0 /\ rxbuf.data[rxbuf.head] = -clock
  BY DEF Ring, StreamInv, Contents, Windows, CancelWindow
<1>0. /\ Ring = rxbuf /\ Ring' = rxbuf' /\ Contents /\ clock' = clock /\ rxbackup' = rxbackup
      /\ out' = out /\ rxbuf \in RxBuffer /\ rxbuf' \in RxBuffer
      /\ rxbuf.tail = rxbuf.head /\ rxbuf.data[rxbuf.head] = -clock
      /\ clock \in Nat /\ clock - 1 \in Nat /\ clock \in (clock - 1) + 1 .. clock
      /\ clock - 1 < clock
  BY <1>a, MaxStampAssumption DEF TypeOK
<1>1. /\ rxbuf'.head = BUFNEXT(rxbuf.head) /\ rxbuf'.tail = rxbuf.tail /\ rxbuf'.data = rxbuf.data
      /\ rxbuf'.backup = rxbuf.backup /\ rxbuf.head \in Slot
  BY <1>0 DEF RxBuffer
<1>2. BUFNEXT(rxbuf.head) # rxbuf.tail
  BY <1>0, <1>1, BufNextWraps, RxSizeAssumption DEF Slot
<1>3. At(rxbuf', rxbuf.head) = clock /\ \A s \in Slot \ {rxbuf.head} : rxbuf'.data[s] = rxbuf.data[s]
  BY <1>0, <1>1 DEF At, Stamp
<1>4. Occupied(rxbuf) = {} /\ RingStamps(rxbuf) = {} /\ Ordered(rxbuf, clock - 1)
  BY <1>0, <1>1, RingEmpty
<1>5. Occupied(rxbuf') = {rxbuf.head} /\ RingStamps(rxbuf') = {clock}
  <2>1. /\ Occupied(rxbuf') = Occupied(rxbuf) \cup {rxbuf.head}
        /\ RingStamps(rxbuf') = RingStamps(rxbuf) \cup {At(rxbuf', rxbuf.head)}
    BY <1>0, <1>1, <1>2, <1>3, RingGrows
  <2>. QED
    BY <1>3, <1>4, <2>1
<1>6. Ordered(rxbuf', clock)
  BY <1>0, <1>1, <1>2, <1>3, <1>4, OrderGrows
<1>7. Returned' = Returned /\ Unpublished = {clock} /\ Unpublished' = {} /\ Aside' = Aside
  BY <1>0, <1>1 DEF Returned, Unpublished, Aside, CancelWindow
<1>8. Follows(rxbuf', out, rxbuf.backup)
  <2>1. \A k \in 1 .. Len(out) : Stamp(out[k].item) < clock
    BY <1>0, <1>7, ReturnedStamps DEF Contents
  <2>. QED
    BY <1>3, <1>5, <2>1 DEF Follows
<1>9. Accounted'
  <2>1. Partition(clock, Returned, {clock}, Aside, gone, dropped, {})
    BY <1>0, <1>4, <1>7, PartitionMoves DEF Contents, Accounted
  <2>. QED
    BY <1>0, <1>5, <1>7, <2>1 DEF Accounted
<1>10. ReturnedOnce' /\ InOrder'
  BY <1>0 DEF Contents, ReturnedOnce, InOrder
<1>. QED
  BY <1>0, <1>1, <1>6, <1>8, <1>9, <1>10 DEF Contents

\* The end of a tool change: what was set aside comes back, pointers first.
LEMMA ContentsRestoreWords ==
    ASSUME TypeOK, TypeOK', PortInv, StreamInv, RestoreWords, raced = {}, raced' = {}, PortClean
    PROVE  Contents'
<1>. USE DEF RestoreWords, port, locals
<1>0. /\ Ring = rxbuf /\ Contents /\ clock' = clock /\ rxbackup' = rxbackup /\ out' = out
      /\ rxbuf \in RxBuffer /\ rxbackup \in RxBuffer /\ dropped' = dropped
  BY DEF Ring, StreamInv, Contents, TypeOK
<1>1. CASE rxbuf.backup
  <2>1. /\ rxbuf'.head = rxbackup.head /\ rxbuf'.tail = rxbackup.tail
        /\ rxbuf'.backup = FALSE /\ pc' = "restore_data" /\ gone' = gone \cup RingStamps(rxbuf)
    BY <1>0, <1>1, StampsAreRingStamps DEF RxBuffer, PortInv
  <2>2. Ring'.head = rxbackup.head /\ Ring'.tail = rxbackup.tail /\ Ring'.data = rxbackup.data
    BY <1>0, <2>1 DEF Ring, TypeOK, RxBuffer
  <2>3. /\ RingStamps(Ring') = RingStamps(rxbackup) /\ Ordered(Ring', clock)
        /\ Follows(Ring', out, FALSE)
    BY <1>0, <1>1, <2>2, RingSame DEF Contents
  <2>4. /\ Returned' = Returned /\ Unpublished' = Unpublished /\ Aside' = {}
        /\ Aside = RingStamps(rxbackup)
    BY <1>0, <1>1, <2>1 DEF Returned, Unpublished, Aside, CancelWindow
  <2>5. Partition(clock, Returned, RingStamps(rxbackup), {}, gone \cup RingStamps(rxbuf), dropped,
                  Unpublished)
    BY <1>0, <2>4, PartitionMoves DEF Contents, Accounted
  <2>6. Accounted' /\ ReturnedOnce' /\ InOrder'
    BY <1>0, <2>1, <2>3, <2>4, <2>5 DEF Contents, Accounted, ReturnedOnce, InOrder
  <2>. QED
    BY <1>0, <2>1, <2>3, <2>6 DEF Contents
<1>2. CASE ~rxbuf.backup
  BY <1>0, <1>2, ContentsQuiet DEF CancelWindow
<1>. QED
  BY <1>1, <1>2

LEMMA ContentsRestoreData ==
    ASSUME TypeOK, PortInv, StreamInv, RestoreData, raced = {}, raced' = {}, PortClean
    PROVE  Contents'
<1>. USE DEF RestoreData, Step, port, locals
<1>0. Contents /\ clock' = clock /\ out' = out /\ gone' = gone /\ dropped' = dropped /\ ~rxbuf.backup
  BY DEF StreamInv, Contents, PortInv
<1>1. /\ Ring' = rxbuf' /\ Ring.head = rxbuf'.head /\ Ring.tail = rxbuf'.tail
      /\ Ring.data = rxbuf'.data /\ rxbuf'.backup = rxbuf.backup
  BY DEF Ring, TypeOK, RxBuffer
<1>2. /\ RingStamps(rxbuf') = RingStamps(Ring) /\ Ordered(rxbuf', clock)
      /\ Follows(rxbuf', out, rxbuf.backup)
  BY <1>0, <1>1, RingSame DEF Contents
<1>3. Returned' = Returned /\ Unpublished' = Unpublished /\ Aside' = Aside
  BY <1>0, <1>1 DEF Returned, Unpublished, Aside, CancelWindow
<1>4. Accounted' /\ ReturnedOnce' /\ InOrder'
  BY <1>0, <1>1, <1>2, <1>3 DEF Contents, Accounted, ReturnedOnce, InOrder
<1>. QED
  BY <1>0, <1>1, <1>2, <1>4 DEF Contents

\* Every step keeps the contents of the rings in order and accounted for.
LEMMA ContentsStep ==
    ASSUME TypeOK, TypeOK', HistoryType, PortInv, StreamInv, [Next]_vars, raced' = {}
    PROVE  Contents'
<1>0. raced = {} /\ PortClean /\ Contents
  BY NotRaced DEF PortClean, StreamInv, Contents
<1>. USE <1>0
<1>1. CASE RxOrdinary
  BY <1>1, NotRaced, ContentsRxOrdinary
<1>2. CASE RxCancel
  BY <1>2, NotRaced, ContentsRxCancel
<1>3. CASE RxToolAck
  BY <1>3, NotRaced, ContentsRxToolAck
<1>4. CASE RxReset
  BY <1>4, NotRaced, ContentsRxReset
<1>5. CASE RxFault
  BY <1>5, ContentsQuiet DEF RxFault
<1>6. CASE GetLoad \/ GetCheck
  BY <1>6, ContentsQuiet DEF GetLoad, GetCheck, Step, CancelWindow
<1>7. CASE GetStore
  BY <1>7, ContentsGetStore
<1>8. CASE FlushLoad
  BY <1>8, ContentsQuiet DEF FlushLoad, Step, CancelWindow
<1>9. CASE FlushStore
  BY <1>9, ContentsFlushStore
<1>10. CASE CancelData
  BY <1>10, ContentsCancelData
<1>11. CASE CancelTail
  BY <1>11, ContentsCancelTail
<1>12. CASE CancelHead
  BY <1>12, ContentsCancelHead
<1>13. CASE Suspend
  BY <1>13, ContentsQuiet
  DEF Suspend, SuspendEnter, SuspendHandler, SuspendSaved, SuspendRead, Step, CancelWindow
<1>14. CASE RestoreWords
  BY <1>14, ContentsRestoreWords
<1>15. CASE RestoreData
  BY <1>15, ContentsRestoreData
<1>16. CASE RestoreHandler
  BY <1>16, ContentsQuiet DEF RestoreHandler, Step, CancelWindow
<1>17. CASE UNCHANGED vars
  BY <1>17, ContentsQuiet DEF vars
<1>. QED
  BY <1>1, <1>2, <1>3, <1>4, <1>5, <1>6, <1>7, <1>8, <1>9, <1>10, <1>11, <1>12, <1>13, <1>14,
     <1>15, <1>16, <1>17
  DEF Next, Interrupt, Get, Flush, Cancel, Restore

LEMMA StreamStep ==
    TypeOK /\ TypeOK' /\ HistoryType /\ PortInv /\ StreamInv /\ [Next]_vars => StreamInv'
<1>. SUFFICES ASSUME TypeOK, TypeOK', HistoryType, PortInv, StreamInv, [Next]_vars, raced' = {}
              PROVE  Windows' /\ Contents'
  BY DEF StreamInv, Contents
<1>. QED
  BY WindowsStep, ContentsStep

LEMMA StreamInit == Init => StreamInv
<1>. SUFFICES ASSUME Init PROVE StreamInv
  OBVIOUS
<1>1. /\ Ring = rxbuf /\ rxbuf.head \in Slot /\ rxbuf.tail = rxbuf.head /\ ~rxbuf.backup
      /\ Returned = {} /\ Unpublished = {} /\ Aside = {}
  BY RxSizeAssumption
  DEF Init, Ring, EmptyBuffer, Slot, Returned, Unpublished, Aside, CancelWindow
<1>2. RingStamps(rxbuf) = {} /\ Ordered(rxbuf, clock) /\ Follows(rxbuf, out, rxbuf.backup)
  BY <1>1, RingEmpty
<1>3. Windows
  BY DEF Init, Windows, GetWindow, CancelWindow
<1>4. Accounted
  <2>1. 1 .. clock = {}
    BY DEF Init
  <2>. QED
    BY <1>1, <1>2, <2>1 DEF Init, Accounted, Partition
<1>5. ReturnedOnce /\ InOrder
  BY DEF Init, ReturnedOnce, InOrder
<1>. QED
  BY <1>1, <1>2, <1>3, <1>4, <1>5 DEF StreamInv

\* The invariant the theorems about the stream are read off.
LEMMA StreamCorrect == Spec => [](TypeOK /\ HistoryType /\ StreamInv)
<1>. QED
  BY TypeInit, TypeStep, InitInv, HistoryStep, PortStep, StreamInit, StreamStep, PTL DEF Spec

\* For every ring size, the program's input comes out in the order of arrival, and so does
\* what is typed during a tool change, as long as no interrupt has hit a window
\* (serialGetC, USART_IRQHandler, serialRxCancel, stream_rx_suspend).
THEOREM ArrivalOrder == Spec => []InOrder
<1>1. StreamInv => InOrder
  BY DEF StreamInv, InOrder
<1>. QED
  BY <1>1, StreamCorrect, PTL

\* There are n stamps up to n.
LEMMA IntervalCount ==
    ASSUME NEW n \in Nat
    PROVE  IsFiniteSet(1 .. n) /\ Cardinality(1 .. n) = n
<1>1. 1 \in Int /\ n \in Int
  OBVIOUS
<1>2. IsFiniteSet(1 .. n) /\ Cardinality(1 .. n) = IF 1 > n THEN 0 ELSE n - 1 + 1
  BY <1>1, FS_Interval
<1>. QED
  BY <1>2

\* A one-to-one image of 1 .. n has n members.
LEMMA ImageCount ==
    ASSUME NEW n \in Nat, NEW f, NEW T, T = {f[k] : k \in 1 .. n}, DOMAIN f = 1 .. n,
           f = [k \in 1 .. n |-> f[k]],
           \A j, k \in 1 .. n : j # k => f[j] # f[k]
    PROVE  IsFiniteSet(T) /\ Cardinality(T) = n
<1>1. f \in Bijection(1 .. n, T)
  BY DEF Bijection, Injection, Surjection, IsInjective
<1>2. ExistsBijection(1 .. n, T)
  BY <1>1 DEF ExistsBijection
<1>3. IsFiniteSet(1 .. n) /\ Cardinality(1 .. n) = n
  BY IntervalCount
<1>. QED
  BY <1>2, <1>3, FS_Bijection

\* The sizes of the places of a partition add up.
LEMMA PartitionCount ==
    ASSUME NEW n \in Nat, NEW r, NEW k, NEW a, NEW g, NEW d, Partition(n, r, k, a, g, d, {})
    PROVE  n = Cardinality(r) + Cardinality(k) + Cardinality(a) + Cardinality(g) + Cardinality(d)
<1>1. IsFiniteSet(1 .. n) /\ Cardinality(1 .. n) = n
  BY IntervalCount
<1>2. /\ r \in SUBSET (1 .. n) /\ k \in SUBSET (1 .. n) /\ a \in SUBSET (1 .. n)
      /\ g \in SUBSET (1 .. n) /\ d \in SUBSET (1 .. n)
  BY DEF Partition
<1>3. IsFiniteSet(r) /\ IsFiniteSet(k) /\ IsFiniteSet(a) /\ IsFiniteSet(g) /\ IsFiniteSet(d)
  BY <1>1, <1>2, FS_Subset
<1>4. ASSUME NEW S, NEW T, IsFiniteSet(S), IsFiniteSet(T), S \cap T = {}
      PROVE  IsFiniteSet(S \cup T) /\ Cardinality(S \cup T) = Cardinality(S) + Cardinality(T)
  <2>1. Cardinality(S) \in Nat /\ Cardinality(T) \in Nat
    BY <1>4, FS_CardinalityType
  <2>2. /\ IsFiniteSet(S \cup T)
        /\ Cardinality(S \cup T) = Cardinality(S) + Cardinality(T) - Cardinality(S \cap T)
    BY <1>4, FS_Union
  <2>3. Cardinality(S \cap T) = 0
    BY <1>4, FS_EmptySet
  <2>. QED
    BY <1>4, <2>1, <2>2, <2>3
<1>5. /\ IsFiniteSet(g \cup d)
      /\ Cardinality(g \cup d) = Cardinality(g) + Cardinality(d)
  <2>1. g \cap d = {}
    BY DEF Partition
  <2>. QED
    BY <1>3, <1>4, <2>1
<1>6. /\ IsFiniteSet(a \cup (g \cup d))
      /\ Cardinality(a \cup (g \cup d)) = Cardinality(a) + Cardinality(g \cup d)
  <2>1. a \cap (g \cup d) = {}
    BY DEF Partition
  <2>. QED
    BY <1>3, <1>4, <1>5, <2>1
<1>7. /\ IsFiniteSet(k \cup (a \cup (g \cup d)))
      /\ Cardinality(k \cup (a \cup (g \cup d))) = Cardinality(k) + Cardinality(a \cup (g \cup d))
  <2>1. k \cap (a \cup (g \cup d)) = {}
    BY DEF Partition
  <2>. QED
    BY <1>3, <1>4, <1>6, <2>1
<1>8. Cardinality(r \cup (k \cup (a \cup (g \cup d)))) =
        Cardinality(r) + Cardinality(k \cup (a \cup (g \cup d)))
  <2>1. r \cap (k \cup (a \cup (g \cup d))) = {}
    BY DEF Partition
  <2>. QED
    BY <1>3, <1>4, <1>7, <2>1
<1>9. 1 .. n = r \cup (k \cup (a \cup (g \cup d)))
  BY DEF Partition
<1>10. /\ Cardinality(r) \in Nat /\ Cardinality(k) \in Nat /\ Cardinality(a) \in Nat
       /\ Cardinality(g) \in Nat /\ Cardinality(d) \in Nat
  BY <1>3, FS_CardinalityType
<1>11. n = Cardinality(r \cup (k \cup (a \cup (g \cup d))))
  BY <1>1, <1>9
<1>. QED
  BY <1>5, <1>6, <1>7, <1>8, <1>10, <1>11

\* A ring in order holds as many different characters as BUFCOUNT says.
LEMMA RingCount ==
    ASSUME NEW b \in RxBuffer, NEW n \in Nat, Ordered(b, n)
    PROVE  Cardinality(RingStamps(b)) = BUFCOUNT(b)
<1>. b.head \in Slot /\ b.tail \in Slot
  BY DEF RxBuffer
<1>. DEFINE m == BUFCOUNT(b)
            slot(j) == (b.tail + (j - 1)) % RxSize
            f == [j \in 1 .. m |-> At(b, slot(j))]
<1>1. m \in Nat /\ m < RxSize /\ Stamps(b) = RingStamps(b)
  BY StampsAreRingStamps, RxSizeAssumption DEF Slot
<1>2. ASSUME NEW j \in 1 .. m
      PROVE  slot(j) \in Occupied(b) /\ Behind(b.tail, slot(j)) = j - 1
  <2>1. j - 1 \in Slot
    BY <1>1, RxSizeAssumption DEF Slot
  <2>2. slot(j) = IF b.tail + (j - 1) < RxSize THEN b.tail + (j - 1) ELSE b.tail + (j - 1) - RxSize
    BY <2>1, MaskWraps
  <2>. QED
    BY <1>1, <2>2, RxSizeAssumption DEF Occupied, Between, Behind, BUFCOUNT, Slot
<1>3. ASSUME NEW j \in 1 .. m, NEW k \in 1 .. m, j < k PROVE f[j] < f[k]
  <2>. HIDE DEF slot
  <2>1. At(b, slot(j)) < At(b, slot(k))
    BY <1>1, <1>2, <1>3 DEF Ordered
  <2>. QED
    BY <2>1
<1>4. ASSUME NEW j \in 1 .. m PROVE f[j] \in Int
  <2>. HIDE DEF slot
  <2>1. At(b, slot(j)) \in Int
    BY <1>2 DEF Ordered
  <2>. QED
    BY <2>1
<1>5. \A j, k \in 1 .. m : j # k => f[j] # f[k]
  <2>. HIDE DEF f
  <2>. QED
    BY <1>1, <1>3, <1>4
<1>6. RingStamps(b) = {f[j] : j \in 1 .. m}
  <2>1. \A k \in 0 .. m - 1 : k + 1 \in 1 .. m /\ slot(k + 1) = (b.tail + k) % RxSize
    BY <1>1, RxSizeAssumption DEF Slot
  <2>2. \A j \in 1 .. m : j - 1 \in 0 .. m - 1 /\ slot(j) = (b.tail + (j - 1)) % RxSize
    BY <1>1
  <2>3. Stamps(b) = {At(b, (b.tail + k) % RxSize) : k \in 0 .. m - 1}
    BY DEF Stamps, At
  <2>. HIDE DEF slot, m
  <2>4. Stamps(b) = {At(b, slot(j)) : j \in 1 .. m}
    BY <2>1, <2>2, <2>3
  <2>. QED
    BY <1>1, <2>4
<1>7. DOMAIN f = 1 .. m /\ f = [k \in 1 .. m |-> f[k]]
  OBVIOUS
<1>. HIDE DEF f, m
<1>8. Cardinality(RingStamps(b)) = m
  BY <1>1, <1>5, <1>6, <1>7, ImageCount
<1>. QED
  BY <1>8 DEF m

\* For every ring size, every character received is returned once, still in the ring, set
\* aside, discarded or refused, and the numbers add up, as long as no interrupt has hit a
\* window (serialGetC, USART_IRQHandler, serialRxFlush, serialRxCancel, stream_rx_suspend).
THEOREM NoneLostNoneTwice == Spec => []AccountedOnce
<1>1. TypeOK /\ HistoryType /\ StreamInv => AccountedOnce
  <2>. SUFFICES ASSUME TypeOK, HistoryType, StreamInv, raced = {},
                       pc \notin CancelWindow \cup {"restore_data"}
                PROVE  /\ 1 .. clock = Returned \cup Stamps(rxbuf) \cup SetAside \cup gone \cup dropped
                       /\ clock = Len(out) + BUFCOUNT(rxbuf) + Cardinality(SetAside)
                                  + Cardinality(gone) + Cardinality(dropped)
    BY DEF AccountedOnce
  <2>1. Ring = rxbuf /\ Unpublished = {} /\ rxbuf \in RxBuffer /\ rxbackup \in RxBuffer
    BY DEF Ring, Unpublished, TypeOK
  <2>2. clock \in Nat
    BY MaxStampAssumption DEF TypeOK
  <2>3. Stamps(rxbuf) = RingStamps(rxbuf) /\ SetAside = Aside
    BY <2>1, StampsAreRingStamps DEF SetAside, Aside
  <2>4. Partition(clock, Returned, Stamps(rxbuf), SetAside, gone, dropped, {})
    BY <2>1, <2>3 DEF StreamInv, Accounted
  <2>5. Cardinality(Stamps(rxbuf)) = BUFCOUNT(rxbuf)
    BY <2>1, <2>2, <2>3, RingCount DEF StreamInv
  <2>6. Cardinality(Returned) = Len(out)
    <3>. DEFINE f == [k \in 1 .. Len(out) |-> Stamp(out[k].item)]
    <3>1. Len(out) \in Nat
      BY DEF HistoryType
    <3>2. DOMAIN f = 1 .. Len(out) /\ f = [k \in 1 .. Len(out) |-> f[k]]
      OBVIOUS
    <3>3. Returned = {f[k] : k \in 1 .. Len(out)}
      BY DEF Returned
    <3>4. \A j, k \in 1 .. Len(out) : j # k => f[j] # f[k]
      BY DEF StreamInv, ReturnedOnce
    <3>. HIDE DEF f
    <3>. QED
      BY <3>1, <3>2, <3>3, <3>4, ImageCount
  <2>7. clock = Cardinality(Returned) + Cardinality(Stamps(rxbuf)) + Cardinality(SetAside)
                + Cardinality(gone) + Cardinality(dropped)
    BY <2>2, <2>4, PartitionCount
  <2>8. 1 .. clock = Returned \cup Stamps(rxbuf) \cup SetAside \cup gone \cup dropped
    BY <2>4 DEF Partition
  <2>. QED
    BY <2>5, <2>6, <2>7, <2>8
<1>. QED
  BY <1>1, StreamCorrect, PTL


-----------------------------------------------------------------------------
(* The transmit side *)

\* The call in progress has computed the slot after head, and has room for the
\* character it has stored but not yet published.
CallInProgress ==
    /\ txpc \in {"wait", "told", "head"} => next_head = Wrap(head + 1)
    /\ lock => outer = Wrap(head + 1)
    /\ txpc = "head" => data[head] = nput + 1 /\ nput - nsent < TxSize - 1

\* While things are clean the interrupt is enabled only when there is something
\* to send.
TbeOnlyWhenWaiting == Clean => (tbe => head # tail)

\* The inductive invariant.
TxIInv ==
    /\ TxTypeOK
    /\ NoLostWakeup
    /\ RingHoldsUnsent
    /\ SentInOrder
    /\ TbeOnlyWhenWaiting
    /\ Clean => CallInProgress

-----------------------------------------------------------------------------

\* On slots the mask of TxBUFNEXT is a conditional wrap.
LEMMA TxBufNextWraps ==
    ASSUME NEW p \in TxSlot
    PROVE  TxBUFNEXT(p) = Wrap(p + 1) /\ TxBUFNEXT(p) \in TxSlot
<1>1. CASE p + 1 < TxSize
  <2>1. (p + 1) % TxSize = p + 1
    BY <1>1, TxSizeAssumption DEF TxSlot
  <2>. QED
    BY <1>1, <2>1, TxSizeAssumption DEF TxSlot, Wrap, TxBUFNEXT
<1>2. CASE p + 1 = TxSize
  <2>1. TxSize % TxSize = 0
    BY TxSizeAssumption
  <2>. QED
    BY <1>2, <2>1, TxSizeAssumption DEF TxSlot, Wrap, TxBUFNEXT
<1>. QED
  BY <1>1, <1>2, TxSizeAssumption DEF TxSlot

\* The types of the transmit ring and of the call in progress are kept.
LEMMA TxTypeStep == TxTypeOK /\ [TxNext]_txvars => TxTypeOK'
<1>. SUFFICES ASSUME TxTypeOK, [TxNext]_txvars PROVE TxTypeOK'
  OBVIOUS
<1>. USE TxSizeAssumption DEF TxTypeOK
<1>1. CASE PutBegin
  BY <1>1, TxBufNextWraps DEF PutBegin, txhistory
<1>2. CASE PutNested \/ PutAgain \/ PutRefused
  BY <1>2 DEF PutNested, PutAgain, PutRefused, txhistory
<1>3. CASE PutData
  BY <1>3 DEF PutData, txhistory
<1>4. CASE PutHead
  BY <1>4 DEF PutHead
<1>5. CASE PutEnable
  BY <1>5 DEF PutEnable
<1>6. CASE PutCallback
  BY <1>6 DEF PutCallback, txhistory
<1>7. CASE CallbackReturn
  BY <1>7 DEF CallbackReturn, txhistory
<1>8. CASE TxInterrupt
  BY <1>8, TxBufNextWraps DEF TxInterrupt
<1>9. CASE UNCHANGED txvars
  BY <1>9 DEF txvars, txhistory
<1>. QED
  BY <1>1, <1>2, <1>3, <1>4, <1>5, <1>6, <1>7, <1>8, <1>9
  DEF TxNext, serialPutC, stream_tx_blocking

\* Every step of serialPutC, of the blocking callback and of the interrupt
\* preserves the inductive invariant.
LEMMA TxInductiveStep == TxIInv /\ [TxNext]_txvars => TxIInv'
<1>. SUFFICES ASSUME TxIInv, [TxNext]_txvars PROVE TxIInv'
  OBVIOUS
<1>0. TxTypeOK /\ TxTypeOK'
  BY TxTypeStep DEF TxIInv
<1>. USE <1>0, TxSizeAssumption
<1>1. CASE PutBegin
  BY <1>1, TxBufNextWraps
  DEF PutBegin, TxIInv, TxTypeOK, Clean, NoLostWakeup, RingHoldsUnsent, SentInOrder,
      TbeOnlyWhenWaiting, CallInProgress, txhistory
<1>2. CASE PutNested \/ PutAgain \/ PutRefused
  BY <1>2
  DEF PutNested, PutAgain, PutRefused, TxIInv, TxTypeOK, Clean, NoLostWakeup, RingHoldsUnsent, SentInOrder,
      TbeOnlyWhenWaiting, CallInProgress, txhistory
<1>3. CASE PutData
  <2>. USE <1>3 DEF PutData, txhistory
  <2>1. NoLostWakeup' /\ SentInOrder' /\ TbeOnlyWhenWaiting'
    BY DEF TxIInv, NoLostWakeup, SentInOrder, TbeOnlyWhenWaiting, Clean
  <2>2. ASSUME Clean PROVE nput - nsent < TxSize - 1
    BY <2>2 DEF TxIInv, RingHoldsUnsent, CallInProgress, Wrap, TxTypeOK, TxSlot
  <2>3. RingHoldsUnsent'
    <3>. SUFFICES ASSUME Clean
                  PROVE  \A k \in 0 .. TxSize - 1 :
                            k < nput - nsent => data'[Wrap(tail + k)] = nsent + 1 + k
      BY DEF TxIInv, RingHoldsUnsent, Clean, Wrap
    <3>1. ASSUME NEW k \in 0 .. TxSize - 1, k < nput - nsent
          PROVE  data'[Wrap(tail + k)] = nsent + 1 + k
      <4>1. Wrap(tail + k) \in TxSlot /\ Wrap(tail + k) # head
        BY <2>2, <3>1 DEF TxIInv, RingHoldsUnsent, Wrap, TxTypeOK, TxSlot
      <4>2. data[Wrap(tail + k)] = nsent + 1 + k
        BY <3>1 DEF TxIInv, RingHoldsUnsent
      <4>. QED
        BY <4>1, <4>2 DEF TxTypeOK
    <3>. QED
      BY <3>1
  <2>4. (Clean => CallInProgress)'
    BY <2>2 DEF TxIInv, CallInProgress, Clean, TxTypeOK, Wrap, TxSlot
  <2>. QED
    BY <2>1, <2>3, <2>4 DEF TxIInv
<1>4. CASE PutHead
  <2>. USE <1>4 DEF PutHead
  <2>1. NoLostWakeup' /\ SentInOrder'
    BY DEF TxIInv, NoLostWakeup, SentInOrder, Clean
  <2>2. RingHoldsUnsent'
    <3>. SUFFICES ASSUME Clean'
                  PROVE  /\ nput' - nsent' \in 0 .. TxSize - 1
                         /\ head' = Wrap(tail' + (nput' - nsent'))
                         /\ \A k \in 0 .. TxSize - 1 :
                               k < nput' - nsent' => data'[Wrap(tail' + k)] = nsent' + 1 + k
      BY DEF RingHoldsUnsent, Wrap
    <3>1. Clean
      BY DEF Clean, TxTypeOK
    <3>2. nput - nsent \in 0 .. TxSize - 2 /\ nput' - nsent' = (nput - nsent) + 1
      BY <3>1 DEF TxIInv, RingHoldsUnsent, CallInProgress, TxTypeOK
    <3>3. head' = Wrap(tail' + (nput' - nsent'))
      BY <3>1, <3>2 DEF TxIInv, RingHoldsUnsent, CallInProgress, TxTypeOK, Wrap, TxSlot
    <3>4. ASSUME NEW k \in 0 .. TxSize - 1, k < nput' - nsent'
          PROVE  data'[Wrap(tail' + k)] = nsent' + 1 + k
      <4>1. CASE k = nput - nsent
        BY <4>1, <3>1, <3>2 DEF TxIInv, RingHoldsUnsent, CallInProgress, TxTypeOK
      <4>2. CASE k < nput - nsent
        BY <4>2, <3>1, <3>2 DEF TxIInv, RingHoldsUnsent, TxTypeOK
      <4>. QED
        BY <3>2, <3>4, <4>1, <4>2
    <3>. QED
      BY <3>2, <3>3, <3>4
  <2>3. TbeOnlyWhenWaiting' /\ (Clean => CallInProgress)'
    BY DEF TxIInv, RingHoldsUnsent, TbeOnlyWhenWaiting, CallInProgress, Clean, TxTypeOK, Wrap, TxSlot
  <2>. QED
    BY <2>1, <2>2, <2>3 DEF TxIInv
<1>5. CASE PutEnable
  BY <1>5
  DEF PutEnable, TxIInv, TxTypeOK, Clean, NoLostWakeup, RingHoldsUnsent, SentInOrder,
      TbeOnlyWhenWaiting, CallInProgress
<1>6. CASE PutCallback
  BY <1>6
  DEF PutCallback, TxIInv, TxTypeOK, Clean, NoLostWakeup, RingHoldsUnsent, SentInOrder,
      TbeOnlyWhenWaiting, CallInProgress, txhistory
<1>7. CASE CallbackReturn
  BY <1>7
  DEF CallbackReturn, TxIInv, TxTypeOK, Clean, NoLostWakeup, RingHoldsUnsent, SentInOrder,
      TbeOnlyWhenWaiting, CallInProgress, txhistory
<1>8. CASE TxInterrupt
  <2>. USE <1>8 DEF TxInterrupt
  <2>1. tail' = Wrap(tail + 1)
    BY TxBufNextWraps DEF TxTypeOK
  <2>2. NoLostWakeup' /\ TbeOnlyWhenWaiting'
    BY DEF NoLostWakeup, TbeOnlyWhenWaiting, Clean
  <2>3. ASSUME Clean PROVE nput - nsent \in 1 .. TxSize - 1
    BY <2>3 DEF TxIInv, TbeOnlyWhenWaiting, RingHoldsUnsent, Wrap, TxTypeOK, TxSlot
  <2>4. SentInOrder'
    <3>. SUFFICES ASSUME Clean PROVE wire' = nsent'
      BY DEF SentInOrder, Clean
    <3>1. 0 \in 0 .. TxSize - 1 /\ 0 < nput - nsent
      BY <2>3
    <3>2. data[Wrap(tail + 0)] = nsent + 1 + 0
      BY <3>1 DEF TxIInv, RingHoldsUnsent
    <3>. QED
      BY <3>2 DEF Wrap, TxTypeOK, TxSlot
  <2>5. RingHoldsUnsent'
    <3>. SUFFICES ASSUME Clean'
                  PROVE  /\ nput' - nsent' \in 0 .. TxSize - 1
                         /\ head' = Wrap(tail' + (nput' - nsent'))
                         /\ \A k \in 0 .. TxSize - 1 :
                               k < nput' - nsent' => data'[Wrap(tail' + k)] = nsent' + 1 + k
      BY DEF RingHoldsUnsent, Wrap
    <3>1. Clean
      BY DEF Clean
    <3>2. nput - nsent \in 1 .. TxSize - 1 /\ nput' - nsent' = (nput - nsent) - 1
      BY <3>1, <2>3 DEF TxTypeOK
    <3>3. head' = Wrap(tail' + (nput' - nsent'))
      BY <2>1, <3>1, <3>2 DEF TxIInv, RingHoldsUnsent, TxTypeOK, Wrap, TxSlot
    <3>4. ASSUME NEW k \in 0 .. TxSize - 1, k < nput' - nsent'
          PROVE  data'[Wrap(tail' + k)] = nsent' + 1 + k
      <4>1. k + 1 \in 0 .. TxSize - 1 /\ k + 1 < nput - nsent
        BY <3>2, <3>4
      <4>2. data[Wrap(tail + (k + 1))] = nsent + 1 + (k + 1)
        BY <3>1, <4>1 DEF TxIInv, RingHoldsUnsent
      <4>3. Wrap(tail' + k) = Wrap(tail + (k + 1))
        BY <2>1, <4>1 DEF Wrap, TxTypeOK, TxSlot
      <4>. QED
        BY <4>2, <4>3 DEF TxTypeOK
    <3>. QED
      BY <3>2, <3>3, <3>4
  <2>6. (Clean => CallInProgress)'
    BY DEF TxIInv, CallInProgress, Clean, TxTypeOK
  <2>. QED
    BY <2>2, <2>4, <2>5, <2>6 DEF TxIInv
<1>9. CASE UNCHANGED txvars
  BY <1>9
  DEF txvars, txhistory, TxIInv, TxTypeOK, Clean, NoLostWakeup, RingHoldsUnsent, SentInOrder,
      TbeOnlyWhenWaiting, CallInProgress
<1>. QED
  BY <1>1, <1>2, <1>3, <1>4, <1>5, <1>6, <1>7, <1>8, <1>9
  DEF TxNext, serialPutC, stream_tx_blocking

\* The initial state of the port satisfies the inductive invariant.
LEMMA TxInitInductive == TxInit => TxIInv
<1>. SUFFICES ASSUME TxInit PROVE TxIInv
  OBVIOUS
<1>. USE TxSizeAssumption DEF TxInit
<1>1. TxTypeOK
  <2>1. 0 \in TxSlot /\ 0 \in Nat
    BY DEF TxSlot
  <2>2. data \in [TxSlot -> Nat]
    OBVIOUS
  <2>. QED
    BY <2>1, <2>2 DEF TxTypeOK
<1>2. RingHoldsUnsent
  BY DEF RingHoldsUnsent, Wrap
<1>3. NoLostWakeup /\ SentInOrder /\ TbeOnlyWhenWaiting /\ CallInProgress
  BY DEF NoLostWakeup, SentInOrder, TbeOnlyWhenWaiting, CallInProgress
<1>. QED
  BY <1>1, <1>2, <1>3 DEF TxIInv

\* The inductive invariant holds in every behaviour of the transmit side.
LEMMA TxInvariance == TxSpec => []TxIInv
BY TxInitInductive, TxInductiveStep, PTL DEF TxSpec

\* The types of the transmit ring hold in every behaviour.
THEOREM TxTypeCorrect == TxSpec => []TxTypeOK
<1>1. TxIInv => TxTypeOK
  BY DEF TxIInv
<1>. QED
  BY <1>1, TxInvariance, PTL

\* USART_IRQHandler hands the UART the n-th character serialPutC accepted as the
\* n-th character, for every ring size, until a hazard of Clean strikes.
THEOREM TransmitsInOrder == TxSpec => [](SentInOrder /\ RingHoldsUnsent)
<1>1. TxIInv => SentInOrder /\ RingHoldsUnsent
  BY DEF TxIInv
<1>. QED
  BY <1>1, TxInvariance, PTL

\* The transmit interrupt is enabled whenever the ring holds a character that
\* serialPutC has finished with, hazards or not.
THEOREM WakeupNeverLost == TxSpec => []NoLostWakeup
<1>1. TxIInv => NoLostWakeup
  BY DEF TxIInv
<1>. QED
  BY <1>1, TxInvariance, PTL
=============================================================================
