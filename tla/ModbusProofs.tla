---------------------------- MODULE ModbusProofs ----------------------------
(***************************************************************************)
(* For every length of the queue and every number of retries: a message    *)
(* ends at most once, a reply is passed on to the message it answers, and  *)
(* a blocking message is given up only after all its attempts, unless one  *)
(* of the named coincidences has happened.                                 *)
(***************************************************************************)
EXTENDS Modbus, TLAPS, SequenceTheorems

Ending == [how : {"reply", "failed", "gave_up", "untold", "dropped"}, of : 0 .. MaxSends]
Reply == [of : Messages, what : {"ok", "crc", "exception"}]

\* The types of the receive buffer and of the history variables.
HistoryType ==
    /\ sends \in 0 .. MaxSends /\ wire \in 0 .. MaxSends
    /\ attempts \in [Messages -> Nat]
    /\ ends \in [Messages -> Seq(Ending)]
    /\ rx \in Seq(Reply)

\* Entry s is one of those from t up to, but not including, h.
Between(t, s, h) == IF t <= h THEN t <= s /\ s < h ELSE s >= t \/ s < h

\* The entries waiting in the ring, and those that hold a message that has not ended.
Pending == {s \in Slots : Between(tail, s, head)}
Held == Pending \cup (IF packet \in Slots THEN {packet} ELSE {})

\* Holds after a coincidence too: what is about to be sent is a message, and a retry is
\* only ever made of an entry that has one left.
SendInv ==
    /\ state = "TX" => wire # 0
    /\ \A s \in Pending : entry[s].msg # 0
    /\ sender # "free" => caller # 0
    /\ state = "Retry" => entry[Sync].retries > 0

\* Message m has been sent and has not ended.
Open(m) == m \in 1 .. sends /\ ends[m] = << >>

\* The packet, the state of the bus and the sender agree; the entry on the wire is the one
\* before tail, out of reach of new messages; and only the answers to the message on the
\* wire are in the receive buffer when a reply is awaited.
BusInv ==
    /\ packet = None <=> state \in {"Idle", "Silent"}
    /\ packet \in Slots => /\ state \in {"TX", "AwaitReply"} /\ NextEntry(packet) = tail
                           /\ wire = entry[packet].msg
    /\ packet = Sync <=> sender = "loop"
    /\ packet = Sync => wire = caller
    /\ sender = "free" <=> caller = 0
    /\ state = "AwaitReply" => \A k \in 1 .. Len(rx) : rx[k].of = wire
    /\ state = "GotReply" => entry[Sync].of = caller

\* A message that has not ended is in one place only.
PlaceInv ==
    /\ \A s \in Held : Open(entry[s].msg) /\ entry[s].msg # caller
    /\ \A s, t \in Held : s # t => entry[s].msg # entry[t].msg
    /\ sender # "free" => Open(caller)

\* The attempts made and those left add up, or the sender will not be told.
AttemptInv ==
    /\ \A m \in Messages : m > sends => attempts[m] = 0 /\ ends[m] = << >>
    /\ sender = "wait" => attempts[caller] = 0
    /\ sender = "loop" =>
         IF entry[Sync].told THEN attempts[caller] = Retries + 1 - entry[Sync].retries
                             ELSE entry[Sync].retries = 0

\* What OwnOutcome says of message m, transmitted n times, with the endings e.
FineEnd(m, e, n) ==
    /\ Len(e) <= 1
    /\ \A k \in 1 .. Len(e) :
         /\ e[k].how = "reply" => e[k].of = m
         /\ e[k].how = "gave_up" => n = Retries + 1
Fine == \A m \in Messages : FineEnd(m, ends[m], attempts[m])

OutcomeInv == races = {} => BusInv /\ PlaceInv /\ AttemptInv /\ Fine

-----------------------------------------------------------------------------
(* The ring *)

\* NextEntry wraps at the end of the queue.
LEMMA NextWraps ==
    ASSUME NEW i \in Slots
    PROVE  /\ NextEntry(i) = IF i + 1 < MODBUS_QUEUE_LENGTH THEN i + 1 ELSE 0
           /\ NextEntry(i) \in Slots
<1>1. CASE i + 1 < MODBUS_QUEUE_LENGTH
  BY <1>1, QueueAssumption DEF Slots, NextEntry
<1>2. CASE i + 1 >= MODBUS_QUEUE_LENGTH
  <2>1. i + 1 = 1 * MODBUS_QUEUE_LENGTH + 0 /\ 0 \in 0 .. MODBUS_QUEUE_LENGTH - 1
    BY <1>2, QueueAssumption DEF Slots
  <2>. QED
    BY <1>2, <2>1, QueueAssumption DEF Slots, NextEntry
<1>. QED
  BY <1>1, <1>2, QueueAssumption DEF Slots

\* The k-th entry after t; how far h is ahead of t.
LEMMA RingArithmetic ==
    ASSUME NEW t \in Slots, NEW k \in Slots
    PROVE  /\ (t + k) % MODBUS_QUEUE_LENGTH =
                IF t + k < MODBUS_QUEUE_LENGTH THEN t + k ELSE t + k - MODBUS_QUEUE_LENGTH
           /\ (k - t) % MODBUS_QUEUE_LENGTH =
                IF k >= t THEN k - t ELSE k - t + MODBUS_QUEUE_LENGTH
<1>. DEFINE L == MODBUS_QUEUE_LENGTH
<1>1. CASE t + k < L
  BY <1>1, QueueAssumption DEF Slots
<1>2. CASE t + k >= L
  <2>1. t + k = 1 * L + (t + k - L) /\ t + k - L \in 0 .. L - 1
    BY <1>2, QueueAssumption DEF Slots
  <2>. QED
    BY <1>2, <2>1, QueueAssumption DEF Slots
<1>3. CASE k >= t
  BY <1>3, QueueAssumption DEF Slots
<1>4. CASE k < t
  <2>1. k - t = (-1) * L + (k - t + L) /\ k - t + L \in 0 .. L - 1
    BY <1>4, QueueAssumption DEF Slots
  <2>. QED
    BY <1>4, <2>1, QueueAssumption DEF Slots
<1>. QED
  BY <1>1, <1>2, <1>3, <1>4, QueueAssumption DEF Slots

\* A message is added at the head, taken at the tail, or there is none.
LEMMA RingMoves ==
    ASSUME NEW t \in Slots, NEW h \in Slots, NEW s \in Slots
    PROVE  /\ NextEntry(h) # t => (Between(t, s, NextEntry(h)) <=> Between(t, s, h) \/ s = h)
           /\ h # t => (Between(NextEntry(t), s, h) <=> Between(t, s, h) /\ s # t)
           /\ h # t => Between(t, t, h)
           /\ ~Between(t, h, h)
           /\ ~Between(h, s, h)
           /\ NextEntry(s) = t => ~Between(t, s, h)
           /\ NextEntry(s) = t /\ NextEntry(h) # t => s # h
BY NextWraps, QueueAssumption DEF Between, Slots

\* Queued are the messages of the pending entries.
LEMMA QueuedIsPending ==
    ASSUME head \in Slots, tail \in Slots
    PROVE  Queued = {entry[s].msg : s \in Pending}
<1>. DEFINE L == MODBUS_QUEUE_LENGTH
            ahead == (head - tail) % L
<1>1. ahead = (IF head >= tail THEN head - tail ELSE head - tail + L) /\ ahead \in Slots
  BY RingArithmetic, QueueAssumption DEF Slots
<1>2. ASSUME NEW k \in 0 .. ahead - 1
      PROVE  (tail + k) % L \in Pending
  <2>1. k \in Slots
    BY <1>1, QueueAssumption DEF Slots
  <2>2. (tail + k) % L = IF tail + k < L THEN tail + k ELSE tail + k - L
    BY <2>1, RingArithmetic
  <2>. QED
    BY <1>1, <2>2, QueueAssumption DEF Pending, Between, Slots
<1>3. ASSUME NEW s \in Pending
      PROVE  \E k \in 0 .. ahead - 1 : (tail + k) % L = s
  <2>. DEFINE k == IF s >= tail THEN s - tail ELSE s - tail + L
  <2>1. s \in Slots /\ k \in Slots /\ k \in 0 .. ahead - 1
    BY <1>1, QueueAssumption DEF Pending, Between, Slots
  <2>2. (tail + k) % L = IF tail + k < L THEN tail + k ELSE tail + k - L
    BY <2>1, RingArithmetic
  <2>3. (tail + k) % L = s
    BY <2>1, <2>2, QueueAssumption DEF Slots
  <2>. QED
    BY <2>1, <2>3
<1>. QED
  BY <1>1, <1>2, <1>3 DEF Queued

-----------------------------------------------------------------------------
(* Types *)

Entries == [Slots \cup {Sync} -> [msg : 0 .. MaxSends, told : BOOLEAN, retries : 0 .. Retries,
                                  of : 0 .. MaxSends]]

\* Sync and None are not entries of the ring, and messages are numbers from 1.
LEMMA Constants ==
    /\ Sync \notin Slots /\ None \notin Slots /\ None # Sync
    /\ Messages \subseteq 0 .. MaxSends /\ 0 \notin Messages /\ 0 \in 0 .. MaxSends
    /\ \A m \in 0 .. MaxSends : m # 0 => m \in Messages
    /\ 0 \in 0 .. Retries /\ Retries \in 0 .. Retries /\ 0 \in Slots
BY QueueAssumption, BoundsAssumption DEF Sync, None, Slots, Messages

\* What add_message puts into an entry.
LEMMA AddedType ==
    ASSUME reset_pending \in BOOLEAN, NEW m \in 0 .. MaxSends, NEW r \in 0 .. Retries
    PROVE  add_message(m, r) \in [msg : 0 .. MaxSends, told : BOOLEAN, retries : 0 .. Retries,
                                  of : 0 .. MaxSends]
BY Constants DEF add_message

\* A sender is told, or the senders of dropped messages are.
LEMMA EndType ==
    ASSUME ends \in [Messages -> Seq(Ending)]
    PROVE  /\ \A m : \A of \in 0 .. MaxSends, how \in {"reply", "failed", "gave_up", "untold"} :
                End(m, how, of) => ends' \in [Messages -> Seq(Ending)]
           /\ \A ms : Dropped(ms) => ends' \in [Messages -> Seq(Ending)]
<1>1. ASSUME NEW m, NEW of \in 0 .. MaxSends,
             NEW how \in {"reply", "failed", "gave_up", "untold"}, End(m, how, of)
      PROVE  ends' \in [Messages -> Seq(Ending)]
  <2>1. [how |-> how, of |-> of] \in Ending
    BY DEF Ending
  <2>2. \A e \in Seq(Ending) : Append(e, [how |-> how, of |-> of]) \in Seq(Ending)
    BY <2>1
  <2>. QED
    BY <1>1, <2>2 DEF End
<1>2. ASSUME NEW ms, Dropped(ms) PROVE ends' \in [Messages -> Seq(Ending)]
  <2>1. [how |-> "dropped", of |-> 0] \in Ending
    BY Constants DEF Ending
  <2>2. \A e \in Seq(Ending) : Append(e, [how |-> "dropped", of |-> 0]) \in Seq(Ending)
    BY <2>1
  <2>. QED
    BY <1>2, <2>2 DEF Dropped
<1>. QED
  BY <1>1, <1>2

\* A message goes out.
LEMMA TxType ==
    ASSUME HistoryType, NEW i, NEW m \in 0 .. MaxSends, tx_message(i, m)
    PROVE  /\ wire' \in 0 .. MaxSends /\ attempts' \in [Messages -> Nat] /\ rx' \in Seq(Reply)
           /\ wire' = m /\ packet' = i /\ state' = "TX" /\ device' = device
<1>1. attempts' \in [Messages -> Nat]
  <2>1. \A k \in Messages : attempts[k] \in Nat /\ attempts[k] + 1 \in Nat
    BY DEF HistoryType
  <2>. QED
    BY <2>1 DEF HistoryType, tx_message
<1>2. rx' \in Seq(Reply)
  BY DEF tx_message
<1>. QED
  BY <1>1, <1>2 DEF tx_message

\* The types are kept, and what is about to be sent is a message.
LEMMA TypeStep ==
    TypeOK /\ HistoryType /\ SendInv /\ [Next]_vars => TypeOK' /\ HistoryType' /\ SendInv'
<1>. SUFFICES ASSUME TypeOK, HistoryType, SendInv, [Next]_vars
              PROVE  TypeOK' /\ HistoryType' /\ SendInv'
  OBVIOUS
<1>a. /\ head \in Slots /\ tail \in Slots /\ NextEntry(head) \in Slots /\ NextEntry(tail) \in Slots
      /\ entry \in Entries /\ \A i \in Slots \cup {Sync} : entry[i].msg \in 0 .. MaxSends
  BY NextWraps DEF TypeOK, Entries
<1>b. rx # << >> => Tail(rx) \in Seq(Reply) /\ Head(rx).of \in Messages
  <2>1. rx # << >> => Tail(rx) \in Seq(Reply) /\ Head(rx) \in Reply
    BY HeadTailProperties DEF HistoryType
  <2>. QED
    BY <2>1 DEF Reply
<1>c. sends < MaxSends => sends + 1 \in 0 .. MaxSends /\ sends + 1 # 0
  BY BoundsAssumption DEF HistoryType
<1>. USE <1>a, Constants
<1>1. CASE PollIdle
  <2>. USE <1>1 DEF PollIdle
  <2>1. /\ wire' \in 0 .. MaxSends /\ attempts' \in [Messages -> Nat] /\ rx' \in Seq(Reply)
        /\ wire' = entry[tail].msg /\ packet' = tail /\ state' = "TX" /\ device' = device
    BY TxType
  <2>2. tail \in Pending /\ Pending' = Pending \ {tail}
    BY RingMoves DEF Pending
  <2>. QED
    BY <2>1, <2>2 DEF TypeOK, HistoryType, SendInv
<1>2. CASE PollSilent
  BY <1>2 DEF PollSilent, ring, history, TypeOK, HistoryType, SendInv, Pending
<1>3. CASE PollTX
  <2>1. rx' \in Seq(Reply)
    BY <1>3 DEF PollTX, AfterTx
  <2>2. wire \in Messages
    BY <1>3 DEF PollTX, SendInv, HistoryType
  <2>. QED
    BY <1>3, <2>1, <2>2 DEF PollTX, ring, history, TypeOK, HistoryType, SendInv, Pending
<1>4. CASE PollTimeout
  <2>. USE <1>4 DEF PollTimeout
  <2>1. rx' \in Seq(Reply)
    BY <1>b DEF HistoryType
  <2>2. ends' \in [Messages -> Seq(Ending)]
    <3>1. ends \in [Messages -> Seq(Ending)]
      BY DEF HistoryType
    <3>2. CASE packet # Sync
      BY <3>1, <3>2, EndType DEF EndQueued
    <3>. QED
      BY <3>1, <3>2
  <2>. QED
    BY <2>1, <2>2 DEF EndQueued, Released, ring, TypeOK, HistoryType, SendInv, Pending
<1>5. CASE PollReply
  <2>. USE <1>5 DEF PollReply
  <2>1. rx' \in Seq(Reply) /\ Head(rx).of \in 0 .. MaxSends
    BY <1>b
  <2>2. ends' \in [Messages -> Seq(Ending)] /\ packet' \in {packet, None}
        /\ state' \in {"Silent", "Exception", "GotReply"}
    <3>1. ends \in [Messages -> Seq(Ending)]
      BY DEF HistoryType
    <3>2. CASE EndQueued("failed", 0) \/ EndQueued("reply", Head(rx).of)
      BY <2>1, <3>1, <3>2, EndType DEF EndQueued, Released
    <3>3. CASE /\ state' = IF CrcError THEN "Exception" ELSE "GotReply"
               /\ UNCHANGED << packet, ends >>
      BY <3>1, <3>3
    <3>. QED
      BY <3>2, <3>3
  <2>3. entry' \in Entries /\ \A s \in Slots : entry'[s] = entry[s]
    BY <2>1, ZenonT(40) DEF Entries
  <2>. QED
    BY <2>1, <2>2, <2>3 DEF TypeOK, HistoryType, SendInv, Pending, Entries
<1>6. CASE SendAsync
  <2>. USE <1>6 DEF SendAsync
  <2>1. ends' \in [Messages -> Seq(Ending)]
    BY EndType DEF HistoryType
  <2>2. CASE packet # Sync /\ Room
    <3>1. add_message(sends', 0) \in [msg : 0 .. MaxSends, told : BOOLEAN, retries : 0 .. Retries,
                                      of : 0 .. MaxSends]
      BY <1>c, AddedType DEF TypeOK
    <3>a. add_message(sends', 0).msg = sends' /\ entry' = [entry EXCEPT ![head] = add_message(sends', 0)]
      BY <2>2 DEF add_message
    <3>2. entry' \in Entries /\ entry'[head].msg = sends' /\ entry'[Sync] = entry[Sync]
          /\ \A s \in Slots \ {head} : entry'[s] = entry[s]
      BY <3>1, <3>a DEF Entries
    <3>3. Pending' = Pending \cup {head}
      BY <2>2, RingMoves DEF Pending, Room
    <3>4. \A s \in Pending' : entry'[s].msg # 0
      BY <1>c, <3>2, <3>3 DEF SendInv, Pending
    <3>. QED
      BY <1>c, <2>1, <2>2, <3>2, <3>4 DEF bus, TypeOK, HistoryType, SendInv, Entries
  <2>3. CASE ~(packet # Sync /\ Room)
    BY <1>c, <2>1, <2>3, ZenonT(40) DEF bus, TypeOK, HistoryType, SendInv, Pending
  <2>. QED
    BY <2>2, <2>3
<1>7. CASE SendBlocking
  <2>1. ends' \in [Messages -> Seq(Ending)]
    BY <1>7, EndType DEF SendBlocking, HistoryType
  <2>. QED
    BY <1>7, <1>c, <2>1 DEF SendBlocking, bus, ring, TypeOK, HistoryType, SendInv, Pending
<1>8. CASE SendNow \/ SendAgain
  <2>0. /\ tx_message(Sync, caller) /\ caller # 0 /\ caller \in 0 .. MaxSends
        /\ \E r \in 0 .. Retries : entry' = [entry EXCEPT ![Sync] = add_message(caller, r)]
    <3>1. CASE SendNow
      BY <3>1 DEF SendNow, SendInv, TypeOK
    <3>2. CASE SendAgain
      <4>1. entry[Sync].retries \in 0 .. Retries /\ entry[Sync].retries > 0
        BY <3>2 DEF SendAgain, SendInv, Entries
      <4>2. entry[Sync].retries - 1 \in 0 .. Retries
        BY <4>1, QueueAssumption
      <4>. QED
        BY <3>2, <4>2 DEF SendAgain, SendInv, TypeOK
    <3>. QED
      BY <1>8, <3>1, <3>2
  <2>1. /\ wire' \in 0 .. MaxSends /\ attempts' \in [Messages -> Nat] /\ rx' \in Seq(Reply)
        /\ wire' = caller /\ packet' = Sync /\ state' = "TX" /\ device' = device
    BY <2>0, TxType
  <2>2. entry' \in Entries /\ \A s \in Slots : entry'[s] = entry[s]
    BY <2>0, AddedType DEF TypeOK, Entries
  <2>. QED
    BY <1>8, <2>0, <2>1, <2>2 DEF SendNow, SendAgain, TypeOK, HistoryType, SendInv, Pending, Entries
<1>9. CASE SendAnswered \/ SendGivesUp
  <2>. USE <1>9
  <2>1. ends' \in [Messages -> Seq(Ending)]
    <3>1. entry[Sync].of \in 0 .. MaxSends /\ ends \in [Messages -> Seq(Ending)]
      BY DEF Entries, HistoryType
    <3>. QED
      BY <3>1, EndType DEF SendAnswered, SendGivesUp
  <2>2. Return
    BY DEF SendAnswered, SendGivesUp
  <2>3. entry' \in Entries /\ \A s \in Slots : entry'[s] = entry[s]
    BY <2>2 DEF Return, Entries, Unused
  <2>. QED
    BY <2>1, <2>2, <2>3 DEF Return, TypeOK, HistoryType, SendInv, Pending, Entries
<1>10. CASE SendFails
  BY <1>10 DEF SendFails, MayRetry, ring, history, TypeOK, HistoryType, SendInv, Pending
<1>11. CASE StartReset
  BY <1>11 DEF StartReset, bus, ring, TypeOK, HistoryType, SendInv, Pending
<1>12. CASE Abort
  <2>. USE <1>12 DEF Abort
  <2>1. ends' \in [Messages -> Seq(Ending)] /\ rx' \in Seq(Reply)
    BY EndType DEF HistoryType
  <2>2. entry' \in Entries
    BY ZenonT(40) DEF Entries
  <2>3. Pending' = {}
    BY RingMoves DEF Pending
  <2>. QED
    BY <2>1, <2>2, <2>3 DEF TypeOK, HistoryType, SendInv, Entries
<1>13. CASE Stop
  BY <1>13 DEF Stop, ring, TypeOK, HistoryType, SendInv, Pending
<1>14. CASE modbus_rtu_flush_queue
  <2>. USE <1>14 DEF modbus_rtu_flush_queue
  <2>1. ends' \in [Messages -> Seq(Ending)]
    BY EndType DEF HistoryType
  <2>2. Pending' = {}
    BY RingMoves DEF Pending
  <2>. QED
    BY <2>1, <2>2 DEF bus, TypeOK, HistoryType, SendInv
<1>15. CASE Answer
  <2>. USE <1>15 DEF Answer
  <2>1. rx' \in Seq(Reply)
    <3>1. PICK m \in device, what \in {"ok", "crc", "exception"} :
            rx' = Append(rx, [of |-> m, what |-> what])
      OBVIOUS
    <3>2. [of |-> m, what |-> what] \in Reply
      BY DEF Reply, TypeOK
    <3>. QED
      BY <3>1, <3>2 DEF HistoryType
  <2>. QED
    BY <2>1 DEF ring, TypeOK, HistoryType, SendInv, Pending
<1>16. CASE UNCHANGED vars
  BY <1>16 DEF vars, bus, ring, history, TypeOK, HistoryType, SendInv, Pending
<1>. QED
  BY <1>1, <1>2, <1>3, <1>4, <1>5, <1>6, <1>7, <1>8, <1>9, <1>10, <1>11, <1>12, <1>13, <1>14,
     <1>15, <1>16
  DEF Next, modbus_poll, Sender

LEMMA TypeInit == Init => TypeOK /\ HistoryType /\ SendInv
<1>. SUFFICES ASSUME Init PROVE TypeOK /\ HistoryType /\ SendInv
  OBVIOUS
<1>1. TypeOK
  BY Constants DEF Init, TypeOK, Unused
<1>2. ends \in [Messages -> Seq(Ending)] /\ rx \in Seq(Reply)
  BY DEF Init
<1>3. HistoryType
  BY <1>2, Constants DEF Init, HistoryType
<1>4. Pending = {}
  BY Constants, RingMoves DEF Init, Pending
<1>. QED
  BY <1>1, <1>3, <1>4 DEF Init, SendInv

\* For every queue length, number of retries and number of messages the bus, the ring and
\* the receive buffer of the Modbus master stay in their domains, coincidences or not:
\* the retries of an entry never go below zero (grbl/modbus_rtu.c).
THEOREM TypeCorrect == Spec => []TypeOK
<1>. QED
  BY TypeInit, TypeStep, PTL DEF Spec

-----------------------------------------------------------------------------
(* How messages end *)

\* A message that has not ended is fine, and so is one that has ended well.
LEMMA FineEnds ==
    ASSUME NEW m, NEW n, NEW how, NEW of,
           how = "reply" => of = m, how = "gave_up" => n = Retries + 1
    PROVE  FineEnd(m, << >>, n) /\ FineEnd(m, Append(<< >>, [how |-> how, of |-> of]), n)
<1>. DEFINE e == << [how |-> how, of |-> of] >>
<1>1. FineEnd(m, << >>, n)
  BY DEF FineEnd
<1>2. Append(<< >>, [how |-> how, of |-> of]) = e
  OBVIOUS
<1>3. Len(e) = 1 /\ e[1].how = how /\ e[1].of = of /\ \A k \in 1 .. Len(e) : k = 1
  OBVIOUS
<1>. HIDE DEF e
<1>4. FineEnd(m, e, n)
  BY <1>3 DEF FineEnd
<1>. QED
  BY <1>1, <1>2, <1>4

\* An open message ends, with its own reply or after all its attempts.
LEMMA EndFine ==
    ASSUME HistoryType, Fine, NEW m \in Messages, ends[m] = << >>, NEW how, NEW of,
           End(m, how, of), attempts' = attempts,
           how = "reply" => of = m, how = "gave_up" => attempts[m] = Retries + 1
    PROVE  Fine' /\ \A k \in Messages \ {m} : ends'[k] = ends[k]
<1>1. \A k \in Messages \ {m} : ends'[k] = ends[k]
  BY DEF End, HistoryType
<1>2. ends'[m] = Append(<< >>, [how |-> how, of |-> of])
  BY DEF End, HistoryType
<1>3. FineEnd(m, ends'[m], attempts[m])
  BY <1>2, FineEnds
<1>. QED
  BY <1>1, <1>3 DEF Fine

\* Open messages are dropped.
LEMMA DropFine ==
    ASSUME HistoryType, Fine, NEW ms, \A m \in ms \cap Messages : ends[m] = << >>,
           Dropped(ms), attempts' = attempts
    PROVE  Fine' /\ \A k \in Messages \ ms : ends'[k] = ends[k]
<1>1. \A k \in Messages \ ms : ends'[k] = ends[k]
  BY DEF Dropped
<1>2. ASSUME NEW m \in ms \cap Messages PROVE FineEnd(m, ends'[m], attempts[m])
  <2>1. ends'[m] = Append(ends[m], [how |-> "dropped", of |-> 0]) /\ ends[m] = << >>
    BY DEF Dropped
  <2>2. ends'[m] = Append(<< >>, [how |-> "dropped", of |-> 0])
    BY <2>1
  <2>. QED
    BY <2>2, FineEnds
<1>. QED
  BY <1>1, <1>2 DEF Fine

\* An open message is transmitted.
LEMMA TxFine ==
    ASSUME HistoryType, Fine, NEW m \in Messages, ends[m] = << >>, NEW i, tx_message(i, m),
           ends' = ends
    PROVE  /\ Fine' /\ attempts'[m] = attempts[m] + 1
           /\ \A k \in Messages \ {m} : attempts'[k] = attempts[k]
<1>1. /\ attempts'[m] = attempts[m] + 1
      /\ \A k \in Messages \ {m} : attempts'[k] = attempts[k]
  BY DEF tx_message, HistoryType
<1>2. FineEnd(m, << >>, attempts'[m])
  BY DEF FineEnd
<1>. QED
  BY <1>1, <1>2 DEF Fine

\* As long as no coincidence has happened none happens in the step, and what that means.
LEMMA NotRaced ==
    ASSUME [Next]_vars, races' = {}
    PROVE  /\ races = {}
           /\ Abort => sender # "loop"
           /\ Stop => state # "Retry"
           /\ modbus_rtu_flush_queue => packet \notin Slots \/ tail = head
<1>1. races = {}
  BY DEF Next, modbus_poll, PollIdle, PollSilent, PollTX, PollTimeout, PollReply, Sender, SendNow,
         SendAnswered, SendGivesUp, SendFails, SendAgain, SendAsync, SendBlocking, StartReset,
         Abort, Stop, modbus_rtu_flush_queue, Answer, Return, vars, history
<1>. QED
  BY <1>1 DEF Abort, Stop, modbus_rtu_flush_queue

-----------------------------------------------------------------------------
(* The steps *)

\* The invariant without its condition, and what is known of a step.
Good == BusInv /\ PlaceInv /\ AttemptInv /\ Fine
Known == TypeOK /\ HistoryType /\ TypeOK' /\ HistoryType' /\ Good

\* Facts that every step uses.
LEMMA Basics ==
    ASSUME Known
    PROVE  /\ head \in Slots /\ tail \in Slots /\ sends \in 0 .. MaxSends
           /\ Pending \subseteq Slots /\ Held \subseteq Slots /\ Sync \notin Slots /\ None \notin Slots
           /\ Sync # None /\ MaxSends \in Nat
           /\ entry \in Entries
           /\ packet \in Slots \cup {Sync, None}
           /\ \A m \in 1 .. sends : m \in Messages
<1>1. Pending \subseteq Slots /\ Held \subseteq Slots
  BY DEF Pending, Held
<1>2. sends \in 0 .. MaxSends /\ \A m \in 1 .. sends : m \in Messages
  BY BoundsAssumption DEF Known, HistoryType, Messages
<1>3. head \in Slots /\ tail \in Slots /\ packet \in Slots \cup {Sync, None} /\ entry \in Entries
  BY DEF Known, TypeOK, Entries
<1>. QED
  BY <1>1, <1>2, <1>3, Constants, BoundsAssumption

\* The entry at the tail goes on the wire.
LEMMA GoodPollIdle ==
    ASSUME Known, PollIdle
    PROVE  Good'
<1>. USE DEF PollIdle
<1>0. Good
  BY DEF Known
<1>1. tail \in Pending /\ Pending' = Pending \ {tail} /\ Pending = Held
  BY Basics, RingMoves DEF Pending, Held
<1>2. packet' = tail /\ state' = "TX" /\ wire' = entry[tail].msg
  BY DEF tx_message
<1>3. Held' = Held
  BY <1>1, <1>2, Basics DEF Held
<1>4. Open(entry[tail].msg) /\ entry[tail].msg \in Messages
  BY <1>0, <1>1, Basics DEF Good, PlaceInv, Open
<1>5. Fine' /\ \A k \in Messages \ {entry[tail].msg} : attempts'[k] = attempts[k]
  BY <1>0, <1>4, TxFine DEF Known, Good, Open
<1>6. BusInv'
  BY <1>0, <1>2, Basics DEF Good, BusInv
<1>7. PlaceInv'
  BY <1>0, <1>3 DEF Good, PlaceInv, Open
<1>8. AttemptInv'
  BY <1>0, <1>4, <1>5, Basics DEF Good, AttemptInv, Open
<1>. QED
  BY <1>5, <1>6, <1>7, <1>8 DEF Good

LEMMA GoodPollSilent ==
    ASSUME Known, PollSilent
    PROVE  Good'
BY DEF Known, PollSilent, ring, history, Good, BusInv, PlaceInv, AttemptInv, Fine, Held, Pending,
       Open

\* What was received before the end of the transmission is forgotten.
LEMMA GoodPollTX ==
    ASSUME Known, PollTX
    PROVE  Good'
<1>1. Len(rx') = 0
  BY DEF PollTX, AfterTx
<1>. QED
  BY <1>1 DEF Known, PollTX, ring, history, Good, BusInv, PlaceInv, AttemptInv, Fine, Held,
              Pending, Open

\* A queued message ends.
LEMMA GoodEndQueued ==
    ASSUME Known, packet \in Slots, NEW how, NEW of, how # "gave_up",
           how = "reply" => of = entry[packet].msg,
           EndQueued(how, of), \A s \in Slots : entry'[s] = entry[s],
           UNCHANGED << head, tail, sender, caller, sends, attempts >>
    PROVE  Good'
<1>. USE DEF EndQueued, Released
<1>0. Good
  BY DEF Known
<1>1. NextEntry(packet) = tail /\ sender # "loop"
  BY <1>0, Basics DEF Good, BusInv
<1>2. Held' = Pending /\ Held = Pending \cup {packet} /\ packet \notin Pending
  BY <1>1, Basics, RingMoves DEF Held, Pending
<1>. DEFINE m == entry[packet].msg
<1>3. Open(m) /\ m \in Messages /\ m # caller
  BY <1>0, <1>2, Basics DEF Good, PlaceInv, Open
<1>4. Fine' /\ \A k \in Messages \ {m} : ends'[k] = ends[k]
  <2>. DEFINE told == IF entry[packet].told THEN how ELSE "untold"
  <2>1. End(m, told, of) /\ (told = "reply" => of = m) /\ told # "gave_up"
    OBVIOUS
  <2>. HIDE DEF told, m
  <2>. QED
    BY <1>0, <1>3, <2>1, EndFine DEF Known, Good, Open
<1>5. \A s \in Pending : entry'[s].msg = entry[s].msg /\ entry[s].msg # m
  BY <1>0, <1>2, Basics DEF Good, PlaceInv
<1>6. PlaceInv'
  BY <1>0, <1>2, <1>3, <1>4, <1>5, Basics DEF Good, PlaceInv, Open
<1>7. BusInv'
  BY <1>0, <1>1, Basics DEF Good, BusInv
<1>8. AttemptInv'
  BY <1>0, <1>1, <1>3, <1>4, Basics DEF Good, AttemptInv, Open
<1>. QED
  BY <1>4, <1>6, <1>7, <1>8 DEF Good

\* The timeout of a message; of a blocking one the sender will see it.
LEMMA GoodPollTimeout ==
    ASSUME Known, PollTimeout
    PROVE  Good'
<1>. USE DEF PollTimeout, ring
<1>0. Good /\ packet # None
  BY DEF Known, Good, BusInv
<1>1. CASE packet # Sync
  BY <1>0, <1>1, Basics, GoodEndQueued
<1>2. CASE packet = Sync
  <2>1. state' \in {"Exception", "TimeoutException"}
    BY <1>2
  <2>. QED
    BY <1>0, <1>2, <2>1, Basics
    DEF Good, BusInv, PlaceInv, AttemptInv, Fine, Held, Pending, Open
<1>. QED
  BY <1>1, <1>2

\* A reply, to the message on the wire.
LEMMA GoodPollReply ==
    ASSUME Known, PollReply
    PROVE  Good'
<1>. USE DEF PollReply
<1>0. Good /\ packet # None
  BY DEF Known, Good, BusInv
<1>1. Head(rx) \in Reply /\ Head(rx) = rx[1] /\ Len(rx) >= 1
  BY HeadTailProperties DEF Known, HistoryType
<1>2. Head(rx).of = wire /\ Head(rx).what \in {"ok", "crc"}
  BY <1>0, <1>1 DEF Good, BusInv, Reply
<1>3. \A s \in Slots : entry'[s] = entry[s]
  BY Basics DEF Entries
<1>4. CASE packet # Sync
  <2>1. wire = entry[packet].msg /\ packet \in Slots
    BY <1>0, <1>4, Basics DEF Good, BusInv
  <2>2. EndQueued("failed", 0) \/ EndQueued("reply", Head(rx).of)
    BY <1>2, <1>4
  <2>. QED
    BY <1>2, <1>3, <2>1, <2>2, GoodEndQueued
<1>5. CASE packet = Sync
  <2>1. state' \in {"Exception", "GotReply"} /\ UNCHANGED << packet, ends >>
    BY <1>5
  <2>2. /\ entry'[Sync].of = wire /\ entry'[Sync].told = entry[Sync].told
        /\ entry'[Sync].retries = entry[Sync].retries
    BY <1>2, <1>5, Basics DEF Entries
  <2>. QED
    BY <1>0, <1>3, <1>5, <2>1, <2>2, Basics
    DEF Good, BusInv, PlaceInv, AttemptInv, Fine, Held, Pending, Open
<1>. QED
  BY <1>4, <1>5

\* A new message is put at the head of the ring, out of the way of the one on the wire.
LEMMA GoodSendAsync ==
    ASSUME Known, SendAsync
    PROVE  Good'
<1>. USE DEF SendAsync, bus
<1>0. Good
  BY DEF Known
<1>1. sends + 1 \in Messages /\ ends[sends + 1] = << >> /\ sends' = sends + 1 /\ sends \in Nat
  BY <1>0, Basics DEF Good, AttemptInv, Messages
<1>2. /\ \A s \in Held : Open(entry[s].msg) => entry[s].msg # sends + 1
      /\ sender # "free" => caller # sends + 1
      /\ \A m : Open(m) => m # sends + 1
  BY <1>0, Basics DEF Good, PlaceInv, Open
<1>c. \A m \in Messages : m > sends + 1 => m > sends /\ m # sends + 1
  BY <1>1 DEF Messages
<1>3. CASE packet # Sync /\ Room
  <2>1. Pending' = Pending \cup {head} /\ head \notin Pending
    BY <1>3, Basics, RingMoves DEF Pending, Room
  <2>2. packet # head
    BY <1>0, <1>3, Basics, RingMoves DEF Good, BusInv, Room
  <2>3. Held' = Held \cup {head} /\ head \notin Held
    BY <2>1, <2>2 DEF Held
  <2>4. entry'[head].msg = sends + 1 /\ \A s \in (Slots \cup {Sync}) \ {head} : entry'[s] = entry[s]
    BY <1>3, Basics DEF Entries, add_message
  <2>5. ends' = ends /\ UNCHANGED << bus, tail, sender, caller, attempts, wire >>
    BY <1>3
  <2>6. Fine'
    BY <1>0, <2>5 DEF Good, Fine
  <2>7. BusInv'
    BY <1>0, <2>2, <2>4, <2>5, Basics DEF Good, BusInv
  <2>8. caller # sends + 1
    BY <1>0, <1>1, <1>2 DEF Good, BusInv
  <2>9. \A m : Open(m) => Open(m)'
    BY <1>1, <2>5 DEF Open
  <2>10. \A m : m = sends + 1 => Open(m)'
    BY <1>1, <2>5 DEF Open
  <2>11. \A s \in Held : entry'[s] = entry[s] /\ Open(entry[s].msg) /\ entry[s].msg # sends + 1
    BY <1>0, <1>2, <2>3, <2>4, Basics DEF Good, PlaceInv
  <2>12. PlaceInv'
    BY <1>0, <2>3, <2>4, <2>5, <2>8, <2>9, <2>10, <2>11, Basics DEF Good, PlaceInv
  <2>13. AttemptInv'
    BY <1>0, <1>1, <1>c, <2>4, <2>5, Basics DEF Good, AttemptInv
  <2>. QED
    BY <2>6, <2>7, <2>12, <2>13 DEF Good
<1>4. CASE ~(packet # Sync /\ Room)
  <2>1. Dropped({sends + 1}) /\ UNCHANGED << entry, head, bus, tail, sender, caller, attempts, wire >>
    BY <1>1, <1>4
  <2>2. Fine' /\ \A k \in Messages \ {sends + 1} : ends'[k] = ends[k]
    BY <1>0, <1>1, <2>1, DropFine DEF Known, Good
  <2>3. \A m : Open(m) => Open(m)'
    BY <1>1, <1>2, <2>2, Basics DEF Open
  <2>4. PlaceInv'
    BY <1>0, <2>1, <2>3 DEF Good, PlaceInv, Held, Pending
  <2>5. BusInv'
    BY <1>0, <2>1 DEF Good, BusInv
  <2>6. AttemptInv'
    BY <1>0, <1>1, <1>c, <2>1, <2>2, Basics DEF Good, AttemptInv
  <2>. QED
    BY <2>2, <2>4, <2>5, <2>6 DEF Good
<1>. QED
  BY <1>3, <1>4

\* A blocking message is accepted when there is no other.
LEMMA GoodSendBlocking ==
    ASSUME Known, SendBlocking
    PROVE  Good'
<1>. USE DEF SendBlocking, bus, ring
<1>0. Good
  BY DEF Known
<1>1. /\ sends + 1 \in Messages /\ ends[sends + 1] = << >> /\ sends' = sends + 1 /\ sends \in Nat
      /\ attempts[sends + 1] = 0
  BY <1>0, Basics DEF Good, AttemptInv, Messages
<1>2. \A m : Open(m) => m # sends + 1
  BY <1>1 DEF Open
<1>c. \A m \in Messages : m > sends + 1 => m > sends /\ m # sends + 1
  BY <1>1 DEF Messages
<1>a. UNCHANGED << entry, head, tail, state, packet, rx, wire, attempts >>
  OBVIOUS
<1>b. Held' = Held
  BY <1>a DEF Held, Pending
<1>3. CASE sender = "free"
  <2>1. sender' = "wait" /\ caller' = sends + 1 /\ ends' = ends /\ caller' # 0
    BY <1>1, <1>3
  <2>2. \A m : Open(m) => Open(m)'
    BY <1>1, <2>1 DEF Open
  <2>3. \A m : m = sends + 1 => Open(m)'
    BY <1>1, <2>1 DEF Open
  <2>4. PlaceInv'
    BY <1>0, <1>2, <1>a, <1>b, <2>1, <2>2, <2>3 DEF Good, PlaceInv
  <2>5. BusInv'
    BY <1>0, <1>3, <1>a, <2>1, Basics DEF Good, BusInv
  <2>6. AttemptInv' /\ Fine'
    BY <1>0, <1>1, <1>a, <1>c, <2>1, Basics DEF Good, AttemptInv, Fine
  <2>. QED
    BY <2>4, <2>5, <2>6 DEF Good
<1>4. CASE sender # "free"
  <2>1. Dropped({sends + 1}) /\ UNCHANGED << sender, caller >>
    BY <1>1, <1>4
  <2>2. Fine' /\ \A k \in Messages \ {sends + 1} : ends'[k] = ends[k]
    BY <1>0, <1>1, <1>a, <2>1, DropFine DEF Known, Good
  <2>3. \A m : Open(m) => Open(m)'
    BY <1>1, <1>2, <2>2, Basics DEF Open
  <2>4. PlaceInv'
    BY <1>0, <1>a, <1>b, <2>1, <2>3 DEF Good, PlaceInv
  <2>5. BusInv'
    BY <1>0, <1>a, <2>1 DEF Good, BusInv
  <2>6. AttemptInv'
    BY <1>0, <1>1, <1>a, <1>c, <2>1, <2>2, Basics DEF Good, AttemptInv
  <2>. QED
    BY <2>2, <2>4, <2>5, <2>6 DEF Good
<1>. QED
  BY <1>3, <1>4

\* The blocking message is transmitted for the first time, or again.
LEMMA GoodTransmit ==
    ASSUME Known, sender \in {"wait", "loop"}, sender' = "loop", caller' = caller,
           packet \notin Slots, NEW r \in 0 .. Retries,
           attempts[caller] = Retries - r \/ reset_pending,
           entry' = [entry EXCEPT ![Sync] = add_message(caller, r)], tx_message(Sync, caller),
           UNCHANGED << head, tail, sends, ends >>
    PROVE  Good'
<1>0. Good
  BY DEF Known
<1>1. Open(caller) /\ caller \in Messages
  BY <1>0, Basics DEF Good, PlaceInv, Open
<1>2. /\ Fine' /\ attempts'[caller] = attempts[caller] + 1
      /\ \A k \in Messages \ {caller} : attempts'[k] = attempts[k]
  BY <1>0, <1>1, TxFine DEF Known, Good, Open
<1>3. packet' = Sync /\ state' = "TX" /\ wire' = caller
  BY DEF tx_message
<1>4. Held' = Held
  BY <1>3, Basics DEF Held, Pending
<1>5. /\ \A s \in Slots : entry'[s] = entry[s]
      /\ entry'[Sync].told = ~reset_pending
      /\ entry'[Sync].retries = IF reset_pending THEN 0 ELSE r
  BY Basics DEF Entries, add_message
<1>6. BusInv'
  BY <1>0, <1>3, Basics DEF Good, BusInv
<1>7. PlaceInv'
  BY <1>0, <1>4, <1>5, Basics DEF Good, PlaceInv, Open
<1>8. AttemptInv'
  <2>1. \A m \in Messages : m > sends => m # caller
    BY <1>1, Basics DEF Open
  <2>2. attempts[caller] = Retries - r => attempts[caller] + 1 = Retries + 1 - r
    BY QueueAssumption
  <2>3. IF entry'[Sync].told THEN attempts'[caller] = Retries + 1 - entry'[Sync].retries
                             ELSE entry'[Sync].retries = 0
    BY <1>2, <1>5, <2>2 DEF Known, TypeOK
  <2>4. \A m \in Messages : m > sends => attempts'[m] = 0 /\ ends[m] = << >>
    BY <1>0, <1>2, <2>1 DEF Good, AttemptInv
  <2>. QED
    BY <2>3, <2>4 DEF AttemptInv
<1>. QED
  BY <1>2, <1>6, <1>7, <1>8 DEF Good

LEMMA GoodSendNow ==
    ASSUME Known, SendNow
    PROVE  Good'
<1>. USE DEF SendNow
<1>1. packet = None /\ attempts[caller] = 0
  BY DEF Known, Good, BusInv, AttemptInv
<1>2. Retries \in 0 .. Retries /\ 0 = Retries - Retries
  BY QueueAssumption
<1>. QED
  BY <1>1, <1>2, Basics, GoodTransmit

LEMMA GoodSendAgain ==
    ASSUME Known, SendInv, SendAgain
    PROVE  Good'
<1>. USE DEF SendAgain
<1>0. Good
  BY DEF Known
<1>1. packet = Sync /\ entry[Sync].retries > 0 /\ entry[Sync].retries \in 0 .. Retries
  BY <1>0, Basics DEF Good, BusInv, SendInv, Entries
<1>2. attempts[caller] = Retries + 1 - entry[Sync].retries
  BY <1>0, <1>1 DEF Good, AttemptInv
<1>3. /\ entry[Sync].retries - 1 \in 0 .. Retries
      /\ attempts[caller] = Retries - (entry[Sync].retries - 1)
  BY <1>1, <1>2, QueueAssumption
<1>. QED
  BY <1>1, <1>3, Basics, GoodTransmit

\* The blocked sender returns with an outcome of its own.
LEMMA GoodReturn ==
    ASSUME Known, sender = "loop", Return, NEW how, NEW of, End(caller, how, of),
           how = "reply" => of = caller, how = "gave_up" => attempts[caller] = Retries + 1
    PROVE  Good'
<1>. USE DEF Return
<1>0. Good /\ packet = Sync
  BY DEF Known, Good, BusInv
<1>1. Open(caller) /\ caller \in Messages
  BY <1>0, Basics DEF Good, PlaceInv, Open
<1>2. Fine' /\ \A k \in Messages \ {caller} : ends'[k] = ends[k]
  BY <1>0, <1>1, EndFine DEF Known, Good, Open
<1>3. Held' = Held
  BY <1>0, Basics DEF Held, Pending
<1>4. \A s \in Slots : entry'[s] = entry[s]
  BY Basics DEF Entries
<1>5. BusInv'
  BY <1>0, Basics DEF Good, BusInv
<1>6. PlaceInv'
  <2>1. \A s \in Held : Open(entry[s].msg) /\ entry[s].msg # caller /\ entry[s].msg \in Messages
    BY <1>0, Basics DEF Good, PlaceInv, Open
  <2>2. \A s \in Held : Open(entry[s].msg)' /\ entry'[s].msg # 0
    BY <1>2, <1>4, <2>1, Basics DEF Open
  <2>. QED
    BY <1>0, <1>3, <1>4, <2>2, Basics DEF Good, PlaceInv
<1>7. AttemptInv'
  BY <1>0, <1>1, <1>2, Basics DEF Good, AttemptInv, Open
<1>. QED
  BY <1>2, <1>5, <1>6, <1>7 DEF Good

LEMMA GoodSendAnswered ==
    ASSUME Known, SendAnswered
    PROVE  Good'
<1>1. entry[Sync].of = caller
  BY DEF SendAnswered, Known, Good, BusInv
<1>. DEFINE how == IF entry[Sync].told THEN "reply" ELSE "untold"
<1>2. End(caller, how, entry[Sync].of) /\ how # "gave_up" /\ sender = "loop" /\ Return
  BY DEF SendAnswered
<1>. HIDE DEF how
<1>. QED
  BY <1>1, <1>2, GoodReturn

LEMMA GoodSendGivesUp ==
    ASSUME Known, SendGivesUp
    PROVE  Good'
<1>. DEFINE how == IF entry[Sync].told THEN "gave_up" ELSE "untold"
<1>1. End(caller, how, 0) /\ how # "reply" /\ sender = "loop" /\ Return
  BY DEF SendGivesUp, Failed
<1>2. how = "gave_up" => attempts[caller] = Retries + 1
  <2>1. entry[Sync].retries \in 0 .. Retries /\ ~(entry[Sync].retries > 0)
    BY Basics DEF SendGivesUp, MayRetry, Entries
  <2>2. entry[Sync].retries = 0 /\ Retries + 1 - 0 = Retries + 1
    BY <2>1, QueueAssumption
  <2>. QED
    BY <1>1, <2>2 DEF Known, Good, AttemptInv
<1>. HIDE DEF how
<1>. QED
  BY <1>1, <1>2, GoodReturn

\* Resets.
LEMMA GoodAbort ==
    ASSUME Known, Abort, sender # "loop"
    PROVE  Good'
<1>. USE DEF Abort
<1>0. Good /\ packet # Sync
  BY DEF Known, Good, BusInv
<1>1. Held' = {}
  BY Basics, RingMoves DEF Held, Pending
<1>2. Queued \cup (IF packet \in Slots THEN {entry[packet].msg} ELSE {}) = {entry[s].msg : s \in Held}
  BY Basics, QueuedIsPending DEF Held
<1>. DEFINE ms == {entry[s].msg : s \in Held}
<1>3. Dropped(ms) /\ \A m \in ms : Open(m) /\ m # caller
  BY <1>0, <1>2 DEF Good, PlaceInv
<1>4. Fine' /\ \A k \in Messages \ ms : ends'[k] = ends[k]
  <2>. HIDE DEF ms
  <2>. QED
    BY <1>0, <1>3, DropFine DEF Known, Good, Open
<1>5. BusInv'
  BY <1>0, Basics DEF Good, BusInv
<1>6. PlaceInv'
  <2>. HIDE DEF ms
  <2>. QED
    BY <1>0, <1>1, <1>3, <1>4, Basics DEF Good, PlaceInv, Open
<1>7. AttemptInv'
  <2>. HIDE DEF ms
  <2>. QED
    BY <1>0, <1>3, <1>4, Basics DEF Good, AttemptInv, Open
<1>. QED
  BY <1>4, <1>5, <1>6, <1>7 DEF Good

\* The queue is flushed.
LEMMA GoodFlush ==
    ASSUME Known, modbus_rtu_flush_queue, packet \notin Slots \/ tail = head
    PROVE  Good'
<1>. USE DEF modbus_rtu_flush_queue, bus
<1>0. Good
  BY DEF Known
<1>1. Pending' = {} /\ (packet \in Slots => Pending = {})
  BY Basics, RingMoves DEF Pending
<1>2. Held' \subseteq Held /\ (packet \in Slots => Held' = Held)
  BY <1>1 DEF Held
<1>. DEFINE ms == {entry[s].msg : s \in Pending}
<1>3. Dropped(ms) /\ (\A m \in ms : Open(m) /\ m # caller) /\ (packet \in Slots => ms = {})
  BY <1>0, <1>1, Basics, QueuedIsPending DEF Good, PlaceInv, Held
<1>4. Held' # {} => ms = {}
  BY <1>1, <1>3 DEF Held
<1>5. Fine' /\ \A k \in Messages \ ms : ends'[k] = ends[k]
  <2>. HIDE DEF ms
  <2>. QED
    BY <1>0, <1>3, DropFine DEF Known, Good, Open
<1>. HIDE DEF ms
<1>6. BusInv'
  BY <1>0, Basics DEF Good, BusInv
<1>7. PlaceInv'
  BY <1>0, <1>2, <1>3, <1>4, <1>5, Basics DEF Good, PlaceInv, Open
<1>8. AttemptInv'
  BY <1>0, <1>3, <1>5, Basics DEF Good, AttemptInv, Open
<1>. QED
  BY <1>5, <1>6, <1>7, <1>8 DEF Good

\* A device answers: only the message on the wire, when a reply is awaited.
LEMMA GoodAnswer ==
    ASSUME Known, Answer, races' = {}
    PROVE  Good'
<1>. USE DEF Answer, ring
<1>0. Good /\ rx \in Seq(Reply)
  BY DEF Known, HistoryType
<1>1. PICK m \in device, what \in {"ok", "crc", "exception"} :
        /\ rx' = Append(rx, [of |-> m, what |-> what])
        /\ races' = IF state = "AwaitReply" /\ m # wire THEN races \cup {"late"} ELSE races
  OBVIOUS
<1>2. state = "AwaitReply" => m = wire
  BY <1>1
<1>3. state = "AwaitReply" => \A k \in 1 .. Len(rx') : rx'[k].of = wire
  <2>1. Len(rx') = Len(rx) + 1 /\ Len(rx) \in Nat /\ rx'[Len(rx) + 1].of = m
        /\ \A k \in 1 .. Len(rx) : rx'[k] = rx[k]
    BY <1>0, <1>1
  <2>2. \A k \in 1 .. Len(rx') : k \in 1 .. Len(rx) \/ k = Len(rx) + 1
    BY <2>1
  <2>. QED
    BY <1>0, <1>2, <2>1, <2>2 DEF Good, BusInv
<1>4. BusInv'
  BY <1>0, <1>3 DEF Good, BusInv
<1>. QED
  BY <1>0, <1>4 DEF Good, PlaceInv, AttemptInv, Fine, Held, Pending, Open

\* Every step keeps the invariant.
LEMMA OutcomeStep ==
    ASSUME TypeOK, HistoryType, SendInv, TypeOK', HistoryType', OutcomeInv, [Next]_vars
    PROVE  OutcomeInv'
<1>. SUFFICES ASSUME races' = {} PROVE Good'
  BY DEF OutcomeInv, Good
<1>0. races = {} /\ Known /\ Good
  BY NotRaced DEF Known, OutcomeInv, Good
<1>1. CASE modbus_poll
  BY <1>0, <1>1, GoodPollIdle, GoodPollSilent, GoodPollTX, GoodPollTimeout, GoodPollReply
  DEF modbus_poll
<1>2. CASE SendFails
  BY <1>0, <1>2 DEF SendFails, Failed, ring, history, Good, BusInv, PlaceInv, AttemptInv, Fine,
                    Held, Pending, Open
<1>3. CASE SendNow \/ SendAnswered \/ SendGivesUp \/ SendAgain
  BY <1>0, <1>3, GoodSendNow, GoodSendAnswered, GoodSendGivesUp, GoodSendAgain
<1>4. CASE SendAsync \/ SendBlocking
  BY <1>0, <1>4, GoodSendAsync, GoodSendBlocking
<1>5. CASE StartReset
  BY <1>0, <1>5 DEF StartReset, bus, ring, Good, BusInv, PlaceInv, AttemptInv, Fine, Held,
                    Pending, Open
<1>6. CASE Stop
  BY <1>0, <1>6, NotRaced, ZenonT(40) DEF Stop, ring, Good, BusInv, PlaceInv, AttemptInv, Fine, Held,
                              Pending, Open
<1>7. CASE Abort \/ modbus_rtu_flush_queue \/ Answer
  BY <1>0, <1>7, NotRaced, GoodAbort, GoodFlush, GoodAnswer
<1>8. CASE UNCHANGED vars
  BY <1>0, <1>8 DEF vars, bus, ring, history, Good, BusInv, PlaceInv, AttemptInv, Fine, Held,
                    Pending, Open
<1>. QED
  BY <1>1, <1>2, <1>3, <1>4, <1>5, <1>6, <1>7, <1>8 DEF Next, Sender

LEMMA OutcomeInit == Init => OutcomeInv
<1>. SUFFICES ASSUME Init PROVE BusInv /\ PlaceInv /\ AttemptInv /\ Fine
  BY DEF OutcomeInv
<1>1. Held = {}
  BY Constants, RingMoves DEF Init, Held, Pending
<1>2. BusInv
  BY Constants DEF Init, BusInv
<1>3. PlaceInv /\ AttemptInv
  BY <1>1 DEF Init, PlaceInv, AttemptInv
<1>4. Fine
  BY DEF Init, Fine, FineEnd
<1>. QED
  BY <1>2, <1>3, <1>4

\* For every queue length and number of retries: a message ends at most once, a reply is
\* passed on for the message it answers, and a blocking message is given up after exactly
\* Retries + 1 attempts, as long as no reset or flush has struck a send or an entry on the
\* wire and no answer has come late (modbus_poll, modbus_send_rtu, modbus_reset).
THEOREM OwnOutcomes == Spec => []OwnOutcome
<1>1. OutcomeInv => OwnOutcome
  BY DEF OutcomeInv, OwnOutcome, Fine, FineEnd
<1>. QED
  BY <1>1, TypeInit, TypeStep, OutcomeInit, OutcomeStep, PTL DEF Spec

=============================================================================
