---------------------------- MODULE TasksProofs ----------------------------
(***************************************************************************)
(* For a pool of any size, any functions and delays and any nesting of      *)
(* calls, as long as no coincidence has happened: the lists of the          *)
(* scheduler never share an entry, no entry is lost, handed out twice or    *)
(* called after it was freed; the delayed tasks stay in the order of their  *)
(* times; and the scheduler implements TaskSchedule.                        *)
(***************************************************************************)
EXTENDS Tasks, FiniteSetTheorems, TLAPS

-----------------------------------------------------------------------------
(* Lists *)

Nexts(p) == \A s \in Slot : p[s].next \in Ptr

LEMMA SlotFacts == Slot \subseteq Ptr /\ 0 \in Ptr /\ 0 \notin Slot /\ \A h \in Ptr : h # 0 => h \in Slot
BY PoolAssumption DEF Slot, Ptr

\* A list is the smallest closed set that holds its first entry.
LEMMA ChainLeast ==
    ASSUME NEW p, NEW h, NEW C \in SUBSET Slot, Closed(p, C), h # 0 => h \in C
    PROVE  Chain(p, h) \subseteq C
BY DEF Chain

LEMMA ChainHolds ==
    ASSUME NEW p, Nexts(p), NEW h \in Ptr
    PROVE  /\ Chain(p, h) \subseteq Slot
           /\ h # 0 => h \in Chain(p, h)
           /\ \A s \in Chain(p, h) : p[s].next # 0 => p[s].next \in Chain(p, h)
           /\ h = 0 => Chain(p, h) = {}
<1>1. Chain(p, h) \subseteq Slot
  BY DEF Chain
<1>2. h # 0 => h \in Chain(p, h)
  BY SlotFacts DEF Chain
<1>3. ASSUME NEW s \in Chain(p, h), p[s].next # 0 PROVE p[s].next \in Chain(p, h)
  <2>1. s \in Slot /\ p[s].next \in Slot
    BY <1>3, SlotFacts DEF Chain, Nexts
  <2>2. ASSUME NEW C \in SUBSET Slot, h # 0 => h \in C, Closed(p, C) PROVE p[s].next \in C
    <3>1. s \in C
      BY <2>2 DEF Chain
    <3>. QED
      BY <1>3, <2>2, <3>1 DEF Closed
  <2>. QED
    BY <2>1, <2>2 DEF Chain
<1>4. h = 0 => Chain(p, h) = {}
  <2>1. Closed(p, {}) /\ {} \in SUBSET Slot
    BY DEF Closed
  <2>. QED
    BY <2>1 DEF Chain
<1>. QED
  BY <1>1, <1>2, <1>3, <1>4

\* A list is its first entry and the rest.
LEMMA ChainRest ==
    ASSUME NEW p, Nexts(p), NEW h \in Slot
    PROVE  /\ Chain(p, h) = {h} \cup Chain(p, p[h].next)
           /\ p[h].next \in Ptr
<1>1. h \in Ptr /\ h # 0 /\ p[h].next \in Ptr
  BY SlotFacts DEF Nexts
<1>. DEFINE R == Chain(p, p[h].next)
<1>2. R \subseteq Slot /\ (p[h].next # 0 => p[h].next \in R)
      /\ \A s \in R : p[s].next # 0 => p[s].next \in R
  BY <1>1, ChainHolds
<1>3. Chain(p, h) \subseteq {h} \cup R
  <2>1. Closed(p, {h} \cup R)
    BY <1>2 DEF Closed
  <2>2. {h} \cup R \in SUBSET Slot
    BY <1>2
  <2>. HIDE DEF R
  <2>. QED
    BY <2>1, <2>2, ChainLeast
<1>4. h \in Chain(p, h) /\ Chain(p, h) \in SUBSET Slot
      /\ \A s \in Chain(p, h) : p[s].next # 0 => p[s].next \in Chain(p, h)
  BY <1>1, ChainHolds
<1>5. R \subseteq Chain(p, h)
  <2>1. Closed(p, Chain(p, h)) /\ (p[h].next # 0 => p[h].next \in Chain(p, h))
    BY <1>4 DEF Closed
  <2>. QED
    BY <1>4, <2>1, ChainLeast
<1>. QED
  BY <1>1, <1>3, <1>4, <1>5

\* First finds an entry of the list if there is one, and the others are behind it.
LEMMA FirstIs ==
    ASSUME NEW p, Nexts(p), NEW h \in Ptr, NEW T
    PROVE  /\ Chain(p, h) \cap T = {} => First(p, h, T) = 0
           /\ Chain(p, h) \cap T # {} => /\ First(p, h, T) \in Chain(p, h) \cap T
                                         /\ Chain(p, h) \cap T \subseteq Chain(p, First(p, h, T))
           /\ First(p, h, T) \in Ptr
<1>. DEFINE hits == Chain(p, h) \cap T
            D == {t \in Chain(p, h) : hits \subseteq Chain(p, t)}
<1>1. hits = {} => First(p, h, T) = 0
  BY DEF First
<1>2. /\ Chain(p, h) \subseteq Slot /\ (h # 0 => h \in Chain(p, h)) /\ (h = 0 => Chain(p, h) = {})
      /\ \A s \in Chain(p, h) : p[s].next # 0 => p[s].next \in Chain(p, h)
  BY ChainHolds
<1>3. ASSUME hits # {} PROVE \E t \in hits : hits \subseteq Chain(p, t)
  <2>1. SUFFICES ASSUME \A t \in hits : t \notin D PROVE FALSE
    BY <1>3
  <2>2. h \in D
    BY <1>2, <1>3
  <2>3. ASSUME NEW t \in D PROVE p[t].next \in D
    <3>1. t \in Slot /\ t \notin hits /\ hits \subseteq Chain(p, t) /\ t \in Chain(p, h)
      BY <1>2, <2>1
    <3>2. Chain(p, t) = {t} \cup Chain(p, p[t].next) /\ p[t].next \in Ptr
      BY <3>1, ChainRest
    <3>3. hits \subseteq Chain(p, p[t].next)
      BY <3>1, <3>2
    <3>4. p[t].next # 0
      BY <1>3, <3>2, <3>3, ChainHolds
    <3>. QED
      BY <1>2, <3>1, <3>3, <3>4
  <2>4. Closed(p, D) /\ D \in SUBSET Slot
    BY <1>2, <2>3 DEF Closed
  <2>5. Chain(p, h) \subseteq D
    <3>. HIDE DEF D
    <3>. QED
      BY <2>2, <2>4, ChainLeast
  <2>. QED
    BY <1>3, <2>1, <2>5
<1>4. hits # {} => First(p, h, T) \in hits /\ hits \subseteq Chain(p, First(p, h, T))
  BY <1>3 DEF First
<1>5. First(p, h, T) \in Ptr
  BY <1>1, <1>2, <1>4, SlotFacts
<1>. QED
  BY <1>1, <1>4, <1>5

\* At most one entry leads to another one; none leads to h.
Inj(p) == \A s, t \in Slot : p[s].next # 0 /\ p[s].next = p[t].next => s = t
NoPred(p, h) == h # 0 => \A s \in Slot : p[s].next # h

\* An entry other than the first has one before it.
LEMMA BeforeExists ==
    ASSUME NEW p, Nexts(p), NEW h \in Ptr, NEW s \in Chain(p, h), s # h
    PROVE  \E t \in Chain(p, h) : p[t].next = s
<1>1. SUFFICES ASSUME \A t \in Chain(p, h) : p[t].next # s PROVE FALSE
  OBVIOUS
<1>2. /\ Chain(p, h) \subseteq Slot /\ (h # 0 => h \in Chain(p, h))
      /\ \A t \in Chain(p, h) : p[t].next # 0 => p[t].next \in Chain(p, h)
  BY ChainHolds
<1>3. Closed(p, Chain(p, h) \ {s}) /\ Chain(p, h) \ {s} \in SUBSET Slot
  BY <1>1, <1>2 DEF Closed
<1>4. Chain(p, h) \subseteq Chain(p, h) \ {s}
  BY <1>2, <1>3, ChainLeast
<1>. QED
  BY <1>4

\* No entry behind the first one leads to itself.
LEMMA NoSelfLoop ==
    ASSUME NEW p, Nexts(p), Inj(p), NEW h \in Ptr, NEW s \in Chain(p, h), s # h
    PROVE  p[s].next # s
<1>1. SUFFICES ASSUME p[s].next = s PROVE FALSE
  OBVIOUS
<1>2. /\ Chain(p, h) \subseteq Slot /\ (h # 0 => h \in Chain(p, h))
      /\ \A t \in Chain(p, h) : p[t].next # 0 => p[t].next \in Chain(p, h)
  BY ChainHolds
<1>3. s \in Slot /\ s # 0
  BY <1>2, SlotFacts
<1>4. Closed(p, Chain(p, h) \ {s}) /\ Chain(p, h) \ {s} \in SUBSET Slot
  BY <1>1, <1>2, <1>3 DEF Closed, Inj
<1>5. Chain(p, h) \subseteq Chain(p, h) \ {s}
  BY <1>2, <1>4, ChainLeast
<1>. QED
  BY <1>5

\* Lists with different first entries share none.
LEMMA ChainsApart ==
    ASSUME NEW p, Nexts(p), Inj(p), NEW g \in Ptr, NEW h \in Ptr, NoPred(p, g), NoPred(p, h),
           g # h
    PROVE  Chain(p, g) \cap Chain(p, h) = {}
<1>1. /\ Chain(p, g) \subseteq Slot /\ (g # 0 => g \in Chain(p, g)) /\ (g = 0 => Chain(p, g) = {})
      /\ \A t \in Chain(p, g) : p[t].next # 0 => p[t].next \in Chain(p, g)
  BY ChainHolds
<1>2. Chain(p, h) \subseteq Slot
  BY ChainHolds
<1>3. g # 0 => g \notin Chain(p, h)
  BY <1>2, BeforeExists DEF NoPred
<1>4. Closed(p, Chain(p, g) \ Chain(p, h))
  <2>1. SUFFICES ASSUME NEW u \in Chain(p, g) \ Chain(p, h), p[u].next # 0,
                        p[u].next \in Chain(p, h)
                 PROVE  FALSE
    BY <1>1 DEF Closed
  <2>2. p[u].next # h
    BY <1>1, <2>1 DEF NoPred
  <2>3. PICK t \in Chain(p, h) : p[t].next = p[u].next
    BY <2>1, <2>2, BeforeExists
  <2>. QED
    BY <1>1, <1>2, <2>1, <2>3 DEF Inj
<1>5. Chain(p, g) \ Chain(p, h) \in SUBSET Slot
  BY <1>1
<1>6. Chain(p, g) \subseteq Chain(p, g) \ Chain(p, h)
  BY <1>1, <1>3, <1>4, <1>5, ChainLeast
<1>. QED
  BY <1>6

\* The rest of a list does not come back to its first entry.
LEMMA RestWithout ==
    ASSUME NEW p, Nexts(p), NEW h \in Slot, NoPred(p, h)
    PROVE  Chain(p, p[h].next) = Chain(p, h) \ {h}
<1>1. Chain(p, h) = {h} \cup Chain(p, p[h].next) /\ p[h].next \in Ptr /\ h # 0
  BY ChainRest, SlotFacts
<1>2. Chain(p, p[h].next) \subseteq Slot
  BY <1>1, ChainHolds
<1>3. h \notin Chain(p, p[h].next)
  <2>1. SUFFICES ASSUME h \in Chain(p, p[h].next) PROVE FALSE
    OBVIOUS
  <2>2. p[h].next # h
    BY <1>1 DEF NoPred
  <2>3. PICK t \in Chain(p, p[h].next) : p[t].next = h
    BY <1>1, <2>1, <2>2, BeforeExists
  <2>. QED
    BY <1>1, <1>2, <2>3 DEF NoPred
<1>. QED
  BY <1>1, <1>3

\* A list has an end: its entries are finitely many, and none is reached twice.
LEMMA LastExists ==
    ASSUME NEW p, Nexts(p), Inj(p), NEW h \in Slot, NoPred(p, h)
    PROVE  \E t \in Chain(p, h) : p[t].next = 0
<1>1. SUFFICES ASSUME \A t \in Chain(p, h) : p[t].next # 0 PROVE FALSE
  OBVIOUS
<1>. DEFINE A == Chain(p, h)
            f == [t \in A |-> p[t].next]
<1>2. h # 0 /\ h \in A /\ A \subseteq Slot /\ \A t \in A : p[t].next \in A
  BY <1>1, ChainHolds, SlotFacts
<1>3. \A t \in A : p[t].next \in A \ {h}
  BY <1>2 DEF NoPred
<1>4. IsFiniteSet(A) /\ Cardinality(A) \in Nat
  <2>1. IsFiniteSet(Slot)
    BY FS_Interval, PoolAssumption DEF Slot
  <2>2. IsFiniteSet(A)
    BY <1>2, <2>1, FS_Subset
  <2>. QED
    BY <2>2, FS_CardinalityType
<1>5. IsFiniteSet(A \ {h}) /\ Cardinality(A \ {h}) = Cardinality(A) - 1
  BY <1>2, <1>4, FS_RemoveElement
<1>6. f \in [A -> A \ {h}]
  BY <1>3
<1>7. Cardinality(A \ {h}) < Cardinality(A)
  BY <1>4, <1>5
<1>. HIDE DEF f, A
<1>8. PICK x, y \in A : x # y /\ f[x] = f[y]
  BY <1>4, <1>5, <1>6, <1>7, FS_PigeonHole
<1>9. p[x].next = p[y].next
  BY <1>8 DEF f
<1>. QED
  BY <1>1, <1>2, <1>8, <1>9 DEF Inj, A

-----------------------------------------------------------------------------
(* What changes a list *)

LEMMA ChainSame ==
    ASSUME NEW p, NEW q, Nexts(p), Nexts(q), NEW h \in Ptr,
           \A s \in Chain(p, h) : q[s].next = p[s].next
    PROVE  Chain(q, h) = Chain(p, h)
<1>1. /\ Chain(p, h) \in SUBSET Slot /\ (h # 0 => h \in Chain(p, h))
      /\ \A s \in Chain(p, h) : p[s].next # 0 => p[s].next \in Chain(p, h)
  BY ChainHolds
<1>2. /\ Chain(q, h) \in SUBSET Slot /\ (h # 0 => h \in Chain(q, h))
      /\ \A s \in Chain(q, h) : q[s].next # 0 => q[s].next \in Chain(q, h)
  BY ChainHolds
<1>3. Chain(q, h) \subseteq Chain(p, h)
  <2>1. Closed(q, Chain(p, h))
    BY <1>1 DEF Closed
  <2>. QED
    BY <1>1, <2>1, ChainLeast
<1>4. Closed(p, Chain(q, h))
  BY <1>2, <1>3 DEF Closed
<1>5. Chain(p, h) \subseteq Chain(q, h)
  BY <1>2, <1>4, ChainLeast
<1>. QED
  BY <1>3, <1>5

LEMMA ChainInsert ==
    ASSUME NEW p, NEW q, Nexts(p), Nexts(q), NEW h \in Ptr, NEW t \in Chain(p, h),
           NEW s \in Slot, s \notin Chain(p, h), q[t].next = s, q[s].next = p[t].next,
           \A u \in Chain(p, h) \ {t} : q[u].next = p[u].next
    PROVE  Chain(q, h) = Chain(p, h) \cup {s}
<1>1. /\ Chain(p, h) \in SUBSET Slot /\ (h # 0 => h \in Chain(p, h)) /\ h # 0
      /\ \A u \in Chain(p, h) : p[u].next # 0 => p[u].next \in Chain(p, h)
  BY ChainHolds
<1>2. /\ Chain(q, h) \in SUBSET Slot /\ (h # 0 => h \in Chain(q, h))
      /\ \A u \in Chain(q, h) : q[u].next # 0 => q[u].next \in Chain(q, h)
  BY ChainHolds
<1>3. Chain(q, h) \subseteq Chain(p, h) \cup {s}
  <2>1. Closed(q, Chain(p, h) \cup {s})
    BY <1>1 DEF Closed
  <2>2. Chain(p, h) \cup {s} \in SUBSET Slot
    BY <1>1
  <2>. QED
    BY <1>1, <2>1, <2>2, ChainLeast
<1>. DEFINE E == Chain(q, h) \ {s}
<1>4. Closed(p, E)
  <2>1. SUFFICES ASSUME NEW u \in E, p[u].next # 0 PROVE p[u].next \in E
    BY DEF Closed
  <2>2. u \in Chain(p, h) /\ p[u].next \in Chain(p, h) /\ p[u].next # s
    BY <1>1, <1>3, <2>1
  <2>3. CASE u = t
    <3>1. s # 0 /\ s \in Chain(q, h)
      BY <1>2, <2>1, <2>3, SlotFacts
    <3>. QED
      BY <1>2, <2>1, <2>2, <2>3, <3>1
  <2>4. CASE u # t
    BY <1>2, <2>1, <2>2, <2>4
  <2>. QED
    BY <2>3, <2>4
<1>5. E \in SUBSET Slot /\ h \in E
  BY <1>1, <1>2
<1>6. Chain(p, h) \subseteq E
  <2>. HIDE DEF E
  <2>. QED
    BY <1>4, <1>5, ChainLeast
<1>7. s \in Chain(q, h)
  BY <1>2, <1>6, SlotFacts
<1>. QED
  BY <1>3, <1>6, <1>7

LEMMA ChainRemove ==
    ASSUME NEW p, NEW q, Nexts(p), Nexts(q), Inj(p), NEW h \in Ptr, NEW t \in Chain(p, h),
           NEW s \in Slot, p[t].next = s, s # h, q[t].next = p[s].next,
           \A u \in Chain(p, h) \ {s, t} : q[u].next = p[u].next
    PROVE  Chain(q, h) = Chain(p, h) \ {s}
<1>1. /\ Chain(p, h) \in SUBSET Slot /\ h \in Chain(p, h) /\ s \in Chain(p, h) /\ s # 0
      /\ \A u \in Chain(p, h) : p[u].next # 0 => p[u].next \in Chain(p, h)
  BY ChainHolds, SlotFacts
<1>2. /\ Chain(q, h) \in SUBSET Slot /\ (h # 0 => h \in Chain(q, h))
      /\ \A u \in Chain(q, h) : q[u].next # 0 => q[u].next \in Chain(q, h)
  BY ChainHolds
<1>3. p[s].next # s
  BY <1>1, NoSelfLoop
<1>4. Chain(q, h) \subseteq Chain(p, h) \ {s}
  <2>1. Closed(q, Chain(p, h) \ {s})
    BY <1>1, <1>3 DEF Closed, Inj
  <2>2. Chain(p, h) \ {s} \in SUBSET Slot
    BY <1>1
  <2>. QED
    BY <1>1, <2>1, <2>2, ChainLeast
<1>. DEFINE F == Chain(q, h) \cup {u \in {s} : t \in Chain(q, h)}
<1>5. Closed(p, F)
  <2>1. SUFFICES ASSUME NEW u \in F, p[u].next # 0 PROVE p[u].next \in F
    BY DEF Closed
  <2>2. CASE u = s
    BY <1>2, <1>4, <2>1, <2>2
  <2>3. CASE u = t /\ u # s
    BY <1>1, <2>1, <2>3
  <2>4. CASE u # s /\ u # t
    BY <1>2, <1>4, <2>1, <2>4
  <2>. QED
    BY <2>2, <2>3, <2>4
<1>6. F \in SUBSET Slot /\ (h # 0 => h \in F)
  BY <1>2
<1>7. Chain(p, h) \subseteq F
  <2>. HIDE DEF F
  <2>. QED
    BY <1>5, <1>6, ChainLeast
<1>. QED
  BY <1>4, <1>7

-----------------------------------------------------------------------------
(* The lists of the scheduler: its four own, and for each call in progress   *)
(* the immediate tasks it has taken off their list.  The lists are named by *)
(* integers, those of the calls by their depth.                             *)

Immediate == 0
Delayed == -1
Systick == -2
OnReset == -3
Names == -3 .. MaxDepth

FrameAt(d) == stack[Len(stack) + 1 - d]
InReset == stack # << >> /\ FrameAt(1).at = "reset_fn"

\* The first entry of each.
Root(n) ==
    IF n = Immediate THEN immediate
    ELSE IF n = Delayed THEN delayed
    ELSE IF n = Systick THEN systick
    ELSE IF n = OnReset THEN IF InReset THEN FrameAt(1).task ELSE on_reset
    ELSE IF n \in 1 .. Len(stack) /\ FrameAt(n).at \in {"imm", "imm_fn"} THEN FrameAt(n).task ELSE 0
Roots == [n \in Names |-> Root(n)]

\* No entry follows two others or leads back to the first of a list, the lists are
\* different, an entry is in use when it is on one, and leads nowhere when it is free.
Lists(p, R) ==
    /\ Nexts(p) /\ Inj(p)
    /\ R \in [Names -> Ptr]
    /\ \A n \in Names : NoPred(p, R[n])
    /\ \A m, n \in Names : m # n /\ R[m] # 0 => R[m] # R[n]
    /\ \A s \in Slot : p[s].fn # NoFn <=> \E n \in Names : s \in Chain(p, R[n])
    /\ \A s \in Slot : p[s].fn = NoFn => p[s].next = 0

\* Only the innermost call is not in a task; reset tasks are run by the outermost.
Calls ==
    /\ \A k \in 2 .. Len(stack) : stack[k].at \in {"imm_fn", "systick_fn", "delayed_fn", "reset_fn"}
    /\ \A k \in 1 .. Len(stack) : stack[k].at \in {"reset", "reset_fn"} => k = Len(stack)
    /\ stack # << >> /\ Head(stack).at = "reset" => on_reset # 0

\* The entries the calls hold a pointer to are still on their lists.
Pointers ==
    \A k \in 1 .. Len(stack) :
        /\ stack[k].at \in {"systick", "systick_fn"} => stack[k].task \in Chain(pool, systick)
        /\ stack[k].at = "window" => stack[k].task \in Chain(pool, delayed)

Safe ==
    /\ ~fault
    /\ last_freed # 0 => pool[last_freed].fn = NoFn
    /\ Lists(pool, Roots)
    /\ Pointers

IInv == TypeOK /\ Calls /\ (NoRace => Safe)

-----------------------------------------------------------------------------
(* Changes of the lists *)

LEMMA Apart ==
    ASSUME NEW p, NEW R, Lists(p, R), NEW m \in Names, NEW n \in Names, m # n
    PROVE  Chain(p, R[m]) \cap Chain(p, R[n]) = {}
<1>1. /\ Nexts(p) /\ Inj(p) /\ R[m] \in Ptr /\ R[n] \in Ptr /\ NoPred(p, R[m]) /\ NoPred(p, R[n])
      /\ (R[m] # 0 => R[m] # R[n])
  BY DEF Lists
<1>2. R[m] = 0 => Chain(p, R[m]) = {}
  BY <1>1, ChainHolds
<1>3. R[m] # R[n] => Chain(p, R[m]) \cap Chain(p, R[n]) = {}
  BY <1>1, ChainsApart
<1>. QED
  BY <1>1, <1>2, <1>3

\* What is known of each list.
LEMMA ListHolds ==
    ASSUME NEW p, NEW R, Lists(p, R), NEW n \in Names
    PROVE  /\ R[n] \in Ptr
           /\ Chain(p, R[n]) \subseteq Slot
           /\ R[n] # 0 => R[n] \in Chain(p, R[n])
           /\ R[n] = 0 => Chain(p, R[n]) = {}
           /\ \A s \in Chain(p, R[n]) : p[s].fn # NoFn
           /\ \A s \in Chain(p, R[n]) : p[s].next # 0 => p[s].next \in Chain(p, R[n])
<1>1. Nexts(p) /\ R[n] \in Ptr
  BY DEF Lists
<1>2. /\ Chain(p, R[n]) \subseteq Slot
      /\ R[n] # 0 => R[n] \in Chain(p, R[n])
      /\ R[n] = 0 => Chain(p, R[n]) = {}
      /\ \A s \in Chain(p, R[n]) : p[s].next # 0 => p[s].next \in Chain(p, R[n])
  BY <1>1, ChainHolds
<1>. QED
  BY <1>1, <1>2 DEF Lists

\* A free entry is on no list, and no entry leads to it.
LEMMA FreeApart ==
    ASSUME NEW p, NEW R, Lists(p, R), NEW s \in Slot, p[s].fn = NoFn
    PROVE  /\ \A n \in Names : s \notin Chain(p, R[n]) /\ R[n] # s
           /\ \A u \in Slot : p[u].next # s
<1>1. ASSUME NEW n \in Names PROVE s \notin Chain(p, R[n]) /\ R[n] # s
  BY ListHolds, SlotFacts
<1>2. ASSUME NEW u \in Slot, p[u].next = s PROVE FALSE
  <2>1. s # 0 /\ p[u].fn # NoFn
    BY <1>2, SlotFacts DEF Lists
  <2>2. PICK n \in Names : u \in Chain(p, R[n])
    BY <2>1 DEF Lists
  <2>3. s \in Chain(p, R[n])
    BY <1>2, <2>1, <2>2, ListHolds
  <2>. QED
    BY <1>1, <2>3
<1>. QED
  BY <1>1, <1>2

\* First entries of lists that end; the lists with s added to list n, or taken from it.
Shape(q, Q) ==
    /\ Nexts(q) /\ Inj(q) /\ Q \in [Names -> Ptr]
    /\ \A n \in Names : NoPred(q, Q[n])
    /\ \A m, n \in Names : m # n /\ Q[m] # 0 => Q[m] # Q[n]
Others(p, q, s) ==
    /\ \A u \in Slot \ {s} : q[u].fn = p[u].fn
    /\ \A u \in Slot \ {s} : q[u].fn = NoFn => q[u].next = p[u].next
Aside(p, R, q, Q, n) ==
    \A m \in Names \ {n} : /\ Chain(q, Q[m]) = Chain(p, R[m])
                           /\ \A u \in Chain(p, R[m]) : q[u].next = p[u].next
Grown(p, R, q, Q, n, s) ==
    /\ Others(p, q, s) /\ q[s].fn # NoFn
    /\ Aside(p, R, q, Q, n)
    /\ Chain(q, Q[n]) = Chain(p, R[n]) \cup {s}
Shrunk(p, R, q, Q, n, s) ==
    /\ Others(p, q, s) /\ q[s].fn = NoFn /\ q[s].next = 0 /\ s \in Chain(p, R[n])
    /\ Aside(p, R, q, Q, n)
    /\ Chain(q, Q[n]) = Chain(p, R[n]) \ {s}

\* The lists again, from what has become of each.
LEMMA ListsFrom ==
    ASSUME NEW p, NEW q, NEW R, NEW Q, Lists(p, R), Shape(q, Q), NEW s \in Slot, NEW n \in Names,
           Grown(p, R, q, Q, n, s) \/ Shrunk(p, R, q, Q, n, s)
    PROVE  Lists(q, Q)
<1>. USE DEF Grown, Shrunk, Others, Aside
<1>1. ASSUME NEW u \in Slot
      PROVE  q[u].fn # NoFn <=> \E m \in Names : u \in Chain(q, Q[m])
  <2>1. p[u].fn # NoFn <=> \E m \in Names : u \in Chain(p, R[m])
    BY DEF Lists
  <2>2. CASE u # s
    <3>1. \A m \in Names : u \in Chain(q, Q[m]) <=> u \in Chain(p, R[m])
      BY <2>2
    <3>. QED
      BY <2>1, <2>2, <3>1
  <2>3. CASE u = s /\ q[s].fn # NoFn
    BY <2>3
  <2>4. CASE u = s /\ q[s].fn = NoFn
    <3>1. s \in Chain(p, R[n]) /\ s \notin Chain(q, Q[n])
      BY <2>4
    <3>2. ASSUME NEW m \in Names \ {n} PROVE s \notin Chain(q, Q[m])
      BY <3>1, Apart
    <3>. QED
      BY <2>4, <3>1, <3>2
  <2>. QED
    BY <2>2, <2>3, <2>4
<1>2. ASSUME NEW u \in Slot, q[u].fn = NoFn PROVE q[u].next = 0
  <2>1. \A v \in Slot : p[v].fn = NoFn => p[v].next = 0
    BY DEF Lists
  <2>. QED
    BY <1>2, <2>1
<1>. QED
  BY <1>1, <1>2 DEF Lists, Shape

\* Links: s is put before h, or behind t; s is freed, or cut out behind t and freed.
PutBefore(p, q, h, s) ==
    /\ Nexts(q) /\ q[s].next = h /\ q[s].fn # NoFn
    /\ \A u \in Slot \ {s} : q[u].next = p[u].next /\ q[u].fn = p[u].fn
PutBehind(p, q, t, s) ==
    /\ Nexts(q) /\ q[s].next = p[t].next /\ q[s].fn # NoFn /\ q[t].next = s /\ q[t].fn = p[t].fn
    /\ \A u \in Slot \ {s, t} : q[u].next = p[u].next /\ q[u].fn = p[u].fn
Freed(p, q, s) ==
    /\ Nexts(q) /\ q[s].next = 0 /\ q[s].fn = NoFn
    /\ \A u \in Slot \ {s} : q[u].next = p[u].next /\ q[u].fn = p[u].fn
CutBehind(p, q, t, s) ==
    /\ Nexts(q) /\ p[t].next = s /\ q[t].next = p[s].next /\ q[t].fn = p[t].fn
    /\ q[s].next = 0 /\ q[s].fn = NoFn
    /\ \A u \in Slot \ {s, t} : q[u].next = p[u].next /\ q[u].fn = p[u].fn

\* List n starts with h now, the others as before.
StartsWith(R, Q, n, h) == Q \in [Names -> Ptr] /\ Q[n] = h /\ \A m \in Names \ {n} : Q[m] = R[m]

\* Entry s is put before the first of a list, or on an empty list.
LEMMA AddFront ==
    ASSUME NEW p, NEW q, NEW R, NEW Q, Lists(p, R), NEW s \in Slot, p[s].fn = NoFn,
           NEW n \in Names, PutBefore(p, q, R[n], s), StartsWith(R, Q, n, s)
    PROVE  Lists(q, Q) /\ Grown(p, R, q, Q, n, s)
<1>. USE DEF PutBefore
<1>1. /\ \A m \in Names : s \notin Chain(p, R[m]) /\ R[m] # s
      /\ \A u \in Slot : p[u].next # s
  BY FreeApart
<1>2. /\ Nexts(p) /\ Inj(p) /\ R \in [Names -> Ptr] /\ \A m \in Names : NoPred(p, R[m])
      /\ \A k, m \in Names : k # m /\ R[k] # 0 => R[k] # R[m]
  BY DEF Lists
<1>3. Q \in [Names -> Ptr] /\ Q[n] = s /\ \A m \in Names \ {n} : Q[m] = R[m]
  BY DEF StartsWith
<1>4. \A m \in Names : Chain(q, R[m]) = Chain(p, R[m])
  <2>1. ASSUME NEW m \in Names PROVE Chain(q, R[m]) = Chain(p, R[m])
    <3>1. \A u \in Chain(p, R[m]) : q[u].next = p[u].next
      BY <1>1, ListHolds
    <3>. QED
      BY <1>2, <3>1, ChainSame
  <2>. QED
    BY <2>1
<1>5. Chain(q, Q[n]) = Chain(p, R[n]) \cup {s}
  BY <1>3, <1>4, ChainRest
<1>6. Inj(q)
  BY <1>2 DEF Inj, NoPred
<1>7. ASSUME NEW m \in Names PROVE NoPred(q, Q[m])
  <2>1. CASE m = n
    BY <1>1, <1>3, <2>1 DEF NoPred
  <2>2. CASE m # n
    <3>1. Q[m] # 0 => R[m] # R[n]
      BY <1>2, <1>3, <2>2
    <3>. QED
      BY <1>2, <1>3, <2>2, <3>1 DEF NoPred
  <2>. QED
    BY <2>1, <2>2
<1>8. \A k, m \in Names : k # m /\ Q[k] # 0 => Q[k] # Q[m]
  BY <1>1, <1>2, <1>3
<1>9. Aside(p, R, q, Q, n)
  <2>1. \A m \in Names : \A u \in Chain(p, R[m]) : q[u].next = p[u].next
    BY <1>1, ListHolds
  <2>. QED
    BY <1>3, <1>4, <2>1 DEF Aside
<1>10. Grown(p, R, q, Q, n, s)
  BY <1>5, <1>9 DEF Grown, Others
<1>11. Shape(q, Q)
  BY <1>3, <1>6, <1>7, <1>8 DEF Shape
<1>. QED
  BY <1>10, <1>11, ListsFrom

\* Entry s is put behind t.
LEMMA AddAfter ==
    ASSUME NEW p, NEW q, NEW R, Lists(p, R), NEW s \in Slot, p[s].fn = NoFn,
           NEW n \in Names, NEW t \in Chain(p, R[n]), PutBehind(p, q, t, s)
    PROVE  Lists(q, R) /\ Grown(p, R, q, R, n, s)
<1>. USE DEF PutBehind
<1>1. /\ \A m \in Names : s \notin Chain(p, R[m]) /\ R[m] # s
      /\ \A u \in Slot : p[u].next # s
  BY FreeApart
<1>2. /\ Nexts(p) /\ Inj(p) /\ R \in [Names -> Ptr] /\ \A m \in Names : NoPred(p, R[m])
      /\ \A k, m \in Names : k # m /\ R[k] # 0 => R[k] # R[m]
  BY DEF Lists
<1>3. t \in Slot /\ s # t /\ p[t].fn # NoFn /\ s # 0
  BY <1>1, ListHolds, SlotFacts
<1>4. Aside(p, R, q, R, n)
  <2>1. ASSUME NEW m \in Names \ {n} PROVE \A u \in Chain(p, R[m]) : q[u].next = p[u].next
    BY <1>1, Apart, ListHolds
  <2>2. ASSUME NEW m \in Names \ {n} PROVE Chain(q, R[m]) = Chain(p, R[m])
    BY <1>2, <2>1, ChainSame
  <2>. QED
    BY <2>1, <2>2 DEF Aside
<1>5. Chain(q, R[n]) = Chain(p, R[n]) \cup {s}
  <2>1. \A u \in Chain(p, R[n]) \ {t} : q[u].next = p[u].next
    BY <1>1, ListHolds
  <2>2. R[n] \in Ptr /\ s \notin Chain(p, R[n])
    BY <1>1, <1>2
  <2>. QED
    BY <1>2, <2>1, <2>2, ChainInsert
<1>6. Inj(q)
  BY <1>1, <1>2, <1>3 DEF Inj
<1>7. ASSUME NEW m \in Names PROVE NoPred(q, R[m])
  BY <1>1, <1>2, <1>3 DEF NoPred
<1>8. Shape(q, R)
  BY <1>2, <1>6, <1>7 DEF Shape
<1>9. Grown(p, R, q, R, n, s)
  BY <1>3, <1>4, <1>5 DEF Grown, Others
<1>. QED
  BY <1>8, <1>9, ListsFrom

\* The first entry s of a list is removed and freed.
LEMMA RemoveFront ==
    ASSUME NEW p, NEW q, NEW R, NEW Q, Lists(p, R), NEW n \in Names, NEW s \in Slot,
           s = R[n], Freed(p, q, s), StartsWith(R, Q, n, p[s].next)
    PROVE  Lists(q, Q) /\ Shrunk(p, R, q, Q, n, s)
<1>. USE DEF Freed, StartsWith
<1>2. /\ Nexts(p) /\ Inj(p) /\ R \in [Names -> Ptr] /\ \A m \in Names : NoPred(p, R[m])
      /\ \A k, m \in Names : k # m /\ R[k] # 0 => R[k] # R[m]
  BY DEF Lists
<1>3. /\ Q \in [Names -> Ptr] /\ Q[n] = p[s].next /\ \A m \in Names \ {n} : Q[m] = R[m]
      /\ s # 0 /\ p[s].next \in Ptr
  BY <1>2, SlotFacts DEF Nexts
<1>4. s \in Chain(p, R[n]) /\ p[s].next # s /\ NoPred(p, s)
  BY <1>2, <1>3, ListHolds DEF NoPred
<1>5. Aside(p, R, q, Q, n)
  <2>1. ASSUME NEW m \in Names \ {n} PROVE \A u \in Chain(p, R[m]) : q[u].next = p[u].next
    BY <1>4, Apart, ListHolds
  <2>2. ASSUME NEW m \in Names \ {n} PROVE Chain(q, Q[m]) = Chain(p, R[m])
    BY <1>2, <1>3, <2>1, ChainSame
  <2>. QED
    BY <2>1, <2>2 DEF Aside
<1>6. Chain(q, Q[n]) = Chain(p, R[n]) \ {s}
  <2>1. Chain(p, Q[n]) = Chain(p, R[n]) \ {s}
    BY <1>2, <1>3, <1>4, RestWithout
  <2>2. \A u \in Chain(p, Q[n]) : q[u].next = p[u].next
    BY <2>1, ListHolds
  <2>. QED
    BY <1>2, <1>3, <2>1, <2>2, ChainSame
<1>7. Inj(q)
  BY <1>2, <1>3 DEF Inj
<1>8. ASSUME NEW m \in Names PROVE NoPred(q, Q[m])
  <2>1. CASE m = n
    BY <1>2, <1>3, <2>1 DEF NoPred, Inj
  <2>2. CASE m # n
    BY <1>2, <1>3, <2>2 DEF NoPred
  <2>. QED
    BY <2>1, <2>2
<1>9. ASSUME NEW k \in Names, NEW m \in Names, k # m, Q[k] # 0 PROVE Q[k] # Q[m]
  <2>1. CASE k # n /\ m # n
    BY <1>2, <1>3, <1>9, <2>1
  <2>2. CASE k = n
    BY <1>2, <1>3, <1>9, <2>2 DEF NoPred
  <2>3. CASE m = n
    BY <1>2, <1>3, <1>9, <2>3 DEF NoPred
  <2>. QED
    BY <2>1, <2>2, <2>3
<1>10. Shape(q, Q)
  BY <1>3, <1>7, <1>8, <1>9 DEF Shape
<1>11. Shrunk(p, R, q, Q, n, s)
  BY <1>4, <1>5, <1>6 DEF Shrunk, Others
<1>. QED
  BY <1>10, <1>11, ListsFrom

\* The entry s behind t is removed and freed.
LEMMA RemoveAfter ==
    ASSUME NEW p, NEW q, NEW R, Lists(p, R), NEW n \in Names, NEW s \in Slot,
           NEW t \in Chain(p, R[n]), CutBehind(p, q, t, s)
    PROVE  Lists(q, R) /\ Shrunk(p, R, q, R, n, s)
<1>. USE DEF CutBehind
<1>1. /\ Nexts(p) /\ Inj(p) /\ R \in [Names -> Ptr] /\ \A m \in Names : NoPred(p, R[m])
      /\ \A k, m \in Names : k # m /\ R[k] # 0 => R[k] # R[m]
  BY DEF Lists
<1>2. t \in Slot /\ s # 0 /\ s \in Chain(p, R[n]) /\ s # R[n] /\ p[t].fn # NoFn
  BY <1>1, ListHolds, SlotFacts DEF NoPred
<1>3. p[s].next # s /\ s # t
  BY <1>1, <1>2, NoSelfLoop
<1>4. Aside(p, R, q, R, n)
  <2>1. ASSUME NEW m \in Names \ {n} PROVE \A u \in Chain(p, R[m]) : q[u].next = p[u].next
    BY <1>2, Apart, ListHolds
  <2>2. ASSUME NEW m \in Names \ {n} PROVE Chain(q, R[m]) = Chain(p, R[m])
    BY <1>1, <2>1, ChainSame
  <2>. QED
    BY <2>1, <2>2 DEF Aside
<1>5. Chain(q, R[n]) = Chain(p, R[n]) \ {s}
  <2>1. \A u \in Chain(p, R[n]) \ {s, t} : q[u].next = p[u].next
    BY ListHolds
  <2>2. R[n] \in Ptr
    BY <1>1
  <2>. QED
    BY <1>1, <1>2, <2>1, <2>2, ChainRemove
<1>6. Inj(q)
  BY <1>1, <1>2, <1>3 DEF Inj
<1>7. ASSUME NEW m \in Names PROVE NoPred(q, R[m])
  BY <1>1, <1>2, <1>3 DEF NoPred
<1>8. Shape(q, R)
  BY <1>1, <1>6, <1>7 DEF Shape
<1>9. Shrunk(p, R, q, R, n, s)
  <2>1. \A u \in Slot \ {s} : q[u].fn = p[u].fn
    BY <1>2
  <2>2. \A u \in Slot \ {s} : q[u].fn = NoFn => q[u].next = p[u].next
    BY <1>2
  <2>. QED
    BY <1>2, <1>4, <1>5, <2>1, <2>2 DEF Shrunk, Others
<1>. QED
  BY <1>8, <1>9, ListsFrom

\* A list is handed over.
LEMMA Moved ==
    ASSUME NEW p, NEW R, NEW Q, Lists(p, R), NEW m \in Names, NEW n \in Names, m # n, R[n] = 0,
           Q \in [Names -> Ptr], Q[m] = 0, Q[n] = R[m], \A k \in Names \ {m, n} : Q[k] = R[k]
    PROVE  Lists(p, Q)
<1>1. /\ Nexts(p) /\ Inj(p) /\ R \in [Names -> Ptr] /\ \A k \in Names : NoPred(p, R[k])
      /\ \A j, k \in Names : j # k /\ R[j] # 0 => R[j] # R[k]
      /\ \A s \in Slot : p[s].fn = NoFn => p[s].next = 0
  BY DEF Lists
<1>2. ASSUME NEW k \in Names PROVE NoPred(p, Q[k])
  BY <1>1 DEF NoPred
<1>3. \A j, k \in Names : j # k /\ Q[j] # 0 => Q[j] # Q[k]
  BY <1>1
<1>4. Chain(p, R[n]) = {} /\ Chain(p, Q[m]) = {}
  BY <1>1, SlotFacts, ChainHolds
<1>5. ASSUME NEW s \in Slot
      PROVE  p[s].fn # NoFn <=> \E k \in Names : s \in Chain(p, Q[k])
  <2>1. p[s].fn # NoFn <=> \E k \in Names : s \in Chain(p, R[k])
    BY DEF Lists
  <2>2. \A k \in Names : s \in Chain(p, R[k]) => s \in Chain(p, Q[IF k = m THEN n ELSE k])
    BY <1>4
  <2>3. \A k \in Names : s \in Chain(p, Q[k]) => s \in Chain(p, R[IF k = n THEN m ELSE k])
    BY <1>4
  <2>. QED
    BY <2>1, <2>2, <2>3
<1>. QED
  BY <1>1, <1>2, <1>3, <1>5 DEF Lists

-----------------------------------------------------------------------------
(* Types *)

Pools == [Slot -> Entries]

LEMMA PoolNexts ==
    ASSUME NEW p \in Pools
    PROVE  Nexts(p) /\ \A s \in Slot : p[s] \in Entries /\ p[s].next \in Ptr
BY DEF Pools, Nexts, Entries

LEMMA EntrySet ==
    ASSUME NEW p \in Pools, NEW s, NEW e \in Entries
    PROVE  [p EXCEPT ![s] = e] \in Pools
BY DEF Pools

LEMMA NextSet ==
    ASSUME NEW p \in Pools, NEW t, NEW s \in Ptr, NEW q, q = SetNext(p, t, s)
    PROVE  /\ q \in Pools
           /\ \A u \in Slot : u # t => q[u] = p[u]
           /\ t \in Slot => /\ q[t].next = s /\ q[t].fn = p[t].fn /\ q[t].id = p[t].id
                            /\ q[t].time = p[t].time /\ q[t].due = p[t].due
<1>1. \A u \in Slot : q[u] = IF u = t THEN [p[u] EXCEPT !.next = s] ELSE p[u]
  BY DEF Pools, SetNext
<1>2. ASSUME NEW u \in Slot PROVE [p[u] EXCEPT !.next = s] \in Entries
  BY DEF Pools, Entries
<1>3. q \in Pools
  BY <1>1, <1>2 DEF Pools, SetNext
<1>4. t \in Slot => /\ q[t].next = s /\ q[t].fn = p[t].fn /\ q[t].id = p[t].id
                    /\ q[t].time = p[t].time /\ q[t].due = p[t].due
  BY <1>1 DEF Pools, Entries
<1>. QED
  BY <1>1, <1>3, <1>4

LEMMA FreeType == Free \in Entries /\ Free.next = 0 /\ Free.fn = NoFn
<1>1. 0 \in Ticks /\ 0 \in 0 .. MaxAdds /\ 0 \in 0 .. MaxTick /\ 0 \in Ptr
  BY TimeAssumption, BoundsAssumption, SlotFacts DEF Ticks
<1>. QED
  BY <1>1 DEF Free, Entries

Less == {ss \in Nat \X Nat : ss[1] < ss[2]}

LEMMA LessWellFounded == IsWellFoundedOn(Less, Nat)
<1>1. Less = OpToRel(<, Nat)
  BY DEF Less, OpToRel
<1>. QED
  BY <1>1, NatLessThanWellFounded, Zenon

LEMMA AllocType ==
    ASSUME TypeOK
    PROVE  /\ task_alloc \in Ptr
           /\ task_alloc # 0 => \/ task_alloc = last_freed
                                \/ last_freed = 0 /\ pool[task_alloc].fn = NoFn
<1>. DEFINE free == {s \in Slot : pool[s].fn = NoFn}
<1>1. ASSUME free # {} PROVE \E s \in free : \A t \in free : t <= s
  <2>1. PoolSize \in Nat /\ \A s \in free : s \in Nat /\ s <= PoolSize
    BY PoolAssumption DEF Slot
  <2>. DEFINE above == {m \in Nat : PoolSize - m \in free}
  <2>2. PICK s \in free : TRUE
    BY <1>1
  <2>3. PoolSize - s \in above /\ above \subseteq Nat
    BY <2>1, <2>2
  <2>4. PICK m \in above : \A k \in above : << k, m >> \notin Less
    BY <2>3, WFMin, LessWellFounded
  <2>5. \A k \in above : ~(k < m)
    BY <2>4 DEF Less
  <2>6. \A t \in free : PoolSize - t \in above
    BY <2>1
  <2>7. PoolSize - m \in free /\ m \in Nat
    BY <2>4
  <2>8. \A t \in free : t <= PoolSize - m
    BY <2>1, <2>5, <2>6, <2>7
  <2>. QED
    BY <2>7, <2>8
<1>. QED
  BY <1>1, SlotFacts DEF TypeOK, task_alloc

-----------------------------------------------------------------------------
(* Calls and returns *)

\* The innermost call goes on; the others stay.
LEMMA GotoStack ==
    ASSUME NEW F, NEW st \in Seq(F), st # << >>, NEW x \in F, NEW r, r = << x >> \o Tail(st)
    PROVE  /\ r \in Seq(F) /\ Len(r) = Len(st) /\ Len(st) \in Nat \ {0}
           /\ r[1] = x /\ \A k \in 2 .. Len(st) : r[k] = st[k]
           /\ Head(st) = st[1] /\ Head(st) \in F
<1>1. Len(st) \in Nat \ {0} /\ Head(st) = st[1] /\ st[1] \in F
  OBVIOUS
<1>2. Tail(st) \in Seq(F) /\ Len(Tail(st)) = Len(st) - 1
      /\ \A k \in 1 .. Len(st) - 1 : Tail(st)[k] = st[k + 1]
  BY <1>1
<1>3. << x >> \in Seq(F) /\ Len(<< x >>) = 1 /\ << x >>[1] = x
  OBVIOUS
<1>4. r \in Seq(F) /\ Len(r) = Len(st) /\ r[1] = x
  BY <1>1, <1>2, <1>3
<1>5. ASSUME NEW k \in 2 .. Len(st) PROVE r[k] = st[k]
  <2>1. r[k] = Tail(st)[k - 1]
    BY <1>1, <1>2, <1>3
  <2>. QED
    BY <1>1, <1>2, <2>1
<1>. QED
  BY <1>1, <1>4, <1>5

LEMMA PushStack ==
    ASSUME NEW F, NEW st \in Seq(F), NEW x \in F, NEW r, r = << x >> \o st
    PROVE  /\ r \in Seq(F) /\ Len(r) = Len(st) + 1 /\ Len(st) \in Nat
           /\ r[1] = x /\ \A k \in 1 .. Len(st) : r[k + 1] = st[k]
<1>1. << x >> \in Seq(F) /\ Len(<< x >>) = 1 /\ << x >>[1] = x /\ Len(st) \in Nat
  OBVIOUS
<1>2. ASSUME NEW k \in 1 .. Len(st) PROVE r[k + 1] = st[k]
  BY <1>1
<1>. QED
  BY <1>1, <1>2

LEMMA PopStack ==
    ASSUME NEW F, NEW st \in Seq(F), st # << >>
    PROVE  /\ Tail(st) \in Seq(F)
           /\ Len(Tail(st)) = Len(st) - 1 /\ Len(st) \in Nat \ {0}
           /\ \A k \in 1 .. Len(st) - 1 : Tail(st)[k] = st[k + 1]
           /\ Head(st) = st[1] /\ Head(st) \in F
<1>1. Len(st) \in Nat \ {0} /\ Head(st) = st[1] /\ st[1] \in F
  OBVIOUS
<1>. QED
  BY <1>1

LEMMA FrameFields ==
    ASSUME NEW x \in Frames
    PROVE  /\ x.task \in Ptr /\ x.now \in Ticks
           /\ x.at \in {"imm", "systick", "systick_fn", "window"} => x.task \in Slot
           /\ x.at \in {"poll_tick", "poll_due", "delayed_fn", "reset"} => x.task = 0
BY SlotFacts DEF Frames

LEMMA FrameIn ==
    ASSUME NEW task \in Ptr, NEW now \in Ticks, NEW at,
           \/ at \in {"imm", "systick", "systick_fn", "window"} /\ task \in Slot
           \/ at \in {"imm_fn", "reset_fn"}
           \/ at \in {"poll_tick", "poll_due", "delayed_fn", "reset"} /\ task = 0
    PROVE  [at |-> at, task |-> task, now |-> now] \in Frames
BY DEF Frames

\* The innermost call goes to x, a call x is made, the innermost call returns.
GoesTo(x) ==
    /\ x \in Frames /\ stack # << >>
    /\ stack' \in Seq(Frames) /\ Len(stack') = Len(stack) /\ Len(stack) \in Nat \ {0}
    /\ stack'[1] = x /\ \A k \in 2 .. Len(stack) : stack'[k] = stack[k]
Calling(x) ==
    /\ x \in Frames
    /\ stack' \in Seq(Frames) /\ Len(stack') = Len(stack) + 1 /\ Len(stack) \in Nat
    /\ stack'[1] = x /\ \A k \in 1 .. Len(stack) : stack'[k + 1] = stack[k]
Returning ==
    /\ stack # << >>
    /\ stack' \in Seq(Frames) /\ Len(stack') = Len(stack) - 1 /\ Len(stack) \in Nat \ {0}
    /\ \A k \in 1 .. Len(stack) - 1 : stack'[k] = stack[k + 1]

LEMMA GotoFacts ==
    ASSUME TypeOK, stack # << >>, NEW at, NEW task, NEW now, Goto(Frame(at, task, now)),
           [at |-> at, task |-> task, now |-> now] \in Frames
    PROVE  GoesTo([at |-> at, task |-> task, now |-> now])
<1>1. stack \in Seq(Frames)
  BY DEF TypeOK
<1>. DEFINE x == [at |-> at, task |-> task, now |-> now]
<1>2. x \in Frames /\ stack' = << x >> \o Tail(stack)
  BY DEF Goto, Frame
<1>. HIDE DEF x
<1>3. /\ stack' \in Seq(Frames) /\ Len(stack') = Len(stack) /\ Len(stack) \in Nat \ {0}
      /\ stack'[1] = x /\ \A k \in 2 .. Len(stack) : stack'[k] = stack[k]
  BY <1>1, <1>2, GotoStack
<1>4. GoesTo(x)
  BY <1>2, <1>3 DEF GoesTo
<1>. QED
  BY <1>4 DEF x

LEMMA ReturnFacts ==
    ASSUME TypeOK, stack # << >>, Return
    PROVE  Returning
<1>1. stack \in Seq(Frames)
  BY DEF TypeOK
<1>. QED
  BY <1>1, PopStack DEF Returning, Return

LEMMA CallFacts ==
    ASSUME TypeOK, NEW at, NEW task, NEW now, stack' = Frame(at, task, now) \o stack,
           [at |-> at, task |-> task, now |-> now] \in Frames
    PROVE  Calling([at |-> at, task |-> task, now |-> now])
<1>1. stack \in Seq(Frames)
  BY DEF TypeOK
<1>. DEFINE x == [at |-> at, task |-> task, now |-> now]
<1>2. x \in Frames /\ stack' = << x >> \o stack
  BY DEF Frame
<1>. HIDE DEF x
<1>3. /\ stack' \in Seq(Frames) /\ Len(stack') = Len(stack) + 1 /\ Len(stack) \in Nat
      /\ stack'[1] = x /\ \A k \in 1 .. Len(stack) : stack'[k + 1] = stack[k]
  BY <1>1, <1>2, PushStack
<1>4. Calling(x)
  BY <1>2, <1>3 DEF Calling
<1>. QED
  BY <1>4 DEF x

LEMMA TopFacts ==
    ASSUME TypeOK, stack # << >>
    PROVE  /\ Head(stack) = stack[1] /\ Head(stack) \in Frames /\ Len(stack) \in Nat \ {0}
           /\ \A k \in 1 .. Len(stack) : stack[k] \in Frames
           /\ Head(stack).task \in Ptr /\ Head(stack).now \in Ticks
           /\ Head(stack).at \in {"imm", "systick", "systick_fn", "window"} => Head(stack).task \in Slot
           /\ Head(stack).at \in {"poll_tick", "poll_due", "delayed_fn", "reset"} => Head(stack).task = 0
<1>1. stack \in Seq(Frames)
  BY DEF TypeOK
<1>2. Head(stack) = stack[1] /\ Head(stack) \in Frames /\ Len(stack) \in Nat \ {0}
      /\ \A k \in 1 .. Len(stack) : stack[k] \in Frames
  BY <1>1
<1>. QED
  BY <1>2, FrameFields

LEMMA CallsGoto ==
    ASSUME TypeOK, Calls, NEW x, GoesTo(x),
           x.at \in {"reset", "reset_fn"} => Head(stack).at \in {"reset", "reset_fn"},
           x.at = "reset" => on_reset' # 0
    PROVE  Calls'
<1>1. Head(stack) = stack[1] /\ Len(stack) \in Nat \ {0} /\ stack # << >>
  BY TopFacts DEF GoesTo
<1>2. stack' # << >> /\ Head(stack') = x
  BY DEF GoesTo
<1>3. ASSUME NEW k \in 1 .. Len(stack'), stack'[k].at \in {"reset", "reset_fn"} PROVE k = Len(stack')
  <2>1. k \in 1 .. Len(stack) /\ stack[k].at \in {"reset", "reset_fn"}
    BY <1>1, <1>3 DEF GoesTo
  <2>. QED
    BY <2>1 DEF Calls, GoesTo
<1>4. ASSUME NEW k \in 2 .. Len(stack')
      PROVE  stack'[k].at \in {"imm_fn", "systick_fn", "delayed_fn", "reset_fn"}
  BY DEF Calls, GoesTo
<1>. QED
  BY <1>2, <1>3, <1>4 DEF Calls

LEMMA CallsReturn ==
    ASSUME TypeOK, Calls, Returning
    PROVE  Calls'
<1>1. Len(stack) \in Nat \ {0} /\ Len(stack') = Len(stack) - 1
      /\ \A k \in 1 .. Len(stack') : k + 1 \in 2 .. Len(stack) /\ stack'[k] = stack[k + 1]
  BY DEF Returning
<1>2. \A k \in 1 .. Len(stack') : stack'[k].at \in {"imm_fn", "systick_fn", "delayed_fn", "reset_fn"}
  BY <1>1 DEF Calls
<1>3. ASSUME NEW k \in 1 .. Len(stack'), stack'[k].at \in {"reset", "reset_fn"} PROVE k = Len(stack')
  <2>0. k + 1 \in 1 .. Len(stack) /\ stack[k + 1].at \in {"reset", "reset_fn"}
    BY <1>1, <1>3
  <2>1. k + 1 = Len(stack)
    BY <2>0 DEF Calls
  <2>. QED
    BY <1>1, <2>1
<1>4. stack' # << >> => Head(stack').at # "reset"
  <2>1. stack' # << >> => 1 \in 1 .. Len(stack') /\ Head(stack') = stack'[1]
    BY DEF Returning
  <2>. QED
    BY <1>2, <2>1
<1>. QED
  BY <1>1, <1>2, <1>3, <1>4 DEF Calls

LEMMA CallsCall ==
    ASSUME TypeOK, Calls, Called, NEW x, Calling(x), x.at \in {"poll_tick", "imm"}
    PROVE  Calls'
<1>1. Len(stack) \in Nat /\ Len(stack') = Len(stack) + 1 /\ stack'[1] = x
      /\ \A k \in 2 .. Len(stack') : k - 1 \in 1 .. Len(stack) /\ stack'[k] = stack[k - 1]
  <2>1. Len(stack) \in Nat /\ Len(stack') = Len(stack) + 1 /\ stack'[1] = x
        /\ \A k \in 1 .. Len(stack) : stack'[k + 1] = stack[k]
    BY DEF Calling
  <2>2. ASSUME NEW k \in 2 .. Len(stack') PROVE k - 1 \in 1 .. Len(stack) /\ stack'[k] = stack[k - 1]
    <3>1. k - 1 \in 1 .. Len(stack) /\ (k - 1) + 1 = k
      BY <2>1
    <3>. QED
      BY <2>1, <3>1
  <2>. QED
    BY <2>1, <2>2
<1>2. ASSUME NEW k \in 1 .. Len(stack)
      PROVE  stack[k].at \in {"imm_fn", "systick_fn", "delayed_fn", "reset_fn"}
  <2>1. stack # << >> /\ Head(stack) = stack[1]
    BY TopFacts
  <2>. QED
    BY <2>1, <1>1 DEF Calls, Called
<1>3. \A k \in 2 .. Len(stack') : stack'[k].at \in {"imm_fn", "systick_fn", "delayed_fn", "reset_fn"}
  BY <1>1, <1>2
<1>4. ASSUME NEW k \in 1 .. Len(stack'), stack'[k].at \in {"reset", "reset_fn"} PROVE k = Len(stack')
  <2>1. k \in 2 .. Len(stack')
    BY <1>1, <1>4
  <2>2. k - 1 = Len(stack)
    BY <1>1, <1>4, <2>1 DEF Calls
  <2>. QED
    BY <1>1, <2>1, <2>2
<1>5. stack' # << >> => Head(stack') = x
  BY DEF Calling
<1>. QED
  BY <1>3, <1>4, <1>5 DEF Calls

LEMMA CallsSame ==
    ASSUME Calls, UNCHANGED stack, on_reset # 0 => on_reset' # 0
    PROVE  Calls'
BY DEF Calls

\* The variables a step within the foreground leaves alone, and the types of the rest.
LEMMA TypeFrame ==
    ASSUME TypeOK, stack' \in Seq(Frames), Len(stack') <= MaxDepth,
           pool' \in Pools, {immediate', delayed', systick', on_reset', last_freed'} \subseteq Ptr,
           last_ms' \in Ticks, lock' \in BOOLEAN, fault' \in BOOLEAN, clock' \in 0 .. MaxTick,
           added' \in 0 .. MaxAdds, run' \in Nat, last' \in 0 .. MaxAdds,
           races' \subseteq {"reset_in_reset", "deleted_when_due", "systick_deletes"}
    PROVE  TypeOK'
BY DEF TypeOK, Pools

LEMMA Typed ==
    ASSUME TypeOK
    PROVE  /\ pool \in Pools /\ Nexts(pool)
           /\ \A s \in Slot : pool[s] \in Entries /\ pool[s].next \in Ptr /\ pool[s].id \in 0 .. MaxAdds
           /\ immediate \in Ptr /\ delayed \in Ptr /\ systick \in Ptr /\ on_reset \in Ptr
           /\ last_freed \in Ptr /\ last_ms \in Ticks /\ lock \in BOOLEAN /\ fault \in BOOLEAN
           /\ clock \in 0 .. MaxTick /\ added \in 0 .. MaxAdds /\ run \in Nat
           /\ last \in 0 .. MaxAdds /\ stack \in Seq(Frames) /\ Len(stack) <= MaxDepth
           /\ races \subseteq {"reset_in_reset", "deleted_when_due", "systick_deletes"}
           /\ Now \in Ticks /\ 0 \in Ticks
<1>1. pool \in Pools /\ Nexts(pool)
      /\ \A s \in Slot : pool[s] \in Entries /\ pool[s].next \in Ptr /\ pool[s].id \in 0 .. MaxAdds
  BY DEF TypeOK, Pools, Entries, Nexts
<1>2. Now \in Ticks /\ 0 \in Ticks
  BY TimeAssumption, BoundsAssumption DEF TypeOK, Now, Ticks
<1>. QED
  BY <1>1, <1>2 DEF TypeOK

-----------------------------------------------------------------------------
(* The types are kept *)

LEMMA NewTaskIs ==
    ASSUME TypeOK, added < MaxAdds, NEW s \in Slot, NEW fn \in Fns, NEW time \in Ticks,
           NEW due \in 0 .. MaxTick
    PROVE  /\ NewTask(s, fn, time, due) \in Pools
           /\ NewTask(s, fn, time, due)[s]
                = [fn |-> fn, id |-> added + 1, time |-> time, due |-> due, next |-> 0]
           /\ \A u \in Slot \ {s} : NewTask(s, fn, time, due)[u] = pool[u]
<1>1. pool \in Pools /\ added \in 0 .. MaxAdds /\ 0 \in Ptr
  BY Typed, SlotFacts
<1>2. added + 1 \in 0 .. MaxAdds
  BY <1>1, BoundsAssumption
<1>3. [fn |-> fn, id |-> added + 1, time |-> time, due |-> due, next |-> 0] \in Entries
  BY <1>1, <1>2 DEF Entries
<1>4. NewTask(s, fn, time, due) \in Pools
  BY <1>1, <1>3, EntrySet DEF NewTask
<1>. QED
  BY <1>1, <1>4 DEF NewTask, Pools

LEMMA AppendedType ==
    ASSUME NEW p \in Pools, NEW h, NEW s \in Slot
    PROVE  Appended(p, h, s) \in Pools
BY NextSet, SlotFacts DEF Appended

LEMMA AcceptingType ==
    ASSUME TypeOK, Accepting(task_alloc)
    PROVE  /\ task_alloc \in Slot /\ added' \in 0 .. MaxAdds /\ last_freed' \in Ptr
           /\ last_ms' = last_ms /\ lock' = lock /\ stack' = stack /\ clock' = clock
           /\ fault' = fault /\ run' = run /\ last' = last /\ added < MaxAdds
<1>1. task_alloc \in Slot
  BY AllocType, SlotFacts DEF Accepting
<1>2. added' = added + 1 /\ added < MaxAdds /\ last_freed' = 0
      /\ UNCHANGED << last_ms, lock, stack, clock, fault, run, last >>
  BY DEF Accepting
<1>3. added' \in 0 .. MaxAdds
  BY <1>2, Typed, BoundsAssumption
<1>. QED
  BY <1>1, <1>2, <1>3, SlotFacts

LEMMA AddListType ==
    ASSUME TypeOK, Calls, Accepting(task_alloc), NEW fn \in Fns, NEW h,
           pool' = Appended(NewTask(task_alloc, fn, 0, 0), h, task_alloc),
           {immediate', delayed', systick', on_reset'}
             \subseteq {immediate, delayed, systick, on_reset, task_alloc},
           on_reset' \in {on_reset, HeadOf(on_reset, task_alloc)},
           races' \subseteq races \cup {"reset_in_reset"}
    PROVE  TypeOK' /\ Calls'
<1>1. /\ task_alloc \in Slot /\ added' \in 0 .. MaxAdds /\ last_freed' \in Ptr
      /\ last_ms' = last_ms /\ lock' = lock /\ stack' = stack /\ clock' = clock
      /\ fault' = fault /\ run' = run /\ last' = last /\ added < MaxAdds
  BY AcceptingType
<1>2. pool' \in Pools
  <2>1. 0 \in Ticks /\ 0 \in 0 .. MaxTick
    BY Typed, BoundsAssumption
  <2>. QED
    BY <1>1, <2>1, NewTaskIs, AppendedType
<1>3. {immediate', delayed', systick', on_reset', last_freed'} \subseteq Ptr
  BY <1>1, Typed, SlotFacts
<1>4. on_reset # 0 => on_reset' # 0
  BY DEF HeadOf
<1>5. races' \subseteq {"reset_in_reset", "deleted_when_due", "systick_deletes"}
  BY Typed
<1>6. TypeOK'
  BY <1>1, <1>2, <1>3, <1>5, Typed, TypeFrame
<1>. QED
  BY <1>1, <1>4, <1>6, CallsSame

LEMMA DeleteType ==
    ASSUME TypeOK, NEW h \in Ptr, NEW s \in Chain(pool, h), task_free(Unlinked(h, s), s)
    PROVE  /\ pool' \in Pools /\ last_freed' \in Ptr /\ HeadWithout(h, s) \in Ptr
           /\ s \in Slot
<1>1. s \in Slot /\ pool \in Pools /\ Nexts(pool) /\ pool[s].next \in Ptr /\ last_freed \in Ptr
  BY Typed, ChainHolds
<1>2. Unlinked(h, s) \in Pools
  BY <1>1, NextSet DEF Unlinked
<1>. QED
  BY <1>1, <1>2, EntrySet, FreeType, SlotFacts DEF task_free, HeadWithout

LEMMA AddImmediateType ==
    ASSUME TypeOK, Calls, NEW fn \in Fns, task_add_immediate(fn)
    PROVE  TypeOK' /\ Calls'
<1>1. /\ Accepting(task_alloc)
      /\ pool' = Appended(NewTask(task_alloc, fn, 0, 0), immediate, task_alloc)
      /\ immediate' = HeadOf(immediate, task_alloc)
      /\ UNCHANGED << delayed, systick, on_reset, races >>
  BY DEF task_add_immediate
<1>. QED
  BY <1>1, AddListType DEF HeadOf

LEMMA AddSystickType ==
    ASSUME TypeOK, Calls, NEW fn \in Fns, task_add_systick(fn)
    PROVE  TypeOK' /\ Calls'
<1>1. /\ Accepting(task_alloc)
      /\ pool' = Appended(NewTask(task_alloc, fn, 0, 0), systick, task_alloc)
      /\ systick' = HeadOf(systick, task_alloc)
      /\ UNCHANGED << immediate, delayed, on_reset, races >>
  BY DEF task_add_systick
<1>. QED
  BY <1>1, AddListType DEF HeadOf

LEMMA AddResetType ==
    ASSUME TypeOK, Calls, NEW fn \in Fns, task_run_on_reset(fn)
    PROVE  TypeOK' /\ Calls'
<1>1. /\ Accepting(task_alloc)
      /\ pool' = Appended(NewTask(task_alloc, fn, 0, 0), on_reset, task_alloc)
      /\ on_reset' = HeadOf(on_reset, task_alloc)
      /\ UNCHANGED << immediate, delayed, systick >>
      /\ races' \subseteq races \cup {"reset_in_reset"}
  BY DEF task_run_on_reset
<1>. QED
  BY <1>1, AddListType DEF HeadOf

\* Where a delayed task is put.
Front(time) == delayed = 0 \/ Later(time, pool[delayed].time) <= 0
After(p, time) ==
    First(p, delayed, {t \in Slot : p[t].next = 0 \/ Later(time, p[p[t].next].time) < 0})

LEMMA AddDelayedIs ==
    ASSUME NEW fn, NEW delay, task_add_delayed(fn, delay), NEW s, s = task_alloc,
           NEW p, p = NewTask(s, fn, DueTime(delay), clock + delay)
    PROVE  /\ clock + delay < MaxTick /\ Accepting(s)
           /\ \/ /\ Front(DueTime(delay))
                 /\ delayed' = s /\ pool' = SetNext(p, s, delayed)
              \/ /\ ~Front(DueTime(delay)) /\ After(p, DueTime(delay)) # 0
                 /\ pool' = SetNext(SetNext(p, s, p[After(p, DueTime(delay))].next),
                                 After(p, DueTime(delay)), s)
                 /\ UNCHANGED delayed
           /\ UNCHANGED << immediate, systick, on_reset, races >>
BY Zenon DEF task_add_delayed, Front, After

LEMMA DueTimeType ==
    ASSUME TypeOK, NEW delay \in Delays, clock + delay < MaxTick
    PROVE  DueTime(delay) \in Ticks /\ clock + delay \in 0 .. MaxTick /\ delay \in Nat
<1>1. delay \in Nat /\ clock \in Nat
  BY Typed, DelaysAssumption, TimeAssumption, BoundsAssumption
<1>2. Now \in Int /\ TimeMod \in Nat \ {0}
  BY Typed, TimeAssumption DEF Ticks
<1>3. DueTime(delay) \in Ticks
  BY <1>1, <1>2 DEF DueTime, Ticks
<1>. QED
  BY <1>1, <1>3, BoundsAssumption

\* Two entries are changed.
LEMMA LinkSet ==
    ASSUME NEW p \in Pools, NEW s \in Slot, NEW t \in Slot, s # t, NEW x \in Ptr, NEW y \in Ptr,
           NEW q, q = SetNext(SetNext(p, s, x), t, y)
    PROVE  /\ q \in Pools /\ \A u \in Slot \ {s, t} : q[u] = p[u]
           /\ q[s].next = x /\ q[s].fn = p[s].fn /\ q[s].id = p[s].id
           /\ q[s].time = p[s].time /\ q[s].due = p[s].due
           /\ q[t].next = y /\ q[t].fn = p[t].fn /\ q[t].id = p[t].id
           /\ q[t].time = p[t].time /\ q[t].due = p[t].due
<1>. DEFINE q1 == SetNext(p, s, x)
<1>1. q = SetNext(q1, t, y)
  OBVIOUS
<1>2. /\ q1 \in Pools /\ \A u \in Slot : u # s => q1[u] = p[u]
      /\ q1[s].next = x /\ q1[s].fn = p[s].fn /\ q1[s].id = p[s].id
      /\ q1[s].time = p[s].time /\ q1[s].due = p[s].due
  BY NextSet
<1>. HIDE DEF q1
<1>3. /\ q \in Pools /\ \A u \in Slot : u # t => q[u] = q1[u]
      /\ q[t].next = y /\ q[t].fn = q1[t].fn /\ q[t].id = q1[t].id
      /\ q[t].time = q1[t].time /\ q[t].due = q1[t].due
  BY <1>1, <1>2, NextSet
<1>. QED
  BY <1>2, <1>3

LEMMA AddDelayedType ==
    ASSUME TypeOK, Calls, NEW fn \in Fns, NEW delay \in Delays, task_add_delayed(fn, delay)
    PROVE  TypeOK' /\ Calls'
<1>. DEFINE s == task_alloc
            time == DueTime(delay)
            p == NewTask(s, fn, time, clock + delay)
            after == After(p, time)
<1>1. /\ clock + delay < MaxTick /\ Accepting(s)
      /\ \/ /\ Front(time) /\ delayed' = s /\ pool' = SetNext(p, s, delayed)
         \/ /\ ~Front(time) /\ after # 0
            /\ pool' = SetNext(SetNext(p, s, p[after].next), after, s)
            /\ UNCHANGED delayed
      /\ UNCHANGED << immediate, systick, on_reset, races >>
  BY AddDelayedIs
<1>2. /\ s \in Slot /\ added' \in 0 .. MaxAdds /\ last_freed' \in Ptr
      /\ last_ms' = last_ms /\ lock' = lock /\ stack' = stack /\ clock' = clock
      /\ fault' = fault /\ run' = run /\ last' = last /\ added < MaxAdds
  BY <1>1, AcceptingType
<1>3. time \in Ticks /\ clock + delay \in 0 .. MaxTick
  BY <1>1, DueTimeType
<1>4. p \in Pools
  BY <1>2, <1>3, NewTaskIs
<1>5. delayed \in Ptr /\ s \in Ptr
  BY <1>2, Typed, SlotFacts
<1>. HIDE DEF s, time, p
<1>6. after \in Ptr
  BY <1>4, <1>5, PoolNexts, FirstIs DEF After
<1>. HIDE DEF after
<1>7. pool' \in Pools
  <2>1. CASE Front(time)
    <3>1. pool' = SetNext(p, s, delayed)
      BY <1>1, <2>1
    <3>. QED
      BY <1>4, <1>5, <3>1, NextSet
  <2>2. CASE ~Front(time)
    <3>1. after \in Slot /\ p[after].next \in Ptr
      BY <1>1, <1>4, <1>6, <2>2, SlotFacts, PoolNexts
    <3>2. SetNext(p, s, p[after].next) \in Pools
      BY <1>4, <3>1, NextSet
    <3>3. pool' = SetNext(SetNext(p, s, p[after].next), after, s)
      BY <1>1, <2>2
    <3>4. pool' \in Pools
      BY <1>5, <3>2, <3>3, NextSet
    <3>. QED
      BY <3>4
  <2>. QED
    BY <2>1, <2>2
<1>8. {immediate', delayed', systick', on_reset', last_freed'} \subseteq Ptr
  BY <1>1, <1>2, <1>5, Typed
<1>9. TypeOK'
  BY <1>1, <1>2, <1>7, <1>8, Typed, TypeFrame
<1>. QED
  BY <1>1, <1>2, <1>9, CallsSame

LEMMA DelType ==
    ASSUME TypeOK, Calls, NEW fn, task_delete(fn)
    PROVE  TypeOK' /\ Calls'
<1>. DEFINE s == First(pool, delayed, {t \in Slot : pool[t].fn = fn})
<1>1. /\ s # 0 /\ task_free(Unlinked(delayed, s), s) /\ delayed' = HeadWithout(delayed, s)
      /\ UNCHANGED << immediate, systick, on_reset, last_ms, lock, stack, clock, fault, added, run, last >>
      /\ races' \subseteq races \cup {"deleted_when_due"}
  BY DEF task_delete
<1>2. s \in Chain(pool, delayed) /\ delayed \in Ptr
  BY <1>1, Typed, FirstIs
<1>. HIDE DEF s
<1>3. pool' \in Pools /\ last_freed' \in Ptr /\ HeadWithout(delayed, s) \in Ptr
  BY <1>1, <1>2, DeleteType
<1>4. TypeOK'
  BY <1>1, <1>3, Typed, TypeFrame
<1>. QED
  BY <1>1, <1>4, CallsSame

LEMMA DelSystickType ==
    ASSUME TypeOK, Calls, NEW fn, task_delete_systick(fn)
    PROVE  TypeOK' /\ Calls'
<1>. DEFINE s == First(pool, systick, {t \in Slot : pool[t].fn = fn})
<1>1. /\ s # 0 /\ task_free(Unlinked(systick, s), s) /\ systick' = HeadWithout(systick, s)
      /\ UNCHANGED << immediate, delayed, on_reset, last_ms, lock, stack, clock, fault, added, run, last >>
      /\ races' \subseteq races \cup {"systick_deletes"}
  BY DEF task_delete_systick
<1>2. s \in Chain(pool, systick) /\ systick \in Ptr
  BY <1>1, Typed, FirstIs
<1>. HIDE DEF s
<1>3. pool' \in Pools /\ last_freed' \in Ptr /\ HeadWithout(systick, s) \in Ptr
  BY <1>1, <1>2, DeleteType
<1>4. TypeOK'
  BY <1>1, <1>3, Typed, TypeFrame
<1>. QED
  BY <1>1, <1>4, CallsSame

\* The foreground goes on: only its calls change.
LEMMA GotoType ==
    ASSUME TypeOK, Calls, NEW x, GoesTo(x),
           x.at \in {"reset", "reset_fn"} => Head(stack).at \in {"reset", "reset_fn"},
           x.at = "reset" => on_reset' # 0,
           pool' \in Pools, on_reset' \in Ptr, delayed' \in Ptr, last_freed' \in Ptr,
           last_ms' \in Ticks, lock' \in BOOLEAN, fault' \in BOOLEAN, run' \in Nat,
           last' \in 0 .. MaxAdds, UNCHANGED << immediate, systick, clock, added, races >>
    PROVE  TypeOK' /\ Calls'
<1>1. stack' \in Seq(Frames) /\ Len(stack') <= MaxDepth
  BY Typed DEF GoesTo
<1>2. TypeOK'
  BY <1>1, Typed, TypeFrame
<1>. QED
  BY <1>2, CallsGoto

LEMMA ReturnType ==
    ASSUME TypeOK, Calls, stack # << >>, Return, on_reset' \in Ptr, lock' \in BOOLEAN,
           UNCHANGED << pool, immediate, delayed, systick, last_freed, last_ms, clock, fault, added,
                        history >>
    PROVE  TypeOK' /\ Calls' /\ Returning
<1>1. Returning
  BY ReturnFacts
<1>2. stack' \in Seq(Frames) /\ Len(stack') <= MaxDepth
  BY <1>1, Typed, BoundsAssumption DEF Returning
<1>3. TypeOK'
  BY <1>2, Typed, TypeFrame DEF history
<1>. QED
  BY <1>1, <1>3, CallsReturn

LEMMA TaskRunType ==
    ASSUME TypeOK, stack # << >>, NEW s \in Slot, NEW at \in {"imm_fn", "reset_fn"}, task_run(s, at)
    PROVE  /\ pool' \in Pools /\ last_freed' \in Ptr /\ fault' \in BOOLEAN /\ run' \in Nat
           /\ last' \in 0 .. MaxAdds /\ races' = races
           /\ GoesTo([at |-> at, task |-> pool[s].next, now |-> 0])
<1>1. task_free(pool, s) /\ Runs(s) /\ Goto(Frame(at, pool[s].next, 0))
  BY DEF task_run
<1>2. pool' \in Pools /\ last_freed' \in Ptr
  BY <1>1, Typed, EntrySet, FreeType, SlotFacts DEF task_free
<1>3. fault' \in BOOLEAN
  BY <1>1, Zenon DEF Runs
<1>4. run' \in Nat /\ last' \in 0 .. MaxAdds /\ races' = races
  BY <1>1, Typed DEF Runs
<1>5. [at |-> at, task |-> pool[s].next, now |-> 0] \in Frames
  BY Typed, FrameIn
<1>. QED
  BY <1>1, <1>2, <1>3, <1>4, <1>5, GotoFacts

LEMMA ExecuteType ==
    ASSUME TypeOK, Calls, task_execute
    PROVE  /\ TypeOK' /\ Calls'
           /\ Calling([at |-> IF immediate = 0 THEN "poll_tick" ELSE "imm", task |-> immediate,
                       now |-> 0])
<1>. DEFINE at == IF immediate = 0 THEN "poll_tick" ELSE "imm"
            x == [at |-> at, task |-> immediate, now |-> 0]
<1>1. /\ Called /\ Len(stack) < MaxDepth /\ stack' = Frame(at, immediate, 0) \o stack /\ immediate' = 0
      /\ UNCHANGED << pool, delayed, systick, on_reset, last_freed, last_ms, lock, clock, fault,
                      added, history >>
  BY DEF task_execute
<1>2. x \in Frames
  BY Typed, SlotFacts, FrameIn
<1>3. Calling(x)
  BY <1>1, <1>2, CallFacts
<1>4. x.at \in {"poll_tick", "imm"}
  OBVIOUS
<1>. HIDE DEF x
<1>5. stack' \in Seq(Frames) /\ Len(stack') <= MaxDepth
  BY <1>1, <1>3, BoundsAssumption DEF Calling
<1>6. TypeOK'
  BY <1>1, <1>5, Typed, SlotFacts, TypeFrame DEF history
<1>7. Calls'
  BY <1>1, <1>3, <1>4, CallsCall
<1>. QED
  BY <1>3, <1>6, <1>7 DEF x

LEMMA RunImmediateType ==
    ASSUME TypeOK, Calls, RunImmediate
    PROVE  /\ TypeOK' /\ Calls' /\ Head(stack).task \in Slot
           /\ GoesTo([at |-> "imm_fn", task |-> pool[Head(stack).task].next, now |-> 0])
<1>1. /\ stack # << >> /\ Head(stack).at = "imm" /\ task_run(Head(stack).task, "imm_fn")
      /\ UNCHANGED << lists, last_ms, lock, clock, added >>
  BY DEF RunImmediate, Inner
<1>2. Head(stack).task \in Slot
  BY <1>1, TopFacts
<1>3. /\ pool' \in Pools /\ last_freed' \in Ptr /\ fault' \in BOOLEAN /\ run' \in Nat
      /\ last' \in 0 .. MaxAdds /\ races' = races
      /\ GoesTo([at |-> "imm_fn", task |-> pool[Head(stack).task].next, now |-> 0])
  BY <1>1, <1>2, TaskRunType
<1>4. TypeOK' /\ Calls'
  BY <1>1, <1>3, Typed, GotoType DEF lists
<1>. QED
  BY <1>2, <1>3, <1>4

LEMMA ImmediateReturnsType ==
    ASSUME TypeOK, Calls, ImmediateReturns
    PROVE  /\ TypeOK' /\ Calls'
           /\ GoesTo([at |-> IF Head(stack).task = 0 THEN "poll_tick" ELSE "imm",
                      task |-> Head(stack).task, now |-> 0])
<1>. DEFINE at == IF Head(stack).task = 0 THEN "poll_tick" ELSE "imm"
            x == [at |-> at, task |-> Head(stack).task, now |-> 0]
<1>1. /\ stack # << >> /\ Head(stack).at = "imm_fn" /\ Goto(Frame(at, Head(stack).task, 0))
      /\ UNCHANGED << pool, lists, last_freed, last_ms, lock, clock, fault, added, history >>
  BY DEF ImmediateReturns, Inner
<1>2. x \in Frames
  BY <1>1, TopFacts, Typed, SlotFacts, FrameIn
<1>3. GoesTo(x) /\ x.at \in {"poll_tick", "imm"}
  BY <1>1, <1>2, GotoFacts
<1>. HIDE DEF x
<1>4. TypeOK' /\ Calls'
  BY <1>1, <1>3, Typed, GotoType DEF lists, history
<1>. QED
  BY <1>3, <1>4 DEF x

LEMMA PollTickType ==
    ASSUME TypeOK, Calls, PollTick
    PROVE  /\ TypeOK' /\ Calls'
           /\ \/ Returning
              \/ GoesTo([at |-> IF systick = 0 THEN "poll_due" ELSE "systick", task |-> systick,
                         now |-> Now])
<1>. DEFINE at == IF systick = 0 THEN "poll_due" ELSE "systick"
            x == [at |-> at, task |-> systick, now |-> Now]
<1>1. /\ stack # << >> /\ Head(stack).at = "poll_tick"
      /\ \/ Return /\ UNCHANGED << lock, last_ms >>
         \/ lock' = TRUE /\ last_ms' = Now /\ Goto(Frame(at, systick, Now))
      /\ UNCHANGED << pool, lists, last_freed, clock, fault, added, history >>
  BY DEF PollTick, Inner
<1>2. CASE Return /\ UNCHANGED << lock, last_ms >>
  BY <1>1, <1>2, Typed, ReturnType DEF lists
<1>3. CASE lock' = TRUE /\ last_ms' = Now /\ Goto(Frame(at, systick, Now))
  <2>1. x \in Frames
    BY Typed, SlotFacts, FrameIn
  <2>2. GoesTo(x) /\ x.at \in {"poll_due", "systick"}
    BY <1>1, <1>3, <2>1, GotoFacts
  <2>. HIDE DEF x
  <2>3. TypeOK' /\ Calls'
    BY <1>1, <1>3, <2>2, Typed, GotoType DEF lists, history
  <2>. QED
    BY <2>2, <2>3 DEF x
<1>. QED
  BY <1>1, <1>2, <1>3

LEMMA CallSystickType ==
    ASSUME TypeOK, Calls, CallSystick
    PROVE  /\ TypeOK' /\ Calls'
           /\ GoesTo([at |-> "systick_fn", task |-> Head(stack).task, now |-> Head(stack).now])
<1>. DEFINE x == [at |-> "systick_fn", task |-> Head(stack).task, now |-> Head(stack).now]
<1>1. /\ stack # << >> /\ Head(stack).at = "systick"
      /\ Goto(Frame("systick_fn", Head(stack).task, Head(stack).now))
      /\ UNCHANGED << pool, lists, last_freed, last_ms, lock, clock, added, history >>
  BY DEF CallSystick, Inner
<1>2. fault' \in BOOLEAN
  BY Zenon DEF CallSystick
<1>3. x \in Frames
  BY <1>1, TopFacts, Typed, SlotFacts, FrameIn
<1>4. GoesTo(x) /\ x.at = "systick_fn"
  BY <1>1, <1>3, GotoFacts
<1>. HIDE DEF x
<1>5. TypeOK' /\ Calls'
  BY <1>1, <1>2, <1>4, Typed, GotoType DEF lists, history
<1>. QED
  BY <1>4, <1>5 DEF x

LEMMA SystickReturnsType ==
    ASSUME TypeOK, Calls, SystickReturns, NEW next, next = pool[Head(stack).task].next
    PROVE  /\ TypeOK' /\ Calls' /\ Head(stack).task \in Slot /\ next \in Ptr
           /\ GoesTo([at |-> IF next = 0 THEN "poll_due" ELSE "systick", task |-> next,
                      now |-> Head(stack).now])
<1>. DEFINE at == IF next = 0 THEN "poll_due" ELSE "systick"
            x == [at |-> at, task |-> next, now |-> Head(stack).now]
<1>1. /\ stack # << >> /\ Head(stack).at = "systick_fn"
      /\ Goto(Frame(at, next, Head(stack).now))
      /\ UNCHANGED << pool, lists, last_freed, last_ms, lock, clock, fault, added, history >>
  BY DEF SystickReturns, Inner
<1>2. Head(stack).task \in Slot /\ Head(stack).now \in Ticks /\ next \in Ptr
  BY <1>1, TopFacts, Typed
<1>3. x \in Frames
  BY <1>2, SlotFacts, FrameIn
<1>4. GoesTo(x) /\ x.at \in {"poll_due", "systick"}
  BY <1>1, <1>3, GotoFacts
<1>. HIDE DEF x
<1>5. TypeOK' /\ Calls'
  BY <1>1, <1>4, Typed, GotoType DEF lists, history
<1>. QED
  BY <1>2, <1>4, <1>5 DEF x

LEMMA PollDueType ==
    ASSUME TypeOK, Calls, PollDue
    PROVE  /\ TypeOK' /\ Calls'
           /\ \/ Returning /\ ~(delayed # 0 /\ Later(pool[delayed].time, Head(stack).now) <= 0)
              \/ /\ GoesTo([at |-> "window", task |-> delayed, now |-> Head(stack).now])
                 /\ delayed # 0 /\ Later(pool[delayed].time, Head(stack).now) <= 0
<1>. DEFINE x == [at |-> "window", task |-> delayed, now |-> Head(stack).now]
            due == delayed # 0 /\ Later(pool[delayed].time, Head(stack).now) <= 0
<1>1. /\ stack # << >> /\ Head(stack).at = "poll_due"
      /\ \/ ~due /\ Return /\ lock' = FALSE
         \/ due /\ Goto(Frame("window", delayed, Head(stack).now)) /\ UNCHANGED lock
      /\ UNCHANGED << pool, lists, last_freed, last_ms, clock, fault, added, history >>
  BY DEF PollDue, Inner
<1>2. CASE ~due /\ Return /\ lock' = FALSE
  BY <1>1, <1>2, Typed, ReturnType DEF lists
<1>3. CASE due /\ Goto(Frame("window", delayed, Head(stack).now)) /\ UNCHANGED lock
  <2>1. x \in Frames
    BY <1>1, <1>3, TopFacts, Typed, SlotFacts, FrameIn
  <2>2. GoesTo(x) /\ x.at = "window"
    BY <1>1, <1>3, <2>1, GotoFacts
  <2>. HIDE DEF x
  <2>3. TypeOK' /\ Calls'
    BY <1>1, <1>3, <2>2, Typed, GotoType DEF lists, history
  <2>. QED
    BY <1>3, <2>2, <2>3 DEF x
<1>. QED
  BY <1>1, <1>2, <1>3

LEMMA RunDelayedType ==
    ASSUME TypeOK, Calls, RunDelayed
    PROVE  /\ TypeOK' /\ Calls' /\ Head(stack).task \in Slot
           /\ GoesTo([at |-> "delayed_fn", task |-> 0, now |-> Head(stack).now])
<1>. DEFINE s == Head(stack).task
            x == [at |-> "delayed_fn", task |-> 0, now |-> Head(stack).now]
<1>1. /\ stack # << >> /\ Head(stack).at = "window"
      /\ delayed' = HeadWithout(delayed, s)
      /\ task_free(IF s \in Chain(pool, delayed) THEN Unlinked(delayed, s) ELSE pool, s)
      /\ Runs(s) /\ Goto(Frame("delayed_fn", 0, Head(stack).now))
      /\ UNCHANGED << immediate, systick, on_reset, last_ms, lock, clock, added >>
  BY DEF RunDelayed, Inner
<1>2. s \in Slot /\ delayed \in Ptr
  BY <1>1, TopFacts, Typed
<1>3. x \in Frames
  BY <1>1, TopFacts, Typed, SlotFacts, FrameIn
<1>4. GoesTo(x) /\ x.at = "delayed_fn"
  BY <1>1, <1>3, GotoFacts
<1>. HIDE DEF x, s
<1>5. pool' \in Pools /\ last_freed' \in Ptr /\ delayed' \in Ptr
  <2>1. CASE s \in Chain(pool, delayed)
    BY <1>1, <1>2, <2>1, DeleteType
  <2>2. CASE s \notin Chain(pool, delayed)
    <3>1. task_free(pool, s)
      BY <1>1, <2>2
    <3>2. pool' \in Pools /\ last_freed' \in Ptr
      BY <1>2, <3>1, Typed, EntrySet, FreeType, SlotFacts DEF task_free
    <3>. QED
      BY <1>1, <1>2, <3>2, Typed DEF HeadWithout
  <2>. QED
    BY <2>1, <2>2
<1>6. fault' \in BOOLEAN
  BY <1>1, Zenon DEF Runs
<1>7. run' \in Nat /\ last' \in 0 .. MaxAdds /\ races' = races
  BY <1>1, <1>2, Typed DEF Runs
<1>8. TypeOK' /\ Calls'
  BY <1>1, <1>4, <1>5, <1>6, <1>7, Typed, GotoType
<1>. QED
  BY <1>2, <1>4, <1>8 DEF x, s

LEMMA DelayedReturnsType ==
    ASSUME TypeOK, Calls, DelayedReturns
    PROVE  /\ TypeOK' /\ Calls'
           /\ GoesTo([at |-> "poll_due", task |-> 0, now |-> Head(stack).now])
<1>. DEFINE x == [at |-> "poll_due", task |-> 0, now |-> Head(stack).now]
<1>1. /\ stack # << >> /\ Head(stack).at = "delayed_fn" /\ Goto(Frame("poll_due", 0, Head(stack).now))
      /\ UNCHANGED << pool, lists, last_freed, last_ms, lock, clock, fault, added, history >>
  BY DEF DelayedReturns, Inner
<1>2. x \in Frames
  BY <1>1, TopFacts, SlotFacts, FrameIn
<1>3. GoesTo(x) /\ x.at = "poll_due"
  BY <1>1, <1>2, GotoFacts
<1>. HIDE DEF x
<1>4. TypeOK' /\ Calls'
  BY <1>1, <1>3, Typed, GotoType DEF lists, history
<1>. QED
  BY <1>3, <1>4 DEF x

LEMMA StartupType ==
    ASSUME TypeOK, Calls, task_execute_on_startup
    PROVE  /\ TypeOK' /\ Calls'
           /\ Calling([at |-> "reset", task |-> 0, now |-> 0])
<1>. DEFINE x == [at |-> "reset", task |-> 0, now |-> 0]
<1>1. /\ stack = << >> /\ on_reset # 0 /\ stack' = << x >>
      /\ UNCHANGED << pool, lists, last_freed, last_ms, lock, clock, fault, added, history >>
  BY DEF task_execute_on_startup, Frame
<1>2. x \in Frames /\ x.at = "reset"
  BY Typed, SlotFacts, FrameIn
<1>. HIDE DEF x
<1>3. stack' \in Seq(Frames) /\ Len(stack') = 1 /\ stack'[1] = x /\ stack' # << >> /\ Head(stack') = x
      /\ Len(stack) = 0
  BY <1>1, <1>2
<1>4. TypeOK'
  BY <1>1, <1>3, Typed, TypeFrame, BoundsAssumption DEF lists, history
<1>5. Calls'
  BY <1>1, <1>2, <1>3 DEF Calls, lists
<1>6. Calling(x)
  BY <1>2, <1>3 DEF Calling
<1>. QED
  BY <1>4, <1>5, <1>6 DEF x

LEMMA RunResetType ==
    ASSUME TypeOK, Calls, RunReset
    PROVE  /\ TypeOK' /\ Calls' /\ on_reset \in Slot
           /\ GoesTo([at |-> "reset_fn", task |-> pool[on_reset].next, now |-> 0])
<1>1. /\ stack # << >> /\ Head(stack).at = "reset" /\ task_run(on_reset, "reset_fn")
      /\ UNCHANGED << lists, last_ms, lock, clock, added >>
  BY DEF RunReset, Inner
<1>2. on_reset \in Slot
  BY <1>1, Typed, SlotFacts DEF Calls
<1>3. /\ pool' \in Pools /\ last_freed' \in Ptr /\ fault' \in BOOLEAN /\ run' \in Nat
      /\ last' \in 0 .. MaxAdds /\ races' = races
      /\ GoesTo([at |-> "reset_fn", task |-> pool[on_reset].next, now |-> 0])
  BY <1>1, <1>2, TaskRunType
<1>4. TypeOK' /\ Calls'
  BY <1>1, <1>3, Typed, GotoType DEF lists
<1>. QED
  BY <1>2, <1>3, <1>4

LEMMA ResetReturnsType ==
    ASSUME TypeOK, Calls, ResetReturns
    PROVE  /\ TypeOK' /\ Calls' /\ on_reset' = Head(stack).task
           /\ \/ Returning /\ on_reset' = 0
              \/ GoesTo([at |-> "reset", task |-> 0, now |-> 0])
<1>. DEFINE x == [at |-> "reset", task |-> 0, now |-> 0]
<1>1. /\ stack # << >> /\ Head(stack).at = "reset_fn" /\ on_reset' = Head(stack).task
      /\ \/ on_reset' = 0 /\ Return
         \/ on_reset' # 0 /\ Goto(Frame("reset", 0, 0))
      /\ UNCHANGED << pool, immediate, delayed, systick, last_freed, last_ms, lock, clock, fault,
                      added, history >>
  BY DEF ResetReturns, Inner
<1>2. on_reset' \in Ptr
  BY <1>1, TopFacts
<1>3. CASE on_reset' = 0 /\ Return
  BY <1>1, <1>2, <1>3, Typed, ReturnType
<1>4. CASE on_reset' # 0 /\ Goto(Frame("reset", 0, 0))
  <2>1. x \in Frames
    BY Typed, SlotFacts, FrameIn
  <2>2. GoesTo(x) /\ x.at = "reset"
    BY <1>1, <1>4, <2>1, GotoFacts
  <2>. HIDE DEF x
  <2>3. TypeOK' /\ Calls'
    BY <1>1, <1>2, <1>4, <2>2, Typed, GotoType DEF history
  <2>. QED
    BY <1>1, <2>2, <2>3 DEF x
<1>. QED
  BY <1>1, <1>3, <1>4

LEMMA TickType ==
    ASSUME TypeOK, Calls, Tick
    PROVE  TypeOK' /\ Calls'
<1>1. clock < MaxTick /\ clock' = clock + 1
      /\ UNCHANGED << pool, lists, last_freed, last_ms, lock, stack, fault, added, history >>
  BY DEF Tick
<1>2. clock' \in 0 .. MaxTick
  BY <1>1, Typed, BoundsAssumption
<1>3. TypeOK'
  BY <1>1, <1>2, Typed, TypeFrame DEF lists, history
<1>. QED
  BY <1>1, <1>3, CallsSame DEF lists

-----------------------------------------------------------------------------
(* The first entries of the lists, when calls go on *)

FrameRoot(x) == IF x.at \in {"imm", "imm_fn"} THEN x.task ELSE 0

LEMMA NameFacts ==
    /\ Immediate \in Names /\ Delayed \in Names /\ Systick \in Names /\ OnReset \in Names
    /\ 1 .. MaxDepth \subseteq Names
    /\ \A n \in Names : n \in {Immediate, Delayed, Systick, OnReset} \/ n \in 1 .. MaxDepth
    /\ Immediate \notin 1 .. MaxDepth /\ Delayed \notin 1 .. MaxDepth /\ Systick \notin 1 .. MaxDepth
    /\ OnReset \notin 1 .. MaxDepth
    /\ Immediate # Delayed /\ Immediate # Systick /\ Immediate # OnReset
    /\ Delayed # Systick /\ Delayed # OnReset /\ Systick # OnReset
BY BoundsAssumption DEF Immediate, Delayed, Systick, OnReset, Names

LEMMA RootsEq ==
    ASSUME NEW R \in [Names -> Ptr], NEW Q \in [Names -> Ptr],
           Q[Immediate] = R[Immediate], Q[Delayed] = R[Delayed], Q[Systick] = R[Systick],
           Q[OnReset] = R[OnReset], \A d \in 1 .. MaxDepth : Q[d] = R[d]
    PROVE  Q = R
<1>1. \A n \in Names : Q[n] = R[n]
  BY NameFacts
<1>. QED
  BY <1>1

LEMMA RootIs ==
    ASSUME TypeOK
    PROVE  /\ Roots \in [Names -> Ptr]
           /\ Roots[Immediate] = immediate /\ Roots[Delayed] = delayed /\ Roots[Systick] = systick
           /\ Roots[OnReset] = IF InReset THEN FrameAt(1).task ELSE on_reset
           /\ \A d \in 1 .. MaxDepth :
                Roots[d] = IF d \in 1 .. Len(stack) THEN FrameRoot(FrameAt(d)) ELSE 0
<1>1. ASSUME NEW d \in 1 .. Len(stack) PROVE FrameAt(d) \in Frames /\ FrameAt(d).task \in Ptr
  <2>1. stack \in Seq(Frames)
    BY Typed
  <2>2. Len(stack) + 1 - d \in 1 .. Len(stack)
    BY <2>1
  <2>3. FrameAt(d) \in Frames
    BY <2>1, <2>2 DEF FrameAt
  <2>. QED
    BY <2>3, FrameFields
<1>2. /\ Root(Immediate) = immediate /\ Root(Delayed) = delayed /\ Root(Systick) = systick
      /\ Root(OnReset) = IF InReset THEN FrameAt(1).task ELSE on_reset
  BY NameFacts DEF Root
<1>3. ASSUME NEW d \in 1 .. MaxDepth
      PROVE  Root(d) = IF d \in 1 .. Len(stack) THEN FrameRoot(FrameAt(d)) ELSE 0
  <2>1. d # Immediate /\ d # Delayed /\ d # Systick /\ d # OnReset
    BY NameFacts
  <2>. QED
    BY <2>1 DEF Root, FrameRoot
<1>4. InReset => FrameAt(1).task \in Ptr
  <2>1. stack # << >> => 1 \in 1 .. Len(stack)
    BY Typed
  <2>. QED
    BY <1>1, <2>1 DEF InReset
<1>5. ASSUME NEW n \in Names PROVE Root(n) \in Ptr
  BY <1>1, <1>2, <1>3, <1>4, Typed, NameFacts, SlotFacts DEF FrameRoot
<1>6. \A n \in Names : Roots[n] = Root(n)
  BY DEF Roots
<1>7. Roots \in [Names -> Ptr]
  BY <1>5 DEF Roots
<1>. QED
  BY <1>2, <1>3, <1>6, <1>7, NameFacts

LEMMA RootIsNext ==
    ASSUME TypeOK'
    PROVE  /\ Roots' \in [Names -> Ptr]
           /\ Roots'[Immediate] = immediate' /\ Roots'[Delayed] = delayed' /\ Roots'[Systick] = systick'
           /\ Roots'[OnReset] = IF InReset' THEN FrameAt(1)'.task ELSE on_reset'
           /\ \A d \in 1 .. MaxDepth :
                Roots'[d] = IF d \in 1 .. Len(stack') THEN FrameRoot(FrameAt(d)') ELSE 0
<1>1. ASSUME NEW d \in 1 .. Len(stack') PROVE FrameAt(d)' \in Frames /\ FrameAt(d)'.task \in Ptr
  <2>1. stack' \in Seq(Frames)
    BY DEF TypeOK
  <2>2. Len(stack') + 1 - d \in 1 .. Len(stack')
    BY <2>1
  <2>3. FrameAt(d)' \in Frames
    BY <2>1, <2>2 DEF FrameAt
  <2>. QED
    BY <2>3, FrameFields
<1>2. /\ Root(Immediate)' = immediate' /\ Root(Delayed)' = delayed' /\ Root(Systick)' = systick'
      /\ Root(OnReset)' = IF InReset' THEN FrameAt(1)'.task ELSE on_reset'
  BY NameFacts DEF Root
<1>3. ASSUME NEW d \in 1 .. MaxDepth
      PROVE  Root(d)' = IF d \in 1 .. Len(stack') THEN FrameRoot(FrameAt(d)') ELSE 0
  <2>1. d # Immediate /\ d # Delayed /\ d # Systick /\ d # OnReset
    BY NameFacts
  <2>. QED
    BY <2>1 DEF Root, FrameRoot
<1>4. InReset' => FrameAt(1)'.task \in Ptr
  <2>1. stack' # << >> => 1 \in 1 .. Len(stack')
    BY DEF TypeOK
  <2>. QED
    BY <1>1, <2>1 DEF InReset
<1>5. ASSUME NEW n \in Names PROVE Root(n)' \in Ptr
  BY <1>1, <1>2, <1>3, <1>4, NameFacts, SlotFacts DEF FrameRoot, TypeOK
<1>6. \A n \in Names : Roots'[n] = Root(n)'
  BY DEF Roots
<1>7. Roots' \in [Names -> Ptr]
  BY <1>5 DEF Roots
<1>. QED
  BY <1>2, <1>3, <1>6, <1>7, NameFacts

LEMMA GotoRoots ==
    ASSUME TypeOK, TypeOK', Calls, NEW x, GoesTo(x)
    PROVE  /\ Len(stack) \in 1 .. MaxDepth
           /\ Roots[Len(stack)] = FrameRoot(Head(stack)) /\ Roots'[Len(stack)] = FrameRoot(x)
           /\ \A d \in 1 .. MaxDepth : d # Len(stack) => Roots'[d] = Roots[d]
           /\ /\ Head(stack).at \notin {"reset", "reset_fn"} /\ x.at # "reset_fn"
              /\ on_reset' = on_reset
              => Roots'[OnReset] = Roots[OnReset]
           /\ Head(stack).at = "reset" => Roots[OnReset] = on_reset
           /\ Head(stack).at = "reset_fn" => Roots[OnReset] = Head(stack).task
           /\ Head(stack).at \in {"reset", "reset_fn"} =>
                Roots'[OnReset] = IF x.at = "reset_fn" THEN x.task ELSE on_reset'
<1>1. /\ Head(stack) = stack[1] /\ Len(stack) \in 1 .. MaxDepth /\ Len(stack') = Len(stack)
      /\ stack # << >> /\ stack' # << >> /\ stack'[1] = x
      /\ \A k \in 2 .. Len(stack) : stack'[k] = stack[k]
  <2>1. stack' # << >>
    BY DEF GoesTo
  <2>2. Len(stack) <= MaxDepth
    BY Typed
  <2>. QED
    BY <2>1, <2>2, TopFacts, BoundsAssumption DEF GoesTo
<1>2. FrameAt(Len(stack)) = Head(stack) /\ FrameAt(Len(stack))' = x
  <2>1. Len(stack) + 1 - Len(stack) = 1 /\ Len(stack') + 1 - Len(stack) = 1
    BY <1>1
  <2>. QED
    BY <1>1, <2>1 DEF FrameAt
<1>3. ASSUME NEW d \in 1 .. Len(stack), d # Len(stack) PROVE FrameAt(d)' = FrameAt(d)
  <2>1. Len(stack) + 1 - d \in 2 .. Len(stack)
    BY <1>1, <1>3
  <2>. QED
    BY <1>1, <2>1 DEF FrameAt
<1>4. \A d \in 1 .. MaxDepth : d # Len(stack) => Roots'[d] = Roots[d]
  BY <1>1, <1>3, RootIs, RootIsNext
<1>5. Roots[Len(stack)] = FrameRoot(Head(stack)) /\ Roots'[Len(stack)] = FrameRoot(x)
  <2>1. Len(stack) \in 1 .. Len(stack) /\ Len(stack) \in 1 .. Len(stack')
    BY <1>1
  <2>. QED
    BY <1>1, <1>2, <2>1, RootIs, RootIsNext
<1>6. Head(stack).at \in {"reset", "reset_fn"} => Len(stack) = 1
  BY <1>1 DEF Calls
<1>7. Len(stack) = 1 => FrameAt(1) = Head(stack) /\ FrameAt(1)' = x
  BY <1>1 DEF FrameAt
<1>8. Len(stack) # 1 => FrameAt(1)' = FrameAt(1)
  <2>1. 1 \in 1 .. Len(stack)
    BY <1>1
  <2>. QED
    BY <1>3, <2>1
<1>9. Head(stack).at = "reset" => Roots[OnReset] = on_reset
  BY <1>6, <1>7, RootIs DEF InReset
<1>10. Head(stack).at = "reset_fn" => Roots[OnReset] = Head(stack).task
  BY <1>1, <1>6, <1>7, RootIs DEF InReset
<1>11. Head(stack).at \in {"reset", "reset_fn"} =>
         Roots'[OnReset] = IF x.at = "reset_fn" THEN x.task ELSE on_reset'
  BY <1>1, <1>6, <1>7, RootIsNext DEF InReset
<1>12. /\ Head(stack).at \notin {"reset", "reset_fn"} /\ x.at # "reset_fn" /\ on_reset' = on_reset
       => Roots'[OnReset] = Roots[OnReset]
  BY <1>1, <1>7, <1>8, RootIs, RootIsNext DEF InReset
<1>. QED
  BY <1>1, <1>4, <1>5, <1>9, <1>10, <1>11, <1>12

LEMMA ReturnRoots ==
    ASSUME TypeOK, TypeOK', Calls, Returning
    PROVE  /\ Len(stack) \in 1 .. MaxDepth
           /\ Roots[Len(stack)] = FrameRoot(Head(stack)) /\ Roots'[Len(stack)] = 0
           /\ \A d \in 1 .. MaxDepth : d # Len(stack) => Roots'[d] = Roots[d]
           /\ /\ Head(stack).at \notin {"reset", "reset_fn"} /\ on_reset' = on_reset
              => Roots'[OnReset] = Roots[OnReset]
           /\ Head(stack).at = "reset_fn" => /\ Roots[OnReset] = Head(stack).task
                                             /\ Roots'[OnReset] = on_reset'
<1>1. /\ Head(stack) = stack[1] /\ Len(stack) \in 1 .. MaxDepth /\ Len(stack') = Len(stack) - 1
      /\ stack # << >> /\ (stack' # << >> => Len(stack) > 1) /\ (Len(stack) > 1 => stack' # << >>)
      /\ \A k \in 1 .. Len(stack) - 1 : stack'[k] = stack[k + 1]
  <2>1. stack' # << >> <=> Len(stack') # 0
    BY DEF Returning
  <2>2. Len(stack) <= MaxDepth
    BY Typed
  <2>. QED
    BY <2>1, <2>2, TopFacts, BoundsAssumption DEF Returning
<1>2. FrameAt(Len(stack)) = Head(stack)
  <2>1. Len(stack) + 1 - Len(stack) = 1
    BY <1>1
  <2>. QED
    BY <1>1, <2>1 DEF FrameAt
<1>3. ASSUME NEW d \in 1 .. Len(stack), d # Len(stack) PROVE FrameAt(d)' = FrameAt(d)
  <2>1. /\ Len(stack) - d \in 1 .. Len(stack) - 1 /\ Len(stack') + 1 - d = Len(stack) - d
        /\ (Len(stack) - d) + 1 = Len(stack) + 1 - d
    BY <1>1, <1>3
  <2>. QED
    BY <1>1, <2>1 DEF FrameAt
<1>4. \A d \in 1 .. MaxDepth : d # Len(stack) => Roots'[d] = Roots[d]
  <2>1. \A d \in 1 .. MaxDepth : d # Len(stack) => (d \in 1 .. Len(stack) <=> d \in 1 .. Len(stack'))
    BY <1>1
  <2>. QED
    BY <1>1, <1>3, <2>1, RootIs, RootIsNext
<1>5. Roots[Len(stack)] = FrameRoot(Head(stack)) /\ Roots'[Len(stack)] = 0
  <2>1. Len(stack) \in 1 .. Len(stack) /\ Len(stack) \notin 1 .. Len(stack')
    BY <1>1
  <2>. QED
    BY <1>1, <1>2, <2>1, RootIs, RootIsNext
<1>6. Head(stack).at \in {"reset", "reset_fn"} => Len(stack) = 1
  BY <1>1 DEF Calls
<1>7. Len(stack) = 1 => FrameAt(1) = Head(stack) /\ ~InReset'
  BY <1>1, <1>2 DEF InReset
<1>8. Len(stack) # 1 => FrameAt(1)' = FrameAt(1)
  <2>1. 1 \in 1 .. Len(stack)
    BY <1>1
  <2>. QED
    BY <1>3, <2>1
<1>9. Head(stack).at = "reset_fn" => Roots[OnReset] = Head(stack).task /\ Roots'[OnReset] = on_reset'
  BY <1>1, <1>6, <1>7, RootIs, RootIsNext DEF InReset
<1>10. Head(stack).at \notin {"reset", "reset_fn"} /\ on_reset' = on_reset
       => Roots'[OnReset] = Roots[OnReset]
  BY <1>1, <1>7, <1>8, RootIs, RootIsNext DEF InReset
<1>. QED
  BY <1>1, <1>4, <1>5, <1>9, <1>10

LEMMA CallRoots ==
    ASSUME TypeOK, TypeOK', NEW x, Calling(x), x.at # "reset_fn", on_reset' = on_reset
    PROVE  /\ Len(stack) + 1 \in 1 .. MaxDepth
           /\ Roots[Len(stack) + 1] = 0 /\ Roots'[Len(stack) + 1] = FrameRoot(x)
           /\ \A d \in 1 .. MaxDepth : d # Len(stack) + 1 => Roots'[d] = Roots[d]
           /\ Roots'[OnReset] = Roots[OnReset]
<1>1. /\ Len(stack) \in Nat /\ Len(stack') = Len(stack) + 1 /\ Len(stack') \in 1 .. MaxDepth
      /\ stack'[1] = x /\ stack' # << >> /\ (stack # << >> <=> Len(stack) # 0)
      /\ \A k \in 1 .. Len(stack) : stack'[k + 1] = stack[k]
  <2>1. stack' # << >> /\ (stack # << >> <=> Len(stack) # 0)
    BY Typed DEF Calling
  <2>2. Len(stack') <= MaxDepth
    BY DEF TypeOK
  <2>. QED
    BY <2>1, <2>2, BoundsAssumption DEF Calling
<1>2. PICK D \in 1 .. MaxDepth : D = Len(stack) + 1
  BY <1>1
<1>21. FrameAt(D)' = x
  <2>1. Len(stack') + 1 - D = 1
    BY <1>1, <1>2
  <2>. QED
    BY <1>1, <2>1 DEF FrameAt
<1>3. ASSUME NEW d \in 1 .. Len(stack) PROVE FrameAt(d)' = FrameAt(d)
  <2>1. /\ Len(stack) + 1 - d \in 1 .. Len(stack)
        /\ Len(stack') + 1 - d = (Len(stack) + 1 - d) + 1
    BY <1>1
  <2>. QED
    BY <1>1, <2>1 DEF FrameAt
<1>4. \A d \in 1 .. MaxDepth : d # Len(stack) + 1 => Roots'[d] = Roots[d]
  <2>1. \A d \in 1 .. MaxDepth : d # Len(stack) + 1 => (d \in 1 .. Len(stack) <=> d \in 1 .. Len(stack'))
    BY <1>1
  <2>. QED
    BY <1>1, <1>3, <2>1, RootIs, RootIsNext
<1>5. Roots[D] = 0 /\ Roots'[D] = FrameRoot(x)
  <2>1. D \notin 1 .. Len(stack) /\ D \in 1 .. Len(stack')
    BY <1>1, <1>2
  <2>. QED
    BY <1>21, <2>1, RootIs, RootIsNext
<1>6. Roots'[OnReset] = Roots[OnReset]
  <2>1. CASE Len(stack) = 0
    <3>1. D = 1
      BY <1>2, <2>1
    <3>. QED
      BY <1>1, <1>21, <2>1, <3>1, RootIs, RootIsNext DEF InReset
  <2>2. CASE Len(stack) # 0
    <3>1. 1 \in 1 .. Len(stack)
      BY <1>1, <2>2
    <3>. QED
      BY <1>1, <1>3, <2>2, <3>1, RootIs, RootIsNext DEF InReset
  <2>. QED
    BY <2>1, <2>2
<1>. QED
  BY <1>1, <1>2, <1>4, <1>5, <1>6

LEMMA SameRoots ==
    ASSUME TypeOK, TypeOK', UNCHANGED stack
    PROVE  /\ \A d \in 1 .. MaxDepth : Roots'[d] = Roots[d]
           /\ InReset \/ on_reset' = on_reset => Roots'[OnReset] = Roots[OnReset]
           /\ ~InReset => Roots[OnReset] = on_reset /\ Roots'[OnReset] = on_reset'
<1>1. (InReset' <=> InReset) /\ \A d : FrameAt(d)' = FrameAt(d)
  BY DEF InReset, FrameAt
<1>2. \A d \in 1 .. MaxDepth : Roots'[d] = Roots[d]
  BY <1>1, RootIs, RootIsNext
<1>. QED
  BY <1>1, <1>2, RootIs, RootIsNext

-----------------------------------------------------------------------------
(* The entries the calls point to *)

LEMMA PointersGoto ==
    ASSUME TypeOK, Calls, Pointers, NEW x, GoesTo(x),
           Chain(pool, systick) \subseteq Chain(pool', systick'),
           x.at \in {"systick", "systick_fn"} => x.task \in Chain(pool', systick'),
           x.at = "window" => x.task \in Chain(pool', delayed')
    PROVE  Pointers'
<1>1. ASSUME NEW k \in 1 .. Len(stack')
      PROVE  /\ stack'[k].at \in {"systick", "systick_fn"} => stack'[k].task \in Chain(pool', systick')
             /\ stack'[k].at = "window" => stack'[k].task \in Chain(pool', delayed')
  <2>1. CASE k = 1
    BY <2>1 DEF GoesTo
  <2>2. CASE k # 1
    <3>1. k \in 2 .. Len(stack) /\ k \in 1 .. Len(stack) /\ stack'[k] = stack[k]
      BY <2>2 DEF GoesTo
    <3>2. stack[k].at # "window"
      BY <3>1 DEF Calls
    <3>. QED
      BY <3>1, <3>2 DEF Pointers
  <2>. QED
    BY <2>1, <2>2
<1>. QED
  BY <1>1 DEF Pointers

LEMMA PointersReturn ==
    ASSUME TypeOK, Pointers, Returning, UNCHANGED << pool, delayed, systick >>
    PROVE  Pointers'
<1>1. ASSUME NEW k \in 1 .. Len(stack')
      PROVE  k + 1 \in 1 .. Len(stack) /\ stack'[k] = stack[k + 1]
  BY DEF Returning
<1>. QED
  BY <1>1 DEF Pointers

LEMMA PointersCall ==
    ASSUME TypeOK, Pointers, NEW x, Calling(x), x.at \in {"poll_tick", "imm", "reset"},
           UNCHANGED << pool, delayed, systick >>
    PROVE  Pointers'
<1>1. ASSUME NEW k \in 1 .. Len(stack')
      PROVE  /\ stack'[k].at \in {"systick", "systick_fn"} => stack'[k].task \in Chain(pool', systick')
             /\ stack'[k].at = "window" => stack'[k].task \in Chain(pool', delayed')
  <2>1. CASE k = 1
    BY <2>1 DEF Calling
  <2>2. CASE k # 1
    <3>1. k - 1 \in 1 .. Len(stack) /\ (k - 1) + 1 = k
      BY <2>2 DEF Calling
    <3>2. stack'[k] = stack[k - 1]
      BY <3>1 DEF Calling
    <3>. QED
      BY <3>1, <3>2 DEF Pointers
  <2>. QED
    BY <2>1, <2>2
<1>. QED
  BY <1>1 DEF Pointers

LEMMA PointersGrow ==
    ASSUME Pointers, UNCHANGED stack, Chain(pool, systick) \subseteq Chain(pool', systick'),
           Chain(pool, delayed) \subseteq Chain(pool', delayed')
    PROVE  Pointers'
BY DEF Pointers

LEMMA PointersDelete ==
    ASSUME TypeOK, Calls, Pointers, UNCHANGED stack, NEW s,
           \/ /\ Chain(pool', delayed') = Chain(pool, delayed) \ {s} /\ s \notin Held("window")
              /\ Chain(pool', systick') = Chain(pool, systick)
           \/ /\ Chain(pool', systick') = Chain(pool, systick) \ {s} /\ s \notin Held("systick_fn")
              /\ Chain(pool', delayed') = Chain(pool, delayed) /\ Called
    PROVE  Pointers'
<1>1. ASSUME NEW k \in 1 .. Len(stack')
      PROVE  /\ stack'[k].at \in {"systick", "systick_fn"} => stack'[k].task \in Chain(pool', systick')
             /\ stack'[k].at = "window" => stack'[k].task \in Chain(pool', delayed')
  <2>1. stack # << >> /\ Head(stack) = stack[1] /\ Len(stack) \in Nat /\ k \in 1 .. Len(stack)
    <3>1. stack \in Seq(Frames) /\ k \in 1 .. Len(stack)
      BY Typed
    <3>. QED
      BY <3>1
  <2>2. Called => stack[k].at # "systick"
    <3>1. CASE k = 1
      BY <2>1, <3>1 DEF Called
    <3>2. CASE k # 1
      BY <2>1, <3>2 DEF Calls
    <3>. QED
      BY <3>1, <3>2
  <2>3. \A at : stack[k].at = at /\ stack[k].task = s => s \in Held(at)
    BY <2>1 DEF Held
  <2>. QED
    BY <2>1, <2>2, <2>3 DEF Pointers
<1>. QED
  BY <1>1 DEF Pointers

-----------------------------------------------------------------------------
(* The lists are kept: the steps of the foreground that leave the pool alone *)

LEMMA ImmediateReturnsSafe ==
    ASSUME TypeOK, Calls, Safe, ImmediateReturns
    PROVE  Safe' /\ Roots' = Roots
<1>. DEFINE x == [at |-> IF Head(stack).task = 0 THEN "poll_tick" ELSE "imm",
                  task |-> Head(stack).task, now |-> 0]
<1>1. TypeOK' /\ Calls' /\ GoesTo(x)
  BY ImmediateReturnsType
<1>2. /\ stack # << >> /\ Head(stack).at = "imm_fn"
      /\ UNCHANGED << pool, lists, last_freed, fault >>
  BY DEF ImmediateReturns, Inner
<1>3. x.at \in {"poll_tick", "imm"} /\ FrameRoot(x) = FrameRoot(Head(stack))
  BY <1>2 DEF FrameRoot
<1>. HIDE DEF x
<1>4. Roots' = Roots
  <2>1. \A d \in 1 .. MaxDepth : Roots'[d] = Roots[d]
    BY <1>1, <1>3, GotoRoots
  <2>2. Roots'[OnReset] = Roots[OnReset]
    BY <1>1, <1>2, <1>3, GotoRoots DEF lists
  <2>. QED
    BY <1>1, <1>2, <2>1, <2>2, RootIs, RootIsNext, RootsEq DEF lists
<1>5. Pointers'
  BY <1>1, <1>2, <1>3, PointersGoto DEF Safe, lists
<1>. QED
  BY <1>2, <1>4, <1>5 DEF Safe, lists

\* Steps whose calls point to no immediate tasks.
LEMMA QuietGoto ==
    ASSUME TypeOK, Calls, Safe, TypeOK', NEW x, GoesTo(x), ~fault',
           Head(stack).at \notin {"imm", "imm_fn", "reset", "reset_fn"},
           x.at \notin {"imm", "imm_fn", "reset", "reset_fn"},
           UNCHANGED << pool, lists, last_freed >>,
           x.at \in {"systick", "systick_fn"} => x.task \in Chain(pool', systick'),
           x.at = "window" => x.task \in Chain(pool', delayed')
    PROVE  Safe' /\ Roots' = Roots
<1>1. FrameRoot(x) = 0 /\ FrameRoot(Head(stack)) = 0
  BY DEF FrameRoot
<1>2. Roots' = Roots
  <2>1. \A d \in 1 .. MaxDepth : Roots'[d] = Roots[d]
    BY <1>1, GotoRoots
  <2>2. Roots'[OnReset] = Roots[OnReset]
    BY GotoRoots DEF lists
  <2>. QED
    BY <2>1, <2>2, RootIs, RootIsNext, RootsEq DEF lists
<1>3. Pointers'
  BY PointersGoto DEF Safe, lists
<1>. QED
  BY <1>2, <1>3 DEF Safe, lists

LEMMA QuietReturn ==
    ASSUME TypeOK, Calls, Safe, TypeOK', Returning,
           Head(stack).at \notin {"imm", "imm_fn", "reset", "reset_fn"},
           UNCHANGED << pool, lists, last_freed, fault >>
    PROVE  Safe' /\ Roots' = Roots
<1>1. FrameRoot(Head(stack)) = 0
  BY DEF FrameRoot
<1>2. Roots' = Roots
  <2>1. \A d \in 1 .. MaxDepth : Roots'[d] = Roots[d]
    BY <1>1, ReturnRoots
  <2>2. Roots'[OnReset] = Roots[OnReset]
    BY ReturnRoots DEF lists
  <2>. QED
    BY <2>1, <2>2, RootIs, RootIsNext, RootsEq DEF lists
<1>3. Pointers'
  BY PointersReturn DEF Safe, lists
<1>. QED
  BY <1>2, <1>3 DEF Safe, lists

\* What is known of the scheduler's own lists.
LEMMA SafeLists ==
    ASSUME TypeOK, Safe
    PROVE  /\ \A s \in Chain(pool, systick) : /\ s \in Slot /\ pool[s].fn # NoFn
                                              /\ pool[s].next # 0 => pool[s].next \in Chain(pool, systick)
           /\ \A s \in Chain(pool, delayed) : s \in Slot /\ pool[s].fn # NoFn
           /\ systick # 0 => systick \in Chain(pool, systick)
           /\ delayed # 0 => delayed \in Chain(pool, delayed)
<1>1. Roots[Systick] = systick /\ Roots[Delayed] = delayed /\ Systick \in Names /\ Delayed \in Names
  BY RootIs, NameFacts
<1>2. Lists(pool, Roots)
  BY DEF Safe
<1>3. /\ Chain(pool, Roots[Systick]) \subseteq Slot
      /\ Roots[Systick] # 0 => Roots[Systick] \in Chain(pool, Roots[Systick])
      /\ \A s \in Chain(pool, Roots[Systick]) : pool[s].fn # NoFn
      /\ \A s \in Chain(pool, Roots[Systick]) : pool[s].next # 0 => pool[s].next \in Chain(pool, Roots[Systick])
  BY <1>1, <1>2, ListHolds
<1>4. /\ Chain(pool, Roots[Delayed]) \subseteq Slot
      /\ Roots[Delayed] # 0 => Roots[Delayed] \in Chain(pool, Roots[Delayed])
      /\ \A s \in Chain(pool, Roots[Delayed]) : pool[s].fn # NoFn
  BY <1>1, <1>2, ListHolds
<1>. QED
  BY <1>1, <1>3, <1>4

LEMMA TopPointer ==
    ASSUME TypeOK, Safe, stack # << >>
    PROVE  /\ Head(stack).at \in {"systick", "systick_fn"} => Head(stack).task \in Chain(pool, systick)
           /\ Head(stack).at = "window" => Head(stack).task \in Chain(pool, delayed)
<1>1. Head(stack) = stack[1] /\ 1 \in 1 .. Len(stack)
  BY TopFacts
<1>. QED
  BY <1>1 DEF Safe, Pointers

LEMMA PollTickSafe ==
    ASSUME TypeOK, Calls, Safe, PollTick
    PROVE  Safe' /\ Roots' = Roots
<1>. DEFINE x == [at |-> IF systick = 0 THEN "poll_due" ELSE "systick", task |-> systick, now |-> Now]
<1>1. TypeOK' /\ (Returning \/ GoesTo(x))
  BY PollTickType
<1>2. /\ stack # << >> /\ Head(stack).at = "poll_tick"
      /\ UNCHANGED << pool, lists, last_freed, fault >>
  BY DEF PollTick, Inner
<1>3. /\ x.at \in {"poll_due", "systick"}
      /\ x.at \in {"systick", "systick_fn"} => x.task \in Chain(pool', systick')
  BY <1>2, SafeLists DEF lists
<1>. HIDE DEF x
<1>4. ~fault'
  BY <1>2 DEF Safe
<1>. QED
  BY <1>1, <1>2, <1>3, <1>4, QuietGoto, QuietReturn

LEMMA CallSystickSafe ==
    ASSUME TypeOK, Calls, Safe, CallSystick
    PROVE  Safe' /\ Roots' = Roots
<1>. DEFINE x == [at |-> "systick_fn", task |-> Head(stack).task, now |-> Head(stack).now]
<1>1. TypeOK' /\ GoesTo(x)
  BY CallSystickType
<1>2. /\ stack # << >> /\ Head(stack).at = "systick" /\ fault' = (pool[Head(stack).task].fn = NoFn)
      /\ UNCHANGED << pool, lists, last_freed >>
  BY DEF CallSystick, Inner
<1>3. Head(stack).task \in Chain(pool, systick)
  BY <1>2, TopPointer
<1>4. x.at = "systick_fn" /\ x.task \in Chain(pool', systick')
  BY <1>2, <1>3 DEF lists
<1>. HIDE DEF x
<1>5. ~fault'
  BY <1>2, <1>3, SafeLists
<1>. QED
  BY <1>1, <1>2, <1>4, <1>5, QuietGoto

LEMMA SystickReturnsSafe ==
    ASSUME TypeOK, Calls, Safe, SystickReturns
    PROVE  Safe' /\ Roots' = Roots
<1>. DEFINE next == pool[Head(stack).task].next
            x == [at |-> IF next = 0 THEN "poll_due" ELSE "systick", task |-> next,
                  now |-> Head(stack).now]
<1>1. TypeOK' /\ GoesTo(x)
  BY SystickReturnsType
<1>2. /\ stack # << >> /\ Head(stack).at = "systick_fn"
      /\ UNCHANGED << pool, lists, last_freed, fault >>
  BY DEF SystickReturns, Inner
<1>3. Head(stack).task \in Chain(pool, systick)
  BY <1>2, TopPointer
<1>4. /\ x.at \in {"poll_due", "systick"}
      /\ x.at \in {"systick", "systick_fn"} => x.task \in Chain(pool', systick')
  BY <1>2, <1>3, SafeLists DEF lists
<1>. HIDE DEF x
<1>5. ~fault'
  BY <1>2 DEF Safe
<1>. QED
  BY <1>1, <1>2, <1>4, <1>5, QuietGoto

LEMMA PollDueSafe ==
    ASSUME TypeOK, Calls, Safe, PollDue
    PROVE  Safe' /\ Roots' = Roots
<1>. DEFINE x == [at |-> "window", task |-> delayed, now |-> Head(stack).now]
<1>1. TypeOK' /\ (Returning \/ (GoesTo(x) /\ delayed # 0))
  BY PollDueType
<1>2. /\ stack # << >> /\ Head(stack).at = "poll_due"
      /\ UNCHANGED << pool, lists, last_freed, fault >>
  BY DEF PollDue, Inner
<1>3. x.at = "window" /\ (delayed # 0 => x.task \in Chain(pool', delayed'))
  BY <1>2, SafeLists DEF lists
<1>. HIDE DEF x
<1>4. ~fault'
  BY <1>2 DEF Safe
<1>. QED
  BY <1>1, <1>2, <1>3, <1>4, QuietGoto, QuietReturn

LEMMA DelayedReturnsSafe ==
    ASSUME TypeOK, Calls, Safe, DelayedReturns
    PROVE  Safe' /\ Roots' = Roots
<1>. DEFINE x == [at |-> "poll_due", task |-> 0, now |-> Head(stack).now]
<1>1. TypeOK' /\ GoesTo(x)
  BY DelayedReturnsType
<1>2. /\ stack # << >> /\ Head(stack).at = "delayed_fn"
      /\ UNCHANGED << pool, lists, last_freed, fault >>
  BY DEF DelayedReturns, Inner
<1>3. x.at = "poll_due"
  OBVIOUS
<1>. HIDE DEF x
<1>4. ~fault'
  BY <1>2 DEF Safe
<1>. QED
  BY <1>1, <1>2, <1>3, <1>4, QuietGoto

LEMMA TickSafe ==
    ASSUME TypeOK, Calls, Safe, Tick
    PROVE  Safe' /\ Roots' = Roots
<1>1. TypeOK' /\ UNCHANGED << pool, lists, last_freed, stack, fault >>
  BY TickType DEF Tick
<1>2. Roots' = Roots
  BY <1>1, SameRoots, RootIs, RootIsNext, RootsEq DEF lists
<1>3. Pointers'
  BY <1>1, PointersGrow DEF Safe, lists
<1>. QED
  BY <1>1, <1>2, <1>3 DEF Safe

\* The immediate tasks become those of the new call.
Handed ==
    \E D \in 1 .. MaxDepth : /\ Roots[D] = 0 /\ Roots'[D] = Roots[Immediate] /\ Roots'[Immediate] = 0
                             /\ \A n \in Names \ {Immediate, D} : Roots'[n] = Roots[n]

LEMMA ExecuteSafe ==
    ASSUME TypeOK, Calls, Safe, task_execute
    PROVE  Safe' /\ Handed
<1>. DEFINE x == [at |-> IF immediate = 0 THEN "poll_tick" ELSE "imm", task |-> immediate, now |-> 0]
<1>1. TypeOK' /\ Calling(x)
  BY ExecuteType
<1>2. immediate' = 0 /\ UNCHANGED << pool, delayed, systick, on_reset, last_freed, fault >>
  BY DEF task_execute
<1>3. x.at \in {"poll_tick", "imm"} /\ FrameRoot(x) = immediate
  BY DEF FrameRoot
<1>. HIDE DEF x
<1>4. PICK D \in 1 .. MaxDepth : D = Len(stack) + 1
  BY <1>1, <1>2, <1>3, CallRoots
<1>5. /\ Roots[D] = 0 /\ Roots'[D] = Roots[Immediate] /\ Roots'[Immediate] = 0
      /\ \A n \in Names \ {Immediate, D} : Roots'[n] = Roots[n]
      /\ D \in Names /\ Immediate \in Names /\ D # Immediate
  <2>1. /\ Roots[D] = 0 /\ Roots'[D] = immediate /\ Roots'[OnReset] = Roots[OnReset]
        /\ \A d \in 1 .. MaxDepth : d # D => Roots'[d] = Roots[d]
    BY <1>1, <1>2, <1>3, <1>4, CallRoots
  <2>2. /\ Roots[Immediate] = immediate /\ Roots'[Immediate] = 0
        /\ Roots'[Delayed] = Roots[Delayed] /\ Roots'[Systick] = Roots[Systick]
    BY <1>1, <1>2, RootIs, RootIsNext
  <2>. QED
    BY <2>1, <2>2, NameFacts
<1>6. Lists(pool, Roots) /\ Roots' \in [Names -> Ptr]
  BY <1>1, RootIsNext DEF Safe
<1>7. Lists(pool, Roots')
  BY <1>5, <1>6, Moved
<1>8. Pointers'
  BY <1>1, <1>2, <1>3, PointersCall DEF Safe
<1>. QED
  BY <1>2, <1>5, <1>7, <1>8 DEF Safe, Handed

LEMMA StartupSafe ==
    ASSUME TypeOK, Calls, Safe, task_execute_on_startup
    PROVE  Safe' /\ Roots' = Roots
<1>. DEFINE x == [at |-> "reset", task |-> 0, now |-> 0]
<1>1. TypeOK' /\ Calling(x)
  BY StartupType
<1>2. UNCHANGED << pool, lists, last_freed, fault >>
  BY DEF task_execute_on_startup
<1>3. x.at = "reset" /\ FrameRoot(x) = 0
  BY DEF FrameRoot
<1>. HIDE DEF x
<1>4. Roots' = Roots
  <2>1. /\ Roots'[OnReset] = Roots[OnReset] /\ \A d \in 1 .. MaxDepth : Roots'[d] = Roots[d]
    BY <1>1, <1>2, <1>3, CallRoots DEF lists
  <2>. QED
    BY <1>1, <1>2, <2>1, RootIs, RootIsNext, RootsEq DEF lists
<1>5. Pointers'
  BY <1>1, <1>2, <1>3, PointersCall DEF Safe, lists
<1>. QED
  BY <1>2, <1>4, <1>5 DEF Safe

LEMMA ResetReturnsSafe ==
    ASSUME TypeOK, Calls, Safe, ResetReturns
    PROVE  Safe' /\ Roots' = Roots
<1>. DEFINE x == [at |-> "reset", task |-> 0, now |-> 0]
<1>1. TypeOK' /\ on_reset' = Head(stack).task /\ (Returning \/ GoesTo(x))
  BY ResetReturnsType
<1>2. /\ stack # << >> /\ Head(stack).at = "reset_fn"
      /\ UNCHANGED << pool, immediate, delayed, systick, last_freed, fault >>
  BY DEF ResetReturns, Inner
<1>3. x.at = "reset" /\ FrameRoot(x) = 0 /\ FrameRoot(Head(stack)) = 0
  BY <1>2 DEF FrameRoot
<1>. HIDE DEF x
<1>4. Roots' = Roots
  <2>1. CASE Returning
    BY <1>1, <1>2, <1>3, <2>1, ReturnRoots, RootIs, RootIsNext, RootsEq
  <2>2. CASE GoesTo(x)
    BY <1>1, <1>2, <1>3, <2>2, GotoRoots, RootIs, RootIsNext, RootsEq
  <2>. QED
    BY <1>1, <2>1, <2>2
<1>5. Pointers'
  <2>1. CASE Returning
    BY <1>2, <2>1, PointersReturn DEF Safe
  <2>2. CASE GoesTo(x)
    BY <1>2, <1>3, <2>2, PointersGoto DEF Safe
  <2>. QED
    BY <1>1, <2>1, <2>2
<1>. QED
  BY <1>2, <1>4, <1>5 DEF Safe

-----------------------------------------------------------------------------
(* The lists are kept: adding *)

LEMMA AllocFree ==
    ASSUME TypeOK, Safe, task_alloc # 0
    PROVE  task_alloc \in Slot /\ pool[task_alloc].fn = NoFn
BY AllocType, SlotFacts DEF Safe

\* A new entry is on no list yet.
LEMMA NewTaskApart ==
    ASSUME TypeOK, Safe, NEW s \in Slot, pool[s].fn = NoFn, NEW p \in Pools,
           \A u \in Slot \ {s} : p[u] = pool[u], NEW n \in Names
    PROVE  Chain(p, Roots[n]) = Chain(pool, Roots[n]) /\ s \notin Chain(pool, Roots[n])
<1>1. Lists(pool, Roots)
  BY DEF Safe
<1>2. s \notin Chain(pool, Roots[n]) /\ Roots[n] \in Ptr /\ Chain(pool, Roots[n]) \subseteq Slot
  BY <1>1, FreeApart, ListHolds
<1>3. \A u \in Chain(pool, Roots[n]) : p[u].next = pool[u].next
  BY <1>2
<1>. QED
  BY <1>2, <1>3, Typed, PoolNexts, ChainSame

LEMMA Appending ==
    ASSUME TypeOK, Safe, NEW s, s = task_alloc, Accepting(s), NEW n \in Names,
           NEW fn \in Fns, pool' = Appended(NewTask(s, fn, 0, 0), Roots[n], s),
           NEW Q, StartsWith(Roots, Q, n, HeadOf(Roots[n], s))
    PROVE  Lists(pool', Q) /\ Grown(pool, Roots, pool', Q, n, s) /\ s \in Slot
<1>1. s \in Slot /\ pool[s].fn = NoFn /\ added < MaxAdds /\ s # 0
  BY AllocFree, AcceptingType, SlotFacts
<1>. DEFINE p == NewTask(s, fn, 0, 0)
<1>2. p \in Pools /\ p[s].fn = fn /\ p[s].next = 0 /\ \A u \in Slot \ {s} : p[u] = pool[u]
  <2>1. 0 \in Ticks /\ 0 \in 0 .. MaxTick
    BY Typed, BoundsAssumption
  <2>2. /\ p \in Pools /\ \A u \in Slot \ {s} : p[u] = pool[u]
        /\ p[s] = [fn |-> fn, id |-> added + 1, time |-> 0, due |-> 0, next |-> 0]
    BY <1>1, <2>1, NewTaskIs
  <2>. HIDE DEF p
  <2>. QED
    BY <2>2
<1>3. pool' = Appended(p, Roots[n], s) /\ pool' \in Pools /\ fn # NoFn
  BY <1>1, <1>2, AppendedType, FnsAssumption
<1>4. Lists(pool, Roots) /\ Roots \in [Names -> Ptr]
  BY RootIs DEF Safe
<1>. HIDE DEF p
<1>5. CASE Roots[n] = 0
  <2>1. pool' = p /\ StartsWith(Roots, Q, n, s)
    BY <1>3, <1>5 DEF Appended, HeadOf
  <2>2. PutBefore(pool, pool', Roots[n], s)
    BY <1>2, <1>3, <1>5, <2>1, PoolNexts DEF PutBefore
  <2>. QED
    BY <1>1, <1>4, <2>1, <2>2, AddFront
<1>6. CASE Roots[n] # 0
  <2>1. Q = Roots
    <3>1. \A m \in Names : Q[m] = Roots[m]
      BY <1>6 DEF HeadOf, StartsWith
    <3>. QED
      BY <1>4, <3>1 DEF StartsWith
  <2>2. Chain(p, Roots[n]) = Chain(pool, Roots[n]) /\ s \notin Chain(pool, Roots[n])
    BY <1>1, <1>2, NewTaskApart
  <2>. DEFINE t == Before(p, Roots[n], 0)
  <2>3. \E u \in Chain(pool, Roots[n]) : pool[u].next = 0
    <3>1. Roots[n] \in Slot /\ Nexts(pool) /\ Inj(pool) /\ NoPred(pool, Roots[n])
      BY <1>4, <1>6, SlotFacts DEF Lists
    <3>. QED
      BY <3>1, LastExists
  <2>4. t \in Chain(p, Roots[n]) /\ p[t].next = 0
    <3>. DEFINE T == {u \in Slot : p[u].next = 0}
    <3>1. Chain(p, Roots[n]) \cap T # {}
      <4>1. PICK u \in Chain(pool, Roots[n]) : pool[u].next = 0
        BY <2>3
      <4>2. u \in Slot /\ u # s
        BY <1>4, <2>2, ListHolds
      <4>. QED
        BY <1>2, <2>2, <4>1, <4>2
    <3>. HIDE DEF T
    <3>2. First(p, Roots[n], T) \in Chain(p, Roots[n]) \cap T
      BY <1>2, <1>4, <3>1, PoolNexts, FirstIs
    <3>. QED
      BY <3>2 DEF Before, T
  <2>. HIDE DEF t
  <2>5. t \in Slot /\ t # s /\ t \in Chain(pool, Roots[n]) /\ pool[t].next = 0 /\ p[t] = pool[t]
    BY <1>2, <1>4, <2>2, <2>4, ListHolds
  <2>6. pool' = SetNext(p, t, s)
    BY <1>3, <1>6 DEF Appended, t
  <2>7. /\ pool'[t].next = s /\ pool'[t].fn = pool[t].fn
        /\ \A u \in Slot \ {t} : pool'[u] = p[u]
    <3>1. s \in Ptr
      BY <1>1, SlotFacts
    <3>2. /\ pool'[t].next = s /\ pool'[t].fn = p[t].fn
          /\ \A u \in Slot : u # t => pool'[u] = p[u]
      BY <1>2, <2>5, <2>6, <3>1, NextSet
    <3>. QED
      BY <2>5, <3>2
  <2>8. /\ pool'[s].next = pool[t].next /\ pool'[s].fn # NoFn
        /\ \A u \in Slot \ {s, t} : pool'[u].next = pool[u].next /\ pool'[u].fn = pool[u].fn
    BY <1>1, <1>2, <1>3, <2>5, <2>7
  <2>9. Nexts(pool')
    BY <1>3, PoolNexts
  <2>10. PutBehind(pool, pool', t, s)
    BY <2>7, <2>8, <2>9 DEF PutBehind
  <2>11. Lists(pool', Roots) /\ Grown(pool, Roots, pool', Roots, n, s)
    BY <1>1, <1>4, <2>5, <2>10, AddAfter
  <2>. QED
    BY <1>1, <2>1, <2>11
<1>. QED
  BY <1>1, <1>5, <1>6

\* What adding leaves of the rest of the invariant.
LEMMA GrownSafe ==
    ASSUME TypeOK, TypeOK', Safe, NEW s \in Slot, Accepting(s), NEW n \in Names,
           Lists(pool', Roots'), Grown(pool, Roots, pool', Roots', n, s)
    PROVE  Safe'
<1>1. UNCHANGED stack /\ ~fault' /\ last_freed' = 0
  BY DEF Accepting, Safe
<1>2. \A m \in Names : Chain(pool, Roots[m]) \subseteq Chain(pool', Roots'[m])
  BY DEF Grown, Aside
<1>3. Chain(pool, systick) \subseteq Chain(pool', systick') /\ Chain(pool, delayed) \subseteq Chain(pool', delayed')
  BY <1>2, RootIs, RootIsNext, NameFacts
<1>4. Pointers'
  BY <1>1, <1>3, PointersGrow DEF Safe
<1>. QED
  BY <1>1, <1>4 DEF Safe

LEMMA AddImmediateSafe ==
    ASSUME TypeOK, Calls, Safe, NEW fn \in Fns, task_add_immediate(fn)
    PROVE  Safe' /\ Grown(pool, Roots, pool', Roots', Immediate, task_alloc)
<1>. DEFINE s == task_alloc
<1>1. /\ Accepting(s) /\ pool' = Appended(NewTask(s, fn, 0, 0), immediate, s)
      /\ immediate' = HeadOf(immediate, s) /\ UNCHANGED << delayed, systick, on_reset >>
  BY DEF task_add_immediate
<1>2. TypeOK' /\ UNCHANGED stack
  BY <1>1, AddImmediateType DEF Accepting
<1>3. Roots[Immediate] = immediate /\ StartsWith(Roots, Roots', Immediate, HeadOf(immediate, s))
  BY <1>1, <1>2, SameRoots, RootIs, RootIsNext, NameFacts DEF StartsWith
<1>4. s = task_alloc /\ Immediate \in Names
  BY NameFacts
<1>. HIDE DEF s
<1>5. Lists(pool', Roots') /\ Grown(pool, Roots, pool', Roots', Immediate, s) /\ s \in Slot
  BY <1>1, <1>3, <1>4, Appending
<1>. QED
  BY <1>1, <1>2, <1>4, <1>5, GrownSafe

LEMMA AddSystickSafe ==
    ASSUME TypeOK, Calls, Safe, NEW fn \in Fns, task_add_systick(fn)
    PROVE  Safe' /\ Grown(pool, Roots, pool', Roots', Systick, task_alloc)
<1>. DEFINE s == task_alloc
<1>1. /\ Accepting(s) /\ pool' = Appended(NewTask(s, fn, 0, 0), systick, s)
      /\ systick' = HeadOf(systick, s) /\ UNCHANGED << immediate, delayed, on_reset >>
  BY DEF task_add_systick
<1>2. TypeOK' /\ UNCHANGED stack
  BY <1>1, AddSystickType DEF Accepting
<1>3. Roots[Systick] = systick /\ StartsWith(Roots, Roots', Systick, HeadOf(systick, s))
  BY <1>1, <1>2, SameRoots, RootIs, RootIsNext, NameFacts DEF StartsWith
<1>4. s = task_alloc /\ Systick \in Names
  BY NameFacts
<1>. HIDE DEF s
<1>5. Lists(pool', Roots') /\ Grown(pool, Roots, pool', Roots', Systick, s) /\ s \in Slot
  BY <1>1, <1>3, <1>4, Appending
<1>. QED
  BY <1>1, <1>2, <1>4, <1>5, GrownSafe

LEMMA InResetHeld ==
    ASSUME TypeOK, Calls
    PROVE  /\ Held("reset_fn") = {} <=> ~InReset
           /\ InReset => Held("reset_fn") = {FrameAt(1).task}
<1>1. stack \in Seq(Frames) /\ Len(stack) \in Nat /\ (stack # << >> <=> Len(stack) # 0)
  BY Typed
<1>2. FrameAt(1) = stack[Len(stack)]
  <2>1. Len(stack) + 1 - 1 = Len(stack)
    BY <1>1
  <2>. QED
    BY <2>1 DEF FrameAt
<1>3. \A k \in 1 .. Len(stack) : stack[k].at = "reset_fn" => k = Len(stack)
  BY DEF Calls
<1>4. InReset <=> Len(stack) \in 1 .. Len(stack) /\ stack[Len(stack)].at = "reset_fn"
  BY <1>1, <1>2 DEF InReset
<1>. DEFINE K == {k \in 1 .. Len(stack) : stack[k].at = "reset_fn"}
<1>5. K = IF InReset THEN {Len(stack)} ELSE {}
  BY <1>1, <1>3, <1>4
<1>6. Held("reset_fn") = {stack[k].task : k \in K}
  BY DEF Held
<1>. QED
  BY <1>2, <1>5, <1>6

LEMMA AddResetSafe ==
    ASSUME TypeOK, Calls, Safe, NoRace', NEW fn \in Fns, task_run_on_reset(fn)
    PROVE  Safe' /\ Grown(pool, Roots, pool', Roots', OnReset, task_alloc)
<1>. DEFINE s == task_alloc
<1>1. /\ Accepting(s) /\ pool' = Appended(NewTask(s, fn, 0, 0), on_reset, s)
      /\ on_reset' = HeadOf(on_reset, s) /\ UNCHANGED << immediate, delayed, systick >>
      /\ races' = IF Held("reset_fn") = {} THEN races ELSE races \cup {"reset_in_reset"}
  BY DEF task_run_on_reset
<1>2. TypeOK' /\ UNCHANGED stack
  BY <1>1, AddResetType DEF Accepting
<1>3. ~InReset
  BY <1>1, InResetHeld DEF NoRace
<1>4. Roots[OnReset] = on_reset /\ StartsWith(Roots, Roots', OnReset, HeadOf(on_reset, s))
  BY <1>1, <1>2, <1>3, SameRoots, RootIs, RootIsNext, NameFacts DEF StartsWith
<1>5. s = task_alloc /\ OnReset \in Names
  BY NameFacts
<1>. HIDE DEF s
<1>6. Lists(pool', Roots') /\ Grown(pool, Roots, pool', Roots', OnReset, s) /\ s \in Slot
  BY <1>1, <1>4, <1>5, Appending
<1>. QED
  BY <1>1, <1>2, <1>5, <1>6, GrownSafe

LEMMA AddDelayedSafe ==
    ASSUME TypeOK, Calls, Safe, NEW fn \in Fns, NEW delay \in Delays, task_add_delayed(fn, delay)
    PROVE  Safe' /\ Grown(pool, Roots, pool', Roots', Delayed, task_alloc)
<1>. DEFINE s == task_alloc
            time == DueTime(delay)
            p == NewTask(s, fn, time, clock + delay)
            t == After(p, time)
<1>1. /\ clock + delay < MaxTick /\ Accepting(s)
      /\ \/ /\ Front(time) /\ delayed' = s /\ pool' = SetNext(p, s, delayed)
         \/ /\ ~Front(time) /\ t # 0
            /\ pool' = SetNext(SetNext(p, s, p[t].next), t, s)
            /\ UNCHANGED delayed
      /\ UNCHANGED << immediate, systick, on_reset, races >>
  BY AddDelayedIs
<1>2. TypeOK' /\ UNCHANGED stack /\ s \in Slot /\ pool[s].fn = NoFn /\ added < MaxAdds /\ s # 0
  BY <1>1, AddDelayedType, AllocFree, AcceptingType, SlotFacts DEF Accepting
<1>3. time \in Ticks /\ clock + delay \in 0 .. MaxTick
  BY <1>1, DueTimeType
<1>4. p \in Pools /\ p[s].fn = fn /\ p[s].next = 0 /\ \A u \in Slot \ {s} : p[u] = pool[u]
  <2>1. /\ p \in Pools /\ \A u \in Slot \ {s} : p[u] = pool[u]
        /\ p[s] = [fn |-> fn, id |-> added + 1, time |-> time, due |-> clock + delay, next |-> 0]
    BY <1>2, <1>3, NewTaskIs
  <2>. HIDE DEF p
  <2>. QED
    BY <2>1
<1>5. delayed \in Ptr /\ s \in Ptr /\ fn # NoFn /\ pool' \in Pools /\ Nexts(pool')
  <2>1. pool' \in Pools
    BY <1>2 DEF TypeOK, Pools
  <2>. QED
    BY <1>2, <2>1, Typed, SlotFacts, FnsAssumption, PoolNexts
<1>6. Lists(pool, Roots) /\ Roots[Delayed] = delayed /\ Delayed \in Names
  BY RootIs, NameFacts DEF Safe
<1>7. s = task_alloc
  OBVIOUS
<1>. HIDE DEF s, time, p
<1>8. CASE Front(time) /\ delayed' = s /\ pool' = SetNext(p, s, delayed)
  <2>1. StartsWith(Roots, Roots', Delayed, s)
    BY <1>1, <1>2, <1>8, SameRoots, RootIs, RootIsNext, NameFacts DEF StartsWith
  <2>2. PutBefore(pool, pool', delayed, s)
    <3>1. /\ pool'[s].next = delayed /\ pool'[s].fn = p[s].fn
          /\ \A u \in Slot : u # s => pool'[u] = p[u]
      BY <1>2, <1>4, <1>5, <1>8, NextSet
    <3>. QED
      BY <1>4, <1>5, <3>1 DEF PutBefore
  <2>3. Lists(pool', Roots') /\ Grown(pool, Roots, pool', Roots', Delayed, s)
    BY <1>2, <1>6, <2>1, <2>2, AddFront
  <2>. QED
    BY <1>1, <1>2, <1>6, <1>7, <2>3, GrownSafe
<1>9. CASE /\ t # 0 /\ pool' = SetNext(SetNext(p, s, p[t].next), t, s)
           /\ UNCHANGED delayed
  <2>1. t \in Chain(p, delayed)
    BY <1>4, <1>5, <1>9, PoolNexts, FirstIs DEF After
  <2>. HIDE DEF t
  <2>2. t \in Chain(pool, delayed) /\ t \in Slot /\ t # s
    BY <1>2, <1>4, <1>6, <2>1, NewTaskApart, ListHolds
  <2>3. p[t] = pool[t] /\ p[t].next \in Ptr
    BY <1>4, <2>2, PoolNexts
  <2>4. PutBehind(pool, pool', t, s)
    <3>0. PICK x \in Ptr : x = p[t].next
      BY <2>3
    <3>1. /\ pool'[s].next = x /\ pool'[s].fn = p[s].fn /\ pool'[t].next = s
          /\ pool'[t].fn = p[t].fn /\ \A u \in Slot \ {s, t} : pool'[u] = p[u]
      <4>1. pool' = SetNext(SetNext(p, s, x), t, s) /\ p \in Pools /\ s \in Slot /\ t \in Slot
            /\ s # t /\ s \in Ptr
        BY <1>2, <1>4, <1>5, <1>9, <2>2, <3>0
      <4>. QED
        BY <4>1, LinkSet
    <3>. QED
      BY <1>4, <1>5, <2>3, <3>0, <3>1 DEF PutBehind
  <2>5. Roots' = Roots
    BY <1>1, <1>2, <1>9, SameRoots, RootIs, RootIsNext, RootsEq
  <2>6. Lists(pool', Roots) /\ Grown(pool, Roots, pool', Roots, Delayed, s)
    BY <1>2, <1>6, <2>2, <2>4, AddAfter
  <2>. QED
    BY <1>1, <1>2, <1>6, <1>7, <2>5, <2>6, GrownSafe
<1>. QED
  BY <1>1, <1>8, <1>9

-----------------------------------------------------------------------------
(* The lists are kept: deleting and running *)

\* The other entries keep what they say.
SameData(s) ==
    \A u \in Slot \ {s} : /\ pool'[u].fn = pool[u].fn /\ pool'[u].id = pool[u].id
                          /\ pool'[u].time = pool[u].time /\ pool'[u].due = pool[u].due

\* Entry s is taken off list n and freed.
Taken(n, s) ==
    /\ s \in Chain(pool, Roots[n]) /\ Shrunk(pool, Roots, pool', Roots', n, s)
    /\ Freed(pool, pool', s) \/ \E t \in Chain(pool, Roots[n]) : CutBehind(pool, pool', t, s)
    /\ SameData(s)

LEMMA FreeData ==
    ASSUME TypeOK, NEW h, NEW s \in Slot, task_free(Unlinked(h, s), s)
    PROVE  SameData(s)
<1>1. pool \in Pools /\ pool[s].next \in Ptr
  BY Typed
<1>2. PICK p \in Pools : /\ p = Unlinked(h, s)
                         /\ \A u \in Slot : /\ p[u].fn = pool[u].fn /\ p[u].id = pool[u].id
                                            /\ p[u].time = pool[u].time /\ p[u].due = pool[u].due
  <2>1. CASE h = s
    BY <1>1, <2>1 DEF Unlinked
  <2>2. CASE h # s
    <3>1. PICK t : Unlinked(h, s) = SetNext(pool, t, pool[s].next)
      BY <2>2 DEF Unlinked
    <3>. QED
      BY <1>1, <3>1, NextSet
  <2>. QED
    BY <2>1, <2>2
<1>3. pool' = [p EXCEPT ![s] = Free]
  BY <1>2 DEF task_free
<1>4. \A u \in Slot \ {s} : pool'[u] = p[u]
  BY <1>3 DEF Pools
<1>. QED
  BY <1>2, <1>4 DEF SameData

LEMMA Removing ==
    ASSUME TypeOK, Safe, NEW n \in Names, NEW s \in Chain(pool, Roots[n]),
           task_free(Unlinked(Roots[n], s), s),
           StartsWith(Roots, Roots', n, HeadWithout(Roots[n], s))
    PROVE  /\ Lists(pool', Roots') /\ Taken(n, s)
           /\ last_freed' # 0 => pool'[last_freed'].fn = NoFn
<1>. DEFINE Q == Roots'
            h == Roots[n]
            t == Before(pool, h, s)
            p == Unlinked(h, s)
<1>1. /\ Lists(pool, Roots) /\ h \in Ptr /\ Nexts(pool) /\ Inj(pool) /\ NoPred(pool, h)
      /\ Roots \in [Names -> Ptr]
  BY RootIs DEF Safe, Lists
<1>2. s \in Slot /\ pool \in Pools /\ pool[s].next \in Ptr /\ pool[s].fn # NoFn /\ s # 0
  BY <1>1, ListHolds, Typed, SlotFacts
<1>3. /\ p \in Pools /\ pool' = [p EXCEPT ![s] = Free]
      /\ last_freed' = IF last_freed = 0 THEN s ELSE last_freed
  BY <1>2, NextSet DEF Unlinked, task_free
<1>4. pool' \in Pools /\ pool'[s] = Free /\ \A u \in Slot \ {s} : pool'[u] = p[u]
  <2>1. pool' \in Pools
    BY <1>3, EntrySet, FreeType
  <2>. QED
    BY <1>2, <1>3, <2>1 DEF Pools
<1>9. StartsWith(Roots, Q, n, HeadWithout(h, s)) /\ SameData(s)
  BY <1>2, FreeData
<1>. HIDE DEF Q
<1>5. Nexts(pool') /\ pool'[s].next = 0 /\ pool'[s].fn = NoFn
  BY <1>4, FreeType, PoolNexts
<1>6. last_freed # 0 => last_freed \in Slot /\ pool[last_freed].fn = NoFn
  BY Typed, SlotFacts DEF Safe
<1>7. CASE h = s
  <2>1. p = pool /\ HeadWithout(h, s) = pool[s].next
    BY <1>7 DEF Unlinked, HeadWithout
  <2>. HIDE DEF p
  <2>2. Freed(pool, pool', s)
    BY <1>4, <1>5, <2>1 DEF Freed
  <2>3. StartsWith(Roots, Q, n, pool[s].next)
    BY <1>9, <2>1
  <2>4. Lists(pool', Q) /\ Shrunk(pool, Roots, pool', Q, n, s)
    BY <1>1, <1>2, <1>7, <2>2, <2>3, RemoveFront
  <2>5. last_freed' # 0 => pool'[last_freed'].fn = NoFn
    BY <1>3, <1>4, <1>5, <1>6, <2>1
  <2>. QED
    BY <1>9, <2>2, <2>4, <2>5 DEF Taken, Q
<1>8. CASE h # s
  <2>1. t \in Chain(pool, h) /\ pool[t].next = s
    <3>. DEFINE T == {u \in Slot : pool[u].next = s}
    <3>1. Chain(pool, h) \cap T # {}
      <4>1. PICK u \in Chain(pool, h) : pool[u].next = s
        BY <1>1, <1>8, BeforeExists
      <4>2. u \in Slot
        BY <1>1, ListHolds
      <4>. QED
        BY <4>1, <4>2
    <3>. HIDE DEF T
    <3>2. First(pool, h, T) \in Chain(pool, h) \cap T
      BY <1>1, <3>1, FirstIs
    <3>. QED
      BY <3>2 DEF Before, T
  <2>2. p = SetNext(pool, t, pool[s].next)
    BY <1>8 DEF Unlinked
  <2>. HIDE DEF t, p
  <2>3. t \in Slot /\ t # s
    <3>1. pool[s].next # s
      BY <1>1, <1>8, NoSelfLoop
    <3>. QED
      BY <1>1, <2>1, <3>1, ListHolds
  <2>4. p[t].next = pool[s].next /\ p[t].fn = pool[t].fn /\ \A u \in Slot : u # t => p[u] = pool[u]
    BY <1>2, <2>2, <2>3, NextSet
  <2>5. CutBehind(pool, pool', t, s)
    BY <1>4, <1>5, <2>1, <2>3, <2>4 DEF CutBehind
  <2>6. Q = Roots
    <3>1. \A m \in Names : Q[m] = Roots[m]
      BY <1>8, <1>9 DEF StartsWith, HeadWithout
    <3>. QED
      BY <1>1, <1>9, <3>1 DEF StartsWith
  <2>7. Lists(pool', Roots) /\ Shrunk(pool, Roots, pool', Roots, n, s)
    BY <1>1, <1>2, <2>1, <2>5, RemoveAfter
  <2>8. last_freed' # 0 => pool'[last_freed'].fn = NoFn
    BY <1>3, <1>4, <1>5, <1>6, <2>3, <2>4
  <2>. QED
    BY <1>9, <2>1, <2>5, <2>6, <2>7, <2>8 DEF Taken, Q
<1>. QED
  BY <1>7, <1>8

LEMMA DeleteSafe ==
    ASSUME TypeOK, Calls, Safe, NoRace', NEW fn, task_delete(fn)
    PROVE  /\ Safe'
           /\ \E s : Taken(Delayed, s) /\ s \notin Held("window")
<1>. DEFINE s == First(pool, delayed, {t \in Slot : pool[t].fn = fn})
<1>1. /\ s # 0 /\ task_free(Unlinked(delayed, s), s) /\ delayed' = HeadWithout(delayed, s)
      /\ UNCHANGED << immediate, systick, on_reset, stack, fault >>
      /\ races' = IF s \in Held("window") THEN races \cup {"deleted_when_due"} ELSE races
  BY DEF task_delete
<1>2. s \in Chain(pool, delayed) /\ TypeOK'
  BY <1>1, Typed, FirstIs, DelType
<1>. HIDE DEF s
<1>3. s \notin Held("window")
  BY <1>1 DEF NoRace
<1>4. Roots[Delayed] = delayed /\ StartsWith(Roots, Roots', Delayed, HeadWithout(delayed, s))
      /\ Delayed \in Names
  BY <1>1, <1>2, SameRoots, RootIs, RootIsNext, NameFacts DEF StartsWith
<1>5. /\ Lists(pool', Roots') /\ Taken(Delayed, s)
      /\ last_freed' # 0 => pool'[last_freed'].fn = NoFn
  BY <1>1, <1>2, <1>4, Removing
<1>6. /\ Chain(pool', delayed') = Chain(pool, delayed) \ {s}
      /\ Chain(pool', systick') = Chain(pool, systick)
  BY <1>2, <1>5, RootIs, RootIsNext, NameFacts DEF Taken, Shrunk, Aside
<1>7. Pointers'
  BY <1>1, <1>3, <1>6, PointersDelete DEF Safe
<1>. QED
  BY <1>1, <1>2, <1>3, <1>5, <1>7 DEF Safe

LEMMA DeleteSystickSafe ==
    ASSUME TypeOK, Calls, Safe, NoRace', NEW fn, task_delete_systick(fn)
    PROVE  /\ Safe'
           /\ \E s : Taken(Systick, s)
<1>. DEFINE s == First(pool, systick, {t \in Slot : pool[t].fn = fn})
<1>1. /\ s # 0 /\ task_free(Unlinked(systick, s), s) /\ systick' = HeadWithout(systick, s) /\ Called
      /\ UNCHANGED << immediate, delayed, on_reset, stack, fault >>
      /\ races' = IF s \in Held("systick_fn") THEN races \cup {"systick_deletes"} ELSE races
  BY DEF task_delete_systick
<1>2. s \in Chain(pool, systick) /\ TypeOK'
  BY <1>1, Typed, FirstIs, DelSystickType
<1>. HIDE DEF s
<1>3. s \notin Held("systick_fn")
  BY <1>1 DEF NoRace
<1>4. Roots[Systick] = systick /\ StartsWith(Roots, Roots', Systick, HeadWithout(systick, s))
      /\ Systick \in Names
  BY <1>1, <1>2, SameRoots, RootIs, RootIsNext, NameFacts DEF StartsWith
<1>5. /\ Lists(pool', Roots') /\ Taken(Systick, s)
      /\ last_freed' # 0 => pool'[last_freed'].fn = NoFn
  BY <1>1, <1>2, <1>4, Removing
<1>6. /\ Chain(pool', systick') = Chain(pool, systick) \ {s}
      /\ Chain(pool', delayed') = Chain(pool, delayed)
  BY <1>2, <1>5, RootIs, RootIsNext, NameFacts DEF Taken, Shrunk, Aside
<1>7. Pointers'
  BY <1>1, <1>3, <1>6, PointersDelete DEF Safe
<1>. QED
  BY <1>1, <1>2, <1>5, <1>7 DEF Safe

LEMMA RunDelayedSafe ==
    ASSUME TypeOK, Calls, Safe, RunDelayed
    PROVE  Safe' /\ Taken(Delayed, Head(stack).task)
<1>. DEFINE s == Head(stack).task
            x == [at |-> "delayed_fn", task |-> 0, now |-> Head(stack).now]
<1>1. /\ stack # << >> /\ Head(stack).at = "window" /\ delayed' = HeadWithout(delayed, s)
      /\ task_free(IF s \in Chain(pool, delayed) THEN Unlinked(delayed, s) ELSE pool, s)
      /\ fault' = (pool[s].fn = NoFn)
      /\ UNCHANGED << immediate, systick, on_reset >>
  BY DEF RunDelayed, Inner, Runs
<1>2. TypeOK' /\ GoesTo(x)
  BY RunDelayedType
<1>3. s \in Chain(pool, delayed)
  BY <1>1, TopPointer
<1>4. x.at = "delayed_fn" /\ FrameRoot(x) = 0 /\ FrameRoot(Head(stack)) = 0
  BY <1>1 DEF FrameRoot
<1>. HIDE DEF s, x
<1>5. task_free(Unlinked(delayed, s), s) /\ ~fault'
  BY <1>1, <1>3, SafeLists
<1>6. Roots[Delayed] = delayed /\ StartsWith(Roots, Roots', Delayed, HeadWithout(delayed, s))
      /\ Delayed \in Names
  <2>1. \A d \in 1 .. MaxDepth : Roots'[d] = Roots[d]
    BY <1>2, <1>4, GotoRoots
  <2>2. Roots'[OnReset] = Roots[OnReset]
    BY <1>1, <1>2, <1>4, GotoRoots
  <2>. QED
    BY <1>1, <1>2, <2>1, <2>2, RootIs, RootIsNext, NameFacts DEF StartsWith
<1>7. /\ Lists(pool', Roots') /\ Taken(Delayed, s)
      /\ last_freed' # 0 => pool'[last_freed'].fn = NoFn
  BY <1>3, <1>5, <1>6, Removing
<1>8. Chain(pool', systick') = Chain(pool, systick)
  BY <1>2, <1>7, RootIs, RootIsNext, NameFacts DEF Taken, Shrunk, Aside
<1>9. Pointers'
  BY <1>2, <1>4, <1>8, PointersGoto DEF Safe
<1>. QED
  BY <1>5, <1>7, <1>9 DEF Safe, s

LEMMA RunImmediateSafe ==
    ASSUME TypeOK, Calls, Safe, RunImmediate
    PROVE  Safe' /\ Taken(Len(stack), Head(stack).task)
<1>. DEFINE s == Head(stack).task
            x == [at |-> "imm_fn", task |-> pool[s].next, now |-> 0]
<1>1. /\ stack # << >> /\ Head(stack).at = "imm" /\ task_free(pool, s)
      /\ fault' = (pool[s].fn = NoFn) /\ UNCHANGED lists
  BY DEF RunImmediate, Inner, task_run, Runs
<1>2. TypeOK' /\ GoesTo(x) /\ s \in Slot
  BY RunImmediateType
<1>3. x.at = "imm_fn" /\ FrameRoot(x) = pool[s].next /\ FrameRoot(Head(stack)) = s
  BY <1>1 DEF FrameRoot
<1>. HIDE DEF x
<1>4. PICK D \in 1 .. MaxDepth : D = Len(stack)
  BY <1>2, GotoRoots
<1>5. Roots[D] = s /\ StartsWith(Roots, Roots', D, pool[s].next) /\ D \in Names
  <2>1. Roots[D] = s /\ Roots'[D] = pool[s].next /\ \A d \in 1 .. MaxDepth : d # D => Roots'[d] = Roots[d]
    BY <1>2, <1>3, <1>4, GotoRoots
  <2>2. Roots'[OnReset] = Roots[OnReset]
    BY <1>1, <1>2, <1>3, GotoRoots DEF lists
  <2>. QED
    BY <1>1, <1>2, <2>1, <2>2, RootIs, RootIsNext, NameFacts DEF StartsWith, lists
<1>. HIDE DEF s
<1>6. s \in Chain(pool, Roots[D]) /\ pool[s].fn # NoFn
  BY <1>2, <1>5, ListHolds, SlotFacts DEF Safe
<1>7. Unlinked(s, s) = pool /\ HeadWithout(s, s) = pool[s].next
  BY DEF Unlinked, HeadWithout
<1>8. /\ Lists(pool', Roots') /\ Taken(D, s)
      /\ last_freed' # 0 => pool'[last_freed'].fn = NoFn
  BY <1>1, <1>5, <1>6, <1>7, Removing
<1>9. Systick # D
  BY NameFacts
<1>10. Chain(pool', systick') = Chain(pool, systick)
  BY <1>2, <1>8, <1>9, RootIs, RootIsNext, NameFacts DEF Taken, Shrunk, Aside
<1>11. Pointers'
  BY <1>2, <1>3, <1>10, PointersGoto DEF Safe
<1>. QED
  BY <1>1, <1>4, <1>6, <1>8, <1>11 DEF Safe, s

LEMMA RunResetSafe ==
    ASSUME TypeOK, Calls, Safe, RunReset
    PROVE  Safe' /\ Taken(OnReset, on_reset)
<1>. DEFINE s == on_reset
            x == [at |-> "reset_fn", task |-> pool[s].next, now |-> 0]
<1>1. /\ stack # << >> /\ Head(stack).at = "reset" /\ task_free(pool, s)
      /\ fault' = (pool[s].fn = NoFn) /\ UNCHANGED lists
  BY DEF RunReset, Inner, task_run, Runs
<1>2. TypeOK' /\ GoesTo(x) /\ s \in Slot
  BY RunResetType
<1>3. x.at = "reset_fn" /\ x.task = pool[s].next /\ FrameRoot(x) = 0 /\ FrameRoot(Head(stack)) = 0
  BY <1>1 DEF FrameRoot
<1>. HIDE DEF x
<1>4. Roots[OnReset] = s /\ StartsWith(Roots, Roots', OnReset, pool[s].next) /\ OnReset \in Names
  <2>1. Roots[OnReset] = s /\ Roots'[OnReset] = pool[s].next
    BY <1>1, <1>2, <1>3, GotoRoots
  <2>2. \A d \in 1 .. MaxDepth : Roots'[d] = Roots[d]
    BY <1>2, <1>3, GotoRoots
  <2>. QED
    BY <1>1, <1>2, <2>1, <2>2, RootIs, RootIsNext, NameFacts DEF StartsWith, lists
<1>. HIDE DEF s
<1>5. s \in Chain(pool, Roots[OnReset]) /\ pool[s].fn # NoFn
  BY <1>2, <1>4, ListHolds, SlotFacts DEF Safe
<1>6. Unlinked(s, s) = pool /\ HeadWithout(s, s) = pool[s].next
  BY DEF Unlinked, HeadWithout
<1>7. /\ Lists(pool', Roots') /\ Taken(OnReset, s)
      /\ last_freed' # 0 => pool'[last_freed'].fn = NoFn
  BY <1>1, <1>4, <1>5, <1>6, Removing
<1>8. Chain(pool', systick') = Chain(pool, systick)
  BY <1>2, <1>7, RootIs, RootIsNext, NameFacts DEF Taken, Shrunk, Aside
<1>9. Pointers'
  BY <1>2, <1>3, <1>8, PointersGoto DEF Safe
<1>. QED
  BY <1>1, <1>5, <1>7, <1>9 DEF Safe, s

-----------------------------------------------------------------------------
(* The invariant *)

LEMMA InitHolds == Init => IInv
<1>1. SUFFICES ASSUME Init PROVE IInv
  OBVIOUS
<1>2. /\ pool = [s \in Slot |-> Free] /\ immediate = 0 /\ delayed = 0 /\ systick = 0 /\ on_reset = 0
      /\ last_freed = 0 /\ last_ms = StartTick /\ lock = FALSE /\ stack = << >> /\ clock = 0
      /\ fault = FALSE /\ added = 0 /\ run = 0 /\ last = 0 /\ races = {}
  BY <1>1 DEF Init
<1>3. pool \in [Slot -> Entries] /\ \A s \in Slot : pool[s].fn = NoFn /\ pool[s].next = 0
  BY <1>2, FreeType
<1>4. stack \in Seq(Frames) /\ Len(stack) = 0
  BY <1>2
<1>5. TypeOK
  <2>1. /\ {immediate, delayed, systick, on_reset, last_freed} \subseteq Ptr
        /\ {lock, fault} \subseteq BOOLEAN
    BY <1>2, SlotFacts
  <2>2. /\ last_ms \in Ticks /\ clock \in 0 .. MaxTick /\ added \in 0 .. MaxAdds
        /\ Len(stack) <= MaxDepth /\ run \in Nat /\ last \in 0 .. MaxAdds
    BY <1>2, <1>4, TimeAssumption, BoundsAssumption DEF Ticks
  <2>3. races \subseteq {"reset_in_reset", "deleted_when_due", "systick_deletes"}
    BY <1>2
  <2>. QED
    BY <1>3, <1>4, <2>1, <2>2, <2>3 DEF TypeOK
<1>6. Calls
  BY <1>2, <1>4 DEF Calls
<1>7. \A n \in Names : Roots[n] = 0
  BY <1>2, <1>4, <1>5, RootIs, NameFacts DEF InReset
<1>8. \A n \in Names : Chain(pool, Roots[n]) = {}
  BY <1>5, <1>7, SlotFacts, ChainHolds, Typed
<1>9. Lists(pool, Roots)
  BY <1>3, <1>5, <1>7, <1>8, RootIs, Typed DEF Lists, Inj, NoPred
<1>10. Pointers
  BY <1>4 DEF Pointers
<1>. QED
  BY <1>2, <1>5, <1>6, <1>9, <1>10 DEF IInv, Safe

LEMMA FnsIn == Once \subseteq Fns /\ Timed \subseteq Fns
BY DEF Fns

LEMMA TypeStep ==
    ASSUME TypeOK, Calls, Next
    PROVE  TypeOK' /\ Calls'
<1>1. CASE \E fn \in Once : task_add_immediate(fn) \/ (Called /\ task_run_on_reset(fn))
  BY <1>1, FnsIn, AddImmediateType, AddResetType
<1>2. CASE \E fn \in Timed : \/ \E delay \in Delays : task_add_delayed(fn, delay)
                             \/ task_delete(fn)
                             \/ Called /\ task_add_systick(fn)
                             \/ task_delete_systick(fn)
  BY <1>2, FnsIn, AddDelayedType, DelType, AddSystickType, DelSystickType
<1>3. CASE task_execute
  BY <1>3, ExecuteType
<1>4. CASE Foreground
  BY <1>4, ExecuteType, RunImmediateType, ImmediateReturnsType, PollTickType, CallSystickType,
     SystickReturnsType, PollDueType, RunDelayedType, DelayedReturnsType, RunResetType,
     ResetReturnsType DEF Foreground
<1>5. CASE task_execute_on_startup
  BY <1>5, StartupType
<1>6. CASE Tick
  BY <1>6, TickType
<1>. QED
  BY <1>1, <1>2, <1>3, <1>4, <1>5, <1>6 DEF Next

\* A coincidence is remembered.
LEMMA RacesGrow ==
    ASSUME Next
    PROVE  races \subseteq races'
<1>1. CASE \E fn \in Once : task_add_immediate(fn) \/ (Called /\ task_run_on_reset(fn))
  BY <1>1 DEF task_add_immediate, task_run_on_reset
<1>2. CASE \E fn \in Timed : \/ \E delay \in Delays : task_add_delayed(fn, delay)
                             \/ task_delete(fn)
                             \/ Called /\ task_add_systick(fn)
                             \/ task_delete_systick(fn)
  <2>1. ASSUME NEW fn, NEW delay, task_add_delayed(fn, delay) PROVE UNCHANGED races
    BY <2>1, AddDelayedIs
  <2>2. ASSUME NEW fn, task_delete(fn) \/ task_add_systick(fn) \/ task_delete_systick(fn)
        PROVE  races \subseteq races'
    BY <2>2 DEF task_delete, task_add_systick, task_delete_systick
  <2>. QED
    BY <1>2, <2>1, <2>2
<1>3. CASE task_execute \/ task_execute_on_startup \/ Tick
  BY <1>3 DEF task_execute, task_execute_on_startup, Tick, history
<1>4. CASE Foreground
  BY <1>4 DEF Foreground, task_execute, RunImmediate, ImmediateReturns, PollTick, CallSystick,
     SystickReturns, PollDue, RunDelayed, DelayedReturns, RunReset, ResetReturns, task_run, Runs,
     history
<1>. QED
  BY <1>1, <1>2, <1>3, <1>4 DEF Next

LEMMA SafeStep ==
    ASSUME TypeOK, Calls, Safe, Next, NoRace'
    PROVE  Safe'
<1>1. CASE \E fn \in Once : task_add_immediate(fn) \/ (Called /\ task_run_on_reset(fn))
  BY <1>1, FnsIn, AddImmediateSafe, AddResetSafe
<1>2. CASE \E fn \in Timed : \/ \E delay \in Delays : task_add_delayed(fn, delay)
                             \/ task_delete(fn)
                             \/ Called /\ task_add_systick(fn)
                             \/ task_delete_systick(fn)
  BY <1>2, FnsIn, AddDelayedSafe, DeleteSafe, AddSystickSafe, DeleteSystickSafe
<1>3. CASE task_execute
  BY <1>3, ExecuteSafe
<1>4. CASE Foreground
  BY <1>4, ExecuteSafe, RunImmediateSafe, ImmediateReturnsSafe, PollTickSafe, CallSystickSafe,
     SystickReturnsSafe, PollDueSafe, RunDelayedSafe, DelayedReturnsSafe, RunResetSafe,
     ResetReturnsSafe DEF Foreground
<1>5. CASE task_execute_on_startup
  BY <1>5, StartupSafe
<1>6. CASE Tick
  BY <1>6, TickSafe
<1>. QED
  BY <1>1, <1>2, <1>3, <1>4, <1>5, <1>6 DEF Next

LEMMA InvStep == IInv /\ [Next]_vars => IInv'
<1>1. SUFFICES ASSUME IInv, [Next]_vars PROVE IInv'
  OBVIOUS
<1>2. CASE Next
  <2>1. TypeOK' /\ Calls'
    BY <1>1, <1>2, TypeStep DEF IInv
  <2>2. NoRace' => NoRace
    BY <1>2, RacesGrow DEF NoRace
  <2>3. NoRace' => Safe'
    BY <1>1, <1>2, <2>2, SafeStep DEF IInv
  <2>. QED
    BY <2>1, <2>3 DEF IInv
<1>3. CASE UNCHANGED vars
  <2>1. UNCHANGED << pool, immediate, delayed, systick, on_reset, last_freed, last_ms, lock, stack,
                     clock, fault, added, run, last, races >>
    BY <1>3 DEF vars, lists, history
  <2>2. TypeOK' /\ Calls' /\ (NoRace' <=> NoRace)
    BY <1>1, <2>1 DEF IInv, TypeOK, Calls, NoRace
  <2>3. Safe => Safe'
    BY <2>1 DEF Safe, Pointers, Roots, Root, FrameAt, InReset
  <2>. QED
    BY <1>1, <2>2, <2>3 DEF IInv
<1>. QED
  BY <1>1, <1>2, <1>3

\* The scheduler's lists are well formed: until a coincidence happens every list ends, no two
\* share an entry, the entries in use are exactly those on a list, the one remembered as freed
\* last is free, and the pointers task_execute holds across the tasks it calls and across
\* interrupts are to entries still on their lists.
THEOREM Invariant == Spec => []IInv
BY InitHolds, InvStep, PTL DEF Spec

-----------------------------------------------------------------------------
(* Results *)

\* The types of the pool, the list heads and the calls in progress are kept by every step
\* of the scheduler, the coincidences included.
THEOREM TypeCorrect == Spec => []TypeOK
<1>1. IInv => TypeOK
  BY DEF IInv
<1>. QED
  BY <1>1, Invariant, PTL

\* The lists of each kind.
NamesOf(kind) ==
    CASE kind = "immediate" -> {Immediate} \cup 1 .. MaxDepth
      [] kind = "delayed" -> {Delayed}
      [] kind = "systick" -> {Systick}
      [] kind = "on_reset" -> {OnReset}

LEMMA NamesApart ==
    /\ \A k \in Kinds : NamesOf(k) \subseteq Names
    /\ \A j, k \in Kinds : j # k => NamesOf(j) \cap NamesOf(k) = {}
    /\ \A n \in Names : \E k \in Kinds : n \in NamesOf(k)
<1>1. \A k \in Kinds : NamesOf(k) \subseteq Names
  BY NameFacts DEF NamesOf, Kinds
<1>2. \A j, k \in Kinds : j # k => NamesOf(j) \cap NamesOf(k) = {}
  BY NameFacts DEF NamesOf, Kinds
<1>3. \A n \in Names : \E k \in Kinds : n \in NamesOf(k)
  BY NameFacts DEF NamesOf, Kinds
<1>. QED
  BY <1>1, <1>2, <1>3

\* The immediate tasks are on their list or on one of a call.
LEMMA ImmediateOnList ==
    ASSUME TypeOK, Calls, NEW s
    PROVE  s \in OnList("immediate") <=> \E n \in NamesOf("immediate") : s \in Chain(pool, Roots[n])
<1>. DEFINE H == Held("imm") \cup Held("imm_fn")
<1>1. OnList("immediate") = Chain(pool, immediate) \cup UNION {Chain(pool, t) : t \in H}
  BY DEF OnList
<1>2. NamesOf("immediate") = {Immediate} \cup 1 .. MaxDepth /\ Roots[Immediate] = immediate
  BY RootIs DEF NamesOf
<1>3. stack \in Seq(Frames) /\ Len(stack) \in Nat /\ Len(stack) <= MaxDepth
  BY Typed
<1>4. ASSUME NEW t \in H PROVE \E d \in 1 .. MaxDepth : Roots[d] = t
  <2>1. PICK k \in 1 .. Len(stack) : stack[k].at \in {"imm", "imm_fn"} /\ t = stack[k].task
    BY <1>4 DEF Held
  <2>2. Len(stack) + 1 - k \in 1 .. Len(stack) /\ Len(stack) + 1 - k \in 1 .. MaxDepth
        /\ Len(stack) + 1 - (Len(stack) + 1 - k) = k
    BY <1>3, BoundsAssumption
  <2>3. Roots[Len(stack) + 1 - k] = FrameRoot(stack[k])
    BY <2>2, RootIs DEF FrameAt
  <2>. QED
    BY <2>1, <2>2, <2>3 DEF FrameRoot
<1>5. ASSUME NEW d \in 1 .. MaxDepth, Roots[d] # 0 PROVE Roots[d] \in H
  <2>1. d \in 1 .. Len(stack) /\ Roots[d] = FrameRoot(FrameAt(d))
    BY <1>5, RootIs
  <2>2. PICK k \in 1 .. Len(stack) : k = Len(stack) + 1 - d
    BY <1>3, <2>1
  <2>3. Roots[d] = FrameRoot(stack[k])
    BY <2>1, <2>2 DEF FrameAt
  <2>. QED
    BY <1>5, <2>3 DEF FrameRoot, Held
<1>6. \A d \in 1 .. MaxDepth : Roots[d] = 0 => Chain(pool, Roots[d]) = {}
  BY Typed, SlotFacts, ChainHolds
<1>. HIDE DEF H
<1>. QED
  BY <1>1, <1>2, <1>4, <1>5, <1>6

LEMMA OnListIs ==
    ASSUME TypeOK, Calls, NEW k \in Kinds, NEW s
    PROVE  s \in OnList(k) <=> \E n \in NamesOf(k) : s \in Chain(pool, Roots[n])
<1>1. CASE k = "immediate"
  BY <1>1, ImmediateOnList
<1>2. CASE k = "delayed"
  <2>1. OnList(k) = Chain(pool, delayed) /\ NamesOf(k) = {Delayed}
    BY <1>2 DEF OnList, NamesOf
  <2>. QED
    BY <2>1, RootIs
<1>3. CASE k = "systick"
  <2>1. OnList(k) = Chain(pool, systick) /\ NamesOf(k) = {Systick}
    BY <1>3 DEF OnList, NamesOf
  <2>. QED
    BY <2>1, RootIs
<1>4. CASE k = "on_reset"
  <2>1. NamesOf(k) = {OnReset}
        /\ OnList(k) = IF Held("reset_fn") = {} THEN Chain(pool, on_reset)
                       ELSE UNION {Chain(pool, t) : t \in Held("reset_fn")}
    BY <1>4 DEF OnList, NamesOf
  <2>2. OnList(k) = Chain(pool, Roots[OnReset])
    <3>1. Roots[OnReset] = IF InReset THEN FrameAt(1).task ELSE on_reset
      BY RootIs
    <3>2. CASE InReset
      <4>1. Held("reset_fn") = {FrameAt(1).task}
        BY <3>2, InResetHeld
      <4>2. OnList(k) = UNION {Chain(pool, t) : t \in {FrameAt(1).task}}
        BY <2>1, <4>1
      <4>. QED
        BY <3>1, <3>2, <4>2
    <3>3. CASE ~InReset
      BY <2>1, <3>1, <3>3, InResetHeld
    <3>. QED
      BY <3>2, <3>3
  <2>. QED
    BY <2>1, <2>2
<1>. QED
  BY <1>1, <1>2, <1>3, <1>4 DEF Kinds

\* Until a coincidence happens, no list shares an entry with another, every entry in use is
\* on one, and no freed entry is called: an entry is neither lost, nor handed out twice, nor
\* used after task_free, whatever interrupts add and delete between the steps of the
\* foreground and however deep task_execute is nested.
THEOREM Partitioned == Spec => []PoolPartitioned
<1>1. IInv => PoolPartitioned
  <2>1. SUFFICES ASSUME IInv, NoRace
                 PROVE
                 /\ ~fault
                 /\ \A j, k \in Kinds : j # k => OnList(j) \cap OnList(k) = {}
                 /\ UNION {OnList(k) : k \in Kinds} = {s \in Slot : pool[s].fn # NoFn}
    BY DEF PoolPartitioned
  <2>2. TypeOK /\ Calls /\ Safe
    BY <2>1 DEF IInv
  <2>3. Lists(pool, Roots) /\ ~fault
    BY <2>2 DEF Safe
  <2>4. ASSUME NEW j \in Kinds, NEW k \in Kinds, j # k, NEW s \in OnList(j) \cap OnList(k) PROVE FALSE
    <3>1. PICK m \in NamesOf(j), n \in NamesOf(k) : s \in Chain(pool, Roots[m]) \cap Chain(pool, Roots[n])
      BY <2>2, <2>4, OnListIs
    <3>2. m \in Names /\ n \in Names /\ m # n
      BY <2>4, NamesApart
    <3>. QED
      BY <2>3, <3>1, <3>2, Apart
  <2>5. ASSUME NEW s
        PROVE  s \in UNION {OnList(k) : k \in Kinds} <=> s \in Slot /\ pool[s].fn # NoFn
    <3>1. s \in UNION {OnList(k) : k \in Kinds} <=> \E n \in Names : s \in Chain(pool, Roots[n])
      BY <2>2, OnListIs, NamesApart
    <3>2. (\E n \in Names : s \in Chain(pool, Roots[n])) => s \in Slot
      BY <2>3, ListHolds
    <3>3. s \in Slot => (pool[s].fn # NoFn <=> \E n \in Names : s \in Chain(pool, Roots[n]))
      BY <2>3 DEF Lists
    <3>. QED
      BY <3>1, <3>2, <3>3
  <2>6. UNION {OnList(k) : k \in Kinds} = {s \in Slot : pool[s].fn # NoFn}
    BY <2>5
  <2>. QED
    BY <2>3, <2>4, <2>6
<1>. QED
  BY <1>1, Invariant, PTL

-----------------------------------------------------------------------------
(* The order of the delayed tasks *)

Tick0(c) == (StartTick + c) % TimeMod

\* Every task has a stamp of its own.
Stamps ==
    \A s \in Slot : pool[s].fn # NoFn =>
        /\ pool[s].id <= added
        /\ \A t \in Slot \ {s} : pool[t].fn # NoFn => pool[t].id # pool[s].id

\* The delayed tasks are in the order of their times, on the wrapping clock.
Sorted ==
    \A s \in Chain(pool, delayed) :
        /\ pool[s].time = Tick0(pool[s].due)
        /\ pool[s].next # 0 => pool[s].due <= pool[pool[s].next].due

\* The tick a call has read is not ahead.
Reading == {"systick", "systick_fn", "poll_due", "window", "delayed_fn"}
WasTick(t) == \E c \in 0 .. clock : t = Tick0(c)
TicksRead == \A k \in 1 .. Len(stack) : stack[k].at \in Reading => WasTick(stack[k].now)

\* The task a call has found due is, and is the first.
FoundDue ==
    stack # << >> /\ Head(stack).at = "window" =>
        /\ pool[Head(stack).task].due <= clock
        /\ \A u \in Chain(pool, delayed) : pool[Head(stack).task].due <= pool[u].due

Reads == TicksRead /\ FoundDue
Ordered == Stamps /\ Sorted /\ Reads

\* Remainders near zero.
LEMMA ModNear ==
    ASSUME NEW m \in Nat \ {0}, NEW x \in Int
    PROVE  /\ 0 <= x /\ x < m => x % m = x
           /\ m <= x /\ x < m + m => x % m = x - m
           /\ -m <= x /\ x < 0 => x % m = x + m
<1>1. /\ x % m \in 0 .. m - 1 /\ x = m * (x \div m) + (x % m) /\ (x \div m) \in Int
  OBVIOUS
<1>2. PICK d \in Int : d = x \div m
  BY <1>1
<1>3. PICK e \in 0 .. m - 1 : e = x % m
  BY <1>1
<1>4. x = m * d + e
  BY <1>1, <1>2, <1>3
<1>5. ASSUME d <= -2 PROVE m * d <= -(m + m)
  BY <1>5
<1>6. ASSUME d >= 2 PROVE m * d >= m + m
  BY <1>6
<1>7. d = 0 => m * d = 0
  OBVIOUS
<1>8. d = 1 => m * d = m
  OBVIOUS
<1>9. d = -1 => m * d = -m
  OBVIOUS
<1>10. d <= -2 \/ d = -1 \/ d = 0 \/ d = 1 \/ d >= 2
  OBVIOUS
<1>11. PICK z \in Int : z = m * d
  OBVIOUS
<1>12. /\ 0 <= x /\ x < m => e = x
       /\ m <= x /\ x < m + m => e = x - m
       /\ -m <= x /\ x < 0 => e = x + m
  BY <1>4, <1>5, <1>6, <1>7, <1>8, <1>9, <1>10, <1>11
<1>. QED
  BY <1>3, <1>12

\* Half the range of the tick counter is enough to tell which of two times is later.
LEMMA LaterIs ==
    ASSUME NEW a \in 0 .. MaxTick, NEW b \in 0 .. MaxTick
    PROVE  Later(Tick0(a), Tick0(b)) = a - b
<1>1. /\ TimeMod \in Nat \ {0} /\ MaxTick \in Nat /\ StartTick \in 0 .. TimeMod - 1
      /\ TimeMod \div 2 \in Nat /\ TimeMod = 2 * (TimeMod \div 2) /\ MaxTick < TimeMod \div 2
  BY TimeAssumption, BoundsAssumption, ClockAssumption
<1>2. PICK h \in Nat : h = TimeMod \div 2
  BY <1>1
<1>3. PICK x \in Int : /\ x = Tick0(a)
                       /\ x = IF StartTick + a < TimeMod THEN StartTick + a ELSE StartTick + a - TimeMod
  <2>1. PICK t \in Int : t = StartTick + a
    BY <1>1
  <2>2. 0 <= t /\ t < TimeMod + TimeMod
    BY <1>1, <1>2, <2>1
  <2>3. t % TimeMod = IF t < TimeMod THEN t ELSE t - TimeMod
    <3>1. /\ 0 <= t /\ t < TimeMod => t % TimeMod = t
          /\ TimeMod <= t /\ t < TimeMod + TimeMod => t % TimeMod = t - TimeMod
          /\ -TimeMod <= t /\ t < 0 => t % TimeMod = t + TimeMod
      BY <1>1, ModNear, Zenon
    <3>. QED
      BY <1>1, <2>2, <3>1
  <2>. QED
    BY <1>1, <2>1, <2>3 DEF Tick0
<1>4. PICK y \in Int : /\ y = Tick0(b)
                       /\ y = IF StartTick + b < TimeMod THEN StartTick + b ELSE StartTick + b - TimeMod
  <2>1. PICK t \in Int : t = StartTick + b
    BY <1>1
  <2>2. 0 <= t /\ t < TimeMod + TimeMod
    BY <1>1, <1>2, <2>1
  <2>3. t % TimeMod = IF t < TimeMod THEN t ELSE t - TimeMod
    <3>1. /\ 0 <= t /\ t < TimeMod => t % TimeMod = t
          /\ TimeMod <= t /\ t < TimeMod + TimeMod => t % TimeMod = t - TimeMod
          /\ -TimeMod <= t /\ t < 0 => t % TimeMod = t + TimeMod
      BY <1>1, ModNear, Zenon
    <3>. QED
      BY <1>1, <2>2, <3>1
  <2>. QED
    BY <1>1, <2>1, <2>3 DEF Tick0
<1>5. x - y \in {a - b, a - b + TimeMod, a - b - TimeMod} /\ -TimeMod <= x - y /\ x - y < TimeMod
  BY <1>1, <1>2, <1>3, <1>4
<1>6. a - b < h /\ a - b > -h
  BY <1>1, <1>2
<1>7. (x - y) % TimeMod = IF a - b >= 0 THEN a - b ELSE a - b + TimeMod
  <2>1. (x - y) % TimeMod = IF x - y < 0 THEN x - y + TimeMod ELSE x - y
    <3>1. PICK t \in Int : t = x - y
      OBVIOUS
    <3>2. t % TimeMod = IF t < 0 THEN t + TimeMod ELSE t
      <4>1. /\ 0 <= t /\ t < TimeMod => t % TimeMod = t
            /\ TimeMod <= t /\ t < TimeMod + TimeMod => t % TimeMod = t - TimeMod
            /\ -TimeMod <= t /\ t < 0 => t % TimeMod = t + TimeMod
        BY <1>1, ModNear, Zenon
      <4>. QED
        BY <1>1, <1>5, <3>1, <4>1
    <3>. QED
      BY <3>1, <3>2
  <2>. QED
    BY <1>1, <1>2, <1>5, <1>6, <2>1
<1>8. Signed(x - y) = a - b
  <2>1. PICK m \in Int : m = (x - y) % TimeMod /\ m = IF a - b >= 0 THEN a - b ELSE a - b + TimeMod
    BY <1>1, <1>7
  <2>2. Signed(x - y) = IF m >= h THEN m - TimeMod ELSE m
    BY <1>2, <2>1 DEF Signed
  <2>. QED
    BY <1>1, <1>2, <1>6, <2>1, <2>2
<1>. QED
  BY <1>3, <1>4, <1>8 DEF Later

-----------------------------------------------------------------------------
(* What a new entry says *)

NewData(s, fn, time, due) ==
    /\ pool'[s].fn = fn /\ pool'[s].id = added + 1 /\ pool'[s].time = time /\ pool'[s].due = due
    /\ SameData(s)

LEMMA SetNextData ==
    ASSUME NEW p \in Pools, NEW t, NEW s \in Ptr, NEW q, q = SetNext(p, t, s), NEW u \in Slot
    PROVE  /\ q \in Pools
           /\ q[u].fn = p[u].fn /\ q[u].id = p[u].id /\ q[u].time = p[u].time /\ q[u].due = p[u].due
<1>1. /\ q \in Pools /\ (u # t => q[u] = p[u])
      /\ t \in Slot => /\ q[t].fn = p[t].fn /\ q[t].id = p[t].id
                       /\ q[t].time = p[t].time /\ q[t].due = p[t].due
  BY NextSet
<1>. QED
  BY <1>1

LEMMA NewDataFrom ==
    ASSUME TypeOK, added < MaxAdds, NEW s \in Slot, NEW fn \in Fns, NEW time \in Ticks,
           NEW due \in 0 .. MaxTick,
           \A u \in Slot : /\ pool'[u].fn = NewTask(s, fn, time, due)[u].fn
                           /\ pool'[u].id = NewTask(s, fn, time, due)[u].id
                           /\ pool'[u].time = NewTask(s, fn, time, due)[u].time
                           /\ pool'[u].due = NewTask(s, fn, time, due)[u].due
    PROVE  NewData(s, fn, time, due)
<1>1. PICK p : p = NewTask(s, fn, time, due)
  OBVIOUS
<1>2. /\ p[s] = [fn |-> fn, id |-> added + 1, time |-> time, due |-> due, next |-> 0]
      /\ \A u \in Slot \ {s} : p[u] = pool[u]
  BY <1>1, NewTaskIs
<1>3. \A u \in Slot : /\ pool'[u].fn = p[u].fn /\ pool'[u].id = p[u].id
                      /\ pool'[u].time = p[u].time /\ pool'[u].due = p[u].due
  BY <1>1
<1>4. p[s].fn = fn /\ p[s].id = added + 1 /\ p[s].time = time /\ p[s].due = due
  BY <1>2
<1>. QED
  BY <1>2, <1>3, <1>4 DEF NewData, SameData

LEMMA AppendedData ==
    ASSUME TypeOK, NEW s, s = task_alloc, Accepting(s), NEW h, NEW fn \in Fns,
           pool' = Appended(NewTask(s, fn, 0, 0), h, s)
    PROVE  NewData(s, fn, 0, 0)
<1>1. s \in Slot /\ added < MaxAdds /\ s \in Ptr /\ 0 \in Ticks /\ 0 \in 0 .. MaxTick
  BY AcceptingType, SlotFacts, Typed, BoundsAssumption
<1>2. PICK p : p = NewTask(s, fn, 0, 0)
  OBVIOUS
<1>3. p \in Pools
  BY <1>1, <1>2, NewTaskIs
<1>4. \A u \in Slot : /\ pool'[u].fn = p[u].fn /\ pool'[u].id = p[u].id
                      /\ pool'[u].time = p[u].time /\ pool'[u].due = p[u].due
  <2>1. CASE h = 0
    BY <1>2, <2>1 DEF Appended
  <2>2. CASE h # 0
    <3>1. PICK t : pool' = SetNext(p, t, s)
      BY <1>2, <2>2 DEF Appended
    <3>. QED
      BY <1>1, <1>3, <3>1, SetNextData
  <2>. QED
    BY <2>1, <2>2
<1>. QED
  BY <1>1, <1>2, <1>4, NewDataFrom

LEMMA DelayedData ==
    ASSUME TypeOK, Safe, NEW fn \in Fns, NEW delay \in Delays, task_add_delayed(fn, delay)
    PROVE  NewData(task_alloc, fn, DueTime(delay), clock + delay)
<1>. DEFINE s == task_alloc
            time == DueTime(delay)
            p == NewTask(s, fn, time, clock + delay)
<1>1. /\ clock + delay < MaxTick /\ Accepting(s)
      /\ \/ /\ Front(time) /\ delayed' = s /\ pool' = SetNext(p, s, delayed)
         \/ /\ ~Front(time) /\ After(p, time) # 0
            /\ pool' = SetNext(SetNext(p, s, p[After(p, time)].next), After(p, time), s)
            /\ UNCHANGED delayed
  BY AddDelayedIs
<1>2. s \in Slot /\ added < MaxAdds /\ s \in Ptr /\ delayed \in Ptr
  BY <1>1, AcceptingType, SlotFacts, Typed
<1>3. time \in Ticks /\ clock + delay \in 0 .. MaxTick
  BY <1>1, DueTimeType
<1>4. p \in Pools
  BY <1>2, <1>3, NewTaskIs
<1>5. /\ s = task_alloc /\ p = NewTask(s, fn, time, clock + delay)
      /\ time = DueTime(delay)
  OBVIOUS
<1>. HIDE DEF s, time, p
<1>6. \A u \in Slot : /\ pool'[u].fn = p[u].fn /\ pool'[u].id = p[u].id
                      /\ pool'[u].time = p[u].time /\ pool'[u].due = p[u].due
  <2>1. CASE pool' = SetNext(p, s, delayed)
    BY <1>2, <1>4, <2>1, SetNextData
  <2>2. CASE pool' = SetNext(SetNext(p, s, p[After(p, time)].next), After(p, time), s)
            /\ After(p, time) # 0
    <3>1. PICK t \in Slot : t = After(p, time)
      <4>1. After(p, time) \in Ptr
        BY <1>2, <1>4, PoolNexts, FirstIs DEF After
      <4>. QED
        BY <2>2, <4>1, SlotFacts
    <3>2. PICK x \in Ptr : x = p[t].next
      BY <1>4, <3>1, PoolNexts
    <3>3. PICK q : q = SetNext(p, s, x)
      OBVIOUS
    <3>4. pool' = SetNext(q, t, s)
      BY <2>2, <3>1, <3>2, <3>3
    <3>5. q \in Pools
      BY <1>4, <3>2, <3>3, NextSet
    <3>6. \A u \in Slot : /\ q[u].fn = p[u].fn /\ q[u].id = p[u].id
                          /\ q[u].time = p[u].time /\ q[u].due = p[u].due
      BY <1>4, <3>2, <3>3, SetNextData
    <3>7. \A u \in Slot : /\ pool'[u].fn = q[u].fn /\ pool'[u].id = q[u].id
                          /\ pool'[u].time = q[u].time /\ pool'[u].due = q[u].due
      BY <1>2, <3>4, <3>5, SetNextData
    <3>. QED
      BY <3>6, <3>7
  <2>. QED
    BY <1>1, <2>1, <2>2
<1>7. NewData(s, fn, time, clock + delay)
  BY <1>2, <1>3, <1>5, <1>6, NewDataFrom
<1>. QED
  BY <1>5, <1>7

-----------------------------------------------------------------------------
(* Sorted lists *)

\* The first delayed task is the one due first.
LEMMA HeadFirst ==
    ASSUME TypeOK, Safe, Sorted, delayed # 0
    PROVE  delayed \in Slot /\ \A u \in Chain(pool, delayed) : pool[delayed].due <= pool[u].due
<1>1. delayed \in Slot /\ Nexts(pool) /\ delayed \in Ptr
  BY Typed, SlotFacts
<1>2. /\ Chain(pool, delayed) \subseteq Slot /\ delayed \in Chain(pool, delayed)
      /\ \A s \in Chain(pool, delayed) : pool[s].next # 0 => pool[s].next \in Chain(pool, delayed)
  BY <1>1, ChainHolds
<1>3. \A s \in Slot : pool[s].due \in Int
  BY BoundsAssumption DEF TypeOK, Entries
<1>. DEFINE C == {u \in Chain(pool, delayed) : pool[delayed].due <= pool[u].due}
<1>4. Closed(pool, C)
  <2>1. SUFFICES ASSUME NEW u \in C, pool[u].next # 0 PROVE pool[u].next \in C
    BY DEF Closed
  <2>2. pool[u].next \in Chain(pool, delayed) /\ pool[u].due <= pool[pool[u].next].due
    BY <1>2, <2>1 DEF Sorted
  <2>3. pool[delayed].due <= pool[pool[u].next].due
    BY <1>1, <1>2, <1>3, <2>1, <2>2
  <2>. QED
    BY <2>2, <2>3
<1>5. C \in SUBSET Slot /\ delayed \in C
  BY <1>1, <1>2, <1>3
<1>6. Chain(pool, delayed) \subseteq C
  <2>. HIDE DEF C
  <2>. QED
    BY <1>4, <1>5, ChainLeast
<1>. QED
  BY <1>1, <1>6

\* An entry is not behind the one that follows it.
LEMMA NoBack ==
    ASSUME NEW p, Nexts(p), Inj(p), NEW h \in Ptr, NoPred(p, h), NEW t \in Chain(p, h), t # h,
           NEW b \in Chain(p, h), p[b].next = t
    PROVE  b \notin Chain(p, t)
<1>1. SUFFICES ASSUME b \in Chain(p, t) PROVE FALSE
  OBVIOUS
<1>2. h \in Slot /\ Chain(p, h) \subseteq Slot /\ t \in Slot /\ t \in Ptr /\ t # 0 /\ h \in Chain(p, h)
      /\ \A s \in Chain(p, h) : p[s].next # 0 => p[s].next \in Chain(p, h)
  <2>1. Chain(p, h) \subseteq Slot /\ h # 0
    BY ChainHolds
  <2>. QED
    BY <2>1, ChainHolds, SlotFacts
<1>3. Chain(p, t) \subseteq Slot /\ t \in Chain(p, t)
  BY <1>2, ChainHolds
<1>. DEFINE C == Chain(p, h) \ Chain(p, t)
<1>4. h \in C
  <2>1. SUFFICES ASSUME h \in Chain(p, t) PROVE FALSE
    BY <1>2
  <2>2. PICK u \in Chain(p, t) : p[u].next = h
    BY <1>2, <2>1, BeforeExists
  <2>. QED
    BY <1>2, <1>3, <2>2, SlotFacts DEF NoPred
<1>5. Closed(p, C)
  <2>1. SUFFICES ASSUME NEW u \in C, p[u].next # 0, p[u].next \in Chain(p, t) PROVE FALSE
    BY <1>2 DEF Closed
  <2>2. CASE p[u].next = t
    BY <1>1, <1>2, <2>1, <2>2 DEF Inj
  <2>3. CASE p[u].next # t
    <3>1. PICK w \in Chain(p, t) : p[w].next = p[u].next
      BY <1>2, <2>1, <2>3, BeforeExists
    <3>2. w = u
      BY <1>2, <1>3, <2>1, <3>1 DEF Inj
    <3>. QED
      BY <2>1, <3>1, <3>2
  <2>. QED
    BY <2>2, <2>3
<1>6. Chain(p, h) \subseteq C
  <2>1. C \in SUBSET Slot
    BY <1>2
  <2>. HIDE DEF C
  <2>. QED
    BY <1>4, <1>5, <2>1, ChainLeast
<1>. QED
  BY <1>3, <1>6

-----------------------------------------------------------------------------
(* The order is kept *)

LEMMA Numbers ==
    ASSUME TypeOK
    PROVE  /\ \A s \in Slot : pool[s].due \in 0 .. MaxTick /\ pool[s].due \in Int /\ pool[s].id \in Int
           /\ clock \in 0 .. MaxTick /\ clock \in Nat /\ added \in Nat
BY BoundsAssumption DEF TypeOK, Entries

LEMMA NumbersNext ==
    ASSUME TypeOK'
    PROVE  /\ \A s \in Slot : pool'[s].due \in 0 .. MaxTick /\ pool'[s].due \in Int /\ pool'[s].id \in Int
           /\ clock' \in 0 .. MaxTick /\ clock' \in Nat /\ added' \in Nat
BY BoundsAssumption DEF TypeOK, Entries

\* The time of a new task, on the wrapping clock.
LEMMA DueTimeIs ==
    ASSUME TypeOK, NEW delay \in Delays, clock + delay < MaxTick
    PROVE  DueTime(delay) = Tick0(clock + delay)
<1>1. /\ TimeMod \in Nat \ {0} /\ MaxTick \in Nat /\ StartTick \in 0 .. TimeMod - 1
      /\ TimeMod \div 2 \in Nat /\ TimeMod = 2 * (TimeMod \div 2) /\ MaxTick < TimeMod \div 2
  BY TimeAssumption, BoundsAssumption, ClockAssumption
<1>2. MaxTick < TimeMod
  BY <1>1
<1>3. clock \in Nat /\ delay \in Nat
  BY Numbers, DueTimeType
<1>4. PICK a \in Int : a = StartTick + clock
  BY <1>1, <1>3
<1>5. a % TimeMod = IF a < TimeMod THEN a ELSE a - TimeMod
  <2>1. /\ 0 <= a /\ a < TimeMod => a % TimeMod = a
        /\ TimeMod <= a /\ a < TimeMod + TimeMod => a % TimeMod = a - TimeMod
        /\ -TimeMod <= a /\ a < 0 => a % TimeMod = a + TimeMod
    BY <1>1, ModNear, Zenon
  <2>. QED
    BY <1>1, <1>2, <1>3, <1>4, <2>1
<1>6. PICK b \in Int : b = a + delay
  BY <1>3
<1>7. /\ 0 <= b /\ b < TimeMod => b % TimeMod = b
      /\ TimeMod <= b /\ b < TimeMod + TimeMod => b % TimeMod = b - TimeMod
      /\ -TimeMod <= b /\ b < 0 => b % TimeMod = b + TimeMod
  BY <1>1, ModNear, Zenon
<1>8. PICK c \in Int : c = b - TimeMod
  BY <1>1
<1>9. /\ 0 <= c /\ c < TimeMod => c % TimeMod = c
      /\ TimeMod <= c /\ c < TimeMod + TimeMod => c % TimeMod = c - TimeMod
      /\ -TimeMod <= c /\ c < 0 => c % TimeMod = c + TimeMod
  BY <1>1, ModNear, Zenon
<1>10. ((a % TimeMod) + delay) % TimeMod = b % TimeMod
  <2>1. CASE a < TimeMod
    BY <1>5, <1>6, <2>1
  <2>2. CASE a >= TimeMod
    <3>1. (a % TimeMod) + delay = c
      BY <1>1, <1>3, <1>5, <1>6, <1>8, <2>2
    <3>2. 0 <= c /\ c < TimeMod /\ b < TimeMod + TimeMod /\ TimeMod <= b
      BY <1>1, <1>2, <1>3, <1>4, <1>6, <1>8, <2>2
    <3>3. c % TimeMod = c /\ b % TimeMod = c
      BY <1>1, <1>7, <1>8, <1>9, <3>2
    <3>. QED
      BY <3>1, <3>3
  <2>. QED
    BY <1>1, <2>1, <2>2
<1>11. StartTick + (clock + delay) = b
  BY <1>1, <1>3, <1>4, <1>6
<1>. QED
  BY <1>4, <1>10, <1>11 DEF DueTime, Now, Tick0

LEMMA StampsGrow ==
    ASSUME TypeOK, Stamps, NEW s \in Slot, NEW fn, NEW time, NEW due, NewData(s, fn, time, due),
           added' = added + 1
    PROVE  Stamps'
<1>1. \A u \in Slot : pool[u].id \in Int
  BY Numbers
<1>2. added \in Nat
  BY Numbers
<1>3. /\ pool'[s].id = added + 1
      /\ \A u \in Slot \ {s} : pool'[u].fn = pool[u].fn /\ pool'[u].id = pool[u].id
  BY DEF NewData, SameData
<1>. QED
  BY <1>1, <1>2, <1>3 DEF Stamps

LEMMA StampsShrink ==
    ASSUME TypeOK, Stamps, NEW s \in Slot, SameData(s), pool'[s].fn = NoFn, added' = added
    PROVE  Stamps'
BY DEF Stamps, SameData

\* The list of delayed tasks stays as it is.
SameDelayed ==
    /\ Chain(pool', delayed') = Chain(pool, delayed)
    /\ \A u \in Chain(pool, delayed) : /\ pool'[u].next = pool[u].next /\ pool'[u].time = pool[u].time
                                       /\ pool'[u].due = pool[u].due

LEMMA DelayedHolds ==
    ASSUME TypeOK, Safe
    PROVE  /\ Chain(pool, delayed) \subseteq Slot
           /\ delayed \in Ptr /\ (delayed # 0 => delayed \in Slot /\ delayed \in Chain(pool, delayed))
           /\ \A u \in Chain(pool, delayed) : pool[u].next # 0 => pool[u].next \in Chain(pool, delayed)
           /\ Roots[Delayed] = delayed /\ Delayed \in Names
           /\ Nexts(pool) /\ Inj(pool) /\ NoPred(pool, delayed)
<1>1. Roots[Delayed] = delayed /\ Delayed \in Names /\ Lists(pool, Roots)
  BY RootIs, NameFacts DEF Safe
<1>2. Nexts(pool) /\ Inj(pool) /\ NoPred(pool, delayed)
  BY <1>1 DEF Lists
<1>. QED
  BY <1>1, <1>2, Typed, SlotFacts, ChainHolds

LEMMA SortedSame ==
    ASSUME TypeOK, Safe, Sorted, SameDelayed
    PROVE  Sorted'
<1>1. \A u \in Chain(pool, delayed) : pool[u].next # 0 => pool[u].next \in Chain(pool, delayed)
  BY DelayedHolds
<1>2. SUFFICES ASSUME NEW s \in Chain(pool', delayed')
               PROVE  /\ pool'[s].time = Tick0(pool'[s].due)
                      /\ pool'[s].next # 0 => pool'[s].due <= pool'[pool'[s].next].due
  BY DEF Sorted, Tick0
<1>3. s \in Chain(pool, delayed) /\ pool'[s].time = pool[s].time /\ pool'[s].due = pool[s].due
      /\ pool'[s].next = pool[s].next
  BY <1>2 DEF SameDelayed
<1>4. pool[s].next # 0 => pool'[pool[s].next].due = pool[pool[s].next].due
  BY <1>1, <1>3 DEF SameDelayed
<1>5. /\ pool[s].time = Tick0(pool[s].due)
      /\ pool[s].next # 0 => pool[s].due <= pool[pool[s].next].due
  BY <1>3 DEF Sorted
<1>. QED
  BY <1>3, <1>4, <1>5

LEMMA DelayedAside ==
    ASSUME TypeOK, TypeOK', Safe, NEW n \in Names, n # Delayed,
           Aside(pool, Roots, pool', Roots', n), NEW s, s \notin Chain(pool, delayed), SameData(s)
    PROVE  SameDelayed
<1>1. Roots'[Delayed] = delayed' /\ Roots[Delayed] = delayed /\ Delayed \in Names
      /\ Chain(pool, delayed) \subseteq Slot
  BY DelayedHolds, RootIsNext
<1>2. Chain(pool', delayed') = Chain(pool, delayed) /\ \A u \in Chain(pool, delayed) : pool'[u].next = pool[u].next
  BY <1>1 DEF Aside
<1>. QED
  BY <1>1, <1>2 DEF SameDelayed, SameData

LEMMA SortedTaken ==
    ASSUME TypeOK, TypeOK', Safe, Safe', Sorted, NEW s, Taken(Delayed, s)
    PROVE  /\ Sorted'
           /\ Chain(pool', delayed') \subseteq Chain(pool, delayed) \ {s}
           /\ \A u \in Chain(pool, delayed) \ {s} : pool'[u].due = pool[u].due
<1>1. /\ Chain(pool, delayed) \subseteq Slot /\ Roots[Delayed] = delayed /\ Delayed \in Names
      /\ \A u \in Chain(pool, delayed) : pool[u].next # 0 => pool[u].next \in Chain(pool, delayed)
  BY DelayedHolds
<1>2. Roots'[Delayed] = delayed'
  BY RootIsNext
<1>3. Chain(pool', delayed') = Chain(pool, delayed) \ {s} /\ s \in Chain(pool, delayed)
  BY <1>1, <1>2 DEF Taken, Shrunk
<1>4. \A u \in Chain(pool', delayed') : pool'[u].next # 0 => pool'[u].next \in Chain(pool', delayed')
  <2>1. Nexts(pool') /\ delayed' \in Ptr
    <3>1. Lists(pool', Roots')
      BY DEF Safe
    <3>. QED
      BY <3>1 DEF Lists, TypeOK
  <2>. QED
    BY <2>1, ChainHolds
<1>5. \A u \in Slot \ {s} : pool'[u].time = pool[u].time /\ pool'[u].due = pool[u].due
  BY DEF Taken, SameData
<1>6. \A u \in Slot : pool[u].due \in Int
  BY Numbers
<1>7. SUFFICES ASSUME NEW u \in Chain(pool', delayed')
               PROVE  /\ pool'[u].time = Tick0(pool'[u].due)
                      /\ pool'[u].next # 0 => pool'[u].due <= pool'[pool'[u].next].due
  BY <1>1, <1>3, <1>5 DEF Sorted, Tick0
<1>8. u \in Chain(pool, delayed) /\ u # s /\ u \in Slot /\ s \in Slot
  BY <1>1, <1>3, <1>7
<1>9. pool'[u].time = Tick0(pool'[u].due)
  BY <1>5, <1>8 DEF Sorted
<1>10. ASSUME pool'[u].next # 0 PROVE pool'[u].due <= pool'[pool'[u].next].due
  <2>1. PICK v : v = pool'[u].next
    OBVIOUS
  <2>2. v \in Chain(pool, delayed) /\ v # s /\ v \in Slot /\ v # 0
    BY <1>1, <1>3, <1>4, <1>7, <1>10, <2>1
  <2>3. pool'[v].due = pool[v].due /\ pool'[u].due = pool[u].due
    BY <1>5, <1>8, <2>2
  <2>4. CASE pool'[u].next = pool[u].next
    BY <1>8, <2>1, <2>2, <2>3, <2>4 DEF Sorted
  <2>5. CASE pool'[u].next # pool[u].next
    <3>1. PICK t \in Chain(pool, delayed) : CutBehind(pool, pool', t, s)
      BY <1>1, <1>8, <2>5 DEF Taken, Freed
    <3>2. u = t /\ pool[u].next = s /\ v = pool[s].next
      BY <1>8, <2>1, <2>5, <3>1 DEF CutBehind
    <3>3. s # 0
      BY <1>8, SlotFacts
    <3>4. pool[u].due <= pool[s].due /\ pool[s].due <= pool[v].due
      BY <1>3, <1>8, <2>2, <3>2, <3>3 DEF Sorted
    <3>5. pool[u].due <= pool[v].due
      BY <1>6, <1>8, <2>2, <3>4
    <3>. QED
      BY <2>1, <2>3, <3>5
  <2>. QED
    BY <2>4, <2>5
<1>. QED
  BY <1>9, <1>10

\* Where the search for the place of a new delayed task ends.
LEMMA PlaceFound ==
    ASSUME TypeOK, Safe, Sorted, NEW s \in Slot, pool[s].fn = NoFn, NEW p \in Pools,
           \A u \in Slot \ {s} : p[u] = pool[u], NEW due \in 0 .. MaxTick,
           ~Front(Tick0(due)), After(p, Tick0(due)) # 0
    PROVE  LET t == After(p, Tick0(due))
           IN  /\ t \in Chain(pool, delayed) /\ pool[t].due <= due
               /\ pool[t].next # 0 => due <= pool[pool[t].next].due
<1>1. /\ Chain(pool, delayed) \subseteq Slot /\ Roots[Delayed] = delayed /\ Delayed \in Names
      /\ delayed \in Ptr /\ Nexts(pool) /\ Inj(pool) /\ NoPred(pool, delayed)
      /\ \A u \in Chain(pool, delayed) : pool[u].next # 0 => pool[u].next \in Chain(pool, delayed)
  BY DelayedHolds
<1>2. Chain(p, delayed) = Chain(pool, delayed) /\ s \notin Chain(pool, delayed)
  BY <1>1, NewTaskApart
<1>3. delayed # 0 /\ delayed \in Chain(pool, delayed) /\ ~(Later(Tick0(due), pool[delayed].time) <= 0)
  BY DelayedHolds DEF Front
<1>4. \A u \in Chain(pool, delayed) : Later(Tick0(due), pool[u].time) = due - pool[u].due
  BY <1>1, Numbers, LaterIs DEF Sorted
<1>5. \A u \in Slot : pool[u].due \in Int
  BY Numbers
<1>. DEFINE T == {t \in Slot : p[t].next = 0 \/ Later(Tick0(due), p[p[t].next].time) < 0}
<1>6. PICK t : t = After(p, Tick0(due)) /\ t = First(p, delayed, T)
  BY DEF After
<1>7. \A u \in Chain(pool, delayed) : u \in T <=> pool[u].next = 0 \/ due < pool[pool[u].next].due
  <2>1. SUFFICES ASSUME NEW u \in Chain(pool, delayed)
                 PROVE  u \in T <=> pool[u].next = 0 \/ due < pool[pool[u].next].due
    OBVIOUS
  <2>2. u \in Slot /\ p[u] = pool[u]
    BY <1>1, <1>2, <2>1
  <2>3. CASE pool[u].next = 0
    BY <2>2, <2>3
  <2>4. CASE pool[u].next # 0
    <3>1. PICK v \in Chain(pool, delayed) : v = pool[u].next
      BY <1>1, <2>1, <2>4
    <3>2. p[v] = pool[v] /\ v \in Slot
      BY <1>1, <1>2, <3>1
    <3>3. u \in T <=> Later(Tick0(due), pool[v].time) < 0
      BY <2>2, <2>4, <3>1, <3>2
    <3>4. Later(Tick0(due), pool[v].time) = due - pool[v].due
      BY <1>4, <3>1
    <3>5. pool[v].due \in Int /\ due \in Int
      BY <1>5, <3>2
    <3>6. u \in T <=> due < pool[v].due
      <4>. HIDE DEF T
      <4>. QED
        BY <3>3, <3>4, <3>5
    <3>. QED
      BY <2>4, <3>1, <3>6
  <2>. QED
    BY <2>3, <2>4
<1>. HIDE DEF T
<1>8. /\ t \in Chain(pool, delayed) \cap T
      /\ Chain(pool, delayed) \cap T \subseteq Chain(p, t)
  <2>1. Nexts(p) /\ First(p, delayed, T) # 0
    BY <1>6, PoolNexts
  <2>2. /\ First(p, delayed, T) \in Chain(p, delayed) \cap T
        /\ Chain(p, delayed) \cap T \subseteq Chain(p, First(p, delayed, T))
    BY <1>1, <2>1, FirstIs
  <2>. QED
    BY <1>2, <1>6, <2>2
<1>9. pool[t].next # 0 => due <= pool[pool[t].next].due
  <2>1. ASSUME pool[t].next # 0 PROVE due <= pool[pool[t].next].due
    <3>1. due < pool[pool[t].next].due
      BY <1>7, <1>8, <2>1
    <3>2. pool[pool[t].next].due \in Int
      BY <1>1, <1>5, <1>8, <2>1
    <3>. QED
      BY <3>1, <3>2
  <2>. QED
    BY <2>1
<1>10. pool[t].due <= due
  <2>1. CASE t = delayed
    <3>1. Later(Tick0(due), pool[delayed].time) = due - pool[delayed].due
      BY <1>3, <1>4
    <3>. QED
      BY <1>1, <1>3, <1>5, <2>1, <3>1
  <2>2. CASE t # delayed
    <3>1. PICK b \in Chain(pool, delayed) : pool[b].next = t
      BY <1>1, <1>8, <2>2, BeforeExists
    <3>2. b \notin Chain(pool, t)
      BY <1>1, <1>8, <2>2, <3>1, NoBack
    <3>3. Chain(p, t) = Chain(pool, t)
      <4>1. t \in Slot /\ t \in Ptr
        BY <1>1, <1>8, SlotFacts
      <4>2. Chain(pool, t) \subseteq Chain(pool, delayed)
        BY <1>1, <1>8, ChainLeast DEF Closed
      <4>3. \A u \in Chain(pool, t) : p[u].next = pool[u].next
        BY <1>1, <1>2, <4>2
      <4>. QED
        BY <1>1, <4>1, <4>3, PoolNexts, ChainSame
    <3>4. b \notin T
      BY <1>8, <3>1, <3>2, <3>3
    <3>5. ~(due < pool[t].due)
      BY <1>7, <3>1, <3>4
    <3>. QED
      BY <1>1, <1>5, <1>8, <3>5
  <2>. QED
    BY <2>1, <2>2
<1>. QED
  BY <1>6, <1>8, <1>9, <1>10

LEMMA SortedInsert ==
    ASSUME TypeOK, Calls, Safe, Sorted, NEW fn \in Fns, NEW delay \in Delays,
           task_add_delayed(fn, delay)
    PROVE  /\ Sorted'
           /\ \A u \in Chain(pool', delayed') :
                \/ u \in Chain(pool, delayed) /\ pool'[u].due = pool[u].due
                \/ pool'[u].due >= clock
<1>. DEFINE s == task_alloc
            due == clock + delay
            time == DueTime(delay)
            p == NewTask(s, fn, time, due)
            t == After(p, time)
<1>1. /\ due < MaxTick /\ Accepting(s)
      /\ \/ /\ Front(time) /\ delayed' = s /\ pool' = SetNext(p, s, delayed)
         \/ /\ ~Front(time) /\ t # 0
            /\ pool' = SetNext(SetNext(p, s, p[t].next), t, s)
            /\ UNCHANGED delayed
  BY AddDelayedIs
<1>2. TypeOK' /\ s \in Slot /\ pool[s].fn = NoFn /\ added < MaxAdds
  BY <1>1, AddDelayedType, AllocFree, AcceptingType, SlotFacts DEF Accepting
<1>3. time \in Ticks /\ due \in 0 .. MaxTick /\ due >= clock /\ time = Tick0(due)
  <2>1. time \in Ticks /\ due \in 0 .. MaxTick /\ delay \in Nat
    BY <1>1, DueTimeType
  <2>2. clock \in Nat
    BY Numbers
  <2>3. time = Tick0(due)
    BY <1>1, DueTimeIs
  <2>. QED
    BY <2>1, <2>2, <2>3
<1>4. p \in Pools /\ p[s].next = 0 /\ \A u \in Slot \ {s} : p[u] = pool[u]
  <2>1. /\ p \in Pools /\ \A u \in Slot \ {s} : p[u] = pool[u]
        /\ p[s] = [fn |-> fn, id |-> added + 1, time |-> time, due |-> due, next |-> 0]
    BY <1>2, <1>3, NewTaskIs
  <2>. HIDE DEF p
  <2>. QED
    BY <2>1
<1>5. /\ pool'[s].time = time /\ pool'[s].due = due
      /\ \A u \in Slot \ {s} : pool'[u].time = pool[u].time /\ pool'[u].due = pool[u].due
  BY DelayedData DEF NewData, SameData
<1>6. /\ Chain(pool, delayed) \subseteq Slot /\ Roots[Delayed] = delayed /\ Delayed \in Names
      /\ delayed \in Ptr
      /\ delayed # 0 => delayed \in Slot /\ delayed \in Chain(pool, delayed)
      /\ \A u \in Chain(pool, delayed) : pool[u].next # 0 => pool[u].next \in Chain(pool, delayed)
  BY DelayedHolds
<1>7. Chain(pool', delayed') = Chain(pool, delayed) \cup {s} /\ s \notin Chain(pool, delayed) /\ s \in Ptr
  <2>1. Grown(pool, Roots, pool', Roots', Delayed, s)
    BY AddDelayedSafe
  <2>2. Roots'[Delayed] = delayed'
    BY <1>2, RootIsNext
  <2>3. s \notin Chain(pool, delayed)
    BY <1>2, <1>4, <1>6, NewTaskApart
  <2>. QED
    BY <1>2, <1>6, <2>1, <2>2, <2>3, SlotFacts DEF Grown
<1>8. \A u \in Chain(pool, delayed) : pool'[u].time = pool[u].time /\ pool'[u].due = pool[u].due
  BY <1>5, <1>6, <1>7
<1>. HIDE DEF s, time, p, due
<1>9. \A u \in Slot : pool[u].due \in Int
  BY Numbers
<1>10. \A u \in Chain(pool', delayed') : pool'[u].next # 0 => pool'[u].due <= pool'[pool'[u].next].due
  <2>1. CASE Front(time) /\ pool' = SetNext(p, s, delayed)
    <3>1. /\ pool'[s].next = delayed /\ \A u \in Slot : u # s => pool'[u] = p[u]
      BY <1>2, <1>4, <1>6, <2>1, NextSet
    <3>2. \A u \in Chain(pool, delayed) : pool'[u] = pool[u]
      BY <1>4, <1>6, <1>7, <3>1
    <3>3. delayed # 0 => due <= pool[delayed].due
      <4>1. ASSUME delayed # 0 PROVE due <= pool[delayed].due
        <5>1. delayed \in Chain(pool, delayed) /\ delayed \in Slot /\ Later(time, pool[delayed].time) <= 0
          BY <1>6, <2>1, <4>1 DEF Front
        <5>2. pool[delayed].time = Tick0(pool[delayed].due)
          BY <5>1 DEF Sorted
        <5>3. pool[delayed].due \in 0 .. MaxTick
          BY <5>1, Numbers
        <5>4. Later(time, pool[delayed].time) = due - pool[delayed].due
          BY <1>3, <5>2, <5>3, LaterIs
        <5>. QED
          BY <1>3, <5>1, <5>3, <5>4
      <4>. QED
        BY <4>1
    <3>4. \A u \in Chain(pool, delayed) : pool'[u].next # 0 => pool'[u].due <= pool'[pool'[u].next].due
      BY <1>6, <3>2 DEF Sorted
    <3>5. pool'[s].next # 0 => pool'[s].due <= pool'[pool'[s].next].due
      BY <1>5, <1>6, <1>8, <3>1, <3>3
    <3>. QED
      BY <1>7, <3>4, <3>5
  <2>2. CASE ~Front(time) /\ t # 0 /\ pool' = SetNext(SetNext(p, s, p[t].next), t, s)
    <3>1. /\ t \in Chain(pool, delayed) /\ pool[t].due <= due
          /\ pool[t].next # 0 => due <= pool[pool[t].next].due
      BY <1>2, <1>3, <1>4, <2>2, PlaceFound
    <3>. HIDE DEF t
    <3>2. PICK x \in Ptr : x = p[t].next /\ x = pool[t].next /\ t # s /\ t \in Slot
      BY <1>4, <1>6, <1>7, <3>1, PoolNexts
    <3>3. /\ pool'[s].next = x /\ pool'[t].next = s /\ \A u \in Slot \ {s, t} : pool'[u] = p[u]
      <4>1. pool' = SetNext(SetNext(p, s, x), t, s) /\ p \in Pools /\ s \in Slot /\ t \in Slot
            /\ s # t /\ s \in Ptr
        BY <1>2, <1>4, <1>7, <2>2, <3>2
      <4>. QED
        BY <4>1, LinkSet
    <3>4. pool'[t].due <= pool'[pool'[t].next].due
      BY <1>5, <1>8, <3>1, <3>3
    <3>5. pool'[s].next # 0 => pool'[s].due <= pool'[pool'[s].next].due
      BY <1>5, <1>6, <1>8, <3>1, <3>2, <3>3
    <3>6. ASSUME NEW u \in Chain(pool, delayed), u # t, pool'[u].next # 0
          PROVE  pool'[u].due <= pool'[pool'[u].next].due
      <4>1. u # s /\ u \in Slot
        BY <1>6, <1>7, <3>6
      <4>2. pool'[u] = pool[u]
        BY <1>4, <3>3, <3>6, <4>1
      <4>3. pool[u].next \in Chain(pool, delayed) /\ pool[u].due <= pool[pool[u].next].due
        BY <1>6, <3>6, <4>2 DEF Sorted
      <4>. QED
        BY <1>8, <4>2, <4>3
    <3>. QED
      BY <1>7, <3>4, <3>5, <3>6
  <2>. QED
    BY <1>1, <2>1, <2>2
<1>11. \A u \in Chain(pool', delayed') : pool'[u].time = Tick0(pool'[u].due)
  BY <1>3, <1>5, <1>7, <1>8 DEF Sorted
<1>12. Sorted'
  BY <1>10, <1>11 DEF Sorted, Tick0
<1>. QED
  BY <1>3, <1>5, <1>7, <1>8, <1>12

\* The innermost call goes on, returns or makes another call.
Proceeds ==
    \/ Returning
    \/ \E x : Calling(x) /\ x.at \in {"imm", "poll_tick", "reset"}
    \/ \E x : GoesTo(x) /\ x.at # "window" /\ (x.at \in Reading => WasTick(x.now))

LEMMA ReadsMoved ==
    ASSUME TypeOK, TypeOK', Calls, TicksRead, clock' = clock, Proceeds
    PROVE  Reads'
<1>1. stack' \in Seq(Frames) /\ Len(stack) \in Nat /\ Len(stack') \in Nat
  BY DEF TypeOK
<1>2. ASSUME stack' # << >> PROVE Head(stack') = stack'[1] /\ Len(stack') \in Nat \ {0}
  BY <1>1, <1>2
<1>3. SUFFICES /\ stack' # << >> => stack'[1].at # "window"
               /\ \A k \in 1 .. Len(stack') : stack'[k].at \in Reading => WasTick(stack'[k].now)
  <2>1. FoundDue'
    BY <1>2, <1>3 DEF FoundDue
  <2>2. TicksRead'
    <3>1. \A t : WasTick(t) => WasTick(t)'
      BY DEF WasTick, Tick0
    <3>. QED
      BY <1>3, <3>1 DEF TicksRead, WasTick, Tick0
  <2>. QED
    BY <2>1, <2>2 DEF Reads
<1>4. CASE Returning
  <2>1. \A k \in 1 .. Len(stack') : k + 1 \in 2 .. Len(stack) /\ k + 1 \in 1 .. Len(stack) /\ stack'[k] = stack[k + 1]
    BY <1>1, <1>4 DEF Returning
  <2>2. stack' # << >> => stack'[1].at # "window"
    <3>1. ASSUME stack' # << >> PROVE 1 \in 1 .. Len(stack')
      BY <1>2, <3>1
    <3>2. \A k \in 2 .. Len(stack) : stack[k].at # "window"
      BY DEF Calls
    <3>. QED
      BY <2>1, <3>1, <3>2
  <2>. QED
    BY <2>1, <2>2 DEF TicksRead
<1>5. CASE \E x : Calling(x) /\ x.at \in {"imm", "poll_tick", "reset"}
  <2>1. PICK x : Calling(x) /\ x.at \in {"imm", "poll_tick", "reset"}
    BY <1>5
  <2>2. /\ Len(stack') = Len(stack) + 1 /\ stack'[1] = x
        /\ \A k \in 1 .. Len(stack) : stack'[k + 1] = stack[k]
    BY <2>1 DEF Calling
  <2>3. ASSUME NEW k \in 1 .. Len(stack'), stack'[k].at \in Reading PROVE WasTick(stack'[k].now)
    <3>1. k # 1
      BY <2>1, <2>2, <2>3 DEF Reading
    <3>2. PICK j \in 1 .. Len(stack) : k = j + 1
      <4>1. k - 1 \in 1 .. Len(stack) /\ k = (k - 1) + 1
        BY <1>1, <2>2, <3>1
      <4>. QED
        BY <4>1
    <3>3. stack'[k] = stack[j]
      BY <2>2, <3>2
    <3>. QED
      BY <2>3, <3>2, <3>3 DEF TicksRead
  <2>. QED
    BY <2>1, <2>2, <2>3
<1>6. CASE \E x : GoesTo(x) /\ x.at # "window" /\ (x.at \in Reading => WasTick(x.now))
  <2>1. PICK x : GoesTo(x) /\ x.at # "window" /\ (x.at \in Reading => WasTick(x.now))
    BY <1>6
  <2>2. /\ Len(stack') = Len(stack) /\ stack'[1] = x
        /\ \A k \in 2 .. Len(stack) : stack'[k] = stack[k]
    BY <2>1 DEF GoesTo
  <2>3. ASSUME NEW k \in 1 .. Len(stack'), stack'[k].at \in Reading PROVE WasTick(stack'[k].now)
    <3>1. CASE k = 1
      BY <2>1, <2>2, <2>3, <3>1
    <3>2. CASE k # 1
      <4>1. k \in 2 .. Len(stack) /\ k \in 1 .. Len(stack)
        BY <1>1, <2>2, <3>2
      <4>. QED
        BY <2>2, <2>3, <4>1 DEF TicksRead
    <3>. QED
      BY <3>1, <3>2
  <2>. QED
    BY <2>1, <2>2, <2>3
<1>. QED
  BY <1>4, <1>5, <1>6 DEF Proceeds

\* The calls stay where they are; the delayed tasks that are new are not due earlier.
LEMMA ReadsStay ==
    ASSUME TypeOK, TypeOK', Safe, Reads, UNCHANGED stack, clock' >= clock,
           stack # << >> /\ Head(stack).at = "window" =>
              pool'[Head(stack).task].due = pool[Head(stack).task].due,
           \A u \in Chain(pool', delayed') :
                \/ u \in Chain(pool, delayed) /\ pool'[u].due = pool[u].due
                \/ pool'[u].due >= clock
    PROVE  Reads'
<1>1. clock \in Nat /\ clock' \in Nat
  BY Numbers, NumbersNext
<1>2. TicksRead'
  <2>1. ASSUME NEW k \in 1 .. Len(stack), stack[k].at \in Reading
        PROVE  \E c \in 0 .. clock' : stack[k].now = Tick0(c)
    <3>1. PICK c \in 0 .. clock : stack[k].now = Tick0(c)
      BY <2>1 DEF Reads, TicksRead, WasTick
    <3>. QED
      BY <1>1, <3>1
  <2>. QED
    BY <2>1 DEF TicksRead, WasTick, Tick0
<1>3. FoundDue'
  <2>1. SUFFICES ASSUME stack # << >>, Head(stack).at = "window"
                 PROVE  /\ pool'[Head(stack).task].due <= clock'
                        /\ \A u \in Chain(pool', delayed') : pool'[Head(stack).task].due <= pool'[u].due
    BY DEF FoundDue
  <2>2. PICK w \in Slot : w = Head(stack).task
    BY <2>1, TopFacts
  <2>3. /\ pool[w].due <= clock /\ pool'[w].due = pool[w].due /\ pool[w].due \in Int
        /\ \A u \in Chain(pool, delayed) : pool[w].due <= pool[u].due
    BY <2>1, <2>2, Numbers DEF Reads, FoundDue
  <2>4. ASSUME NEW u \in Chain(pool', delayed') PROVE pool'[w].due <= pool'[u].due
    <3>1. CASE u \in Chain(pool, delayed) /\ pool'[u].due = pool[u].due
      BY <2>3, <3>1
    <3>2. CASE pool'[u].due >= clock
      <4>1. pool'[u].due \in Int
        <5>1. Chain(pool', delayed') \subseteq Slot
          BY DEF Chain
        <5>. QED
          BY <2>4, <5>1, NumbersNext
      <4>. QED
        BY <1>1, <2>3, <3>2, <4>1
    <3>. QED
      BY <2>4, <3>1, <3>2
  <2>. QED
    BY <1>1, <2>2, <2>3, <2>4
<1>. QED
  BY <1>2, <1>3 DEF Reads

LEMMA QuietOrdered ==
    ASSUME TypeOK, TypeOK', Calls, Safe, Ordered, UNCHANGED << pool, delayed, added, clock >>, Proceeds
    PROVE  Ordered'
<1>1. Reads'
  BY ReadsMoved DEF Ordered, Reads
<1>2. SameDelayed
  BY DEF SameDelayed
<1>3. Sorted'
  BY <1>2, SortedSame DEF Ordered
<1>4. Stamps'
  BY DEF Ordered, Stamps
<1>. QED
  BY <1>1, <1>3, <1>4 DEF Ordered

\* The task found due keeps what it says when another entry is changed.
LEMMA WindowKept ==
    ASSUME TypeOK, Safe, NEW s, s \notin Chain(pool, delayed) \/ s \notin Held("window"), SameData(s),
           stack # << >>, Head(stack).at = "window"
    PROVE  pool'[Head(stack).task].due = pool[Head(stack).task].due
<1>1. Head(stack).task \in Chain(pool, delayed) /\ Head(stack).task \in Slot
  BY TopPointer, TopFacts
<1>2. Head(stack).task \in Held("window")
  <2>1. Head(stack) = stack[1] /\ 1 \in 1 .. Len(stack)
    BY TopFacts
  <2>. QED
    BY <2>1 DEF Held
<1>. QED
  BY <1>1, <1>2 DEF SameData

LEMMA GrownOrdered ==
    ASSUME TypeOK, TypeOK', Safe, Ordered, NEW s \in Slot, pool[s].fn = NoFn, Accepting(s),
           NEW n \in Names, n # Delayed, Grown(pool, Roots, pool', Roots', n, s),
           NEW fn, NEW time, NEW due, NewData(s, fn, time, due)
    PROVE  Ordered'
<1>1. UNCHANGED << stack, clock >> /\ added' = added + 1 /\ SameData(s)
  BY DEF Accepting, NewData
<1>2. s \notin Chain(pool, delayed)
  BY SafeLists
<1>3. SameDelayed
  BY <1>1, <1>2, DelayedAside DEF Grown
<1>4. Sorted'
  BY <1>3, SortedSame DEF Ordered
<1>5. Stamps'
  BY <1>1, StampsGrow DEF Ordered
<1>6. Reads'
  <2>1. clock' >= clock
    BY <1>1, Numbers
  <2>2. \A u \in Chain(pool', delayed') : u \in Chain(pool, delayed) /\ pool'[u].due = pool[u].due
    BY <1>3 DEF SameDelayed
  <2>. QED
    BY <1>1, <1>2, <2>1, <2>2, WindowKept, ReadsStay DEF Ordered
<1>. QED
  BY <1>4, <1>5, <1>6 DEF Ordered

LEMMA AddImmediateOrdered ==
    ASSUME TypeOK, TypeOK', Calls, Safe, Ordered, NEW fn \in Fns, task_add_immediate(fn)
    PROVE  Ordered' /\ NewData(task_alloc, fn, 0, 0)
<1>1. PICK s : s = task_alloc
  OBVIOUS
<1>2. Accepting(s) /\ pool' = Appended(NewTask(s, fn, 0, 0), immediate, s)
  BY <1>1 DEF task_add_immediate
<1>3. s \in Slot /\ pool[s].fn = NoFn
  BY <1>1, <1>2, AllocFree DEF Accepting
<1>4. NewData(s, fn, 0, 0)
  BY <1>1, <1>2, AppendedData
<1>5. Grown(pool, Roots, pool', Roots', Immediate, s) /\ Immediate \in Names /\ Immediate # Delayed
  BY <1>1, AddImmediateSafe, NameFacts
<1>. QED
  BY <1>1, <1>2, <1>3, <1>4, <1>5, GrownOrdered

LEMMA AddSystickOrdered ==
    ASSUME TypeOK, TypeOK', Calls, Safe, Ordered, NEW fn \in Fns, task_add_systick(fn)
    PROVE  Ordered' /\ NewData(task_alloc, fn, 0, 0)
<1>1. PICK s : s = task_alloc
  OBVIOUS
<1>2. Accepting(s) /\ pool' = Appended(NewTask(s, fn, 0, 0), systick, s)
  BY <1>1 DEF task_add_systick
<1>3. s \in Slot /\ pool[s].fn = NoFn
  BY <1>1, <1>2, AllocFree DEF Accepting
<1>4. NewData(s, fn, 0, 0)
  BY <1>1, <1>2, AppendedData
<1>5. Grown(pool, Roots, pool', Roots', Systick, s) /\ Systick \in Names /\ Systick # Delayed
  BY <1>1, AddSystickSafe, NameFacts
<1>. QED
  BY <1>1, <1>2, <1>3, <1>4, <1>5, GrownOrdered

LEMMA AddResetOrdered ==
    ASSUME TypeOK, TypeOK', Calls, Safe, Ordered, NoRace', NEW fn \in Fns, task_run_on_reset(fn)
    PROVE  Ordered' /\ NewData(task_alloc, fn, 0, 0)
<1>1. PICK s : s = task_alloc
  OBVIOUS
<1>2. Accepting(s) /\ pool' = Appended(NewTask(s, fn, 0, 0), on_reset, s)
  BY <1>1 DEF task_run_on_reset
<1>3. s \in Slot /\ pool[s].fn = NoFn
  BY <1>1, <1>2, AllocFree DEF Accepting
<1>4. NewData(s, fn, 0, 0)
  BY <1>1, <1>2, AppendedData
<1>5. Grown(pool, Roots, pool', Roots', OnReset, s) /\ OnReset \in Names /\ OnReset # Delayed
  BY <1>1, AddResetSafe, NameFacts
<1>. QED
  BY <1>1, <1>2, <1>3, <1>4, <1>5, GrownOrdered

LEMMA AddDelayedOrdered ==
    ASSUME TypeOK, TypeOK', Calls, Safe, Ordered, NEW fn \in Fns, NEW delay \in Delays,
           task_add_delayed(fn, delay)
    PROVE  Ordered' /\ NewData(task_alloc, fn, DueTime(delay), clock + delay)
<1>1. PICK s : s = task_alloc
  OBVIOUS
<1>2. Accepting(s)
  BY <1>1 DEF task_add_delayed
<1>3. s \in Slot /\ pool[s].fn = NoFn
  BY <1>1, <1>2, AllocFree DEF Accepting
<1>4. NewData(s, fn, DueTime(delay), clock + delay)
  BY <1>1, DelayedData
<1>5. UNCHANGED << stack, clock >> /\ added' = added + 1 /\ SameData(s)
  BY <1>2, <1>4 DEF Accepting, NewData
<1>6. /\ Sorted'
      /\ \A u \in Chain(pool', delayed') : \/ u \in Chain(pool, delayed) /\ pool'[u].due = pool[u].due
                                           \/ pool'[u].due >= clock
  BY SortedInsert DEF Ordered
<1>7. Stamps'
  BY <1>3, <1>4, <1>5, StampsGrow DEF Ordered
<1>8. Reads'
  <2>1. clock' >= clock
    BY <1>5, Numbers
  <2>2. s \notin Chain(pool, delayed)
    BY <1>3, SafeLists
  <2>. QED
    BY <1>5, <1>6, <2>1, <2>2, WindowKept, ReadsStay DEF Ordered
<1>. QED
  BY <1>1, <1>4, <1>6, <1>7, <1>8 DEF Ordered

\* A task is taken off its list.
LEMMA TakenOrdered ==
    ASSUME TypeOK, TypeOK', Calls, Safe, Safe', Ordered, NEW n \in Names, NEW s, Taken(n, s),
           UNCHANGED << added, clock >>,
           Proceeds \/ (UNCHANGED stack /\ (n = Delayed => s \notin Held("window")))
    PROVE  Ordered'
<1>1. s \in Slot /\ pool'[s].fn = NoFn /\ SameData(s) /\ s \in Chain(pool, Roots[n]) /\ Lists(pool, Roots)
  <2>1. Lists(pool, Roots) /\ s \in Chain(pool, Roots[n])
    BY DEF Safe, Taken
  <2>2. s \in Slot
    BY <2>1, ListHolds
  <2>. QED
    BY <2>1, <2>2 DEF Taken, Shrunk
<1>2. Stamps'
  BY <1>1, StampsShrink DEF Ordered
<1>3. n # Delayed => s \notin Chain(pool, delayed)
  <2>1. Roots[Delayed] = delayed /\ Delayed \in Names
    BY DelayedHolds
  <2>. QED
    BY <1>1, <2>1, Apart
<1>4. /\ Sorted'
      /\ \A u \in Chain(pool', delayed') : u \in Chain(pool, delayed) /\ pool'[u].due = pool[u].due
  <2>1. CASE n = Delayed
    BY <2>1, SortedTaken DEF Ordered
  <2>2. CASE n # Delayed
    <3>1. SameDelayed
      BY <1>1, <1>3, <2>2, DelayedAside DEF Taken, Shrunk
    <3>. QED
      BY <3>1, SortedSame DEF Ordered, SameDelayed
  <2>. QED
    BY <2>1, <2>2
<1>5. Reads'
  <2>1. CASE Proceeds
    BY <2>1, ReadsMoved DEF Ordered, Reads
  <2>2. CASE UNCHANGED stack /\ (n = Delayed => s \notin Held("window"))
    <3>1. clock' >= clock
      BY Numbers
    <3>2. s \notin Chain(pool, delayed) \/ s \notin Held("window")
      BY <1>3, <2>2
    <3>3. stack # << >> /\ Head(stack).at = "window" =>
             pool'[Head(stack).task].due = pool[Head(stack).task].due
      BY <1>1, <3>2, WindowKept
    <3>. QED
      BY <1>4, <2>2, <3>1, <3>3, ReadsStay DEF Ordered
  <2>. QED
    BY <2>1, <2>2
<1>. QED
  BY <1>2, <1>4, <1>5 DEF Ordered

LEMMA DeleteOrdered ==
    ASSUME TypeOK, TypeOK', Calls, Safe, Safe', Ordered, NoRace', NEW fn, task_delete(fn)
    PROVE  Ordered'
<1>1. PICK s : Taken(Delayed, s) /\ s \notin Held("window")
  BY DeleteSafe
<1>2. UNCHANGED << added, clock >> /\ UNCHANGED stack /\ Delayed \in Names
  BY NameFacts DEF task_delete
<1>. QED
  BY <1>1, <1>2, TakenOrdered

LEMMA DeleteSystickOrdered ==
    ASSUME TypeOK, TypeOK', Calls, Safe, Safe', Ordered, NoRace', NEW fn, task_delete_systick(fn)
    PROVE  Ordered'
<1>1. PICK s : Taken(Systick, s)
  BY DeleteSystickSafe
<1>2. UNCHANGED << added, clock >> /\ UNCHANGED stack /\ Systick \in Names /\ Systick # Delayed
  BY NameFacts DEF task_delete_systick
<1>. QED
  BY <1>1, <1>2, TakenOrdered

LEMMA TopRead ==
    ASSUME TypeOK, Ordered, stack # << >>, Head(stack).at \in Reading
    PROVE  WasTick(Head(stack).now)
<1>1. Head(stack) = stack[1] /\ 1 \in 1 .. Len(stack)
  BY TopFacts
<1>. QED
  BY <1>1 DEF Ordered, Reads, TicksRead

LEMMA RunImmediateOrdered ==
    ASSUME TypeOK, TypeOK', Calls, Safe, Safe', Ordered, RunImmediate
    PROVE  Ordered'
<1>. DEFINE x == [at |-> "imm_fn", task |-> pool[Head(stack).task].next, now |-> 0]
<1>1. GoesTo(x)
  BY RunImmediateType
<1>2. x.at # "window" /\ x.at \notin Reading
  BY DEF Reading
<1>. HIDE DEF x
<1>3. Proceeds
  BY <1>1, <1>2 DEF Proceeds
<1>4. Taken(Len(stack), Head(stack).task) /\ UNCHANGED << added, clock >>
  BY RunImmediateSafe DEF RunImmediate
<1>5. Len(stack) \in Names
  BY <1>1, GotoRoots, NameFacts
<1>. QED
  BY <1>3, <1>4, <1>5, TakenOrdered

LEMMA RunResetOrdered ==
    ASSUME TypeOK, TypeOK', Calls, Safe, Safe', Ordered, RunReset
    PROVE  Ordered'
<1>. DEFINE x == [at |-> "reset_fn", task |-> pool[on_reset].next, now |-> 0]
<1>1. GoesTo(x)
  BY RunResetType
<1>2. x.at # "window" /\ x.at \notin Reading
  BY DEF Reading
<1>. HIDE DEF x
<1>3. Proceeds
  BY <1>1, <1>2 DEF Proceeds
<1>4. Taken(OnReset, on_reset) /\ UNCHANGED << added, clock >> /\ OnReset \in Names
  BY RunResetSafe, NameFacts DEF RunReset
<1>. QED
  BY <1>3, <1>4, TakenOrdered

LEMMA RunDelayedOrdered ==
    ASSUME TypeOK, TypeOK', Calls, Safe, Safe', Ordered, RunDelayed
    PROVE  Ordered'
<1>. DEFINE x == [at |-> "delayed_fn", task |-> 0, now |-> Head(stack).now]
<1>1. GoesTo(x)
  BY RunDelayedType
<1>2. stack # << >> /\ Head(stack).at = "window" /\ UNCHANGED << added, clock >>
  BY DEF RunDelayed, Inner
<1>3. x.at # "window" /\ WasTick(x.now)
  BY <1>2, TopRead DEF Reading
<1>. HIDE DEF x
<1>4. Proceeds
  BY <1>1, <1>3 DEF Proceeds
<1>5. Taken(Delayed, Head(stack).task) /\ Delayed \in Names
  BY RunDelayedSafe, NameFacts
<1>. QED
  BY <1>2, <1>4, <1>5, TakenOrdered

\* The steps that leave the tasks alone.
LEMMA ImmediateReturnsOrdered ==
    ASSUME TypeOK, TypeOK', Calls, Safe, Ordered, ImmediateReturns
    PROVE  Ordered'
<1>. DEFINE x == [at |-> IF Head(stack).task = 0 THEN "poll_tick" ELSE "imm",
                  task |-> Head(stack).task, now |-> 0]
<1>1. GoesTo(x)
  BY ImmediateReturnsType
<1>2. x.at # "window" /\ x.at \notin Reading
  BY DEF Reading
<1>. HIDE DEF x
<1>3. UNCHANGED << pool, delayed, added, clock >>
  BY DEF ImmediateReturns, lists
<1>. QED
  BY <1>1, <1>2, <1>3, QuietOrdered DEF Proceeds

LEMMA PollTickOrdered ==
    ASSUME TypeOK, TypeOK', Calls, Safe, Ordered, PollTick
    PROVE  Ordered'
<1>. DEFINE x == [at |-> IF systick = 0 THEN "poll_due" ELSE "systick", task |-> systick, now |-> Now]
<1>1. Returning \/ GoesTo(x)
  BY PollTickType
<1>2. x.at # "window" /\ WasTick(x.now)
  <2>1. Now = Tick0(clock) /\ clock \in 0 .. clock
    BY Numbers DEF Now, Tick0
  <2>. QED
    BY <2>1 DEF WasTick
<1>. HIDE DEF x
<1>3. UNCHANGED << pool, delayed, added, clock >>
  BY DEF PollTick, lists
<1>. QED
  BY <1>1, <1>2, <1>3, QuietOrdered DEF Proceeds

LEMMA CallSystickOrdered ==
    ASSUME TypeOK, TypeOK', Calls, Safe, Ordered, CallSystick
    PROVE  Ordered'
<1>. DEFINE x == [at |-> "systick_fn", task |-> Head(stack).task, now |-> Head(stack).now]
<1>1. GoesTo(x)
  BY CallSystickType
<1>2. stack # << >> /\ Head(stack).at = "systick"
  BY DEF CallSystick, Inner
<1>3. x.at # "window" /\ WasTick(x.now)
  BY <1>2, TopRead DEF Reading
<1>. HIDE DEF x
<1>4. UNCHANGED << pool, delayed, added, clock >>
  BY DEF CallSystick, lists
<1>. QED
  BY <1>1, <1>3, <1>4, QuietOrdered DEF Proceeds

LEMMA SystickReturnsOrdered ==
    ASSUME TypeOK, TypeOK', Calls, Safe, Ordered, SystickReturns
    PROVE  Ordered'
<1>. DEFINE next == pool[Head(stack).task].next
            x == [at |-> IF next = 0 THEN "poll_due" ELSE "systick", task |-> next,
                  now |-> Head(stack).now]
<1>1. GoesTo(x)
  BY SystickReturnsType
<1>2. stack # << >> /\ Head(stack).at = "systick_fn"
  BY DEF SystickReturns, Inner
<1>3. x.at # "window" /\ WasTick(x.now)
  BY <1>2, TopRead DEF Reading
<1>. HIDE DEF x
<1>4. UNCHANGED << pool, delayed, added, clock >>
  BY DEF SystickReturns, lists
<1>. QED
  BY <1>1, <1>3, <1>4, QuietOrdered DEF Proceeds

LEMMA DelayedReturnsOrdered ==
    ASSUME TypeOK, TypeOK', Calls, Safe, Ordered, DelayedReturns
    PROVE  Ordered'
<1>. DEFINE x == [at |-> "poll_due", task |-> 0, now |-> Head(stack).now]
<1>1. GoesTo(x)
  BY DelayedReturnsType
<1>2. stack # << >> /\ Head(stack).at = "delayed_fn"
  BY DEF DelayedReturns, Inner
<1>3. x.at # "window" /\ WasTick(x.now)
  BY <1>2, TopRead DEF Reading
<1>. HIDE DEF x
<1>4. UNCHANGED << pool, delayed, added, clock >>
  BY DEF DelayedReturns, lists
<1>. QED
  BY <1>1, <1>3, <1>4, QuietOrdered DEF Proceeds

LEMMA ExecuteOrdered ==
    ASSUME TypeOK, TypeOK', Calls, Safe, Ordered, task_execute
    PROVE  Ordered'
<1>. DEFINE x == [at |-> IF immediate = 0 THEN "poll_tick" ELSE "imm", task |-> immediate, now |-> 0]
<1>1. Calling(x) /\ x.at \in {"imm", "poll_tick", "reset"}
  BY ExecuteType
<1>. HIDE DEF x
<1>2. UNCHANGED << pool, delayed, added, clock >>
  BY DEF task_execute
<1>. QED
  BY <1>1, <1>2, QuietOrdered DEF Proceeds

LEMMA StartupOrdered ==
    ASSUME TypeOK, TypeOK', Calls, Safe, Ordered, task_execute_on_startup
    PROVE  Ordered'
<1>. DEFINE x == [at |-> "reset", task |-> 0, now |-> 0]
<1>1. Calling(x) /\ x.at \in {"imm", "poll_tick", "reset"}
  BY StartupType
<1>. HIDE DEF x
<1>2. UNCHANGED << pool, delayed, added, clock >>
  BY DEF task_execute_on_startup, lists
<1>. QED
  BY <1>1, <1>2, QuietOrdered DEF Proceeds

LEMMA ResetReturnsOrdered ==
    ASSUME TypeOK, TypeOK', Calls, Safe, Ordered, ResetReturns
    PROVE  Ordered'
<1>. DEFINE x == [at |-> "reset", task |-> 0, now |-> 0]
<1>1. Returning \/ GoesTo(x)
  BY ResetReturnsType
<1>2. x.at # "window" /\ x.at \notin Reading
  BY DEF Reading
<1>. HIDE DEF x
<1>3. UNCHANGED << pool, delayed, added, clock >>
  BY DEF ResetReturns
<1>. QED
  BY <1>1, <1>2, <1>3, QuietOrdered DEF Proceeds

LEMMA TickOrdered ==
    ASSUME TypeOK, TypeOK', Calls, Safe, Ordered, Tick
    PROVE  Ordered'
<1>1. clock' = clock + 1 /\ UNCHANGED << pool, delayed, added >> /\ UNCHANGED stack
  BY DEF Tick, lists
<1>2. clock' >= clock
  BY <1>1, Numbers
<1>3. SameDelayed
  BY <1>1 DEF SameDelayed
<1>4. Sorted'
  BY <1>3, SortedSame DEF Ordered
<1>5. Stamps'
  BY <1>1 DEF Ordered, Stamps
<1>6. Reads'
  BY <1>1, <1>2, ReadsStay DEF Ordered
<1>. QED
  BY <1>4, <1>5, <1>6 DEF Ordered

\* A task is found due: it is the first of the list, and the tick read is not ahead.
LEMMA PollDueOrdered ==
    ASSUME TypeOK, TypeOK', Calls, Safe, Ordered, PollDue
    PROVE  Ordered'
<1>1. UNCHANGED << pool, delayed, added, clock >> /\ stack # << >> /\ Head(stack).at = "poll_due"
  BY DEF PollDue, Inner, lists
<1>2. CASE Returning
  BY <1>1, <1>2, QuietOrdered DEF Proceeds
<1>3. CASE ~Returning
  <2>. DEFINE x == [at |-> "window", task |-> delayed, now |-> Head(stack).now]
  <2>1. GoesTo(x) /\ delayed # 0 /\ Later(pool[delayed].time, Head(stack).now) <= 0
    BY <1>3, PollDueType
  <2>2. x.at = "window" /\ x.task = delayed /\ x.now = Head(stack).now
    OBVIOUS
  <2>. HIDE DEF x
  <2>3. PICK c \in 0 .. clock : Head(stack).now = Tick0(c)
    BY <1>1, TopRead DEF Reading, WasTick
  <2>4. delayed \in Slot /\ \A u \in Chain(pool, delayed) : pool[delayed].due <= pool[u].due
    BY <2>1, HeadFirst DEF Ordered
  <2>5. pool[delayed].time = Tick0(pool[delayed].due)
    BY <2>1, DelayedHolds DEF Ordered, Sorted
  <2>6. pool[delayed].due \in 0 .. MaxTick /\ clock \in 0 .. MaxTick /\ c \in 0 .. MaxTick
    BY <2>3, <2>4, Numbers, BoundsAssumption
  <2>7. Later(pool[delayed].time, Head(stack).now) = pool[delayed].due - c
    BY <2>3, <2>5, <2>6, LaterIs
  <2>8. pool[delayed].due <= clock
    BY <2>1, <2>3, <2>6, <2>7
  <2>9. /\ Len(stack') = Len(stack) /\ stack'[1] = x /\ Len(stack) \in Nat \ {0}
        /\ \A k \in 2 .. Len(stack) : stack'[k] = stack[k]
    BY <2>1 DEF GoesTo
  <2>10. Head(stack') = x
    <3>1. stack' \in Seq(Frames) /\ stack' # << >>
      BY <2>9 DEF TypeOK
    <3>. QED
      BY <2>9, <3>1
  <2>11. FoundDue'
    BY <1>1, <2>2, <2>4, <2>8, <2>10 DEF FoundDue
  <2>12. TicksRead'
    <3>1. ASSUME NEW k \in 1 .. Len(stack'), stack'[k].at \in Reading PROVE WasTick(stack'[k].now)
      <4>1. CASE k = 1
        BY <2>2, <2>3, <2>9, <4>1 DEF WasTick
      <4>2. CASE k # 1
        <5>1. k \in 2 .. Len(stack) /\ k \in 1 .. Len(stack)
          BY <2>9, <4>2
        <5>. QED
          BY <2>9, <3>1, <5>1 DEF TicksRead, Ordered, Reads
      <4>. QED
        BY <4>1, <4>2
    <3>. QED
      BY <1>1, <3>1 DEF TicksRead, WasTick, Tick0
  <2>13. SameDelayed
    BY <1>1 DEF SameDelayed
  <2>14. Sorted' /\ Stamps'
    BY <1>1, <2>13, SortedSame DEF Ordered, Stamps
  <2>. QED
    BY <2>11, <2>12, <2>14 DEF Ordered, Reads
<1>. QED
  BY <1>2, <1>3

LEMMA OrderStep ==
    ASSUME TypeOK, TypeOK', Calls, Safe, Safe', Ordered, Next, NoRace'
    PROVE  Ordered'
<1>1. CASE \E fn \in Once : task_add_immediate(fn) \/ (Called /\ task_run_on_reset(fn))
  BY <1>1, FnsIn, AddImmediateOrdered, AddResetOrdered
<1>2. CASE \E fn \in Timed : \/ \E delay \in Delays : task_add_delayed(fn, delay)
                             \/ task_delete(fn)
                             \/ Called /\ task_add_systick(fn)
                             \/ task_delete_systick(fn)
  BY <1>2, FnsIn, AddDelayedOrdered, DeleteOrdered, AddSystickOrdered, DeleteSystickOrdered
<1>3. CASE task_execute
  BY <1>3, ExecuteOrdered
<1>4. CASE Foreground
  BY <1>4, ExecuteOrdered, RunImmediateOrdered, ImmediateReturnsOrdered, PollTickOrdered,
     CallSystickOrdered, SystickReturnsOrdered, PollDueOrdered, RunDelayedOrdered,
     DelayedReturnsOrdered, RunResetOrdered, ResetReturnsOrdered DEF Foreground
<1>5. CASE task_execute_on_startup
  BY <1>5, StartupOrdered
<1>6. CASE Tick
  BY <1>6, TickOrdered
<1>. QED
  BY <1>1, <1>2, <1>3, <1>4, <1>5, <1>6 DEF Next

-----------------------------------------------------------------------------
(* The tasks that wait *)

KindOf(n) == IF n = Delayed THEN "delayed" ELSE IF n = Systick THEN "systick"
             ELSE IF n = OnReset THEN "on_reset" ELSE "immediate"
Rec(p, n, s) == [id |-> p[s].id, fn |-> p[s].fn, kind |-> KindOf(n), due |-> p[s].due]
OnLists(p, R) == UNION {{Rec(p, n, s) : s \in Chain(p, R[n])} : n \in Names}

LEMMA KindNames ==
    /\ \A k \in Kinds : \A n \in NamesOf(k) : n \in Names /\ KindOf(n) = k
    /\ \A n \in Names : KindOf(n) \in Kinds /\ n \in NamesOf(KindOf(n))
<1>1. \A k \in Kinds : NamesOf(k) \subseteq Names
  BY NamesApart
<1>2. \A n \in Names : n \in 1 .. MaxDepth \/ n \in {-3, -2, -1, 0}
  BY BoundsAssumption DEF Names
<1>. QED
  BY <1>1, <1>2, BoundsAssumption DEF Kinds, NamesOf, KindOf, Names, Immediate, Delayed, Systick, OnReset

WaitingOK == Waiting = OnLists(pool, Roots)

LEMMA WaitingIs == TypeOK /\ Calls => WaitingOK
<1>1. SUFFICES ASSUME TypeOK, Calls PROVE Waiting = OnLists(pool, Roots)
  BY DEF WaitingOK
<1>2. ASSUME NEW r \in Waiting PROVE r \in OnLists(pool, Roots)
  <2>0. PICK k \in Kinds : \E s \in OnList(k) :
           r = [id |-> pool[s].id, fn |-> pool[s].fn, kind |-> k, due |-> pool[s].due]
    BY <1>2 DEF Waiting
  <2>1. PICK s \in OnList(k) :
           r = [id |-> pool[s].id, fn |-> pool[s].fn, kind |-> k, due |-> pool[s].due]
    BY <2>0
  <2>2. PICK n \in NamesOf(k) : s \in Chain(pool, Roots[n])
    BY <1>1, <2>1, OnListIs
  <2>3. n \in Names /\ r = Rec(pool, n, s)
    BY <2>1, <2>2, KindNames DEF Rec
  <2>. QED
    BY <2>2, <2>3 DEF OnLists
<1>3. ASSUME NEW r \in OnLists(pool, Roots) PROVE r \in Waiting
  <2>0. PICK n \in Names : \E s \in Chain(pool, Roots[n]) : r = Rec(pool, n, s)
    BY <1>3 DEF OnLists
  <2>1. PICK s \in Chain(pool, Roots[n]) : r = Rec(pool, n, s)
    BY <2>0
  <2>2. PICK k \in Kinds : k = KindOf(n) /\ n \in NamesOf(k)
    BY <2>1, KindNames
  <2>3. s \in OnList(k)
    BY <1>1, <2>1, <2>2, OnListIs
  <2>. QED
    BY <2>1, <2>2, <2>3 DEF Waiting, Rec
<1>. QED
  BY <1>2, <1>3

LEMMA WaitingIsNext == TypeOK' /\ Calls' => WaitingOK'
BY WaitingIs, PTL

\* A task more, or one less.
LEMMA WaitingGrown ==
    ASSUME TypeOK, Calls, TypeOK', Calls', Safe, NEW s \in Slot, pool[s].fn = NoFn, NEW n \in Names,
           Grown(pool, Roots, pool', Roots', n, s), NEW fn, NEW time, NEW due,
           NewData(s, fn, time, due)
    PROVE  Waiting' = Waiting \cup {[id |-> added + 1, fn |-> fn, kind |-> KindOf(n), due |-> due]}
<1>. DEFINE e == [id |-> added + 1, fn |-> fn, kind |-> KindOf(n), due |-> due]
<1>1. Waiting = OnLists(pool, Roots) /\ Waiting' = OnLists(pool', Roots')
  BY WaitingIs, WaitingIsNext DEF WaitingOK, OnLists, Rec
<1>2. Lists(pool, Roots) /\ \A m \in Names : s \notin Chain(pool, Roots[m]) /\ Chain(pool, Roots[m]) \subseteq Slot
  <2>1. Lists(pool, Roots)
    BY DEF Safe
  <2>. QED
    BY <2>1, FreeApart, ListHolds
<1>3. \A m \in Names : \A u \in Chain(pool, Roots[m]) : Rec(pool', m, u) = Rec(pool, m, u)
  BY <1>2 DEF Rec, NewData, SameData
<1>4. Rec(pool', n, s) = e
  BY DEF Rec, NewData
<1>5. /\ \A m \in Names : m # n => Chain(pool', Roots'[m]) = Chain(pool, Roots[m])
      /\ Chain(pool', Roots'[n]) = Chain(pool, Roots[n]) \cup {s}
  BY DEF Grown, Aside
<1>. HIDE DEF e
<1>6. ASSUME NEW r \in OnLists(pool', Roots') PROVE r \in OnLists(pool, Roots) \cup {e}
  <2>0. PICK m \in Names : \E u \in Chain(pool', Roots'[m]) : r = Rec(pool', m, u)
    BY <1>6 DEF OnLists
  <2>1. PICK u \in Chain(pool', Roots'[m]) : r = Rec(pool', m, u)
    BY <2>0
  <2>2. CASE u \in Chain(pool, Roots[m])
    BY <1>3, <2>1, <2>2 DEF OnLists
  <2>3. CASE u \notin Chain(pool, Roots[m])
    BY <1>4, <1>5, <2>1, <2>3
  <2>. QED
    BY <2>2, <2>3
<1>7. ASSUME NEW r \in OnLists(pool, Roots) PROVE r \in OnLists(pool', Roots')
  <2>0. PICK m \in Names : \E u \in Chain(pool, Roots[m]) : r = Rec(pool, m, u)
    BY <1>7 DEF OnLists
  <2>1. PICK u \in Chain(pool, Roots[m]) : r = Rec(pool, m, u)
    BY <2>0
  <2>2. u \in Chain(pool', Roots'[m]) /\ r = Rec(pool', m, u)
    BY <1>3, <1>5, <2>1
  <2>. QED
    BY <2>2 DEF OnLists
<1>8. e \in OnLists(pool', Roots')
  BY <1>4, <1>5 DEF OnLists
<1>9. OnLists(pool', Roots') = OnLists(pool, Roots) \cup {e}
  BY <1>6, <1>7, <1>8
<1>. QED
  BY <1>1, <1>9 DEF e

LEMMA WaitingTaken ==
    ASSUME TypeOK, Calls, TypeOK', Calls', Safe, Stamps, NEW n \in Names, NEW s, Taken(n, s)
    PROVE  /\ Rec(pool, n, s) \in Waiting
           /\ Waiting' = Waiting \ {Rec(pool, n, s)}
<1>1. Waiting = OnLists(pool, Roots) /\ Waiting' = OnLists(pool', Roots')
  BY WaitingIs, WaitingIsNext DEF WaitingOK, OnLists, Rec
<1>2. /\ Lists(pool, Roots) /\ s \in Chain(pool, Roots[n])
      /\ \A m \in Names : m # n => Chain(pool', Roots'[m]) = Chain(pool, Roots[m])
      /\ Chain(pool', Roots'[n]) = Chain(pool, Roots[n]) \ {s}
  BY DEF Safe, Taken, Shrunk, Aside
<1>3. \A m \in Names : Chain(pool, Roots[m]) \subseteq Slot /\ \A u \in Chain(pool, Roots[m]) : pool[u].fn # NoFn
  BY <1>2, ListHolds
<1>4. \A m \in Names : m # n => s \notin Chain(pool, Roots[m])
  BY <1>2, Apart
<1>5. \A m \in Names : \A u \in Chain(pool, Roots[m]) : u # s => Rec(pool', m, u) = Rec(pool, m, u)
  BY <1>3 DEF Rec, Taken, SameData
<1>6. \A m \in Names : \A u \in Chain(pool, Roots[m]) : u # s => Rec(pool, m, u) # Rec(pool, n, s)
  <2>1. SUFFICES ASSUME NEW m \in Names, NEW u \in Chain(pool, Roots[m]), u # s
                 PROVE  Rec(pool, m, u).id # Rec(pool, n, s).id
    OBVIOUS
  <2>2. pool[u].id # pool[s].id
    BY <1>2, <1>3, <2>1 DEF Stamps
  <2>. QED
    BY <2>2 DEF Rec
<1>7. Rec(pool, n, s) \in OnLists(pool, Roots)
  BY <1>2 DEF OnLists
<1>8. ASSUME NEW r \in OnLists(pool', Roots') PROVE r \in OnLists(pool, Roots) \ {Rec(pool, n, s)}
  <2>0. PICK m \in Names : \E u \in Chain(pool', Roots'[m]) : r = Rec(pool', m, u)
    BY <1>8 DEF OnLists
  <2>1. PICK u \in Chain(pool', Roots'[m]) : r = Rec(pool', m, u)
    BY <2>0
  <2>2. u \in Chain(pool, Roots[m]) /\ u # s
    BY <1>2, <1>4, <2>1
  <2>3. r = Rec(pool, m, u) /\ r # Rec(pool, n, s)
    BY <1>5, <1>6, <2>1, <2>2
  <2>. QED
    BY <2>2, <2>3 DEF OnLists
<1>9. ASSUME NEW r \in OnLists(pool, Roots), r # Rec(pool, n, s) PROVE r \in OnLists(pool', Roots')
  <2>0. PICK m \in Names : \E u \in Chain(pool, Roots[m]) : r = Rec(pool, m, u)
    BY <1>9 DEF OnLists
  <2>1. PICK u \in Chain(pool, Roots[m]) : r = Rec(pool, m, u)
    BY <2>0
  <2>2. u # s
    <3>1. ASSUME u = s PROVE FALSE
      <4>1. m = n
        BY <1>4, <2>1, <3>1
      <4>. QED
        BY <1>9, <2>1, <3>1, <4>1
    <3>. QED
      BY <3>1
  <2>3. u \in Chain(pool', Roots'[m]) /\ r = Rec(pool', m, u)
    BY <1>2, <1>5, <2>1, <2>2
  <2>. QED
    BY <2>3 DEF OnLists
<1>10. OnLists(pool', Roots') = OnLists(pool, Roots) \ {Rec(pool, n, s)}
  BY <1>8, <1>9
<1>. QED
  BY <1>1, <1>7, <1>10

\* The same tasks, on the same lists or handed to a call.
LEMMA WaitingSame ==
    ASSUME TypeOK, Calls, TypeOK', Calls', pool' = pool, Roots' = Roots
    PROVE  Waiting' = Waiting
<1>1. Waiting = OnLists(pool, Roots) /\ Waiting' = OnLists(pool', Roots')
  BY WaitingIs, WaitingIsNext DEF WaitingOK, OnLists, Rec
<1>. QED
  BY <1>1

LEMMA WaitingHanded ==
    ASSUME TypeOK, Calls, TypeOK', Calls', Safe, pool' = pool, Handed
    PROVE  Waiting' = Waiting
<1>1. Waiting = OnLists(pool, Roots) /\ Waiting' = OnLists(pool, Roots')
  BY WaitingIs, WaitingIsNext DEF WaitingOK, OnLists, Rec
<1>2. PICK D \in 1 .. MaxDepth : /\ Roots[D] = 0 /\ Roots'[D] = Roots[Immediate] /\ Roots'[Immediate] = 0
                                 /\ \A n \in Names \ {Immediate, D} : Roots'[n] = Roots[n]
  BY DEF Handed
<1>3. D \in Names /\ Immediate \in Names /\ KindOf(D) = KindOf(Immediate)
  BY BoundsAssumption DEF Names, KindOf, Immediate, Delayed, Systick, OnReset
<1>4. Chain(pool, 0) = {}
  BY Typed, SlotFacts, ChainHolds
<1>5. \A u : Rec(pool, D, u) = Rec(pool, Immediate, u)
  BY <1>3 DEF Rec
<1>6. ASSUME NEW r \in OnLists(pool, Roots') PROVE r \in OnLists(pool, Roots)
  <2>0. PICK m \in Names : \E u \in Chain(pool, Roots'[m]) : r = Rec(pool, m, u)
    BY <1>6 DEF OnLists
  <2>1. PICK u \in Chain(pool, Roots'[m]) : r = Rec(pool, m, u)
    BY <2>0
  <2>2. \E k \in Names : u \in Chain(pool, Roots[k]) /\ r = Rec(pool, k, u)
    <3>1. CASE m = D
      BY <1>2, <1>3, <1>5, <2>1, <3>1
    <3>2. CASE m = Immediate
      BY <1>2, <1>4, <2>1, <3>2
    <3>3. CASE m # D /\ m # Immediate
      BY <1>2, <2>1, <3>3
    <3>. QED
      BY <3>1, <3>2, <3>3
  <2>. QED
    BY <2>2 DEF OnLists
<1>7. ASSUME NEW r \in OnLists(pool, Roots) PROVE r \in OnLists(pool, Roots')
  <2>0. PICK m \in Names : \E u \in Chain(pool, Roots[m]) : r = Rec(pool, m, u)
    BY <1>7 DEF OnLists
  <2>1. PICK u \in Chain(pool, Roots[m]) : r = Rec(pool, m, u)
    BY <2>0
  <2>2. \E k \in Names : u \in Chain(pool, Roots'[k]) /\ r = Rec(pool, k, u)
    <3>1. CASE m = Immediate
      BY <1>2, <1>3, <1>5, <2>1, <3>1
    <3>2. CASE m = D
      BY <1>2, <1>4, <2>1, <3>2
    <3>3. CASE m # D /\ m # Immediate
      BY <1>2, <2>1, <3>3
    <3>. QED
      BY <3>1, <3>2, <3>3
  <2>. QED
    BY <2>2 DEF OnLists
<1>. QED
  BY <1>1, <1>6, <1>7

-----------------------------------------------------------------------------
(* The scheduler implements its abstract description *)

LEMMA AcceptStep ==
    ASSUME NoRace, NoRace', NEW kind, NEW fn, NEW delay, NEW due,
           due = IF kind = "delayed" THEN clock + delay ELSE 0,
           Waiting' = Waiting \cup {[id |-> added + 1, fn |-> fn, kind |-> kind, due |-> due]},
           added' = added + 1, UNCHANGED << run, last, clock >>
    PROVE  Schedule!Accept(kind, fn, delay)
<1>1. added' = added + 1 /\ run' = run /\ last' = last /\ clock' = clock
  OBVIOUS
<1>. QED
  BY <1>1 DEF Schedule!Accept

LEMMA RunStep ==
    ASSUME NoRace, NoRace', NEW t \in Waiting, t.kind # "systick",
           t.kind = "delayed" => /\ t.due <= clock
                                 /\ \A u \in Waiting : u.kind = "delayed" => t.due <= u.due,
           Waiting' = Waiting \ {t}, run' = run + 1, last' = t.id, UNCHANGED << added, clock >>
    PROVE  \E w \in IF NoRace THEN Waiting ELSE {} : Schedule!Run(w)
<1>1. added' = added /\ clock' = clock
  OBVIOUS
<1>2. Schedule!Run(t)
  BY <1>1 DEF Schedule!Run
<1>. QED
  BY <1>2

LEMMA DeleteStep ==
    ASSUME NoRace, NoRace', NEW t \in Waiting, t.kind \in {"delayed", "systick"},
           Waiting' = Waiting \ {t}, UNCHANGED << added, run, last, clock >>
    PROVE  \E w \in IF NoRace THEN Waiting ELSE {} : Schedule!Delete(w)
<1>1. added' = added /\ clock' = clock /\ run' = run /\ last' = last
  OBVIOUS
<1>2. Schedule!Delete(t)
  BY <1>1 DEF Schedule!Delete
<1>. QED
  BY <1>2

LEMMA QuietStep ==
    ASSUME NoRace, NoRace', Waiting' = Waiting, UNCHANGED << added, run, last, clock >>
    PROVE  UNCHANGED Schedule!vars
<1>1. added' = added /\ clock' = clock /\ run' = run /\ last' = last
  OBVIOUS
<1>. QED
  BY <1>1 DEF Schedule!vars

\* A step of the abstract scheduler, or none.
Abstract == Schedule!Next \/ UNCHANGED Schedule!vars

Good == TypeOK /\ Calls /\ Safe /\ Ordered /\ NoRace
GoodNext == TypeOK' /\ Calls' /\ Safe' /\ NoRace'

LEMMA AbstractFrom ==
    /\ \A kind \in Kinds, fn \in Fns, delay \in Delays : Schedule!Accept(kind, fn, delay) => Abstract
    /\ (\E w \in IF NoRace THEN Waiting ELSE {} : Schedule!Run(w)) => Abstract
    /\ (\E w \in IF NoRace THEN Waiting ELSE {} : Schedule!Delete(w)) => Abstract
BY DEF Abstract, Schedule!Next, Schedule!Kinds, Kinds

LEMMA GrownAbstract ==
    ASSUME Good, GoodNext, NEW s, s = task_alloc, Accepting(s), NEW n \in Names,
           Grown(pool, Roots, pool', Roots', n, s), NEW fn \in Fns, NEW time, NEW due, NEW delay \in Delays,
           NewData(s, fn, time, due), due = IF KindOf(n) = "delayed" THEN clock + delay ELSE 0
    PROVE  Abstract
<1>1. s \in Slot /\ pool[s].fn = NoFn /\ added' = added + 1 /\ UNCHANGED << run, last, clock >>
  BY AllocFree DEF Accepting, Good
<1>2. PICK kind \in Kinds : kind = KindOf(n)
  BY KindNames
<1>3. Waiting' = Waiting \cup {[id |-> added + 1, fn |-> fn, kind |-> kind, due |-> due]}
  BY <1>1, <1>2, WaitingGrown DEF Good, GoodNext
<1>4. Schedule!Accept(kind, fn, delay)
  BY <1>1, <1>2, <1>3, AcceptStep DEF Good, GoodNext
<1>. QED
  BY <1>2, <1>4, AbstractFrom

LEMMA KindIs ==
    /\ KindOf(Immediate) = "immediate" /\ KindOf(Delayed) = "delayed" /\ KindOf(Systick) = "systick"
    /\ KindOf(OnReset) = "on_reset" /\ \A d \in 1 .. MaxDepth : KindOf(d) = "immediate"
BY BoundsAssumption DEF KindOf, Immediate, Delayed, Systick, OnReset

LEMMA AddAbstract ==
    ASSUME Good, GoodNext, NEW fn \in Fns
    PROVE  /\ task_add_immediate(fn) => Abstract
           /\ task_add_systick(fn) => Abstract
           /\ task_run_on_reset(fn) => Abstract
           /\ \A delay \in Delays : task_add_delayed(fn, delay) => Abstract
<1>1. PICK s : s = task_alloc
  OBVIOUS
<1>2. PICK some \in Delays : TRUE
  BY DelaysAssumption
<1>3. TypeOK /\ TypeOK' /\ Calls /\ Safe /\ Ordered /\ NoRace'
  BY DEF Good, GoodNext
<1>4. ASSUME task_add_immediate(fn) PROVE Abstract
  <2>1. Accepting(s)
    BY <1>1, <1>4 DEF task_add_immediate
  <2>2. Grown(pool, Roots, pool', Roots', Immediate, s) /\ NewData(s, fn, 0, 0)
    BY <1>1, <1>3, <1>4, AddImmediateSafe, AddImmediateOrdered
  <2>3. Immediate \in Names /\ 0 = IF KindOf(Immediate) = "delayed" THEN clock + some ELSE 0
    BY KindIs, NameFacts
  <2>. QED
    BY <1>1, <1>2, <2>1, <2>2, <2>3, GrownAbstract
<1>5. ASSUME task_add_systick(fn) PROVE Abstract
  <2>1. Accepting(s)
    BY <1>1, <1>5 DEF task_add_systick
  <2>2. Grown(pool, Roots, pool', Roots', Systick, s) /\ NewData(s, fn, 0, 0)
    BY <1>1, <1>3, <1>5, AddSystickSafe, AddSystickOrdered
  <2>3. Systick \in Names /\ 0 = IF KindOf(Systick) = "delayed" THEN clock + some ELSE 0
    BY KindIs, NameFacts
  <2>. QED
    BY <1>1, <1>2, <2>1, <2>2, <2>3, GrownAbstract
<1>6. ASSUME task_run_on_reset(fn) PROVE Abstract
  <2>1. Accepting(s)
    BY <1>1, <1>6 DEF task_run_on_reset
  <2>2. Grown(pool, Roots, pool', Roots', OnReset, s) /\ NewData(s, fn, 0, 0)
    BY <1>1, <1>3, <1>6, AddResetSafe, AddResetOrdered
  <2>3. OnReset \in Names /\ 0 = IF KindOf(OnReset) = "delayed" THEN clock + some ELSE 0
    BY KindIs, NameFacts
  <2>. QED
    BY <1>1, <1>2, <2>1, <2>2, <2>3, GrownAbstract
<1>7. ASSUME NEW delay \in Delays, task_add_delayed(fn, delay) PROVE Abstract
  <2>1. Accepting(s)
    BY <1>1, <1>7 DEF task_add_delayed
  <2>2. Grown(pool, Roots, pool', Roots', Delayed, s)
        /\ NewData(s, fn, DueTime(delay), clock + delay)
    BY <1>1, <1>3, <1>7, AddDelayedSafe, AddDelayedOrdered
  <2>3. Delayed \in Names /\ clock + delay = IF KindOf(Delayed) = "delayed" THEN clock + delay ELSE 0
    BY KindIs, NameFacts
  <2>. QED
    BY <1>1, <1>7, <2>1, <2>2, <2>3, GrownAbstract
<1>. QED
  BY <1>4, <1>5, <1>6, <1>7

LEMMA RecIs ==
    ASSUME NEW p, NEW n, NEW s
    PROVE  Rec(p, n, s).kind = KindOf(n) /\ Rec(p, n, s).id = p[s].id /\ Rec(p, n, s).due = p[s].due
BY DEF Rec

LEMMA DeleteAbstract ==
    ASSUME Good, GoodNext, NEW fn, task_delete(fn) \/ task_delete_systick(fn)
    PROVE  Abstract
<1>1. TypeOK /\ TypeOK' /\ Calls /\ Calls' /\ Safe /\ Stamps /\ NoRace /\ NoRace'
  BY DEF Good, GoodNext, Ordered
<1>2. PICK n \in {Delayed, Systick} : \E s : Taken(n, s)
  BY <1>1, DeleteSafe, DeleteSystickSafe
<1>3. PICK s : Taken(n, s)
  BY <1>2
<1>4. n \in Names /\ KindOf(n) \in {"delayed", "systick"}
  BY <1>2, KindIs, NameFacts
<1>5. PICK t : t = Rec(pool, n, s)
  OBVIOUS
<1>6. t \in Waiting /\ Waiting' = Waiting \ {t}
  BY <1>1, <1>3, <1>4, <1>5, WaitingTaken
<1>7. t.kind \in {"delayed", "systick"}
  BY <1>4, <1>5, RecIs
<1>8. UNCHANGED << added, run, last, clock >>
  BY DEF task_delete, task_delete_systick
<1>. QED
  BY <1>1, <1>6, <1>7, <1>8, DeleteStep, AbstractFrom

LEMMA RunAbstract ==
    ASSUME Good, GoodNext, NEW n \in Names, NEW s, Taken(n, s), KindOf(n) # "systick", Runs(s),
           UNCHANGED << added, clock >>,
           n = Delayed => /\ pool[s].due <= clock
                          /\ \A u \in Chain(pool, delayed) : pool[s].due <= pool[u].due
    PROVE  Abstract
<1>1. TypeOK /\ TypeOK' /\ Calls /\ Calls' /\ Safe /\ Stamps /\ NoRace /\ NoRace'
  BY DEF Good, GoodNext, Ordered
<1>2. PICK t : t = Rec(pool, n, s)
  OBVIOUS
<1>3. t \in Waiting /\ Waiting' = Waiting \ {t}
  BY <1>1, <1>2, WaitingTaken
<1>4. t.kind = KindOf(n) /\ t.id = pool[s].id /\ t.due = pool[s].due
  BY <1>2, RecIs
<1>5. run' = run + 1 /\ last' = t.id
  BY <1>4 DEF Runs
<1>6. ASSUME t.kind = "delayed"
      PROVE  /\ t.due <= clock
             /\ \A u \in Waiting : u.kind = "delayed" => t.due <= u.due
  <2>1. \A m \in Names : KindOf(m) = "delayed" => m = Delayed
    BY DEF KindOf
  <2>2. n = Delayed
    BY <1>4, <1>6, <2>1
  <2>3. ASSUME NEW u \in Waiting, u.kind = "delayed" PROVE t.due <= u.due
    <3>1. u \in OnLists(pool, Roots)
      BY <1>1, <2>3, WaitingIs DEF WaitingOK
    <3>2. PICK m \in Names : \E v \in Chain(pool, Roots[m]) : u = Rec(pool, m, v)
      BY <3>1 DEF OnLists
    <3>3. PICK v \in Chain(pool, Roots[m]) : u = Rec(pool, m, v)
      BY <3>2
    <3>4. u.kind = KindOf(m) /\ u.due = pool[v].due
      BY <3>3, RecIs
    <3>5. m = Delayed
      BY <2>1, <2>3, <3>4
    <3>6. v \in Chain(pool, delayed)
      BY <1>1, <3>3, <3>5, DelayedHolds
    <3>. QED
      BY <1>4, <2>2, <3>4, <3>6
  <2>. QED
    BY <1>4, <2>2, <2>3
<1>. QED
  BY <1>1, <1>3, <1>4, <1>5, <1>6, RunStep, AbstractFrom

LEMMA RunningAbstract ==
    ASSUME Good, GoodNext, RunImmediate \/ RunDelayed \/ RunReset
    PROVE  Abstract
<1>1. TypeOK /\ TypeOK' /\ Calls /\ Safe /\ Ordered
  BY DEF Good, GoodNext
<1>2. CASE RunImmediate
  <2>1. Taken(Len(stack), Head(stack).task) /\ Runs(Head(stack).task) /\ UNCHANGED << added, clock >>
    BY <1>1, <1>2, RunImmediateSafe DEF RunImmediate, task_run
  <2>2. Len(stack) \in 1 .. MaxDepth
    BY <1>1, <1>2, RunImmediateType, GotoRoots
  <2>3. Len(stack) \in Names /\ KindOf(Len(stack)) # "systick" /\ Len(stack) # Delayed
    <3>1. \A d \in 1 .. MaxDepth : d \in Names /\ KindOf(d) # "systick" /\ d # Delayed
      BY NameFacts, KindIs
    <3>. QED
      BY <2>2, <3>1
  <2>. QED
    BY <2>1, <2>3, RunAbstract
<1>3. CASE RunDelayed
  <2>1. /\ stack # << >> /\ Head(stack).at = "window" /\ Runs(Head(stack).task)
        /\ UNCHANGED << added, clock >>
    BY <1>3 DEF RunDelayed, Inner
  <2>2. Taken(Delayed, Head(stack).task)
    BY <1>1, <1>3, RunDelayedSafe
  <2>3. /\ pool[Head(stack).task].due <= clock
        /\ \A u \in Chain(pool, delayed) : pool[Head(stack).task].due <= pool[u].due
    BY <1>1, <2>1 DEF Ordered, Reads, FoundDue
  <2>4. Delayed \in Names /\ KindOf(Delayed) # "systick"
    BY NameFacts, KindIs
  <2>. QED
    BY <2>1, <2>2, <2>3, <2>4, RunAbstract
<1>4. CASE RunReset
  <2>1. Taken(OnReset, on_reset) /\ Runs(on_reset) /\ UNCHANGED << added, clock >>
    BY <1>1, <1>4, RunResetSafe DEF RunReset, task_run
  <2>2. OnReset \in Names /\ KindOf(OnReset) # "systick" /\ OnReset # Delayed
    BY NameFacts, KindIs
  <2>. QED
    BY <2>1, <2>2, RunAbstract
<1>. QED
  BY <1>2, <1>3, <1>4

\* The steps that leave the tasks alone are none to the callers.
LEMMA QuietAbstract ==
    ASSUME Good, GoodNext,
           \/ ImmediateReturns \/ PollTick \/ CallSystick \/ SystickReturns \/ PollDue
           \/ DelayedReturns \/ ResetReturns \/ task_execute_on_startup \/ task_execute
    PROVE  Abstract
<1>1. TypeOK /\ TypeOK' /\ Calls /\ Calls' /\ Safe /\ NoRace /\ NoRace'
  BY DEF Good, GoodNext
<1>2. UNCHANGED << added, run, last, clock >> /\ pool' = pool
  BY DEF ImmediateReturns, PollTick, CallSystick, SystickReturns, PollDue, DelayedReturns,
         ResetReturns, task_execute_on_startup, task_execute, history
<1>3. Roots' = Roots \/ Handed
  BY <1>1, ImmediateReturnsSafe, PollTickSafe, CallSystickSafe, SystickReturnsSafe, PollDueSafe,
     DelayedReturnsSafe, ResetReturnsSafe, StartupSafe, ExecuteSafe
<1>4. Waiting' = Waiting
  BY <1>1, <1>2, <1>3, WaitingSame, WaitingHanded
<1>. QED
  BY <1>1, <1>2, <1>4, QuietStep DEF Abstract

LEMMA TickAbstract ==
    ASSUME Good, GoodNext, Tick
    PROVE  Abstract
<1>1. TypeOK /\ TypeOK' /\ Calls /\ Calls' /\ Safe /\ NoRace /\ NoRace'
  BY DEF Good, GoodNext
<1>2. clock' = clock + 1 /\ added' = added /\ run' = run /\ last' = last /\ pool' = pool
  BY DEF Tick, history
<1>3. Waiting' = Waiting
  BY <1>1, <1>2, TickSafe, WaitingSame
<1>4. Schedule!Tick
  BY <1>1, <1>2, <1>3 DEF Schedule!Tick
<1>. QED
  BY <1>4 DEF Abstract, Schedule!Next

LEMMA AbstractStep ==
    ASSUME Good, GoodNext, Next
    PROVE  Abstract
<1>1. CASE \E fn \in Once : task_add_immediate(fn) \/ (Called /\ task_run_on_reset(fn))
  BY <1>1, FnsIn, AddAbstract
<1>2. CASE \E fn \in Timed : \/ \E delay \in Delays : task_add_delayed(fn, delay)
                             \/ task_delete(fn)
                             \/ Called /\ task_add_systick(fn)
                             \/ task_delete_systick(fn)
  BY <1>2, FnsIn, AddAbstract, DeleteAbstract
<1>3. CASE task_execute
  BY <1>3, QuietAbstract
<1>4. CASE Foreground
  BY <1>4, QuietAbstract, RunningAbstract DEF Foreground
<1>5. CASE task_execute_on_startup
  BY <1>5, QuietAbstract
<1>6. CASE Tick
  BY <1>6, TickAbstract
<1>. QED
  BY <1>1, <1>2, <1>3, <1>4, <1>5, <1>6 DEF Next

\* The lists, and the order of the delayed tasks, as long as no coincidence has happened.
OInv == IInv /\ (NoRace => Ordered)

LEMMA OrderedInit == Init => Ordered
<1>1. SUFFICES ASSUME Init PROVE Ordered
  OBVIOUS
<1>2. TypeOK /\ Calls
  BY <1>1, InitHolds DEF IInv
<1>3. stack = << >> /\ Len(stack) = 0 /\ delayed = 0 /\ \A s \in Slot : pool[s] = Free
  BY <1>1 DEF Init
<1>4. Chain(pool, delayed) = {}
  BY <1>2, <1>3, Typed, SlotFacts, ChainHolds
<1>5. Stamps
  BY <1>3, FreeType DEF Stamps
<1>6. TicksRead
  BY <1>3 DEF TicksRead
<1>. QED
  BY <1>3, <1>4, <1>5, <1>6 DEF Ordered, Sorted, Reads, FoundDue

LEMMA OrderedStays == OInv /\ [Next]_vars => OInv'
<1>1. SUFFICES ASSUME OInv, [Next]_vars PROVE OInv'
  OBVIOUS
<1>2. IInv'
  BY <1>1, InvStep DEF OInv
<1>3. CASE Next
  <2>1. ASSUME NoRace' PROVE Ordered'
    <3>1. NoRace
      BY <1>3, <2>1, RacesGrow DEF NoRace
    <3>2. TypeOK /\ TypeOK' /\ Calls /\ Safe /\ Safe' /\ Ordered
      BY <1>1, <1>2, <2>1, <3>1 DEF OInv, IInv
    <3>. QED
      BY <1>3, <2>1, <3>2, OrderStep
  <2>. QED
    BY <1>2, <2>1 DEF OInv
<1>4. CASE UNCHANGED vars
  <2>1. UNCHANGED << pool, delayed, stack, clock, added, races >>
    BY <1>4 DEF vars, lists, history
  <2>2. Stamps => Stamps'
    BY <2>1 DEF Stamps
  <2>3. Sorted => Sorted'
    BY <2>1 DEF Sorted, Tick0
  <2>4. Reads => Reads'
    BY <2>1 DEF Reads, TicksRead, FoundDue, WasTick, Tick0
  <2>5. NoRace' = NoRace
    BY <2>1 DEF NoRace
  <2>. QED
    BY <1>1, <1>2, <2>2, <2>3, <2>4, <2>5 DEF OInv, Ordered
<1>. QED
  BY <1>1, <1>3, <1>4

\* Until a coincidence happens every task has a stamp of its own, the delayed tasks are in
\* the order of their times although the tick counter wraps, and the task task_execute has
\* found due is due and the earliest, whatever has been added since it looked.
THEOREM OrderHolds == Spec => []OInv
<1>1. Init => OInv
  BY InitHolds, OrderedInit DEF OInv
<1>. QED
  BY <1>1, OrderedStays, PTL DEF Spec

LEMMA WaitingInit == Init => Schedule!Init
<1>1. SUFFICES ASSUME Init PROVE Schedule!Init
  OBVIOUS
<1>2. TypeOK /\ Calls /\ NoRace
  BY <1>1, InitHolds DEF IInv, Init, NoRace
<1>3. Lists(pool, Roots) /\ \A s \in Slot : pool[s].fn = NoFn
  BY <1>1, <1>2, InitHolds, FreeType DEF IInv, Safe, Init
<1>4. \A n \in Names : Chain(pool, Roots[n]) = {}
  BY <1>3, ListHolds
<1>5. Waiting = {}
  BY <1>2, <1>4, WaitingIs DEF WaitingOK, OnLists
<1>. QED
  BY <1>1, <1>2, <1>5 DEF Schedule!Init, Init

LEMMA WaitingStep == OInv /\ [Next]_vars => [~NoRace \/ Schedule!Next]_(Schedule!vars)
<1>1. SUFFICES ASSUME OInv, [Next]_vars, NoRace PROVE Schedule!Next \/ UNCHANGED Schedule!vars
  OBVIOUS
<1>2. CASE Next /\ NoRace'
  <2>1. OInv'
    BY <1>1, OrderedStays
  <2>2. Good /\ GoodNext
    BY <1>1, <1>2, <2>1 DEF Good, GoodNext, OInv, IInv
  <2>. QED
    BY <1>2, <2>2, AbstractStep DEF Abstract
<1>3. CASE ~NoRace'
  BY <1>1, <1>3 DEF Schedule!Next, Schedule!Void
<1>4. CASE UNCHANGED vars
  <2>1. UNCHANGED << pool, immediate, delayed, systick, on_reset, stack, clock, added, run, last, races >>
    BY <1>4 DEF vars, lists, history
  <2>2. Waiting' = Waiting /\ NoRace'
    <3>1. NoRace'
      BY <1>1, <2>1 DEF NoRace
    <3>2. Held("imm")' = Held("imm") /\ Held("imm_fn")' = Held("imm_fn") /\ Held("reset_fn")' = Held("reset_fn")
      BY <2>1 DEF Held
    <3>3. \A k : OnList(k)' = OnList(k)
      BY <2>1, <3>2 DEF OnList
    <3>4. Waiting' = Waiting
      BY <2>1, <3>3 DEF Waiting
    <3>. QED
      BY <3>1, <3>4
  <2>. QED
    BY <1>1, <2>1, <2>2, QuietStep
<1>. QED
  BY <1>1, <1>2, <1>3, <1>4

\* The scheduler keeps what task.h promises: every accepted task is run once, or deleted
\* before it is run, a delayed one not before its time nor before one due earlier, although
\* the tick counter wraps, interrupts add and delete, and tasks call task_execute again;
\* until one of the coincidences the code does not handle happens.
THEOREM Implements == Spec => Scheduled
<1>1. Init => Schedule!Init
  BY WaitingInit
<1>2. OInv /\ [Next]_vars => [~NoRace \/ Schedule!Next]_(Schedule!vars)
  BY WaitingStep
<1>. QED
  BY <1>1, <1>2, OrderHolds, PTL DEF Spec, Scheduled, Schedule!Spec

=============================================================================
