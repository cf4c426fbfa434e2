---------------------------- MODULE StorageProofs ----------------------------
(***************************************************************************)
(* Proof that settings survive (Durable) and that no change is forgotten     *)
(* (KeptMarked), for every number of records, any number of writes and any   *)
(* number of losses of power and failed transfers.                           *)
(***************************************************************************)
EXTENDS Storage, TLAPS

\* TypeOK, the shape of the flags and of the history, and the attempts a flash sync under
\* way has left.
MemoryType ==
    /\ kind \in {"flash", "eeprom"}
    /\ phys \in [Items -> Value] /\ ram \in [Items -> Value]
    /\ dirty \in [is_dirty : BOOLEAN, bits : SUBSET Items]
    /\ pc \in {"off", "import", "init_write", "load", "run", "flash", "eeprom"}
    /\ ret \in {"run", "init_write"}
    /\ clock \in 0 .. MaxWrites
    /\ since \in [Records -> SUBSET Value] /\ lost \in SUBSET Records
    /\ todo \in SUBSET Items /\ retries \in 0 .. 4
    /\ pc = "flash" => retries # 0

\* A memory from which a restart gets every record that is not lost right; without the
\* version byte or the global settings everything counts as lost.
Holds(mem, sn, ls) == \A r \in Records \ ls : ReadsAs(mem[r]) \in sn[r]
Readable(mem) == mem[Version] # Bad /\ mem[Global] # Bad
Good(mem, sn, ls) == Holds(mem, sn, ls) /\ (Readable(mem) \/ Records \subseteq ls)

\* The physical storage is good unless it is being written as a whole.
PhysInv == pc \notin {"flash", "init_write"} => Good(phys, since, lost)

\* The copy in RAM is good once it is loaded, and what is written as a whole is complete.
RamInv ==
    /\ pc # "off" => Good(ram, since, lost)
    /\ pc \notin {"off", "import"} => ram[Version] # Bad
    /\ pc \in {"run", "flash", "init_write", "eeprom"} => ram[Global] # Bad

\* In an EEPROM, an item that is not marked is stored; a machine that runs on one has a
\* version byte in it, so that a mark on the version byte alone is no loss.  A sector is
\* stored as a whole unless something is marked, and a marked record shows in is_dirty.
MarkInv ==
    /\ pc \in {"flash", "eeprom"} => pc = kind
    /\ pc = "eeprom" => todo \subseteq dirty.bits
    /\ pc \in {"off", "import"} => dirty = Clean
    /\ kind = "eeprom" /\ pc # "off" => \A i \in Items \ dirty.bits : phys[i] = ram[i]
    /\ kind = "eeprom" /\ (pc \in {"run", "load"} \/ (pc = "eeprom" /\ ret = "run"))
          => phys[Version] # Bad
    /\ dirty.bits \ {Version} # {} => dirty.is_dirty
    /\ kind = "flash" /\ pc \in {"import", "load", "run"} /\ ~dirty.is_dirty
          => \A r \in Records : phys[r] = ram[r]

\* The inductive invariant of Durable.  Past a failure the code does not recover from it
\* says no more than the types.
StorageInv == NoRace => PhysInv /\ RamInv /\ MarkInv

-----------------------------------------------------------------------------
(* The parts of the memory, and what a sync and a restore do *)

LEMMA Parts ==
    /\ Version \notin Records /\ {Global, Build, Driver} \subseteq Records
    /\ Lines \subseteq Records /\ Coords \subseteq Records
    /\ Items = Records \cup {Version}
    /\ Default \in Value /\ Bad \in Value /\ Default # Bad
    /\ 0 .. MaxWrites \subseteq Value /\ Bad \notin 0 .. MaxWrites
    /\ Blank \in [Items -> Value] /\ Factory \in [Items -> Value]
<1>1. Version \notin Records
  BY DEF Version, Records, Global, Build, Driver, Lines, Coords, Startup, Coord
<1>2. /\ Default \in Value /\ Bad \in Value /\ Default # Bad
      /\ 0 .. MaxWrites \subseteq Value /\ Bad \notin 0 .. MaxWrites
  BY BoundsAssumption DEF Default, Bad, Value
<1>. QED
  BY <1>1, <1>2 DEF Records, Items, Blank, Factory

LEMMA LayoutLength == Len(Layout) \in Nat /\ Len(Layout) >= 1
<1>. DEFINE cs == [i \in 1 .. N_CoordinateSystems |-> Coord(i - 1)]
            ls == [i \in 1 .. N_STARTUP_LINE |-> Startup(i - 1)]
            any == Records \cup {Version}
<1>1. \A i \in 1 .. N_CoordinateSystems : Coord(i - 1) \in any
  BY SizesAssumption DEF Records, Coords
<1>2. \A i \in 1 .. N_STARTUP_LINE : Startup(i - 1) \in any
  BY SizesAssumption DEF Records, Lines
<1>3. cs \in Seq(any) /\ ls \in Seq(any)
  BY <1>1, <1>2, SizesAssumption
<1>4. << Version, Global >> \in Seq(any) /\ << Build, Driver >> \in Seq(any)
  BY DEF Records
<1>. HIDE DEF cs, ls, any
<1>5. Len(<< Version, Global >> \o cs \o ls \o << Build, Driver >>) = 4 + Len(cs) + Len(ls)
  BY <1>3, <1>4
<1>6. Layout = << Version, Global >> \o cs \o ls \o << Build, Driver >>
  BY DEF Layout, cs, ls
<1>7. Len(cs) \in Nat /\ Len(ls) \in Nat
  BY <1>3
<1>. QED
  BY <1>5, <1>6, <1>7

LEMMA SyncFacts ==
    ASSUME NEW d, NEW where, Sync(d, where), MemoryType
    PROVE  \/ d.is_dirty /\ pc' = kind /\ ret' = where
              /\ (kind = "eeprom" => todo' = d.bits)
              /\ todo' \in {{}, d.bits} /\ retries' \in 0 .. 4 /\ (kind = "flash" => retries' # 0)
           \/ ~d.is_dirty /\ pc' = where /\ UNCHANGED << ret, todo, retries >>
BY DEF Sync, MemoryType

\* The defaults written by a restore agree with what the records were, when they could not
\* be read, are lost, or are given the default on purpose.
LEMMA RestoreHolds ==
    ASSUME NEW mem \in [Items -> Value], NEW records \in SUBSET Records, NEW sn, NEW sn2, NEW ls,
           Holds(mem, sn, ls),
           \A r \in Records : sn[r] \subseteq sn2[r],
           \A r \in records \ ls : mem[r] = Bad \/ Default \in sn2[r]
    PROVE  Holds([i \in Items |-> IF i \in records \cup {Version} THEN Default ELSE mem[i]], sn2, ls)
BY Parts DEF Holds, ReadsAs, Items

-----------------------------------------------------------------------------
(* Types *)

LEMMA TypeInit == Init => MemoryType
<1>. SUFFICES ASSUME Init PROVE MemoryType
  OBVIOUS
<1>1. phys \in [Items -> Value]
  BY Parts DEF Init
<1>2. since \in [Records -> SUBSET Value]
  BY <1>1, Parts DEF Init, ReadsAs
<1>. QED
  BY <1>1, <1>2, Parts, BoundsAssumption DEF Init, MemoryType, Clean

LEMMA InterruptedType ==
    ASSUME MemoryType PROVE Interrupted \cup PartlyWritten \subseteq [Items -> Value]
BY Parts DEF MemoryType, Interrupted, PartlyWritten

LEMMA BrokenType ==
    ASSUME MemoryType PROVE Broken \subseteq [Items -> Value]
<1>. SUFFICES ASSUME NEW mem \in Broken PROVE mem \in [Items -> Value]
  OBVIOUS
<1>1. CASE pc = "eeprom"
  <2>1. PICK i \in todo : \E v \in Torn(i) \cup {Bad} : mem = [phys EXCEPT ![i] = v]
    BY <1>1 DEF Broken
  <2>2. Torn(i) \cup {Bad} \subseteq Value
    BY Parts DEF Torn, MemoryType
  <2>. QED
    BY <2>1, <2>2 DEF MemoryType
<1>2. CASE pc # "eeprom"
  BY <1>2, InterruptedType DEF Broken
<1>. QED
  BY <1>1, <1>2

LEMMA CostsType == ASSUME MemoryType PROVE Costs \in SUBSET Records
BY Parts DEF Costs, Hurt, MemoryType, Items

LEMMA SettledType ==
    ASSUME MemoryType, Settled PROVE since' \in [Records -> SUBSET Value] /\ lost' \in SUBSET Records
BY Parts DEF MemoryType, Settled, ReadsAs

LEMMA MarkedType ==
    ASSUME MemoryType, NEW r \in Records, NEW v \in Value, memcpy_to_ram(r, v)
    PROVE  ram' \in [Items -> Value] /\ dirty' \in [is_dirty : BOOLEAN, bits : SUBSET Items]
BY Parts DEF MemoryType, memcpy_to_ram, Marked

LEMMA RestoreType ==
    ASSUME MemoryType, NEW records \in SUBSET Records, NEW where \in {"run", "init_write"},
           settings_restore(records, where)
    PROVE  /\ ram' \in [Items -> Value] /\ dirty' \in [is_dirty : BOOLEAN, bits : SUBSET Items]
           /\ pc' \in {"run", "init_write", "flash", "eeprom"} /\ ret' \in {"run", "init_write"}
           /\ todo' \in SUBSET Items /\ retries' \in 0 .. 4 /\ (pc' = "flash" => retries' # 0)
<1>1. ram' \in [Items -> Value]
  BY Parts DEF MemoryType, settings_restore
<1>2. dirty' = [is_dirty |-> dirty.is_dirty \/ records # {},
                bits |-> dirty.bits \cup records \cup {Version}]
      /\ Sync(dirty', where)
  BY DEF settings_restore
<1>3. (dirty.is_dirty \/ records # {}) \in BOOLEAN
  OBVIOUS
<1>4. dirty' \in [is_dirty : BOOLEAN, bits : SUBSET Items]
  BY <1>2, <1>3, Parts DEF MemoryType
<1>. QED
  BY <1>1, <1>2, <1>4, SyncFacts DEF MemoryType

LEMMA TypeStep == ASSUME MemoryType, [Next]_vars PROVE MemoryType'
<1>1. CASE nvs_buffer_init
  BY <1>1 DEF MemoryType, nvs_buffer_init, history
<1>2. CASE Import
  BY <1>2, RestoreType DEF MemoryType, Import, history
<1>3. CASE settings_init
  BY <1>3, RestoreType, MarkedType, Parts DEF MemoryType, settings_init, history
<1>4. ASSUME NEW ok \in BOOLEAN, InitWrite(ok) PROVE MemoryType'
  <2>1. phys' \in [Items -> Value]
    BY <1>4, InterruptedType DEF InitWrite, MemoryType
  <2>2. since' \in [Records -> SUBSET Value] /\ lost' \in SUBSET Records
    BY <1>4, SettledType DEF InitWrite, MemoryType
  <2>. QED
    BY <1>4, <2>1, <2>2 DEF InitWrite, MemoryType, Clean
<1>5. ASSUME NEW ok \in BOOLEAN, FlashWrite(ok) PROVE MemoryType'
  <2>1. phys' \in [Items -> Value]
    BY <1>5, InterruptedType DEF FlashWrite, MemoryType
  <2>2. since' \in [Records -> SUBSET Value] /\ lost' \in SUBSET Records
    BY <1>5, SettledType DEF FlashWrite, MemoryType
  <2>3. pc' \in {pc, ret} /\ dirty' \in {dirty, Clean}
    BY <1>5 DEF FlashWrite
  <2>4. dirty' \in [is_dirty : BOOLEAN, bits : SUBSET Items]
    <3>1. Clean \in [is_dirty : BOOLEAN, bits : SUBSET Items]
      BY DEF Clean
    <3>. QED
      BY <2>3, <3>1 DEF MemoryType
  <2>5. kind' = kind /\ ram' = ram /\ ret' = ret /\ clock' = clock /\ todo' = todo
    BY <1>5 DEF FlashWrite
  <2>6. retries' \in 0 .. 4 /\ (pc' = "flash" => retries' # 0)
    BY <1>5 DEF FlashWrite, MemoryType, Exhausted
  <2>. QED
    BY <2>1, <2>2, <2>3, <2>4, <2>5, <2>6 DEF MemoryType
<1>6. ASSUME NEW ok \in BOOLEAN, NEW i \in Items, EepromWrite(i, ok) PROVE MemoryType'
  <2>1. phys' \in [Items -> Value]
    BY <1>6, Parts DEF EepromWrite, MemoryType, Torn
  <2>2. dirty' \in [is_dirty : BOOLEAN, bits : SUBSET Items]
    BY <1>6 DEF EepromWrite, MemoryType
  <2>3. lost' \in SUBSET Records
    BY <1>6 DEF EepromWrite, MemoryType, Hurt, Items
  <2>. QED
    BY <1>6, <2>1, <2>2, <2>3 DEF EepromWrite, MemoryType
<1>7. CASE EepromDone
  <2>1. dirty' = [dirty EXCEPT !.is_dirty = dirty.bits \ {Version} # {}]
    BY <1>7 DEF EepromDone
  <2>2. dirty' \in [is_dirty : BOOLEAN, bits : SUBSET Items]
    BY <2>1 DEF MemoryType
  <2>3. since' \in [Records -> SUBSET Value] /\ lost' \in SUBSET Records
    BY <1>7, SettledType DEF EepromDone, MemoryType
  <2>. QED
    BY <1>7, <2>2, <2>3 DEF EepromDone, MemoryType
<1>8. CASE IdleSync
  BY <1>8, SyncFacts DEF IdleSync, MemoryType, history
<1>9. ASSUME NEW r \in Records, Write(r) PROVE MemoryType'
  <2>1. PICK v \in {ram[r], clock + 1} \cap 0 .. MaxWrites :
           /\ memcpy_to_ram(r, v) /\ clock' = IF v > clock THEN v ELSE clock
           /\ since' = [since EXCEPT ![r] = @ \cup {v}]
    BY <1>9 DEF Write
  <2>2. ram' \in [Items -> Value] /\ dirty' \in [is_dirty : BOOLEAN, bits : SUBSET Items]
    BY <2>1, MarkedType, Parts
  <2>3. since' \in [Records -> SUBSET Value] /\ clock' \in 0 .. MaxWrites
    BY <2>1, Parts DEF MemoryType
  <2>. QED
    BY <1>9, <2>2, <2>3 DEF Write, MemoryType, control
<1>10. ASSUME NEW r \in Records, Read(r) PROVE MemoryType'
  BY <1>10, MarkedType, Parts DEF Read, MemoryType, control, history
<1>11. CASE ReadBuildInfo
  BY <1>11, RestoreType, Parts DEF ReadBuildInfo, MemoryType, history
<1>12. ASSUME NEW records \in {{Global}, Coords, {Driver}, Records}, SettingsReset(records)
       PROVE  MemoryType'
  <2>1. records \in SUBSET Records
    BY Parts
  <2>2. since' \in [Records -> SUBSET Value]
    BY <1>12, Parts DEF SettingsReset, MemoryType
  <2>. QED
    BY <1>12, <2>1, <2>2, RestoreType DEF SettingsReset, MemoryType
<1>13. CASE PowerLoss
  BY <1>13, BrokenType, CostsType, Parts DEF PowerLoss, MemoryType, Clean
<1>14. CASE UNCHANGED vars
  BY <1>14 DEF vars, control, history, MemoryType
<1>. QED
  BY <1>1, <1>2, <1>3, <1>4, <1>5, <1>6, <1>7, <1>8, <1>9, <1>10, <1>11, <1>12, <1>13, <1>14
  DEF Next, StartUp

-----------------------------------------------------------------------------
(* Durable *)

Inv == PhysInv /\ RamInv /\ MarkInv

LEMMA InvInit == Init => StorageInv
<1>. SUFFICES ASSUME Init PROVE PhysInv /\ RamInv /\ MarkInv
  BY DEF StorageInv
<1>1. Holds(phys, since, lost)
  BY DEF Init, Holds
<1>2. phys[Version] = Bad \/ Readable(phys)
  BY Parts DEF Init, Readable, Factory, Blank
<1>3. phys[Version] = Bad => Records \subseteq lost
  BY DEF Init
<1>. QED
  BY <1>1, <1>2, <1>3 DEF Init, PhysInv, RamInv, MarkInv, Good, Clean

\* A restart gets more right when more values count as right and more records as lost.
LEMMA GoodGrows ==
    ASSUME NEW mem, NEW sn, NEW sn2, NEW ls, NEW ls2, Good(mem, sn, ls), ls \subseteq ls2,
           \A r \in Records : sn[r] \subseteq sn2[r]
    PROVE  Good(mem, sn2, ls2)
BY DEF Good, Holds

\* When everything is stored, what is in RAM is right.
LEMMA GoodSettled ==
    ASSUME MemoryType, Settled, Readable(ram)
    PROVE  Good(ram, since', lost')
BY DEF Settled, Good, Holds

\* Nothing is taken for stored that is not: putting a value in RAM.
LEMMA PutStep ==
    ASSUME MemoryType, NEW r \in Records, NEW v \in Value \ {Bad}, memcpy_to_ram(r, v), Inv,
           pc' = "run", pc = "run" \/ (pc = "load" /\ ram[Global] # Bad), kind' = kind, phys' = phys, lost' = lost,
           \A s \in Records : since[s] \subseteq since'[s],
           v \in since'[r] \/ (v = Default /\ ram[r] = Bad)
    PROVE  Inv'
<1>1. ram' = [ram EXCEPT ![r] = v] /\ ram' \in [Items -> Value]
  BY MarkedType DEF memcpy_to_ram
<1>2. Good(phys', since', lost')
  BY GoodGrows DEF Inv, PhysInv
<1>3. Good(ram, since', lost')
  BY GoodGrows DEF Inv, RamInv
<1>4. Readable(ram')
  BY <1>1, Parts DEF Readable, MemoryType, Inv, RamInv
<1>5. Holds(ram', since', lost')
  BY <1>1, <1>3, Parts DEF Holds, Good, ReadsAs, MemoryType
<1>6. \A i \in Items \ dirty'.bits : i \in Items \ dirty.bits /\ ram'[i] = ram[i]
  BY <1>1, Parts DEF memcpy_to_ram, Marked, MemoryType
<1>9. dirty'.is_dirty \/ (dirty' = dirty /\ ram' = ram)
  BY <1>1 DEF memcpy_to_ram, Marked, MemoryType
<1>10. dirty.bits \ {Version} # {} => dirty.is_dirty
  BY DEF Inv, MarkInv
<1>11. kind = "flash" /\ ~dirty.is_dirty => \A s \in Records : phys[s] = ram[s]
  BY DEF Inv, MarkInv
<1>12. /\ dirty'.bits \ {Version} # {} => dirty'.is_dirty
       /\ kind = "flash" /\ ~dirty'.is_dirty => \A s \in Records : phys[s] = ram'[s]
  BY <1>9, <1>10, <1>11
<1>7. MarkInv'
  BY <1>6, <1>12 DEF MarkInv, Inv
<1>. QED
  BY <1>2, <1>4, <1>5, <1>7 DEF Inv, PhysInv, RamInv, Good, Readable

\* Restoring some records.
LEMMA RestoreStep ==
    ASSUME MemoryType, NEW records \in SUBSET Records, NEW where, settings_restore(records, where),
           Inv, kind' = kind, phys' = phys, lost' = lost,
           \/ pc = "run" /\ where = "run"
           \/ pc = "load" /\ where = "run" /\ records = Records
           \/ pc = "import" /\ where = "init_write" /\ records = Records,
           \A s \in Records : since[s] \subseteq since'[s],
           \A r \in records \ lost : ram[r] = Bad \/ Default \in since'[r]
    PROVE  Inv'
<1>1. ram' = [i \in Items |-> IF i \in records \cup {Version} THEN Default ELSE ram[i]]
  BY DEF settings_restore
<1>2. dirty' = [is_dirty |-> dirty.is_dirty \/ records # {},
                bits |-> dirty.bits \cup records \cup {Version}]
      /\ Sync(dirty', where)
  BY DEF settings_restore
<1>3. (dirty'.is_dirty /\ pc' = kind /\ ret' = where /\ (kind = "eeprom" => todo' = dirty'.bits)) \/ (~dirty'.is_dirty /\ pc' = where)
  BY <1>2, SyncFacts
<1>4. dirty'.bits = dirty.bits \cup records \cup {Version} /\ (records = Records => dirty'.is_dirty)
  BY <1>2, Parts
<1>5. Good(phys', since', lost')
  BY GoodGrows DEF Inv, PhysInv
<1>6. Holds(ram, since, lost)
  BY DEF Inv, RamInv, Good
<1>7. Holds(ram', since', lost')
  BY <1>1, <1>6, RestoreHolds DEF MemoryType
<1>8. Readable(ram')
  BY <1>1, Parts DEF Readable, MemoryType, Inv, RamInv
<1>9. \A i \in Items \ dirty'.bits : i \in Items \ dirty.bits /\ ram'[i] = ram[i]
  BY <1>1, <1>4
<1>10. pc' \in {"run", "flash", "eeprom"} /\ (pc' \in {"flash", "eeprom"} => pc' = kind)
  BY <1>3, <1>4 DEF MemoryType
<1>11. pc' = "run" \/ (pc' = "eeprom" /\ ret' = "run") => pc \in {"run", "load"}
  BY <1>3, <1>4 DEF MemoryType
<1>12. pc' = "eeprom" => todo' \subseteq dirty'.bits
  BY <1>3, <1>10
<1>14. dirty'.is_dirty \/ (records = {} /\ ~dirty.is_dirty /\ pc = "run")
  BY <1>2, Parts
<1>15. /\ dirty.bits \ {Version} # {} => dirty.is_dirty
       /\ kind = "flash" /\ pc = "run" /\ ~dirty.is_dirty => \A s \in Records : phys[s] = ram[s]
  BY DEF Inv, MarkInv
<1>16. records = {} => (\A s \in Records : ram'[s] = ram[s]) /\ dirty'.bits \ {Version} = dirty.bits \ {Version}
  BY <1>1, <1>4, Parts
<1>17. /\ dirty'.bits \ {Version} # {} => dirty'.is_dirty
       /\ kind = "flash" /\ ~dirty'.is_dirty => \A s \in Records : phys[s] = ram'[s]
  BY <1>14, <1>15, <1>16
<1>13. MarkInv'
  BY <1>9, <1>10, <1>11, <1>12, <1>17 DEF MarkInv, Inv
<1>. QED
  BY <1>5, <1>7, <1>8, <1>10, <1>13 DEF Inv, PhysInv, RamInv, Good, Readable

\* Everything written at once: RAM and storage agree.
LEMMA WholeStep ==
    ASSUME MemoryType, Inv, phys' = ram, ram' = ram, kind' = kind, Settled, dirty' = Clean,
           Readable(ram), pc' \in {"run", "load", "init_write"}
    PROVE  Inv'
<1>1. Good(ram', since', lost') /\ Good(phys', since', lost')
  BY GoodSettled
<1>. QED
  BY <1>1 DEF Inv, PhysInv, RamInv, MarkInv, Readable, Clean

\* An item is written to an EEPROM.  What a failed transfer may have cost counts as lost.
LEMMA EepromStep ==
    ASSUME MemoryType, Inv, NEW ok \in BOOLEAN, NEW i \in Items, EepromWrite(i, ok), races' = {}
    PROVE  Inv'
<1>1. /\ pc = "eeprom" /\ pc' = pc /\ ret' = ret /\ kind' = kind /\ ram' = ram /\ since' = since
      /\ lost' = (IF ok THEN lost ELSE lost \cup Hurt(i))
  BY DEF EepromWrite
<1>2. PICK v \in IF ok THEN {ram[i]} ELSE Torn(i) : phys' = [phys EXCEPT ![i] = v]
  BY DEF EepromWrite
<1>3. v \in {phys[i], ram[i], Bad} /\ (ok => v = ram[i])
      /\ (i = Version => v \in {phys[i], ram[i]})
  BY <1>2 DEF Torn
<1>4. (ok \/ i \notin Lines) /\ dirty'.bits = IF ok THEN dirty.bits \ {i} ELSE dirty.bits
  BY DEF EepromWrite, MemoryType
<1>5. Good(ram, since', lost')
  BY <1>1, GoodGrows DEF Inv, RamInv
<1>6. Good(phys, since', lost')
  BY <1>1, GoodGrows DEF Inv, PhysInv
<1>7. ~ok => (i \in Records => i \in lost') /\ (i \in {Version, Global} => Records \subseteq lost')
  BY <1>1 DEF Hurt
<1>8. Holds(phys', since', lost')
  BY <1>2, <1>3, <1>5, <1>6, <1>7 DEF Good, Holds, MemoryType
<1>9. Readable(phys') \/ Records \subseteq lost'
  BY <1>1, <1>2, <1>3, <1>5, <1>6, <1>7, Parts DEF Good, Readable, MemoryType, Inv, RamInv
<1>10. \A j \in Items \ dirty'.bits : phys'[j] = ram[j]
  <2>1. i \in dirty.bits /\ kind = "eeprom"
    BY <1>1 DEF EepromWrite, IsNext, Inv, MarkInv
  <2>2. \A j \in Items \ dirty.bits : phys[j] = ram[j]
    BY <1>1, <2>1 DEF Inv, MarkInv
  <2>. QED
    BY <1>2, <1>3, <1>4, <2>1, <2>2 DEF MemoryType
<1>12. todo' \subseteq dirty'.bits
  BY <1>1, <1>4 DEF EepromWrite, Inv, MarkInv
<1>11. phys[Version] # Bad => phys'[Version] # Bad
  BY <1>1, <1>2, <1>3, Parts DEF Inv, RamInv, MemoryType
<1>13. dirty'.bits \ {Version} # {} => dirty'.is_dirty
  BY DEF EepromWrite, MemoryType, Inv, MarkInv
<1>. QED
  BY <1>1, <1>5, <1>8, <1>9, <1>10, <1>11, <1>12, <1>13 DEF Inv, PhysInv, RamInv, MarkInv, Good

\* The end of a sync: with nothing marked but perhaps the version byte, everything is stored.
LEMMA DoneStep ==
    ASSUME MemoryType, Inv, EepromDone PROVE Inv'
<1>1. /\ pc = "eeprom" /\ pc' = ret /\ ret' = ret /\ kind' = kind /\ ram' = ram /\ phys' = phys
      /\ dirty' = [dirty EXCEPT !.is_dirty = dirty.bits \ {Version} # {}]
  BY DEF EepromDone
<1>2. dirty'.bits = dirty.bits /\ dirty'.is_dirty = (dirty.bits \ {Version} # {})
  BY <1>1 DEF MemoryType
<1>3. Readable(ram)
  BY <1>1 DEF Inv, RamInv, Readable
<1>4. Good(ram, since', lost')
  BY <1>1, <1>3, GoodSettled DEF EepromDone, Inv, RamInv
<1>5. ret = "run" => Good(phys, since', lost')
  <2>. SUFFICES ASSUME ret = "run" PROVE Good(phys, since', lost')
    OBVIOUS
  <2>1. CASE dirty'.is_dirty
    BY <1>1, <2>1 DEF EepromDone, Inv, PhysInv
  <2>2. CASE ~dirty'.is_dirty
    <3>0. dirty.bits \ {Version} = {}
      BY <1>2, <2>2
    <3>1. kind = "eeprom" /\ \A r \in Records : phys[r] = ram[r]
      BY <1>1, <3>0, Parts DEF Inv, MarkInv
    <3>2. phys[Version] # Bad
      BY <1>1, <3>1 DEF Inv, MarkInv
    <3>. QED
      BY <1>3, <1>4, <3>1, <3>2, Parts DEF Good, Holds, Readable
  <2>. QED
    BY <2>1, <2>2
<1>. QED
  BY <1>1, <1>2, <1>3, <1>4, <1>5 DEF Inv, PhysInv, RamInv, MarkInv, Readable, MemoryType

\* Power is lost: a write of the whole storage costs all records unless it was finished, a
\* write of one item costs that item.
LEMMA LossStep ==
    ASSUME MemoryType, Inv, PowerLoss PROVE Inv'
<1>1. /\ pc' = "off" /\ dirty' = Clean /\ since' = since /\ kind' = kind
      /\ lost' = lost \cup Costs /\ phys' \in Broken \cup {phys} /\ pc # "off"
  BY DEF PowerLoss
<1>2. SUFFICES Good(phys', since', lost')
  BY <1>1 DEF Inv, PhysInv, RamInv, MarkInv, Clean
<1>3. CASE Records \subseteq lost'
  BY <1>3 DEF Good, Holds
<1>. SUFFICES ASSUME ~(Records \subseteq lost') PROVE Good(phys', since', lost')
  BY <1>3
<1>4. CASE pc \in {"flash", "init_write"} /\ phys # ram
  <2>1. Broken # {} /\ pc # "eeprom"
    <3>1. phys \in Interrupted
      BY DEF Interrupted
    <3>2. PartlyWritten # {}
      <4>1. 1 \in 1 .. Len(Layout)
        BY LayoutLength
      <4>. DEFINE Part(k) == [i \in Items |-> IF \E j \in 1 .. k - 1 : Layout[j] = i THEN ram[i]
                                            ELSE IF Layout[k] = i THEN Bad ELSE phys[i]]
      <4>2. PartlyWritten = {Part(k) : k \in 1 .. Len(Layout)}
        BY DEF PartlyWritten
      <4>. HIDE DEF Part
      <4>. QED
        BY <4>1, <4>2
    <3>3. CASE pc = "flash" \/ kind = "flash"
      BY <1>4, <3>1, <3>3 DEF Broken
    <3>4. CASE pc = "init_write" /\ kind # "flash"
      BY <1>4, <3>2, <3>4 DEF Broken
    <3>. QED
      BY <1>4, <3>3, <3>4
  <2>. QED
    BY <1>1, <1>3, <2>1 DEF Costs
<1>5. CASE pc \in {"flash", "init_write"} /\ phys = ram
  <2>1. Broken = {}
    BY <1>5 DEF Broken
  <2>2. Good(ram, since, lost)
    BY <1>1 DEF Inv, RamInv
  <2>. QED
    BY <1>1, <1>5, <2>1, <2>2, GoodGrows
<1>6. CASE pc \notin {"flash", "init_write"}
  <2>1. Good(phys, since', lost')
    BY <1>1, <1>6, GoodGrows DEF Inv, PhysInv
  <2>2. CASE phys' = phys
    BY <2>1, <2>2
  <2>3. CASE phys' \in Broken
    <3>1. pc = "eeprom"
      BY <1>6, <2>3 DEF Broken
    <3>2. PICK i \in {i \in todo : IsNext(i)} : \E v : phys' = [phys EXCEPT ![i] = v]
      BY <2>3, <3>1 DEF Broken
    <3>3. Hurt(i) \subseteq lost' /\ i \in Items
      BY <1>1, <3>1 DEF Costs, MemoryType
    <3>4. i \in lost' /\ i \notin {Version, Global}
      BY <1>3, <3>3 DEF Hurt
    <3>. QED
      BY <2>1, <3>2, <3>4, Parts DEF Good, Holds, Readable, MemoryType
  <2>. QED
    BY <1>1, <2>2, <2>3
<1>. QED
  BY <1>4, <1>5, <1>6

LEMMA NotRaced == ASSUME [Next]_vars, races' = {} PROVE races = {}
BY DEF Next, StartUp, nvs_buffer_init, Import, settings_init, InitWrite, FlashWrite, EepromWrite,
       EepromDone, IdleSync, Write, Read, ReadBuildInfo, SettingsReset, PowerLoss, vars, history

\* Every step keeps the invariant.
LEMMA InvStep == ASSUME MemoryType, StorageInv, [Next]_vars PROVE StorageInv'
<1>. SUFFICES ASSUME races' = {} PROVE Inv'
  BY DEF StorageInv, Inv, NoRace
<1>0. races = {} /\ Inv
  BY NotRaced DEF StorageInv, NoRace, Inv
<1>1. CASE nvs_buffer_init
  BY <1>0, <1>1 DEF nvs_buffer_init, history, Inv, PhysInv, RamInv, MarkInv
<1>2. CASE Import
  <2>1. /\ pc = "import" /\ kind' = kind /\ phys' = phys /\ since' = since /\ lost' = lost
        /\ Good(ram, since, lost)
    BY <1>0, <1>2 DEF Import, history, Inv, RamInv
  <2>2. CASE ram[Version] = Bad
    <3>1. Records \subseteq lost
      BY <2>1, <2>2 DEF Good, Readable
    <3>2. settings_restore(Records, "init_write")
      BY <1>2, <2>2 DEF Import
    <3>. QED
      BY <1>0, <2>1, <3>1, <3>2, RestoreStep
  <2>3. CASE ram[Version] # Bad
    <3>1. pc' = "load" /\ ram' = ram /\ dirty' = dirty /\ ret' = ret /\ todo' = todo
      BY <1>2, <2>3 DEF Import
    <3>2. kind = "eeprom" => phys[Version] # Bad
      BY <1>0, <2>1, <2>3, Parts DEF Inv, MarkInv, Clean
    <3>. QED
      BY <1>0, <2>1, <2>3, <3>1, <3>2 DEF Inv, PhysInv, RamInv, MarkInv
  <2>. QED
    BY <2>2, <2>3
<1>3. CASE settings_init
  <2>1. /\ pc = "load" /\ kind' = kind /\ phys' = phys /\ since' = since /\ lost' = lost
        /\ Good(ram, since, lost)
    BY <1>0, <1>3 DEF settings_init, history, Inv, RamInv
  <2>2. CASE ram[Global] = Bad
    <3>1. Records \subseteq lost
      BY <2>1, <2>2 DEF Good, Readable
    <3>2. settings_restore(Records, "run")
      BY <1>3, <2>2 DEF settings_init
    <3>. QED
      BY <1>0, <2>1, <3>1, <3>2, RestoreStep
  <2>3. CASE ram[Global] # Bad /\ ram[Driver] = Bad
    <3>1. pc' = "run" /\ memcpy_to_ram(Driver, Default)
      BY <1>3, <2>3 DEF settings_init
    <3>. QED
      BY <1>0, <2>1, <2>3, <3>1, PutStep, Parts
  <2>4. CASE ram[Global] # Bad /\ ram[Driver] # Bad
    <3>1. pc' = "run" /\ ram' = ram /\ dirty' = dirty /\ ret' = ret
      BY <1>3, <2>4 DEF settings_init
    <3>. QED
      BY <1>0, <2>1, <2>4, <3>1 DEF Inv, PhysInv, RamInv, MarkInv
  <2>. QED
    BY <2>2, <2>3, <2>4
<1>4. ASSUME NEW ok \in BOOLEAN, InitWrite(ok) PROVE Inv'
  <2>1. /\ pc = "init_write" /\ pc' = "load" /\ phys' = ram /\ Settled /\ dirty' = Clean
        /\ ram' = ram /\ kind' = kind
    BY <1>0, <1>4 DEF InitWrite
  <2>2. Readable(ram)
    BY <1>0, <2>1 DEF Inv, RamInv, Readable
  <2>. QED
    BY <1>0, <2>1, <2>2, WholeStep
<1>5. ASSUME NEW ok \in BOOLEAN, FlashWrite(ok) PROVE Inv'
  <2>1. pc = "flash" /\ ram' = ram /\ kind' = kind /\ ret' = ret
    BY <1>5 DEF FlashWrite
  <2>2. Readable(ram) /\ kind = "flash"
    BY <1>0, <2>1 DEF Inv, RamInv, MarkInv, Readable
  <2>3. CASE ok
    <3>1. pc' = ret /\ phys' = ram /\ Settled /\ dirty' = Clean
      BY <1>5, <2>3 DEF FlashWrite
    <3>. QED
      BY <1>0, <2>1, <2>2, <3>1, WholeStep DEF MemoryType
  <2>4. CASE ~ok
    <3>1. pc' = pc /\ dirty' = dirty /\ since' = since /\ lost' = lost
      BY <1>0, <1>5, <2>4 DEF FlashWrite
    <3>. QED
      BY <1>0, <2>1, <2>2, <3>1 DEF Inv, PhysInv, RamInv, MarkInv
  <2>. QED
    BY <2>3, <2>4
<1>6. ASSUME NEW ok \in BOOLEAN, NEW i \in Items, EepromWrite(i, ok) PROVE Inv'
  BY <1>0, <1>6, EepromStep
<1>7. CASE EepromDone
  BY <1>0, <1>7, DoneStep
<1>8. CASE IdleSync
  <2>1. /\ pc = "run" /\ pc' = kind /\ ret' = "run" /\ (kind = "eeprom" => todo' = dirty.bits)
        /\ kind' = kind /\ phys' = phys /\ ram' = ram /\ dirty' = dirty /\ since' = since
        /\ lost' = lost
    BY <1>8, SyncFacts DEF IdleSync, history
  <2>. QED
    BY <1>0, <2>1 DEF Inv, PhysInv, RamInv, MarkInv, MemoryType
<1>9. ASSUME NEW r \in Records, Write(r) PROVE Inv'
  <2>1. PICK v \in {ram[r], clock + 1} \cap 0 .. MaxWrites :
           memcpy_to_ram(r, v) /\ since' = [since EXCEPT ![r] = @ \cup {v}]
    BY <1>9 DEF Write
  <2>2. v \in Value \ {Bad} /\ v \in since'[r] /\ \A s \in Records : since[s] \subseteq since'[s]
    BY <2>1, Parts DEF MemoryType
  <2>. QED
    BY <1>0, <1>9, <2>1, <2>2, PutStep DEF Write, control
<1>10. ASSUME NEW r \in Records, Read(r) PROVE Inv'
  BY <1>0, <1>10, PutStep, Parts DEF Read, control, history
<1>11. CASE ReadBuildInfo
  <2>1. {Build} \in SUBSET Records /\ ram[Build] = Bad /\ settings_restore({Build}, "run")
    BY <1>11, Parts DEF ReadBuildInfo
  <2>. QED
    BY <1>0, <1>11, <2>1, RestoreStep DEF ReadBuildInfo, history
<1>12. ASSUME NEW records \in {{Global}, Coords, {Driver}, Records}, SettingsReset(records)
       PROVE  Inv'
  <2>1. records \in SUBSET Records
    BY Parts
  <2>2. \A r \in Records : since[r] \subseteq since'[r] /\ (r \in records => Default \in since'[r])
    BY <1>12 DEF SettingsReset
  <2>. QED
    BY <1>0, <1>12, <2>1, <2>2, RestoreStep DEF SettingsReset
<1>13. CASE PowerLoss
  BY <1>0, <1>13, LossStep
<1>14. CASE UNCHANGED vars
  BY <1>0, <1>14 DEF vars, control, history, Inv, PhysInv, RamInv, MarkInv
<1>. QED
  BY <1>1, <1>2, <1>3, <1>4, <1>5, <1>6, <1>7, <1>8, <1>9, <1>10, <1>11, <1>12, <1>13, <1>14
  DEF Next, StartUp

-----------------------------------------------------------------------------

\* The memories and the flags keep their types, and a flash sync under way has an attempt
\* left, whatever fails and whenever power is lost (nvs_buffer.c).
THEOREM TypeCorrect == Spec => []TypeOK
<1>1. MemoryType => TypeOK
  BY DEF MemoryType, TypeOK
<1>. QED
  BY <1>1, TypeInit, TypeStep, PTL DEF Spec

\* For every number of records, writes, losses of power and failed transfers: a record in
\* RAM is what it was when everything was last stored or something written since, unless
\* a write that could destroy it was broken off (nvs_buffer_sync_physical, nvs_buffer_init).
THEOREM SettingsSurvive == Spec => []Durable
<1>1. StorageInv => Durable
  BY DEF StorageInv, RamInv, Good, Holds, Durable
<1>. QED
  BY <1>1, TypeInit, TypeStep, InvInit, InvStep, PTL DEF Spec

\* For every number of records, writes, losses of power and failed transfers, until the
\* first failure the code does not recover from: a record that is not in the storage as it
\* is in RAM is marked, so that the next idle pass writes it (memcpy_to_ram,
\* nvs_buffer_sync_physical).
THEOREM ChangesStayMarked == Spec => []KeptMarked
<1>1. MemoryType /\ StorageInv => KeptMarked
  <2>. SUFFICES ASSUME MemoryType, StorageInv, races = {}, pc = "run", NEW r \in Records,
                       ram[r] # phys[r]
                PROVE  dirty.is_dirty /\ (kind = "eeprom" => r \in dirty.bits)
    BY DEF KeptMarked, NoRace
  <2>1. MarkInv
    BY DEF StorageInv, NoRace
  <2>2. kind = "eeprom" => r \in dirty.bits
    BY <2>1, Parts DEF MarkInv
  <2>. QED
    BY <2>1, <2>2, Parts DEF MarkInv, MemoryType
<1>. QED
  BY <1>1, TypeInit, TypeStep, InvInit, InvStep, PTL DEF Spec

=============================================================================
