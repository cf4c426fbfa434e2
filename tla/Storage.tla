------------------------------- MODULE Storage -------------------------------
(***************************************************************************)
(* The settings storage: a RAM copy with dirty flags (grbl/nvs_buffer.c)     *)
(* over a physical storage that is either the flash sector of Src/flash.c,   *)
(* erased and programmed as a whole, or an EEPROM (eeprom/), written record  *)
(* by record.  Writes may fail, and power may be lost at any moment.         *)
(*                                                                         *)
(* Memory is a function from items to values: the version byte and the       *)
(* records, each with its checksum.  Bad is a record whose checksum does not *)
(* match (erased, or half written), and a version byte that is not this      *)
(* firmware's.                                                              *)
(***************************************************************************)
EXTENDS Integers, Sequences

CONSTANTS N_STARTUP_LINE, N_CoordinateSystems,
          MaxWrites,    \* bound on the new values written
          MaxFaults     \* bound on the losses of power and failed EEPROM transfers

ASSUME SizesAssumption == N_STARTUP_LINE \in Nat /\ N_CoordinateSystems \in Nat
ASSUME BoundsAssumption == MaxWrites \in Nat /\ MaxFaults \in Nat

VARIABLES kind,      \* physical_nvs: "flash" or "eeprom"
          phys,      \* the physical storage
          ram,       \* nvsbuffer
          dirty,     \* settings_dirty; bits are the marked items
          pc, ret,   \* where the foreground is, and where a sync returns to
          todo,      \* items an EEPROM sync has still to write
          retries,   \* attempts left of a flash sync
          clock,     \* HISTORY: the last new value written
          faults,    \* HISTORY: losses of power and failed EEPROM transfers
          since,     \* HISTORY: what each record has been since all was stored
          lost,      \* HISTORY: records a loss of power or a failed write may have cost
          races      \* HISTORY: failures the code does not recover from

history == << clock, faults, since, lost, races >>
control == << pc, ret, todo, retries >>
vars == << kind, phys, ram, dirty, control, history >>

Version == << "version", 0 >>
Global == << "global", 0 >>
Build == << "build", 0 >>
Driver == << "driver", 0 >>
Startup(i) == << "startup", i >>
Coord(i) == << "coord", i >>
Lines == {Startup(i) : i \in 0 .. N_STARTUP_LINE - 1}
Coords == {Coord(i) : i \in 0 .. N_CoordinateSystems - 1}
Records == {Global, Build, Driver} \cup Lines \cup Coords
Items == Records \cup {Version}

\* The order of the addresses, and the order in which a sync goes through them.
Layout ==
    << Version, Global >> \o [i \in 1 .. N_CoordinateSystems |-> Coord(i - 1)]
    \o [i \in 1 .. N_STARTUP_LINE |-> Startup(i - 1)] \o << Build, Driver >>
SyncOrder ==
    << Version, Global, Build >> \o [i \in 1 .. N_STARTUP_LINE |-> Startup(N_STARTUP_LINE - i)]
    \o [i \in 1 .. N_CoordinateSystems |-> Coord(N_CoordinateSystems - i)] \o << Driver >>

Default == 0
Bad == -1
Value == Bad .. MaxWrites

\* A record that cannot be read is replaced by its default.
ReadsAs(v) == IF v = Bad THEN Default ELSE v

Clean == [is_dirty |-> FALSE, bits |-> {}]
Blank == [i \in Items |-> Bad]
Factory == [i \in Items |-> Default]

\* A new machine, one that was in use, or one whose firmware has just been replaced.
Init ==
    /\ kind \in {"flash", "eeprom"}
    /\ phys \in {Blank, Factory, [Factory EXCEPT ![Version] = Bad]}
    /\ ram = Blank /\ dirty = Clean
    /\ pc = "off" /\ ret = "run" /\ todo = {} /\ retries = 0
    /\ clock = 0 /\ faults = 0 /\ races = {}
    /\ since = [r \in Records |-> {ReadsAs(phys[r])}]
    /\ lost = IF phys[Version] = Bad THEN Records ELSE {}

-----------------------------------------------------------------------------
(* The RAM copy *)

\* Mutant: driver settings are not told apart.
Marked_NoDriver(d, r, v) ==
    IF Version \in d.bits \/ ram[r] # v
    THEN [is_dirty |-> TRUE, bits |-> d.bits \cup ({r} \ {Driver})]
    ELSE d

\* memcpy_to_ram: a record is marked when a byte of it changes, and always after the
\* version byte has been put.
Marked(d, r, v) ==
    IF Version \in d.bits \/ ram[r] # v THEN [is_dirty |-> TRUE, bits |-> d.bits \cup {r}] ELSE d

memcpy_to_ram(r, v) == ram' = [ram EXCEPT ![r] = v] /\ dirty' = Marked(dirty, r, v)

\* nvs_buffer_sync_physical is called, and returns to where.
Sync(d, where) ==
    IF ~d.is_dirty THEN pc' = where /\ UNCHANGED << ret, todo, retries >>
    ELSE /\ pc' = kind /\ ret' = where
         /\ todo' = IF kind = "flash" THEN {} ELSE d.bits
         /\ retries' = IF kind = "flash" THEN 4 ELSE 0

\* settings_restore: the version byte and the defaults of some records, written at once.
settings_restore(records, where) ==
    LET d == [is_dirty |-> dirty.is_dirty \/ records # {},
              bits |-> dirty.bits \cup records \cup {Version}]
    IN  /\ ram' = [i \in Items |-> IF i \in records \cup {Version} THEN Default ELSE ram[i]]
        /\ dirty' = d
        /\ Sync(d, where)

\* A setting, offset, line or build info is written by the user or by a program.
Write(r) ==
    /\ pc = "run"
    /\ \E v \in {ram[r], clock + 1} \cap 0 .. MaxWrites :
         /\ memcpy_to_ram(r, v)
         /\ clock' = IF v > clock THEN v ELSE clock
         /\ since' = [since EXCEPT ![r] = @ \cup {v}]
    /\ UNCHANGED << kind, phys, control, faults, lost, races >>

\* A record whose checksum is wrong is replaced by its default when it is read.
Read(r) ==
    /\ pc = "run" /\ ram[r] = Bad /\ r \in Lines \cup Coords
    /\ memcpy_to_ram(r, Default)
    /\ UNCHANGED << kind, phys, control, history >>

ReadBuildInfo ==
    /\ pc = "run" /\ ram[Build] = Bad
    /\ settings_restore({Build}, "run")
    /\ UNCHANGED << kind, phys, history >>

\* The command that restores defaults.
SettingsReset(records) ==
    /\ pc = "run"
    /\ settings_restore(records, "run")
    /\ since' = [r \in Records |-> IF r \in records THEN since[r] \cup {Default} ELSE since[r]]
    /\ UNCHANGED << kind, phys, clock, faults, lost, races >>

\* A pass of the realtime protocol in idle or alarm state, with no program running.
IdleSync ==
    /\ pc = "run" /\ dirty.is_dirty
    /\ Sync(dirty, "run")
    /\ UNCHANGED << kind, phys, ram, dirty, history >>

-----------------------------------------------------------------------------
(* nvs_buffer_sync_physical *)

\* Nothing is marked any more: what is in RAM now is what a restart must bring back.
Settled ==
    /\ since' = [r \in Records |-> {ReadsAs(ram[r])}]
    /\ lost' = {}

\* What an unfinished write leaves of item i; the version is a single byte.
Torn(i) == IF i = Version THEN {phys[i], ram[i]} ELSE {phys[i], ram[i], Bad}

\* What goes with a destroyed item: without the version byte or the global settings
\* everything is restored at the next start.
Hurt(i) == IF i \in {Version, Global} THEN Records ELSE {i}

\* The first marked item that the sync has not come to yet.
IsNext(i) ==
    /\ i \in todo
    /\ \E k \in DOMAIN SyncOrder : SyncOrder[k] = i /\ \A j \in 1 .. k - 1 : SyncOrder[j] \notin todo

\* The next marked item is written, or the transfer fails.  The mark of a startup line
\* is taken off before the write and not set again.
EepromWrite(i, ok) ==
    /\ pc = "eeprom" /\ IsNext(i)
    /\ faults' = IF ok THEN faults ELSE faults + 1
    /\ faults' <= MaxFaults
    /\ todo' = todo \ {i}
    /\ \E v \in IF ok THEN {ram[i]} ELSE Torn(i) : phys' = [phys EXCEPT ![i] = v]
    /\ dirty' = IF ok \/ i \in Lines THEN [dirty EXCEPT !.bits = @ \ {i}] ELSE dirty
    /\ lost' = IF ok THEN lost ELSE lost \cup Hurt(i)
    /\ races' = IF ~ok /\ i \in Lines THEN races \cup {"startup_failed"} ELSE races
    /\ UNCHANGED << kind, ram, pc, ret, retries, clock, since >>

\* Mutant: driver settings do not keep the storage dirty.
EepromDone_NoDriver ==
    /\ pc = "eeprom" /\ todo = {}
    /\ pc' = ret
    /\ dirty' = [dirty EXCEPT !.is_dirty = dirty.bits \ {Version, Driver} # {}]
    /\ IF dirty'.is_dirty THEN UNCHANGED << since, lost >> ELSE Settled
    /\ UNCHANGED << kind, phys, ram, ret, todo, retries, clock, faults, races >>

EepromDone ==
    /\ pc = "eeprom" /\ todo = {}
    /\ pc' = ret
    /\ dirty' = [dirty EXCEPT !.is_dirty = dirty.bits \ {Version} # {}]
    /\ IF dirty'.is_dirty THEN UNCHANGED << since, lost >> ELSE Settled
    /\ UNCHANGED << kind, phys, ram, ret, todo, retries, clock, faults, races >>

\* memcpy_to_flash broken off: untouched, erased in part, or programmed in part.
Interrupted ==
    {phys} \cup {[Blank EXCEPT ![Version] = v] : v \in {Default, Bad}}
    \cup {[i \in Items |-> IF \E j \in 1 .. k : Layout[j] = i THEN ram[i] ELSE Bad] :
             k \in 1 .. Len(Layout) - 1}

\* Mutant: the attempts are not counted down to zero.
Exhausted_Late(n) == n < 0

Exhausted(n) == n = 0

\* One attempt.  All marks are cleared at the end, whether the last one worked or not.
FlashWrite(ok) ==
    /\ pc = "flash"
    /\ IF ok THEN phys' = ram ELSE phys # ram /\ phys' \in Interrupted
    /\ retries' = IF ok THEN 0 ELSE retries - 1
    /\ IF ok \/ Exhausted(retries') THEN pc' = ret /\ dirty' = Clean ELSE UNCHANGED << pc, dirty >>
    /\ IF ok THEN Settled ELSE UNCHANGED << since, lost >>
    /\ races' = IF ~ok /\ Exhausted(retries') THEN races \cup {"flash_failed"} ELSE races
    /\ UNCHANGED << kind, ram, ret, todo, clock, faults >>

-----------------------------------------------------------------------------
(* Loss of power, and start-up *)

\* Every item up to one is written, that one in part, the others are as they were.
PartlyWritten ==
    {[i \in Items |-> IF \E j \in 1 .. k - 1 : Layout[j] = i THEN ram[i]
                      ELSE IF Layout[k] = i THEN Bad ELSE phys[i]] :
       k \in 1 .. Len(Layout)}

\* What the write that is under way can leave behind.
Broken ==
    CASE pc = "eeprom" ->
            UNION {{[phys EXCEPT ![i] = v] : v \in Torn(i) \cup {Bad}} : i \in {i \in todo : IsNext(i)}}
      [] pc = "flash" /\ phys # ram -> Interrupted
      [] pc = "init_write" /\ phys # ram -> IF kind = "flash" THEN Interrupted ELSE PartlyWritten
      [] OTHER -> {}

Costs ==
    IF pc = "eeprom" THEN UNION {Hurt(i) : i \in {i \in todo : IsNext(i)}}
    ELSE IF Broken = {} THEN {} ELSE Records

PowerLoss ==
    /\ pc # "off" /\ faults < MaxFaults
    /\ pc' = "off" /\ faults' = faults + 1
    /\ phys' \in Broken \cup {phys}
    /\ lost' = lost \cup Costs
    /\ ram' = Blank /\ dirty' = Clean /\ todo' = {} /\ retries' = 0
    /\ ret' = "run"
    /\ UNCHANGED << kind, clock, since, races >>

\* nvs_buffer_init: the storage is copied to RAM; with another version in it everything
\* is restored, and then written once more as a whole.
nvs_buffer_init ==
    /\ pc = "off" /\ pc' = "import"
    /\ ram' = phys
    /\ UNCHANGED << kind, phys, dirty, ret, todo, retries, history >>

Import ==
    /\ pc = "import"
    /\ IF ram[Version] = Bad THEN settings_restore(Records, "init_write")
       ELSE pc' = "load" /\ UNCHANGED << ram, dirty, ret, todo, retries >>
    /\ UNCHANGED << kind, phys, history >>

\* The result of this write is not looked at, and all marks are cleared.
InitWrite(ok) ==
    /\ pc = "init_write" /\ pc' = "load"
    /\ IF ok THEN phys' = ram
       ELSE phys # ram /\ phys' \in IF kind = "flash" THEN Interrupted ELSE PartlyWritten
    /\ dirty' = Clean
    /\ IF phys' = ram THEN Settled /\ UNCHANGED races
       ELSE races' = races \cup {"init_failed"} /\ UNCHANGED << since, lost >>
    /\ UNCHANGED << kind, ram, ret, todo, retries, clock, faults >>

\* settings_init: global settings that cannot be read restore everything; the driver
\* restores its own.
settings_init ==
    /\ pc = "load"
    /\ IF ram[Global] = Bad THEN settings_restore(Records, "run")
       ELSE /\ pc' = "run" /\ UNCHANGED << ret, todo, retries >>
            /\ IF ram[Driver] = Bad THEN memcpy_to_ram(Driver, Default)
               ELSE UNCHANGED << ram, dirty >>
    /\ UNCHANGED << kind, phys, history >>

StartUp == nvs_buffer_init \/ Import \/ settings_init

Next ==
    \/ StartUp
    \/ \E ok \in BOOLEAN : InitWrite(ok) \/ FlashWrite(ok) \/ \E i \in Items : EepromWrite(i, ok)
    \/ EepromDone \/ IdleSync
    \/ \E r \in Records : Write(r) \/ Read(r)
    \/ ReadBuildInfo
    \/ \E records \in {{Global}, Coords, {Driver}, Records} : SettingsReset(records)
    \/ PowerLoss

Spec == Init /\ [][Next]_vars

\* Code runs on, and programs end, so that an idle pass comes some time.
Fairness ==
    /\ WF_vars(StartUp) /\ WF_vars(EepromDone) /\ SF_vars(IdleSync)
    /\ WF_vars(\E ok \in BOOLEAN : FlashWrite(ok) \/ InitWrite(ok))
    /\ WF_vars(\E i \in Items, ok \in BOOLEAN : EepromWrite(i, ok))

FairSpec == Spec /\ Fairness

\* Bound for TLC: what follows an unrecovered failure is not explored.
NoRace == races = {}

-----------------------------------------------------------------------------

\* Types of the memories and the flags.
TypeOK ==
    /\ kind \in {"flash", "eeprom"}
    /\ phys \in [Items -> Value] /\ ram \in [Items -> Value]
    /\ dirty.is_dirty \in BOOLEAN /\ dirty.bits \subseteq Items
    /\ pc \in {"off", "import", "init_write", "load", "run", "flash", "eeprom"}
    /\ ret \in {"run", "init_write"}
    /\ todo \subseteq Items /\ retries \in 0 .. 4
    /\ clock \in 0 .. MaxWrites /\ lost \subseteq Records

\* Whatever happens, a record is in RAM what it was when everything was last stored, or
\* something written after that: a restart brings back neither an older value nor a
\* default, unless power was lost or a transfer failed in the middle of a write that
\* could destroy this record.
Durable ==
    NoRace /\ pc = "run" => \A r \in Records \ lost : ReadsAs(ram[r]) \in since[r]

\* A record that is not in the storage as it is in RAM is marked: no change is forgotten by
\* a write-back that fails in part, by a restore or at start-up (memcpy_to_ram,
\* nvs_buffer_sync_physical).
KeptMarked ==
    NoRace /\ pc = "run" =>
        \A r \in Records : ram[r] # phys[r] => dirty.is_dirty /\ (kind = "eeprom" => r \in dirty.bits)

\* The storage catches up with the RAM copy: no change is forgotten after a failed write,
\* a loss of power or a restore.
Stored == []<>(races # {} \/ (pc = "run" /\ ram = phys))
=============================================================================
