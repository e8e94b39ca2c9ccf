----------------------------- MODULE LuaExporter -----------------------------
(***************************************************************************)
(* The exporting half of the Lua script inside DCS: World: the memory maps *)
(* of Util.lua, BIOS.protocol.step of Protocol.lua and the send queue of   *)
(* ProtocolIO.lua.  All of it runs in one thread, in the callback          *)
(* LuaExportAfterNextFrame; the actions of this module are the parts of    *)
(* that callback and SimStream puts them together with the TCP connection. *)
(*                                                                         *)
(* A word of a memory map is kept whole (the bit fields allocated in it    *)
(* are not told apart); Unset is a word none of whose allocations has a    *)
(* value.  The words of a map are contiguous, as allocateInt makes them.   *)
(***************************************************************************)
EXTENDS ExportProtocol

CONSTANTS
    Aircraft,       \* what LoGetSelfData can say; "NONE" is no aircraft
    ModuleAddresses,\* the even addresses of the aircraft module's map; it is
                    \* active for every aircraft but "NONE"
    StartAddresses, \* the addresses of MetadataStart
    AircraftName,   \* [Aircraft -> [StartAddresses -> Word]], its exported value
    HookValues,     \* [ModuleAddresses -> SUBSET Word], what the hooks can read
    MayBeMissing,   \* module words whose value is not always available
    Unset,          \* no value
    CounterModulus, \* 256 in the code
    InitialSkips    \* updateSkipCounter at the start: 0 in a fresh script

EndAddresses == {EndOfUpdate}
Addresses == StartAddresses \cup ModuleAddresses \cup EndAddresses

ASSUME ExporterAssumption ==
    /\ Aircraft # {}
    /\ StartAddresses # {} /\ ModuleAddresses # {}
    /\ Addresses \subseteq {a \in Word : a % 2 = 0}
    /\ \A map \in {StartAddresses, ModuleAddresses} : \A a, b \in map :
           \A c \in a..b : c % 2 = 0 => c \in map
    /\ \A a \in StartAddresses : \A b \in ModuleAddresses : a < b
    /\ EndOfUpdate \notin ModuleAddresses
    /\ \A acft \in Aircraft : AircraftName[acft] \in [StartAddresses -> Word]
    /\ \A a \in ModuleAddresses : HookValues[a] \subseteq Word
    /\ MayBeMissing \subseteq ModuleAddresses
    /\ CounterModulus \in 2..256
    /\ InitialSkips \in Byte
    /\ Unset \notin Word

VARIABLES
    value,             \* [Addresses -> Word \cup {Unset}]
    dirty,             \* addresses whose entry has the dirty bit
    autosyncPosition,  \* [{"start", "module", "end"} -> Addresses]
    lastAcftName,
    updateCounter,
    updateSkipCounter,
    msg_buf            \* queued bytes that flush has not sent yet

exporterVars == <<value, dirty, autosyncPosition, lastAcftName, updateCounter,
                  updateSkipCounter, msg_buf>>

MapAddresses == [m \in {"start", "module", "end"} |->
                    CASE m = "start" -> StartAddresses
                      [] m = "module" -> ModuleAddresses
                      [] m = "end" -> EndAddresses]

ExporterInit ==
    /\ value = [a \in Addresses |-> Unset]
    /\ dirty = {}
    /\ autosyncPosition = [m \in DOMAIN MapAddresses |-> Min(MapAddresses[m])]
    /\ lastAcftName = ""
    /\ updateCounter = 0
    /\ updateSkipCounter = InitialSkips
    /\ msg_buf = <<>>

-----------------------------------------------------------------------------
\* MemoryMapEntry:getValue: allocations without a value count as 0.
SentValue(vals) == [a \in DOMAIN vals |-> IF vals[a] = Unset THEN 0 ELSE vals[a]]

\* autosyncStep, n times in a row: the positions it visits ...
NextPosition(m, a) == IF a + 2 > Max(MapAddresses[m]) THEN Min(MapAddresses[m]) ELSE a + 2
AutosyncVisits(m, n) ==
    LET p1 == NextPosition(m, autosyncPosition[m])
    IN  IF n = 1 THEN <<p1>> ELSE <<p1, NextPosition(m, p1)>>

\* Faulty variant: autosync passes over entries without making them dirty.
MadeDirtyNever(visits, vals) == {}

\* ... and the entries it makes dirty (setDirtyIfAble).
MadeDirty(visits, vals) == {a \in Range(visits) : vals[a] # Unset}

\* flushData of map m.
FlushData(m, vals, dirtied) ==
    LET words == dirtied \cap MapAddresses[m]
    IN  IF words = {} THEN <<>>
        ELSE WriteAccesses(words, SentValue(vals))

\* The values in front of the export hooks: a new aircraft has its module's
\* values cleared (the dirty bits stay as they are).
ValuesFor(acft) ==
    IF acft # lastAcftName /\ acft # "NONE"
    THEN [a \in Addresses |-> IF a \in ModuleAddresses THEN Unset ELSE value[a]]
    ELSE value

(***************************************************************************)
(* What an export hook may leave in a word of the module: one of the       *)
(* values it can read, or what was there if the value is not available     *)
(* (nil, NaN or out of range).                                             *)
(***************************************************************************)
HookResults(acft) ==
    IF acft = "NONE" THEN {<<>>}
    ELSE {f \in [ModuleAddresses -> UNION {HookValues[a] : a \in ModuleAddresses} \cup {Unset}] :
            \A a \in ModuleAddresses :
                \/ f[a] \in HookValues[a]
                \/ a \in MayBeMissing /\ f[a] = ValuesFor(acft)[a]}

(***************************************************************************)
(* step when the next low frequency step is not due: the aircraft is       *)
(* determined, and nothing is exported.                                    *)
(***************************************************************************)
NotDue(acft) ==
    /\ value' = ValuesFor(acft)
    /\ lastAcftName' = acft
    /\ UNCHANGED <<dirty, autosyncPosition, updateCounter, updateSkipCounter>>

\* step when it is due but the last frame is still in transit (rate limit).
SkipFrame(acft) ==
    /\ updateCounter' = (updateCounter + 1) % CounterModulus
    /\ updateSkipCounter' = (updateSkipCounter + 1) % Base
    /\ value' = ValuesFor(acft)
    /\ lastAcftName' = acft
    /\ UNCHANGED <<dirty, autosyncPosition>>

-----------------------------------------------------------------------------
(***************************************************************************)
(* step when a frame is exported.  hooks is what the export hooks of the   *)
(* aircraft's module leave in its words.                                   *)
(***************************************************************************)
Active(acft) == IF acft = "NONE" THEN {} ELSE ModuleAddresses

NextCounter == (updateCounter + 1) % CounterModulus

ValuesAfter(acft, hooks) ==
    [a \in Addresses |->
        IF a \in StartAddresses THEN AircraftName[acft][a]
        ELSE IF a \in Active(acft) THEN hooks[a]
        ELSE IF a = EndOfUpdate THEN MakeWord(NextCounter, updateSkipCounter)
        ELSE value[a]]

AutosyncSteps(acft) ==
    [m \in DOMAIN MapAddresses |->
        CASE m = "module" /\ acft = "NONE" -> <<>>
          [] m = "module" /\ acft # "NONE" -> AutosyncVisits(m, 2)
          [] m # "module" -> AutosyncVisits(m, 1)]

DirtyInFrame(acft, hooks) ==
    LET vals == ValuesAfter(acft, hooks)
    IN  dirty \cup {a \in Addresses : vals[a] # ValuesFor(acft)[a]}
              \cup UNION {MadeDirty(AutosyncSteps(acft)[m], vals) : m \in DOMAIN MapAddresses}

ExportFrame(acft, hooks) ==
    /\ updateCounter' = NextCounter
    /\ lastAcftName' = acft
    /\ value' = ValuesAfter(acft, hooks)
    /\ autosyncPosition' = [m \in DOMAIN MapAddresses |->
            IF AutosyncSteps(acft)[m] = <<>> THEN autosyncPosition[m]
            ELSE Last(AutosyncSteps(acft)[m])]
    /\ dirty' = DirtyInFrame(acft, hooks) \
                    (StartAddresses \cup Active(acft) \cup EndAddresses)
    /\ UNCHANGED updateSkipCounter

\* The bytes of the frame: sync sequence, MetadataStart, the aircraft's module,
\* MetadataEnd.
Frame(acft, hooks) ==
    LET Flushed(m) == FlushData(m, ValuesAfter(acft, hooks), DirtyInFrame(acft, hooks))
    IN  SyncSequence \o Flushed("start")
                     \o (IF acft = "NONE" THEN <<>> ELSE Flushed("module"))
                     \o Flushed("end")
=============================================================================
