----------------------------- MODULE PanelUpdate -----------------------------
(***************************************************************************)
(* The panel data buffer of the hub (exportBuffer of dcs-bios-hub.go): how *)
(* a frame of sim data becomes an update packet for the panels.            *)
(*                                                                         *)
(* The encoder loop E copies the frame into the buffer word by word, runs  *)
(* the output callbacks of the user's scripts, and encodes what is dirty.  *)
(* The transmit loop T runs the input callbacks, which may set panel data  *)
(* as well.  Both run callbacks under luaLock and SetUint16 locks the      *)
(* buffer, but E encodes (encoder.Update) without either, and              *)
(* SetIntegerValue reads the word it changes before SetUint16.             *)
(*                                                                         *)
(* A packet is kept as the words it writes, in order (ExportProtocol has   *)
(* the bytes).  An insertion by SetUint16 is one step: E does not see half *)
(* of a shift.  String outputs are set word by word in the same way as     *)
(* integers and are left out.                                              *)
(***************************************************************************)
EXTENDS DataBuffer, Functions

CONSTANTS
    SimValues,     \* [addresses of a frame -> SUBSET Word], what DCS can send
    Outputs,       \* integer outputs of the control reference scripts set
    ScriptValues,  \* [Outputs -> SUBSET Int], what they set them to
    AutosyncWords, \* 5 in the code
    MaxRestarts,   \* bound: times the panel is started anew
    Unknown,       \* a word the panel does not know
    Nobody

Output == [Address : Word, ShiftBy : 0..15, MaxValue : Word]

SimAddresses == DOMAIN SimValues
BufferAddresses == SimAddresses \cup {o.Address : o \in Outputs} \cup {EndOfUpdate}

\* No word but 0xFFFE itself is close to 0xFFFE: MetadataEnd.lua has the only
\* memory map there.  (Otherwise a += 2 in Update can wrap around to 0.)
ASSUME PanelUpdateAssumption ==
    /\ BufferAddresses \subseteq {a \in Word : a % 2 = 0}
    /\ \A a \in BufferAddresses : a = EndOfUpdate \/ EndOfUpdate - a > MaxGap
    /\ EndOfUpdate \in SimAddresses
    /\ \A a \in SimAddresses : SimValues[a] \subseteq Word
    /\ Outputs \subseteq Output
    /\ \A o \in Outputs : ScriptValues[o] \subseteq Int
    /\ AutosyncWords \in Nat \ {0}
    /\ MaxRestarts \in Nat
    /\ Unknown \notin Word
    /\ Nobody \notin {"E", "T"}

VARIABLES
    BinaryData,     \* of exportBuffer
    autosyncIndex,  \* counted from 1
    encoderLoop,    \* where E is
    toCopy,         \* words of the frame that E has yet to copy
    sliceLen,       \* length of Update's slice binData, 0 when it has none
    oldArray,       \* its array, once an insertion has moved BinaryData away
    index,          \* Update's i
    entry,          \* its copy of the entry at i
    packet,         \* words of the update packet: <<address, data>>
    transmitLoop,   \* where T is
    luaLock,        \* who executes Lua code
    set,            \* T's SetIntegerValue: the output, and the word to store
    panel,          \* [BufferAddresses -> Word \cup {Unknown}], what a panel knows
    restarts,       \* times the panel was started anew
    raced           \* T has written during an Update (history variable)

encoderVars == <<autosyncIndex, encoderLoop, toCopy, sliceLen, index, entry, packet>>
transmitVars == <<transmitLoop, set>>
panelVars == <<panel, restarts>>
vars == <<encoderVars, transmitVars, panelVars, BinaryData, oldArray, luaLock, raced>>

NoWord == [Address |-> 0, Data |-> 0, Dirty |-> FALSE]
NoSet == <<>>

Init ==
    /\ BinaryData = Empty
    /\ autosyncIndex = 1
    /\ encoderLoop = "select"
    /\ toCopy = <<>>
    /\ sliceLen = 0
    /\ oldArray = <<>>
    /\ index = 0
    /\ entry = NoWord
    /\ packet = <<>>
    /\ transmitLoop = "select"
    /\ luaLock = Nobody
    /\ set = NoSet
    /\ panel = [a \in BufferAddresses |-> Unknown]
    /\ restarts = 0
    /\ raced = FALSE

-----------------------------------------------------------------------------
(***************************************************************************)
(* The slice binData of Update shares its array with BinaryData, until an  *)
(* insertion finds no room in the array and moves BinaryData to a new one. *)
(***************************************************************************)
Updating == sliceLen > 0

Slice == IF oldArray = <<>> THEN SubSeq(BinaryData, 1, sliceLen) ELSE oldArray

SetDirty(indices, flag) ==
    LET Marked(array) ==
            [i \in DOMAIN array |-> IF i \in indices THEN [array[i] EXCEPT !.Dirty = flag] ELSE array[i]]
    IN  IF oldArray = <<>>
        THEN BinaryData' = Marked(BinaryData) /\ UNCHANGED oldArray
        ELSE oldArray' = Marked(oldArray) /\ UNCHANGED BinaryData

-----------------------------------------------------------------------------
(***************************************************************************)
(* The encoder loop: a frame is copied, the callbacks may change what goes *)
(* to the panels, and the update follows.                                  *)
(***************************************************************************)
TakeFrame ==
    /\ encoderLoop = "select"
    /\ \E data \in [SimAddresses -> UNION Range(SimValues)] :
            /\ \A a \in SimAddresses : data[a] \in SimValues[a]
            /\ \E order \in [1..Cardinality(SimAddresses) -> SimAddresses] :
                  /\ \A i, j \in DOMAIN order : i < j => order[i] < order[j]
                  /\ toCopy' = [i \in DOMAIN order |-> <<order[i], data[order[i]]>>]
    /\ encoderLoop' = "copy"
    /\ UNCHANGED <<autosyncIndex, sliceLen, index, entry, packet, transmitVars, panelVars,
                   BinaryData, oldArray, luaLock, raced>>

CopyWord ==
    /\ encoderLoop = "copy" /\ toCopy # <<>>
    /\ BinaryData' = SetUint16(BinaryData, Head(toCopy)[1], Head(toCopy)[2])
    /\ toCopy' = Tail(toCopy)
    /\ UNCHANGED <<autosyncIndex, encoderLoop, sliceLen, index, entry, packet, transmitVars,
                   panelVars, oldArray, luaLock, raced>>

EnterOutputCallbacks ==
    /\ encoderLoop = "copy" /\ toCopy = <<>>
    /\ luaLock = Nobody
    /\ luaLock' = "E"
    /\ encoderLoop' = "callbacks"
    /\ UNCHANGED <<autosyncIndex, toCopy, sliceLen, index, entry, packet, transmitVars,
                   panelVars, BinaryData, oldArray, raced>>

\* The output callbacks set at most one output here.  T is kept out by luaLock.
OutputCallbacks ==
    /\ encoderLoop = "callbacks"
    /\ \/ UNCHANGED BinaryData
       \/ \E o \in Outputs : \E v \in ScriptValues[o] :
            /\ Accepts(o, v)
            /\ BinaryData' = SetUint16(BinaryData, o.Address,
                                WithField(GetValueAtAddress(BinaryData, o.Address), o, v))
    /\ luaLock' = Nobody
    /\ encoderLoop' = "begin"
    /\ UNCHANGED <<autosyncIndex, toCopy, sliceLen, index, entry, packet, transmitVars,
                   panelVars, oldArray, raced>>

\* Nothing came for 60 ms (with the flag enable-idle-updates).
IdleUpdate ==
    /\ encoderLoop = "select"
    /\ encoderLoop' = "begin"
    /\ UNCHANGED <<autosyncIndex, toCopy, sliceLen, index, entry, packet, transmitVars,
                   panelVars, BinaryData, oldArray, luaLock, raced>>

-----------------------------------------------------------------------------
(***************************************************************************)
(* encoder.Update.                                                         *)
(***************************************************************************)
MarkEndOfUpdate ==
    /\ encoderLoop = "begin"
    /\ BinaryData' = SetFFFEDirty(BinaryData)
    /\ encoderLoop' = "autosync"
    /\ UNCHANGED <<autosyncIndex, toCopy, sliceLen, index, entry, packet, transmitVars,
                   panelVars, oldArray, luaLock, raced>>

\* Taking the slice and marking the next few entries in it.
AutosyncFrom == IF autosyncIndex > Len(BinaryData) THEN 1 ELSE autosyncIndex
AutosyncAt(j) == ((AutosyncFrom - 1 + j) % Len(BinaryData)) + 1

\* Faulty variant: the index starts over with every update.
NextAutosyncFirst == 1

NextAutosync == AutosyncAt(AutosyncWords)

Autosync ==
    /\ encoderLoop = "autosync"
    /\ sliceLen' = Len(BinaryData)
    /\ SetDirty({AutosyncAt(j) : j \in 0..AutosyncWords - 1}, TRUE)
    /\ autosyncIndex' = NextAutosync
    /\ encoderLoop' = "first"
    /\ UNCHANGED <<toCopy, index, entry, packet, transmitVars, panelVars, luaLock, raced>>

\* The first dirty entry begins the packet.  There is one (so the early return is
\* not reached): 0xFFFE, or the entry whose insertion has moved it out of the slice.
FirstDirty ==
    LET first == Min({i \in 1..sliceLen : Slice[i].Dirty})
    IN  /\ encoderLoop = "first"
        /\ packet' = <<<<Slice[first].Address, Slice[first].Data>>>>
        /\ SetDirty({first}, FALSE)
        /\ index' = first + 1
        /\ encoderLoop' = "entry"
        /\ UNCHANGED <<autosyncIndex, toCopy, sliceLen, entry, transmitVars, panelVars, luaLock, raced>>

ReadEntry ==
    /\ encoderLoop = "entry"
    /\ \/ /\ index <= sliceLen
          /\ entry' = Slice[index]
          /\ encoderLoop' = IF Slice[index].Dirty THEN "append" ELSE "clear"
       \/ /\ index > sliceLen
          /\ encoderLoop' = "write"
          /\ UNCHANGED entry
    /\ UNCHANGED <<autosyncIndex, toCopy, sliceLen, index, packet, transmitVars, panelVars,
                   BinaryData, oldArray, luaLock, raced>>

\* The words between the last one written and the entry are sent as well when it
\* continues the write access; their data is read from the buffer, not the slice.
Continues(last) == Plus16(entry.Address, -last) <= MaxGap /\ entry.Data # SyncWord

\* Faulty variant: the entry itself is left out.
WordsAfterOnlyGap(last) ==
    [k \in 1..(entry.Address - last) \div 2 - 1 |->
        <<last + 2 * k, GetValueAtAddress(BinaryData, last + 2 * k)>>]

WordsAfter(last) ==
    [k \in 1..(entry.Address - last) \div 2 |->
        <<last + 2 * k, GetValueAtAddress(BinaryData, last + 2 * k)>>]

AppendEntry ==
    LET last == Last(packet)[1]
    IN  /\ encoderLoop = "append"
        /\ packet' = packet \o IF Continues(last) THEN WordsAfter(last)
                               ELSE <<<<entry.Address, entry.Data>>>>
        /\ encoderLoop' = "clear"
        /\ UNCHANGED <<autosyncIndex, toCopy, sliceLen, index, entry, transmitVars, panelVars,
                       BinaryData, oldArray, luaLock, raced>>

ClearEntry ==
    /\ encoderLoop = "clear"
    /\ SetDirty({index}, FALSE)
    /\ index' = index + 1
    /\ encoderLoop' = "entry"
    /\ UNCHANGED <<autosyncIndex, toCopy, sliceLen, entry, packet, transmitVars, panelVars,
                   luaLock, raced>>

\* portManager.Write: the panel applies the packet.
LastWrite(a) == Max({k \in DOMAIN packet : packet[k][1] = a})

WritePacket ==
    /\ encoderLoop = "write"
    /\ panel' = [a \in BufferAddresses |->
                    IF \E k \in DOMAIN packet : packet[k][1] = a
                    THEN packet[LastWrite(a)][2] ELSE panel[a]]
    /\ packet' = <<>>
    /\ sliceLen' = 0
    /\ oldArray' = <<>>
    /\ index' = 0
    /\ entry' = NoWord
    /\ encoderLoop' = "select"
    /\ UNCHANGED <<autosyncIndex, toCopy, transmitVars, restarts, BinaryData, luaLock, raced>>

EncoderLoop ==
    \/ TakeFrame \/ CopyWord \/ EnterOutputCallbacks \/ OutputCallbacks \/ IdleUpdate
    \/ MarkEndOfUpdate \/ Autosync \/ FirstDirty \/ ReadEntry \/ AppendEntry \/ ClearEntry
    \/ WritePacket

-----------------------------------------------------------------------------
(***************************************************************************)
(* The transmit loop: a command from a panel is offered to the input       *)
(* callbacks, which set at most one output here.                           *)
(***************************************************************************)
EnterInputCallbacks ==
    /\ transmitLoop = "select"
    /\ luaLock = Nobody
    /\ luaLock' = "T"
    /\ transmitLoop' = "callbacks"
    /\ UNCHANGED <<encoderVars, set, panelVars, BinaryData, oldArray, raced>>

\* SetIntegerValue as far as SetUint16.
ReadWord ==
    /\ transmitLoop = "callbacks"
    /\ \E o \in Outputs : \E v \in ScriptValues[o] :
            /\ Accepts(o, v)
            /\ set' = <<o.Address, WithField(GetValueAtAddress(BinaryData, o.Address), o, v)>>
    /\ transmitLoop' = "write"
    /\ UNCHANGED <<encoderVars, panelVars, BinaryData, oldArray, luaLock, raced>>

WriteWord ==
    /\ transmitLoop = "write"
    /\ BinaryData' = SetUint16(BinaryData, set[1], set[2])
    /\ oldArray' \in {oldArray} \cup
            (IF Updating /\ Lookup(BinaryData, set[1]) = {} THEN {Slice} ELSE {})
    /\ raced' = (raced \/ encoderLoop \notin {"select", "copy", "callbacks", "begin"})
    /\ set' = NoSet
    /\ transmitLoop' = "done"
    /\ UNCHANGED <<encoderVars, panelVars, luaLock>>

LeaveInputCallbacks ==
    /\ transmitLoop \in {"callbacks", "done"}
    /\ luaLock' = Nobody
    /\ transmitLoop' = "select"
    /\ UNCHANGED <<encoderVars, set, panelVars, BinaryData, oldArray, raced>>

InputCallbacks == ReadWord \/ WriteWord \/ LeaveInputCallbacks

\* A panel is plugged in or reset and knows nothing.
RestartPanel ==
    /\ restarts < MaxRestarts
    /\ restarts' = restarts + 1
    /\ panel' = [a \in BufferAddresses |-> Unknown]
    /\ UNCHANGED <<encoderVars, transmitVars, BinaryData, oldArray, luaLock, raced>>

Next == EncoderLoop \/ EnterInputCallbacks \/ InputCallbacks \/ RestartPanel

Spec == Init /\ [][Next]_vars

(***************************************************************************)
(* Updates go on, with frames of DCS or idle.  The strong fairness is that *)
(* of luaLock, a Go mutex, towards E.                                      *)
(***************************************************************************)
Fairness ==
    /\ WF_vars(EncoderLoop)
    /\ SF_vars(EnterOutputCallbacks)
    /\ WF_vars(InputCallbacks)

FairSpec == Spec /\ Fairness

-----------------------------------------------------------------------------
TypeOK ==
    /\ IsDataBuffer(BinaryData)
    /\ autosyncIndex \in 1..Cardinality(BufferAddresses)
    /\ sliceLen \in 0..Len(BinaryData)
    /\ oldArray = <<>> \/ (Len(oldArray) = sliceLen /\ IsDataBuffer(oldArray))
    /\ index \in 0..sliceLen + 1
    /\ \A k \in DOMAIN packet : packet[k][1] \in Word /\ packet[k][2] \in Word
    /\ encoderLoop = "callbacks" <=> luaLock = "E"
    /\ transmitLoop # "select" <=> luaLock = "T"
    /\ DOMAIN panel = BufferAddresses

(***************************************************************************)
(* As long as no script has written during an Update, and the panel has    *)
(* not been started anew, an entry that is clean between updates has       *)
(* reached the panel: nothing but autosync would send it again.            *)
(***************************************************************************)
CleanIsSent ==
    ~raced /\ restarts = 0 /\ ~Updating =>
        \A i \in DOMAIN BinaryData :
            BinaryData[i].Dirty \/ panel[BinaryData[i].Address] = BinaryData[i].Data

(***************************************************************************)
(* A packet writes no address twice, in ascending order, and 0xFFFE last,  *)
(* which tells the panel that the update is complete.                      *)
(***************************************************************************)
PacketEndsUpdate ==
    encoderLoop = "write" /\ ~raced =>
        /\ \A j, k \in DOMAIN packet : j < k => packet[j][1] < packet[k][1]
        /\ packet # <<>> /\ Last(packet)[1] = EndOfUpdate

(***************************************************************************)
(* Autosync: when the values of the buffer do not change any more, the     *)
(* panel has them all in the end, though it may have been started anew     *)
(* and dirty flags may have been lost to writes during an Update.          *)
(***************************************************************************)
Values == [a \in BufferAddresses |-> GetValueAtAddress(BinaryData, a)]

PanelHasAll == \A i \in DOMAIN BinaryData : panel[BinaryData[i].Address] = BinaryData[i].Data

PanelsCatchUp == <>[][Values' = Values]_vars => <>[]PanelHasAll
=============================================================================
