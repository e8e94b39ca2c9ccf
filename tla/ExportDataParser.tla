-------------------------- MODULE ExportDataParser --------------------------
(***************************************************************************)
(* exportdataparser.ExportDataParser: the byte-level state machine of the  *)
(* hub that rebuilds the sim data buffer from the export data stream and   *)
(* hands a copy of it to the encoder loop at the end of every update.      *)
(*                                                                         *)
(* The three two-byte buffers are kept as 16-bit words.  String buffers    *)
(* (SubscribeStringBuffer) have no user in the hub and are left out.       *)
(***************************************************************************)
EXTENDS DataBuffer

VARIABLES
    state,                  \* which byte of a write access is expected
    protocolSyncByteCount,  \* sync bytes seen in a row
    protocolAddressBuffer,
    protocolCountBuffer,
    protocolDataBuffer,
    dataBuffer,             \* the words received so far
    FrameData               \* channel with room for one copy of dataBuffer

parserVars == <<state, protocolSyncByteCount, protocolAddressBuffer,
                protocolCountBuffer, protocolDataBuffer, dataBuffer, FrameData>>

ParserState == {"WaitForSync", "AddressLow", "AddressHigh", "CountLow",
                "CountHigh", "DataLow", "DataHigh"}

\* The address ProcessByte takes for a misplaced sync sequence: 0x555.
SkippedAddress == 1365

ParserInit ==
    /\ state = "WaitForSync"
    /\ protocolSyncByteCount = 0
    /\ protocolAddressBuffer = 0
    /\ protocolCountBuffer = 0
    /\ protocolDataBuffer = 0
    /\ dataBuffer = Empty
    /\ FrameData = <<>>

-----------------------------------------------------------------------------
(***************************************************************************)
(* The tail of ProcessByte: whatever the byte meant to the state machine,  *)
(* the fourth sync byte in a row puts it at the start of a write access.   *)
(***************************************************************************)
Synchronises(b) == b = SyncByte /\ protocolSyncByteCount = 3

\* Faulty variant: sync bytes need not follow each other.
CountSyncBytesEver(b) ==
    protocolSyncByteCount' = IF Synchronises(b) THEN 0
                             ELSE IF b = SyncByte THEN protocolSyncByteCount + 1
                             ELSE protocolSyncByteCount

CountSyncBytes(b) ==
    protocolSyncByteCount' = IF Synchronises(b) \/ b # SyncByte THEN 0
                             ELSE protocolSyncByteCount + 1

\* Faulty variant: after one write access a new sync sequence is waited for.
GotoOneAccess(b, s) ==
    state' = IF Synchronises(b) THEN "AddressLow"
             ELSE IF s = "AddressLow" THEN "WaitForSync"
             ELSE s

Goto(b, s) == state' = IF Synchronises(b) THEN "AddressLow" ELSE s

WaitForSync(b) ==
    /\ state = "WaitForSync"
    /\ Goto(b, "WaitForSync")
    /\ UNCHANGED <<protocolAddressBuffer, protocolCountBuffer, protocolDataBuffer,
                   dataBuffer, FrameData>>

AddressLow(b) ==
    /\ state = "AddressLow"
    /\ protocolAddressBuffer' = MakeWord(b, Hi(protocolAddressBuffer))
    /\ Goto(b, "AddressHigh")
    /\ UNCHANGED <<protocolCountBuffer, protocolDataBuffer, dataBuffer, FrameData>>

AddressHigh(b) ==
    /\ state = "AddressHigh"
    /\ protocolAddressBuffer' = MakeWord(Lo(protocolAddressBuffer), b)
    /\ Goto(b, IF protocolAddressBuffer' # SkippedAddress THEN "CountLow" ELSE "WaitForSync")
    /\ UNCHANGED <<protocolCountBuffer, protocolDataBuffer, dataBuffer, FrameData>>

CountLow(b) ==
    /\ state = "CountLow"
    /\ protocolCountBuffer' = MakeWord(b, Hi(protocolCountBuffer))
    /\ Goto(b, "CountHigh")
    /\ UNCHANGED <<protocolAddressBuffer, protocolDataBuffer, dataBuffer, FrameData>>

CountHigh(b) ==
    /\ state = "CountHigh"
    /\ protocolCountBuffer' = MakeWord(Lo(protocolCountBuffer), b)
    /\ Goto(b, "DataLow")
    /\ UNCHANGED <<protocolAddressBuffer, protocolDataBuffer, dataBuffer, FrameData>>

DataLow(b) ==
    /\ state = "DataLow"
    /\ protocolDataBuffer' = MakeWord(b, Hi(protocolDataBuffer))
    /\ protocolCountBuffer' = Plus16(protocolCountBuffer, -1)
    /\ Goto(b, "DataHigh")
    /\ UNCHANGED <<protocolAddressBuffer, dataBuffer, FrameData>>

(***************************************************************************)
(* The second data byte stores the word.  The word at 0xFFFE ends the      *)
(* update: notify sends a copy of the buffer, blocking while the channel   *)
(* is full, and then clears the dirty flags.                               *)
(***************************************************************************)
DataHigh(b) ==
    LET word    == MakeWord(Lo(protocolDataBuffer), b)
        updated == SetUint16(dataBuffer, protocolAddressBuffer, word)
    IN  /\ state = "DataHigh"
        /\ protocolDataBuffer' = word
        /\ protocolCountBuffer' = Plus16(protocolCountBuffer, -1)
        /\ \/ /\ protocolAddressBuffer = EndOfUpdate
              /\ FrameData = <<>>
              /\ FrameData' = <<updated>>
              /\ dataBuffer' = ClearDirtyFlags(updated)
           \/ /\ protocolAddressBuffer # EndOfUpdate
              /\ dataBuffer' = updated
              /\ UNCHANGED FrameData
        /\ protocolAddressBuffer' = Plus16(protocolAddressBuffer, 2)
        /\ Goto(b, IF protocolCountBuffer' = 0 THEN "AddressLow" ELSE "DataLow")

ProcessByte(b) ==
    /\ \/ WaitForSync(b)
       \/ AddressLow(b)
       \/ AddressHigh(b)
       \/ CountLow(b)
       \/ CountHigh(b)
       \/ DataLow(b)
       \/ DataHigh(b)
    /\ CountSyncBytes(b)

\* The encoder loop takes the frame out of the channel.
ReceiveFrame ==
    /\ FrameData # <<>>
    /\ FrameData' = <<>>
    /\ UNCHANGED <<state, protocolSyncByteCount, protocolAddressBuffer,
                   protocolCountBuffer, protocolDataBuffer, dataBuffer>>

ParserNext == (\E b \in Byte : ProcessByte(b)) \/ ReceiveFrame

\* The parser on its own, fed any bytes whatsoever.
ParserSpec == ParserInit /\ [][ParserNext]_parserVars

-----------------------------------------------------------------------------
(***************************************************************************)
(* Whatever bytes arrive, the buffer stays a list of 16-bit words in       *)
(* strictly ascending order of address (SetUint16 inserts without lookup   *)
(* structure), and so is the frame in the channel; the numbers stay in the *)
(* range of their Go types.                                                *)
(***************************************************************************)
ParserTypeOK ==
    /\ state \in ParserState
    /\ protocolSyncByteCount \in 0..3
    /\ protocolAddressBuffer \in Word
    /\ protocolCountBuffer \in Word
    /\ protocolDataBuffer \in Word
    /\ IsDataBuffer(dataBuffer)
    /\ FrameData = <<>> \/ (Len(FrameData) = 1 /\ IsDataBuffer(FrameData[1]))
=============================================================================
