--------------------------- MODULE ExportProtocol ---------------------------
(***************************************************************************)
(* The wire format of DCS-BIOS export data, shared by the Lua exporter     *)
(* (dcs-lua/lib/Util.lua, Protocol.lua), the encoder of the hub            *)
(* (exportdataparser/encoder.go) and the parsers.                          *)
(*                                                                         *)
(* A frame is four sync bytes followed by write accesses; a write access   *)
(* is an address, a length in bytes and that many bytes of data, all       *)
(* little-endian 16-bit words.                                             *)
(***************************************************************************)
EXTENDS Integers, Sequences, SequencesExt, FiniteSetsExt

Base == 256                                 \* values of a byte
Byte == 0..Base - 1
WordMax == Base * Base - 1                  \* 0xFFFF
Word == 0..WordMax

Lo(w) == w % Base
Hi(w) == w \div Base
MakeWord(lo, hi) == lo + Base * hi

\* Sum of two words in 16-bit arithmetic.
Plus16(w, n) == (w + n) % (WordMax + 1)

SyncByte == 85                              \* 0x55
SyncWord == MakeWord(SyncByte, SyncByte)    \* 0x5555
SyncSequence == <<SyncByte, SyncByte, SyncByte, SyncByte>>
EndOfUpdate == WordMax - 1                  \* 0xFFFE

WordBytes(w) == <<Lo(w), Hi(w)>>

-----------------------------------------------------------------------------
(***************************************************************************)
(* Grouping of dirty words into write accesses.  A dirty word continues    *)
(* the write access of the dirty word before it when it is at most MaxGap  *)
(* bytes further on (the clean words between them are sent as well) and    *)
(* is not itself 0x5555; otherwise it starts a write access of its own.    *)
(***************************************************************************)
MaxGap == 6

StartsWriteAccess(a, dirty, value) ==
    \/ value[a] = SyncWord
    \/ \A b \in dirty : b < a => a - b > MaxGap

\* The words from the address first to the address last, byte by byte.
DataBytes(first, last, value) ==
    [k \in 1..last - first + 2 |-> IF k % 2 = 1 THEN Lo(value[first + k - 1])
                                   ELSE Hi(value[first + k - 2])]

WriteAccess(first, last, value) ==
    WordBytes(first) \o WordBytes(last - first + 2) \o DataBytes(first, last, value)

\* The write access that begins at s goes on to the last dirty word before the next one.
LastOfAccess(s, dirty, starts) ==
    Max({a \in dirty : a >= s /\ \A t \in starts : t <= s \/ t > a})

\* The write accesses for the dirty addresses, in ascending order.  value is
\* defined on every even address from the first dirty one to the last.
WriteAccesses(dirty, value) ==
    LET starts == {a \in dirty : StartsWriteAccess(a, dirty, value)}
        From[S \in SUBSET starts] ==
            IF S = {} THEN <<>>
            ELSE WriteAccess(Min(S), LastOfAccess(Min(S), dirty, starts), value)
                     \o From[S \ {Min(S)}]
    IN  From[starts]
=============================================================================
