----------------------------- MODULE DataBuffer -----------------------------
(***************************************************************************)
(* exportdataparser.DataBuffer (kvstore.go): the slice BinaryData of words *)
(* the hub knows about, kept in ascending order of address.  A buffer is a *)
(* sequence of records; operations are operators on it.                    *)
(***************************************************************************)
EXTENDS ExportProtocol

DataWord == [Address : Word, Data : Word, Dirty : BOOLEAN]

Empty == <<>>

\* What GetValueAtAddress returns: the word at the address, 0 when there is none.
Lookup(buf, a) == {i \in DOMAIN buf : buf[i].Address = a}
GetValueAtAddress(buf, a) ==
    IF Lookup(buf, a) = {} THEN 0
    ELSE buf[CHOOSE i \in Lookup(buf, a) : \A j \in Lookup(buf, a) : i <= j].Data

\* The place at which the scan of SetUint16 stops: the first entry that is not
\* below the address, or one past the end.
IsStop(buf, a, i) ==
    /\ i \in 1..Len(buf) + 1
    /\ \A j \in 1..i - 1 : buf[j].Address < a
    /\ i <= Len(buf) => buf[i].Address >= a
StopIndex(buf, a) == CHOOSE i \in 1..Len(buf) + 1 : IsStop(buf, a, i)

Overwrite(buf, i, v) ==
    IF buf[i].Data = v THEN buf
    ELSE [buf EXCEPT ![i] = [Address |-> @.Address, Data |-> v, Dirty |-> TRUE]]

\* The tail is shifted up by one and the new entry, dirty, takes its place.
Insert(buf, i, a, v) ==
    [j \in 1..Len(buf) + 1 |->
        IF j < i THEN buf[j]
        ELSE IF j = i THEN [Address |-> a, Data |-> v, Dirty |-> TRUE]
        ELSE buf[j - 1]]

\* Faulty variant: a word at a new address goes to the end.
SetUint16Appending(buf, a, v) ==
    LET i == StopIndex(buf, a)
    IN  IF i <= Len(buf) /\ buf[i].Address = a
        THEN Overwrite(buf, i, v)
        ELSE Insert(buf, Len(buf) + 1, a, v)

SetUint16(buf, a, v) ==
    LET i == StopIndex(buf, a)
    IN  IF i <= Len(buf) /\ buf[i].Address = a
        THEN Overwrite(buf, i, v)
        ELSE Insert(buf, i, a, v)

\* Faulty variant: a word that is there stays as it is.
SetFFFEDirtyIfNew(buf) ==
    IF Lookup(buf, EndOfUpdate) = {} THEN SetUint16(buf, EndOfUpdate, 0) ELSE buf

SetFFFEDirty(buf) ==
    IF Lookup(buf, EndOfUpdate) = {} THEN SetUint16(buf, EndOfUpdate, 0)
    ELSE [i \in DOMAIN buf |->
            IF i \in Lookup(buf, EndOfUpdate) THEN [buf[i] EXCEPT !.Dirty = TRUE] ELSE buf[i]]

ClearDirtyFlags(buf) == [i \in DOMAIN buf |-> [buf[i] EXCEPT !.Dirty = FALSE]]

-----------------------------------------------------------------------------
(***************************************************************************)
(* Integer outputs of the control reference are fields of a word.          *)
(* SetIntegerValue replaces the bits of a mask of its own, the smallest    *)
(* 2^n - 1 (n > 0) that covers MaxValue, shifted.  Its test of the value   *)
(* converts the value to 16 bits first.                                    *)
(***************************************************************************)
FieldSize(o) == Min({m \in {2^n : n \in 1..16} : m > o.MaxValue})

Accepts(o, v) == v >= 0 /\ v % (WordMax + 1) <= o.MaxValue

WithField(word, o, v) ==
    LET unit  == 2^o.ShiftBy
        above == unit * FieldSize(o)
    IN  ((word % unit) + (v % (WordMax + 1)) * unit + (word \div above) * above) % (WordMax + 1)

-----------------------------------------------------------------------------
\* The entries are in strictly ascending order of address: no address has two
\* entries, and the entry of 0xFFFE, when there is one, is the last.
Ascending(buf) == \A i, j \in DOMAIN buf : i < j => buf[i].Address < buf[j].Address

IsDataBuffer(buf) == buf \in Seq(DataWord) /\ Ascending(buf)
=============================================================================
