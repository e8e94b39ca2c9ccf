-------------------------- MODULE DataBufferProofs --------------------------
(***************************************************************************)
(* Proofs about DataBuffer and those that work on such buffers:            *)
(* ExportDataParser, which keeps its type invariant for every sequence of  *)
(* bytes it may be fed; PanelUpdate, whose packets are complete and leave  *)
(* nothing clean that the panels do not know; and SimStream, where the     *)
(* parser rebuilds from the bytes the words that the exporter has.         *)
(***************************************************************************)
EXTENDS SimStream, PanelUpdate, SequenceTheorems, FiniteSetTheorems, WellFoundedInduction,
        TLAPS

\* Base and WordMax stay folded in what follows: the provers only need to know
\* that they are numbers.
LEMMA Numbers == /\ Base \in Nat \ {0}
                 /\ WordMax \in Nat
                 /\ WordMax = Base * Base - 1
BY DEF Base, WordMax

\* A set of natural numbers that is not empty has a least element.
LEMMA LeastElement ==
    ASSUME NEW T \in SUBSET Nat, T # {}
    PROVE  \E i \in T : \A j \in T : i <= j
<1>1. PICK i \in T : \A j \in T : ~(<<j, i>> \in OpToRel(<, Nat))
  BY NatLessThanWellFounded, WFMin
<1>2. \A j \in T : ~(j < i)
  BY <1>1 DEF OpToRel
<1>3. ASSUME NEW j \in T PROVE i <= j
  <2>1. i \in Nat /\ j \in Nat
    OBVIOUS
  <2> QED
    BY <1>2, <2>1
<1> QED
  BY <1>3

LEMMA Entries ==
    ASSUME NEW buf, IsDataBuffer(buf), NEW i \in 1..Len(buf)
    PROVE  /\ buf[i] \in DataWord
           /\ buf[i].Address \in Word
           /\ buf[i].Data \in Word
           /\ buf[i].Dirty \in BOOLEAN
<1>1. buf[i] \in DataWord
  BY DEF IsDataBuffer
<1> QED
  BY <1>1 DEF DataWord

\* The scan of SetUint16 stops somewhere: at the first entry that is not below
\* the address, or past the end.
LEMMA StopExists ==
    ASSUME NEW buf, IsDataBuffer(buf), NEW a \in Word
    PROVE  \E i \in 1..Len(buf) + 1 : IsStop(buf, a, i)
<1> DEFINE T == {i \in 1..Len(buf) + 1 : i <= Len(buf) => buf[i].Address >= a}
<1>1. Len(buf) \in Nat
  BY DEF IsDataBuffer
<1>2. T \in SUBSET Nat /\ Len(buf) + 1 \in T
  BY <1>1
<1>3. PICK i \in T : \A j \in T : i <= j
  <2> HIDE DEF T
  <2> QED
    BY <1>2, LeastElement
<1>4. ASSUME NEW j \in 1..i - 1 PROVE buf[j].Address < a
  <2>1. j \in 1..Len(buf) /\ j \notin T
    BY <1>1, <1>3
  <2>2. ~(buf[j].Address >= a)
    BY <2>1, <1>1
  <2>3. buf[j].Address \in Word
    BY <2>1, Entries
  <2> QED
    BY <2>2, <2>3 DEF Word
<1> QED
  BY <1>1, <1>3, <1>4 DEF IsStop

LEMMA StopIndexIsStop ==
    ASSUME NEW buf, IsDataBuffer(buf), NEW a \in Word
    PROVE  IsStop(buf, a, StopIndex(buf, a))
BY StopExists DEF StopIndex

LEMMA OverwriteKeeps ==
    ASSUME NEW buf, IsDataBuffer(buf), NEW i \in 1..Len(buf), NEW v \in Word
    PROVE  IsDataBuffer(Overwrite(buf, i, v))
<1> DEFINE e == [Address |-> buf[i].Address, Data |-> v, Dirty |-> TRUE]
<1> SUFFICES ASSUME buf[i].Data # v
             PROVE  IsDataBuffer([buf EXCEPT ![i] = e])
  BY DEF Overwrite
<1>1. buf \in Seq(DataWord) /\ Len(buf) \in Nat
  BY DEF IsDataBuffer
<1>2. e \in DataWord
  BY Entries DEF DataWord
<1>4. [buf EXCEPT ![i] = e] \in Seq(DataWord)
  <2> HIDE DEF e
  <2> QED
    BY <1>1, <1>2
<1>5. Ascending([buf EXCEPT ![i] = e])
  <2>1. \A j \in 1..Len(buf) : [buf EXCEPT ![i] = e][j].Address = buf[j].Address
    BY <1>1
  <2> HIDE DEF e
  <2> QED
    BY <2>1, <1>1 DEF Ascending, IsDataBuffer
<1> QED
  BY <1>4, <1>5 DEF IsDataBuffer

LEMMA InsertKeeps ==
    ASSUME NEW buf, IsDataBuffer(buf), NEW a \in Word, NEW v \in Word,
           NEW i \in 1..Len(buf) + 1, IsStop(buf, a, i),
           ~(i <= Len(buf) /\ buf[i].Address = a)
    PROVE  IsDataBuffer(Insert(buf, i, a, v))
<1> DEFINE new == Insert(buf, i, a, v)
           e == [Address |-> a, Data |-> v, Dirty |-> TRUE]
<1>1. buf \in Seq(DataWord) /\ Len(buf) \in Nat
  BY DEF IsDataBuffer
<1>2. e \in DataWord
  BY DEF DataWord
<1>3. /\ \A j \in 1..Len(buf) + 1 : new[j] \in DataWord
      /\ \A j \in 1..Len(buf) + 1 :
            new[j] = IF j < i THEN buf[j] ELSE IF j = i THEN e ELSE buf[j - 1]
  BY <1>1, <1>2, Entries DEF Insert
<1>4. new \in Seq(DataWord) /\ Len(new) = Len(buf) + 1
  <2>1. new \in [1..Len(buf) + 1 -> DataWord]
    BY <1>3 DEF Insert
  <2> HIDE DEF new
  <2> QED
    BY <1>1, <2>1
<1>5. ASSUME NEW j \in 1..Len(buf) + 1, NEW k \in 1..Len(buf) + 1, j < k
      PROVE  new[j].Address < new[k].Address
  <2>1. \A m \in 1..Len(buf) : buf[m].Address \in Word
    BY Entries
  <2>2. \A m \in 1..Len(buf) : m >= i => buf[m].Address > a
    <3>1. SUFFICES ASSUME NEW m \in 1..Len(buf), m >= i PROVE buf[m].Address > a
      OBVIOUS
    <3>2. i \in 1..Len(buf) /\ a \in Int /\ buf[i].Address \in Int /\ buf[m].Address \in Int
      BY <1>1, <2>1, <3>1 DEF Word
    <3>3. buf[i].Address > a
      BY <3>2 DEF IsStop
    <3>4. i < m => buf[i].Address < buf[m].Address
      BY <1>1, <3>2 DEF Ascending, IsDataBuffer
    <3> QED
      BY <3>1, <3>2, <3>3, <3>4
  <2>3. \A m \in 1..Len(buf) : m < i => buf[m].Address < a
    BY <1>1 DEF IsStop
  <2>4. \A m, n \in 1..Len(buf) : m < n => buf[m].Address < buf[n].Address
    BY <1>1 DEF Ascending, IsDataBuffer
  <2>5. e.Address = a
    OBVIOUS
  <2> HIDE DEF new, e
  <2>6. CASE k < i
    BY <1>1, <1>3, <1>5, <2>4, <2>6
  <2>7. CASE k = i
    BY <1>1, <1>3, <1>5, <2>3, <2>5, <2>7
  <2>8. CASE j < i /\ i < k
    BY <1>1, <1>3, <2>4, <2>8
  <2>9. CASE j = i /\ i < k
    BY <1>1, <1>3, <2>1, <2>2, <2>5, <2>9 DEF Word
  <2>10. CASE i < j
    <3>1. j - 1 \in 1..Len(buf) /\ k - 1 \in 1..Len(buf) /\ j - 1 < k - 1
      BY <1>1, <1>5, <2>10
    <3>2. new[j] = buf[j - 1] /\ new[k] = buf[k - 1]
      BY <1>1, <1>3, <1>5, <2>10
    <3>3. buf[j - 1].Address < buf[k - 1].Address
      BY <2>4, <3>1
    <3> QED
      BY <3>2, <3>3
  <2> QED
    BY <1>1, <1>5, <2>6, <2>7, <2>8, <2>9, <2>10
<1> QED
  <2>1. DOMAIN new = 1..Len(buf) + 1
    BY <1>4, <1>1
  <2> HIDE DEF new
  <2>2. IsDataBuffer(new)
    BY <1>4, <1>5, <2>1 DEF IsDataBuffer, Ascending
  <2> QED
    BY <2>2 DEF new

\* SetUint16 turns a data buffer into a data buffer.
THEOREM SetUint16Keeps ==
    ASSUME NEW buf, IsDataBuffer(buf), NEW a \in Word, NEW v \in Word
    PROVE  IsDataBuffer(SetUint16(buf, a, v))
<1> DEFINE i == StopIndex(buf, a)
<1>1. IsStop(buf, a, i) /\ i \in 1..Len(buf) + 1
  BY StopIndexIsStop DEF IsStop
<1>2. Len(buf) \in Nat
  BY DEF IsDataBuffer
<1> HIDE DEF i
<1>3. CASE i <= Len(buf) /\ buf[i].Address = a
  <2>1. i \in 1..Len(buf)
    BY <1>1, <1>2, <1>3
  <2> QED
    BY <1>3, <2>1, OverwriteKeeps DEF SetUint16, i
<1>4. CASE ~(i <= Len(buf) /\ buf[i].Address = a)
  BY <1>1, <1>4, InsertKeeps DEF SetUint16, i
<1> QED
  BY <1>3, <1>4

-----------------------------------------------------------------------------
LEMMA FFFEIsAWord == EndOfUpdate \in Word
BY DEF EndOfUpdate, WordMax, Base, Word

\* The order of the entries does not depend on their dirty flags.
LEMMA ClearDirtyFlagsKeeps ==
    ASSUME NEW buf, IsDataBuffer(buf)
    PROVE  IsDataBuffer(ClearDirtyFlags(buf))
<1> DEFINE new == ClearDirtyFlags(buf)
<1>1. buf \in Seq(DataWord) /\ Len(buf) \in Nat /\ DOMAIN buf = 1..Len(buf)
  BY DEF IsDataBuffer
<1>2. \A i \in 1..Len(buf) : [buf[i] EXCEPT !.Dirty = FALSE] \in DataWord
                             /\ [buf[i] EXCEPT !.Dirty = FALSE].Address = buf[i].Address
  BY Entries DEF DataWord
<1>3. \A i \in 1..Len(buf) : new[i] \in DataWord /\ new[i].Address = buf[i].Address
  BY <1>1, <1>2 DEF ClearDirtyFlags
<1>4. new \in [1..Len(buf) -> DataWord]
  BY <1>1, <1>3 DEF ClearDirtyFlags
<1> HIDE DEF new
<1>5. new \in Seq(DataWord) /\ Len(new) = Len(buf) /\ DOMAIN new = 1..Len(buf)
  BY <1>1, <1>4
<1>6. Ascending(new)
  BY <1>1, <1>3, <1>5 DEF Ascending, IsDataBuffer
<1>7. IsDataBuffer(new)
  BY <1>5, <1>6 DEF IsDataBuffer
<1> QED
  BY <1>7 DEF new

\* Putting words together and taking them apart.
LEMMA BytesAndWords ==
    /\ \A w \in Word : Lo(w) \in Byte /\ Hi(w) \in Byte
    /\ \A lo, hi \in Byte : MakeWord(lo, hi) \in Word
    /\ \A w \in Word, n \in Int : Plus16(w, n) \in Word
<1>1. Base \in Nat \ {0} /\ WordMax \in Nat /\ WordMax = Base * Base - 1
  BY Numbers
<1>2. ASSUME NEW w \in Word
      PROVE  Lo(w) \in Byte /\ Hi(w) \in Byte
  <2>1. w \in Nat /\ w < Base * Base
    BY <1>1 DEF Word
  <2>2. /\ w % Base \in 0..Base - 1
        /\ w \div Base \in Int
        /\ w = Base * (w \div Base) + (w % Base)
    BY <1>1, <2>1
  <2>3. w \div Base < Base
    BY <1>1, <2>1, <2>2
  <2>4. w \div Base >= 0
    BY <1>1, <2>1, <2>2
  <2> QED
    BY <1>1, <2>2, <2>3, <2>4 DEF Lo, Hi, Byte
<1>3. ASSUME NEW lo \in Byte, NEW hi \in Byte
      PROVE  MakeWord(lo, hi) \in Word
  <2>1. lo \in Nat /\ hi \in Nat /\ lo <= Base - 1 /\ hi <= Base - 1
    BY <1>1 DEF Byte
  <2>2. Base * hi <= Base * (Base - 1) /\ Base * hi \in Nat
    BY <1>1, <2>1
  <2>3. Base * (Base - 1) = Base * Base - Base
    BY <1>1
  <2>4. lo + Base * hi \in 0..Base * Base - 1
    BY <1>1, <2>1, <2>2, <2>3
  <2> QED
    BY <1>1, <2>4 DEF MakeWord, Word
<1>4. ASSUME NEW w \in Word, NEW n \in Int
      PROVE  Plus16(w, n) \in Word
  BY <1>1 DEF Plus16, Word
<1> QED
  BY <1>2, <1>3, <1>4

-----------------------------------------------------------------------------
\* The sync byte count starts over at the fourth sync byte.
LEMMA CountSyncBytesKeeps ==
    ASSUME protocolSyncByteCount \in 0..3, NEW b \in Byte, CountSyncBytes(b)
    PROVE  protocolSyncByteCount' \in 0..3
BY DEF CountSyncBytes, Synchronises

LEMMA GotoKeeps ==
    ASSUME NEW b, NEW s \in ParserState, Goto(b, s)
    PROVE  state' \in ParserState
BY DEF Goto, ParserState

\* The second data byte: the word goes into the buffer, and the word at 0xFFFE
\* has the buffer copied into the channel.
LEMMA DataHighKeeps ==
    ASSUME ParserTypeOK, NEW b \in Byte, DataHigh(b), CountSyncBytes(b)
    PROVE  ParserTypeOK'
<1> DEFINE word == MakeWord(Lo(protocolDataBuffer), b)
           updated == SetUint16(dataBuffer, protocolAddressBuffer, word)
<1>1. word \in Word
  BY BytesAndWords DEF ParserTypeOK
<1>2. IsDataBuffer(updated)
  BY <1>1, SetUint16Keeps DEF ParserTypeOK
<1>3. IsDataBuffer(ClearDirtyFlags(updated))
  BY <1>2, ClearDirtyFlagsKeeps
<1>4. /\ state' \in ParserState
      /\ protocolSyncByteCount' \in 0..3
  <2>1. (IF protocolCountBuffer' = 0 THEN "AddressLow" ELSE "DataLow") \in ParserState
    BY DEF ParserState
  <2> QED
    BY <2>1, GotoKeeps, CountSyncBytesKeeps DEF ParserTypeOK, DataHigh
<1>5. /\ protocolAddressBuffer' \in Word
      /\ protocolCountBuffer' \in Word
      /\ protocolDataBuffer' \in Word
  BY <1>1, BytesAndWords DEF ParserTypeOK, DataHigh
<1> HIDE DEF updated
<1>6. IsDataBuffer(dataBuffer')
  BY <1>2, <1>3 DEF DataHigh, updated
<1>7. FrameData' = <<>> \/ (Len(FrameData') = 1 /\ IsDataBuffer(FrameData'[1]))
  BY <1>2 DEF ParserTypeOK, DataHigh, updated
<1>8. (IsDataBuffer(dataBuffer))' /\ (FrameData = <<>> \/ (Len(FrameData) = 1 /\ IsDataBuffer(FrameData[1])))'
  BY <1>6, <1>7 DEF IsDataBuffer, Ascending
<1> QED
  BY <1>4, <1>5, <1>8 DEF ParserTypeOK

LEMMA ProcessByteKeeps ==
    ASSUME ParserTypeOK, NEW b \in Byte, ProcessByte(b)
    PROVE  ParserTypeOK'
<1>1. CountSyncBytes(b) /\ protocolSyncByteCount' \in 0..3
  BY CountSyncBytesKeeps DEF ParserTypeOK, ProcessByte
<1>2. CASE WaitForSync(b)
  <2>1. "WaitForSync" \in ParserState
    BY DEF ParserState
  <2> QED
    BY <1>1, <1>2, <2>1, GotoKeeps DEF WaitForSync, ParserTypeOK, IsDataBuffer, Ascending
<1>3. CASE AddressLow(b)
  <2>1. "AddressHigh" \in ParserState
    BY DEF ParserState
  <2> QED
    BY <1>1, <1>3, <2>1, GotoKeeps, BytesAndWords
    DEF AddressLow, ParserTypeOK, IsDataBuffer, Ascending
<1>4. CASE AddressHigh(b)
  <2>1. (IF protocolAddressBuffer' # SkippedAddress THEN "CountLow" ELSE "WaitForSync") \in ParserState
    BY DEF ParserState
  <2> QED
    BY <1>1, <1>4, <2>1, GotoKeeps, BytesAndWords
    DEF AddressHigh, ParserTypeOK, IsDataBuffer, Ascending
<1>5. CASE CountLow(b)
  <2>1. "CountHigh" \in ParserState
    BY DEF ParserState
  <2> QED
    BY <1>1, <1>5, <2>1, GotoKeeps, BytesAndWords
    DEF CountLow, ParserTypeOK, IsDataBuffer, Ascending
<1>6. CASE CountHigh(b)
  <2>1. "DataLow" \in ParserState
    BY DEF ParserState
  <2> QED
    BY <1>1, <1>6, <2>1, GotoKeeps, BytesAndWords
    DEF CountHigh, ParserTypeOK, IsDataBuffer, Ascending
<1>7. CASE DataLow(b)
  <2>1. "DataHigh" \in ParserState
    BY DEF ParserState
  <2> QED
    BY <1>1, <1>7, <2>1, GotoKeeps, BytesAndWords
    DEF DataLow, ParserTypeOK, IsDataBuffer, Ascending
<1>8. CASE DataHigh(b)
  BY <1>1, <1>8, DataHighKeeps
<1> QED
  BY <1>2, <1>3, <1>4, <1>5, <1>6, <1>7, <1>8 DEF ProcessByte

LEMMA EmptyIsDataBuffer == IsDataBuffer(Empty)
BY DEF IsDataBuffer, Ascending, Empty

\* Whatever bytes arrive, the parser's buffer and the frame it hands over are
\* sorted lists of words, one for an address, and its numbers keep to the range
\* of their types.
THEOREM ParserTypeCorrect == ParserSpec => []ParserTypeOK
<1>1. ParserInit => ParserTypeOK
  BY EmptyIsDataBuffer, Numbers DEF ParserInit, ParserTypeOK, ParserState, Word
<1>2. ParserTypeOK /\ [ParserNext]_parserVars => ParserTypeOK'
  <2> SUFFICES ASSUME ParserTypeOK, [ParserNext]_parserVars
               PROVE  ParserTypeOK'
    OBVIOUS
  <2>1. ASSUME NEW b \in Byte, ProcessByte(b)
        PROVE  ParserTypeOK'
    BY <2>1, ProcessByteKeeps
  <2>2. CASE ReceiveFrame
    BY <2>2 DEF ReceiveFrame, ParserTypeOK, IsDataBuffer, Ascending
  <2>3. CASE UNCHANGED parserVars
    BY <2>3 DEF parserVars, ParserTypeOK, IsDataBuffer, Ascending
  <2> QED
    BY <2>1, <2>2, <2>3 DEF ParserNext
<1> QED
  BY <1>1, <1>2, PTL DEF ParserSpec

-----------------------------------------------------------------------------
(***************************************************************************)
(* What the operations on a buffer change, entry by entry.                 *)
(***************************************************************************)
Overwritten(buf, new, a, v) ==
    \E i \in 1..Len(buf) :
        /\ Len(new) = Len(buf) /\ buf[i].Address = a
        /\ \A j \in 1..Len(buf) : j # i => new[j] = buf[j]
        /\ new[i] = buf[i] \/ (new[i].Address = a /\ new[i].Dirty)

Inserted(buf, new, a, v) ==
    \E i \in 1..Len(buf) + 1 :
        /\ Len(new) = Len(buf) + 1
        /\ \A j \in 1..Len(buf) : (j < i => new[j] = buf[j]) /\ (j >= i => new[j + 1] = buf[j])
        /\ new[i].Address = a /\ new[i].Dirty

LEMMA SetUint16Is ==
    ASSUME NEW buf, IsDataBuffer(buf), NEW a \in Word, NEW v \in Word
    PROVE  \/ Overwritten(buf, SetUint16(buf, a, v), a, v)
           \/ Inserted(buf, SetUint16(buf, a, v), a, v)
<1> DEFINE i == StopIndex(buf, a)
<1>1. i \in 1..Len(buf) + 1
  BY StopIndexIsStop DEF IsStop
<1>2. Len(buf) \in Nat /\ buf \in Seq(DataWord)
  BY DEF IsDataBuffer
<1>3. CASE i <= Len(buf) /\ buf[i].Address = a
  <2>1. SetUint16(buf, a, v) = Overwrite(buf, i, v)
    BY <1>3 DEF SetUint16
  <2>2. i \in 1..Len(buf)
    BY <1>1, <1>2, <1>3
  <2> HIDE DEF i
  <2> DEFINE new == Overwrite(buf, i, v)
             e == [Address |-> buf[i].Address, Data |-> v, Dirty |-> TRUE]
  <2>3. new = buf \/ new = [buf EXCEPT ![i] = e]
    BY DEF Overwrite
  <2>4. e.Address = buf[i].Address /\ e.Dirty = TRUE
    OBVIOUS
  <2> HIDE DEF new, e
  <2>5. /\ Len(new) = Len(buf)
        /\ \A j \in 1..Len(buf) : j # i => new[j] = buf[j]
        /\ new[i] = buf[i] \/ new[i] = e
    BY <1>2, <2>2, <2>3
  <2>6. Overwritten(buf, new, a, v)
    BY <1>3, <2>2, <2>4, <2>5 DEF Overwritten
  <2> QED
    BY <2>1, <2>6 DEF new
<1>4. CASE ~(i <= Len(buf) /\ buf[i].Address = a)
  <2>1. SetUint16(buf, a, v) = Insert(buf, i, a, v)
    BY <1>4 DEF SetUint16
  <2> HIDE DEF i
  <2> DEFINE new == Insert(buf, i, a, v)
             e == [Address |-> a, Data |-> v, Dirty |-> TRUE]
  <2>2. \A j \in 1..Len(buf) + 1 :
            new[j] = IF j < i THEN buf[j] ELSE IF j = i THEN e ELSE buf[j - 1]
    BY DEF Insert
  <2>3. DOMAIN new = 1..Len(buf) + 1 /\ IsDataBuffer(new)
    <3>1. IsStop(buf, a, i)
      BY StopIndexIsStop DEF i
    <3> QED
      BY <1>1, <1>4, <3>1, InsertKeeps DEF Insert
  <2>4. e.Address = a /\ e.Dirty = TRUE
    OBVIOUS
  <2> HIDE DEF new, e
  <2>5. Len(new) = Len(buf) + 1
    <3>1. new \in Seq(DataWord)
      BY <2>3 DEF IsDataBuffer
    <3> QED
      BY <1>2, <2>3, <3>1
  <2>6. new[i] = e
    BY <1>1, <1>2, <2>2
  <2>7. ASSUME NEW j \in 1..Len(buf)
        PROVE  (j < i => new[j] = buf[j]) /\ (j >= i => new[j + 1] = buf[j])
    <3>1. j \in 1..Len(buf) + 1 /\ j + 1 \in 1..Len(buf) + 1 /\ (j + 1) - 1 = j
      BY <1>2
    <3> QED
      BY <1>1, <1>2, <2>2, <3>1
  <2>8. Inserted(buf, new, a, v)
    BY <1>1, <2>4, <2>5, <2>6, <2>7 DEF Inserted
  <2> QED
    BY <2>1, <2>8 DEF new
<1> QED
  BY <1>3, <1>4

\* The buffer keeps what is in it, and what is new or has changed is dirty.
Grows(buf, new, a) ==
    /\ IsDataBuffer(new)
    /\ Len(buf) <= Len(new)
    /\ \A i \in 1..Len(new) :
            new[i].Address = a \/ \E j \in 1..Len(buf) : new[i].Address = buf[j].Address
    /\ \A i \in 1..Len(new) : new[i].Dirty \/ \E j \in 1..Len(buf) : new[i] = buf[j]
    /\ \A n \in 0..Len(buf) :
            (\E i \in 1..n : buf[i].Dirty) => \E i \in 1..n : new[i].Dirty

LEMMA SetUint16Grows ==
    ASSUME NEW buf, IsDataBuffer(buf), NEW a \in Word, NEW v \in Word
    PROVE  Grows(buf, SetUint16(buf, a, v), a)
<1> DEFINE new == SetUint16(buf, a, v)
<1>1. IsDataBuffer(new)
  BY SetUint16Keeps
<1>2. Overwritten(buf, new, a, v) \/ Inserted(buf, new, a, v)
  BY SetUint16Is
<1>3. Len(buf) \in Nat
  BY DEF IsDataBuffer
<1> SUFFICES Grows(buf, new, a)
  OBVIOUS
<1> HIDE DEF new
<1>4. CASE Overwritten(buf, new, a, v)
  <2>1. PICK i \in 1..Len(buf) :
            /\ Len(new) = Len(buf) /\ buf[i].Address = a
            /\ \A j \in 1..Len(buf) : j # i => new[j] = buf[j]
            /\ new[i] = buf[i] \/ (new[i].Address = a /\ new[i].Dirty)
    BY <1>4 DEF Overwritten
  <2>2. \A j \in 1..Len(new) :
            new[j].Address = a \/ \E k \in 1..Len(buf) : new[j].Address = buf[k].Address
    BY <2>1
  <2>3. \A j \in 1..Len(new) : new[j].Dirty \/ \E k \in 1..Len(buf) : new[j] = buf[k]
    BY <2>1
  <2>4. ASSUME NEW n \in 0..Len(buf), NEW j \in 1..n, buf[j].Dirty
        PROVE  new[j].Dirty
    <3>1. j \in 1..Len(buf)
      BY <1>3
    <3> QED
      BY <2>1, <2>4, <3>1
  <2> QED
    BY <1>1, <1>3, <2>1, <2>2, <2>3, <2>4 DEF Grows
<1>5. CASE Inserted(buf, new, a, v)
  <2>1. PICK i \in 1..Len(buf) + 1 :
            /\ Len(new) = Len(buf) + 1
            /\ \A j \in 1..Len(buf) : (j < i => new[j] = buf[j]) /\ (j >= i => new[j + 1] = buf[j])
            /\ new[i].Address = a /\ new[i].Dirty
    BY <1>5 DEF Inserted
  <2>2. ASSUME NEW j \in 1..Len(new), j # i PROVE \E k \in 1..Len(buf) : new[j] = buf[k]
    <3>1. CASE j < i
      BY <1>3, <2>1, <3>1
    <3>2. CASE j > i
      <4>1. j - 1 \in 1..Len(buf) /\ j - 1 >= i /\ (j - 1) + 1 = j
        BY <1>3, <2>1, <3>2
      <4>2. new[(j - 1) + 1] = buf[j - 1]
        BY <2>1, <4>1
      <4> QED
        BY <4>1, <4>2
    <3> QED
      BY <1>3, <2>1, <2>2, <3>1, <3>2
  <2>3. ASSUME NEW n \in 0..Len(buf), NEW j \in 1..n, buf[j].Dirty
        PROVE  \E k \in 1..n : new[k].Dirty
    <3>1. j \in 1..Len(buf)
      BY <1>3
    <3>2. CASE j < i
      BY <2>1, <2>3, <3>1, <3>2
    <3>3. CASE i <= j
      BY <1>3, <2>1, <3>3
    <3> QED
      BY <1>3, <2>1, <3>2, <3>3
  <2>4. \A j \in 1..Len(new) :
            new[j].Address = a \/ \E k \in 1..Len(buf) : new[j].Address = buf[k].Address
    BY <2>1, <2>2
  <2>5. \A j \in 1..Len(new) : new[j].Dirty \/ \E k \in 1..Len(buf) : new[j] = buf[k]
    BY <2>1, <2>2
  <2>6. Len(buf) <= Len(new)
    BY <1>3, <2>1
  <2> QED
    BY <1>1, <2>3, <2>4, <2>5, <2>6 DEF Grows
<1> QED
  BY <1>2, <1>4, <1>5

\* Changing dirty flags only.
Reflagged(buf, new) ==
    /\ IsDataBuffer(new)
    /\ Len(new) = Len(buf)
    /\ \A i \in 1..Len(buf) : new[i].Address = buf[i].Address /\ new[i].Data = buf[i].Data

LEMMA ReflaggedIs ==
    ASSUME NEW buf, IsDataBuffer(buf), NEW flags \in [1..Len(buf) -> BOOLEAN],
           NEW new, new = [i \in DOMAIN buf |-> [buf[i] EXCEPT !.Dirty = flags[i]]]
    PROVE  /\ Reflagged(buf, new)
           /\ \A i \in 1..Len(buf) : new[i].Dirty = flags[i]
<1>1. buf \in Seq(DataWord) /\ Len(buf) \in Nat /\ DOMAIN buf = 1..Len(buf)
  BY DEF IsDataBuffer
<1>2. ASSUME NEW i \in 1..Len(buf)
      PROVE  /\ new[i] \in DataWord /\ new[i].Address = buf[i].Address
             /\ new[i].Data = buf[i].Data /\ new[i].Dirty = flags[i]
  <2>1. buf[i] \in DataWord /\ flags[i] \in BOOLEAN
    BY Entries
  <2>2. new[i] = [buf[i] EXCEPT !.Dirty = flags[i]]
    BY <1>1
  <2> QED
    BY <2>1, <2>2, SMTT(30) DEF DataWord
<1>3. new \in [1..Len(buf) -> DataWord]
  BY <1>1, <1>2
<1>4. new \in Seq(DataWord) /\ Len(new) = Len(buf) /\ DOMAIN new = 1..Len(buf)
  BY <1>1, <1>3
<1>5. Ascending(new)
  BY <1>1, <1>2, <1>4, SMTT(30) DEF Ascending, IsDataBuffer
<1> QED
  BY <1>2, <1>4, <1>5 DEF IsDataBuffer, Reflagged

LEMMA LookupIs ==
    ASSUME NEW buf, IsDataBuffer(buf), NEW i \in 1..Len(buf)
    PROVE  GetValueAtAddress(buf, buf[i].Address) = buf[i].Data
<1>1. Len(buf) \in Nat /\ DOMAIN buf = 1..Len(buf)
  BY DEF IsDataBuffer
<1>2. \A j \in 1..Len(buf) : buf[j].Address \in Nat
  BY Entries, Numbers DEF Word
<1>3. \A j, k \in 1..Len(buf) : j < k => buf[j].Address < buf[k].Address
  BY <1>1 DEF IsDataBuffer, Ascending
<1>4. \A j \in 1..Len(buf) : buf[j].Address = buf[i].Address => j = i
  BY <1>1, <1>2, <1>3
<1>5. Lookup(buf, buf[i].Address) = {i}
  BY <1>1, <1>4 DEF Lookup
<1>6. (CHOOSE k \in {i} : \A j \in {i} : k <= j) = i
  BY <1>1
<1> QED
  BY <1>5, <1>6 DEF GetValueAtAddress

LEMMA GetValueIsAWord ==
    ASSUME NEW buf, IsDataBuffer(buf), NEW a
    PROVE  GetValueAtAddress(buf, a) \in Word
<1>1. CASE Lookup(buf, a) = {}
  BY <1>1, Numbers DEF GetValueAtAddress, Word
<1>2. CASE Lookup(buf, a) # {}
  <2>1. PICK i \in DOMAIN buf : buf[i].Address = a
    BY <1>2 DEF Lookup
  <2>2. i \in 1..Len(buf)
    BY DEF IsDataBuffer
  <2> QED
    BY <2>1, <2>2, LookupIs, Entries
<1> QED
  BY <1>1, <1>2

LEMMA ReflaggedValues ==
    ASSUME NEW buf, IsDataBuffer(buf), NEW new, Reflagged(buf, new), NEW a
    PROVE  GetValueAtAddress(new, a) = GetValueAtAddress(buf, a)
<1>1. DOMAIN buf = 1..Len(buf) /\ DOMAIN new = 1..Len(buf)
  BY DEF IsDataBuffer, Reflagged
<1>2. Lookup(new, a) = Lookup(buf, a)
  BY <1>1 DEF Lookup, Reflagged
<1>3. CASE Lookup(buf, a) = {}
  BY <1>2, <1>3 DEF GetValueAtAddress
<1>4. CASE Lookup(buf, a) # {}
  <2>1. PICK i \in 1..Len(buf) : buf[i].Address = a
    BY <1>1, <1>4 DEF Lookup
  <2>2. i \in 1..Len(new) /\ new[i].Address = a /\ new[i].Data = buf[i].Data
    BY <2>1 DEF Reflagged
  <2>3. IsDataBuffer(new)
    BY DEF Reflagged
  <2> QED
    BY <2>1, <2>2, <2>3, LookupIs
<1> QED
  BY <1>3, <1>4

\* 0xFFFE is there and dirty.
EndsDirty(buf) == \E i \in 1..Len(buf) : buf[i].Address = EndOfUpdate /\ buf[i].Dirty

LEMMA SetFFFEDirtyIs ==
    ASSUME NEW buf, IsDataBuffer(buf)
    PROVE  Grows(buf, SetFFFEDirty(buf), EndOfUpdate) /\ EndsDirty(SetFFFEDirty(buf))
<1>1. Len(buf) \in Nat /\ DOMAIN buf = 1..Len(buf) /\ 0 \in Word
  BY Numbers DEF IsDataBuffer, Word
<1>2. CASE Lookup(buf, EndOfUpdate) = {}
  <2> DEFINE new == SetUint16(buf, EndOfUpdate, 0)
  <2>1. SetFFFEDirty(buf) = new
    BY <1>2 DEF SetFFFEDirty
  <2>2. Grows(buf, new, EndOfUpdate)
    BY <1>1, FFFEIsAWord, SetUint16Grows
  <2>3. Overwritten(buf, new, EndOfUpdate, 0) \/ Inserted(buf, new, EndOfUpdate, 0)
    BY <1>1, FFFEIsAWord, SetUint16Is
  <2> HIDE DEF new
  <2>4. ~Overwritten(buf, new, EndOfUpdate, 0)
    BY <1>1, <1>2 DEF Overwritten, Lookup
  <2>5. EndsDirty(new)
    BY <1>1, <2>3, <2>4 DEF Inserted, EndsDirty
  <2> QED
    BY <2>1, <2>2, <2>5
<1>3. CASE Lookup(buf, EndOfUpdate) # {}
  <2> DEFINE flags == [i \in 1..Len(buf) |-> buf[i].Address = EndOfUpdate \/ buf[i].Dirty]
             new == [i \in DOMAIN buf |-> [buf[i] EXCEPT !.Dirty = flags[i]]]
  <2>1. flags \in [1..Len(buf) -> BOOLEAN]
    <3>1. \A i \in 1..Len(buf) : (buf[i].Address = EndOfUpdate \/ buf[i].Dirty) \in BOOLEAN
      OBVIOUS
    <3> QED
      BY <3>1
  <2>2. /\ Reflagged(buf, new)
        /\ \A i \in 1..Len(buf) : new[i].Dirty = flags[i]
    <3> HIDE DEF flags
    <3> QED
      BY <2>1, ReflaggedIs
  <2>3. ASSUME NEW i \in DOMAIN buf
        PROVE  (IF i \in Lookup(buf, EndOfUpdate) THEN [buf[i] EXCEPT !.Dirty = TRUE] ELSE buf[i])
                  = [buf[i] EXCEPT !.Dirty = flags[i]]
    <3>1. buf[i] \in DataWord
      BY <1>1, Entries
    <3>2. CASE buf[i].Address = EndOfUpdate
      <4>1. flags[i] = TRUE
        BY <1>1, <3>2
      <4>2. i \in Lookup(buf, EndOfUpdate)
        BY <3>2 DEF Lookup
      <4> QED
        BY <4>1, <4>2
    <3>3. CASE buf[i].Address # EndOfUpdate
      <4>1. flags[i] = buf[i].Dirty
        BY <1>1, <3>1, <3>3 DEF DataWord
      <4>2. i \notin Lookup(buf, EndOfUpdate)
        BY <3>3 DEF Lookup
      <4>3. [buf[i] EXCEPT !.Dirty = buf[i].Dirty] = buf[i]
        BY <3>1 DEF DataWord
      <4> QED
        BY <4>1, <4>2, <4>3
    <3> QED
      BY <3>2, <3>3
  <2>4. SetFFFEDirty(buf) = new
    <3>1. SetFFFEDirty(buf) = [i \in DOMAIN buf |->
            IF i \in Lookup(buf, EndOfUpdate) THEN [buf[i] EXCEPT !.Dirty = TRUE] ELSE buf[i]]
      BY <1>3 DEF SetFFFEDirty
    <3> HIDE DEF flags
    <3> QED
      BY <3>1, <2>3
  <2>5. \A i \in 1..Len(buf) : /\ buf[i].Address = EndOfUpdate => new[i].Dirty
                               /\ buf[i].Dirty => new[i].Dirty
    BY <2>2
  <2>6. ASSUME NEW i \in 1..Len(buf), ~new[i].Dirty PROVE new[i] = buf[i]
    <3>1. new[i] = [buf[i] EXCEPT !.Dirty = flags[i]] /\ new[i].Dirty = flags[i]
      BY <1>1, <2>2
    <3>2. flags[i] = FALSE /\ buf[i].Dirty = FALSE /\ buf[i] \in DataWord
      BY <2>1, <2>5, <2>6, <3>1, Entries DEF DataWord
    <3> HIDE DEF new, flags
    <3> QED
      BY <3>1, <3>2 DEF DataWord
  <2> HIDE DEF new
  <2>7. PICK e \in 1..Len(buf) : buf[e].Address = EndOfUpdate
    BY <1>1, <1>3 DEF Lookup
  <2>8. EndsDirty(new)
    BY <2>2, <2>5, <2>7 DEF EndsDirty, Reflagged
  <2>9. \A i \in 1..Len(new) : new[i].Dirty \/ \E j \in 1..Len(buf) : new[i] = buf[j]
    BY <2>2, <2>6 DEF Reflagged
  <2>10. \A i \in 1..Len(new) : \E j \in 1..Len(buf) : new[i].Address = buf[j].Address
    BY <2>2 DEF Reflagged
  <2>11. \A n \in 0..Len(buf) :
            (\E i \in 1..n : buf[i].Dirty) => \E i \in 1..n : new[i].Dirty
    <3>1. \A n \in 0..Len(buf) : \A i \in 1..n : i \in 1..Len(buf)
      BY <1>1
    <3> QED
      BY <2>5, <3>1
  <2>12. Grows(buf, new, EndOfUpdate)
    BY <1>1, <2>2, <2>9, <2>10, <2>11 DEF Grows, Reflagged
  <2> QED
    BY <2>4, <2>8, <2>12
<1> QED
  BY <1>2, <1>3

-----------------------------------------------------------------------------
(***************************************************************************)
(* PanelUpdate: the constants.                                             *)
(***************************************************************************)
LEMMA PowersOfTwo == \A n \in 0..16 : 2^n \in Nat \ {0}
<1>1. /\ 2^0 \in Nat \ {0} /\ 2^1 \in Nat \ {0} /\ 2^2 \in Nat \ {0}
      /\ 2^3 \in Nat \ {0} /\ 2^4 \in Nat \ {0} /\ 2^5 \in Nat \ {0}
  OBVIOUS
<1>2. /\ 2^6 \in Nat \ {0} /\ 2^7 \in Nat \ {0} /\ 2^8 \in Nat \ {0}
      /\ 2^9 \in Nat \ {0} /\ 2^10 \in Nat \ {0} /\ 2^11 \in Nat \ {0}
  OBVIOUS
<1>3. /\ 2^12 \in Nat \ {0} /\ 2^13 \in Nat \ {0} /\ 2^14 \in Nat \ {0}
      /\ 2^15 \in Nat \ {0} /\ 2^16 \in Nat \ {0}
  OBVIOUS
<1>4. ASSUME NEW n \in 0..16 PROVE 2^n \in Nat \ {0}
  <2>1. CASE n \in 0..5
    <3>1. n = 0 \/ n = 1 \/ n = 2 \/ n = 3 \/ n = 4 \/ n = 5
      BY <2>1
    <3> QED
      BY <1>1, <3>1, Zenon
  <2>2. CASE n \in 6..11
    <3>1. n = 6 \/ n = 7 \/ n = 8 \/ n = 9 \/ n = 10 \/ n = 11
      BY <2>2
    <3> QED
      BY <1>2, <3>1, Zenon
  <2>3. CASE n \in 12..16
    <3>1. n = 12 \/ n = 13 \/ n = 14 \/ n = 15 \/ n = 16
      BY <2>3
    <3> QED
      BY <1>3, <3>1, Zenon
  <2> QED
    BY <2>1, <2>2, <2>3
<1> QED
  BY <1>4

LEMMA LastIsOdd == WordMax % 2 = 1 /\ WordMax < 2^16
BY DEF WordMax, Base

LEMMA AddressTypes ==
    /\ EndOfUpdate \in BufferAddresses /\ SimAddresses \subseteq BufferAddresses
    /\ \A a \in BufferAddresses : a \in Word /\ a \in Nat /\ a % 2 = 0 /\ a <= EndOfUpdate
    /\ \A o \in Outputs : o.Address \in BufferAddresses
<1>1. ASSUME NEW a \in BufferAddresses
      PROVE  a \in Word /\ a \in Nat /\ a % 2 = 0 /\ a <= EndOfUpdate
  <2>1. a \in Word /\ a % 2 = 0
    BY PanelUpdateAssumption
  <2>2. a \in Nat /\ a <= WordMax /\ a # WordMax
    BY <2>1, LastIsOdd, Numbers DEF Word
  <2> QED
    BY <2>1, <2>2, Numbers DEF EndOfUpdate
<1> QED
  BY <1>1 DEF BufferAddresses

LEMMA FieldSizeIs ==
    ASSUME NEW o \in Output
    PROVE  FieldSize(o) \in Nat \ {0}
<1> DEFINE sizes == {m \in {2^n : n \in 1..16} : m > o.MaxValue}
<1>1. o.MaxValue \in Nat /\ o.MaxValue < 2^16
  BY LastIsOdd, Numbers, PowersOfTwo DEF Output, Word
<1>2. 2^16 \in sizes
  BY <1>1
<1>3. sizes \in SUBSET (Nat \ {0})
  BY PowersOfTwo
<1>4. PICK m \in sizes : \A k \in sizes : m <= k
  <2> HIDE DEF sizes
  <2> QED
    BY <1>2, <1>3, LeastElement
<1>5. Min(sizes) \in sizes
  <2> HIDE DEF sizes
  <2> QED
    BY <1>4 DEF Min
<1> QED
  BY <1>3, <1>5 DEF FieldSize

LEMMA WithFieldIsAWord ==
    ASSUME NEW word \in Word, NEW o \in Output, NEW v \in Int
    PROVE  WithField(word, o, v) \in Word
<1> DEFINE unit == 2^o.ShiftBy
           above == unit * FieldSize(o)
           low == word % unit
           field == (v % (WordMax + 1)) * unit
           high == (word \div above) * above
<1>1. unit \in Nat \ {0} /\ word \in Nat /\ WordMax + 1 \in Nat \ {0}
  <2>1. o.ShiftBy \in 0..16
    BY DEF Output
  <2> QED
    <3>1. unit \in Nat \ {0}
      BY <2>1, PowersOfTwo, Zenon
    <3> QED
      BY <3>1, Numbers DEF Word
<1>2. FieldSize(o) \in Nat \ {0}
  BY FieldSizeIs
<1> HIDE DEF unit
<1>3. above \in Nat \ {0}
  BY <1>1, <1>2
<1>4. low \in Int
  BY <1>1
<1>5. field \in Int
  <2>1. v % (WordMax + 1) \in Int
    BY <1>1
  <2> QED
    BY <1>1, <2>1
<1> HIDE DEF above
<1>6. high \in Int
  <2>1. word \div above \in Int
    BY <1>1, <1>3
  <2> QED
    BY <1>3, <2>1
<1> HIDE DEF low, field, high
<1>7. (low + field + high) % (WordMax + 1) \in 0..WordMax
  <2>1. \A x \in Int, n \in Nat \ {0} : x % n \in 0..n - 1
    OBVIOUS
  <2>2. low + field + high \in Int
    BY <1>4, <1>5, <1>6
  <2>3. (low + field + high) % (WordMax + 1) \in 0..(WordMax + 1) - 1
    BY <1>1, <2>1, <2>2
  <2> QED
    BY <2>3, Numbers
<1> QED
  BY <1>7 DEF WithField, low, field, high, above, unit, Word

\* There are no more entries than addresses.
LEMMA LengthBound ==
    ASSUME NEW buf, IsDataBuffer(buf), \A i \in 1..Len(buf) : buf[i].Address \in BufferAddresses
    PROVE  Cardinality(BufferAddresses) \in Nat /\ Len(buf) <= Cardinality(BufferAddresses)
<1> DEFINE f == [i \in 1..Len(buf) |-> buf[i].Address]
<1>1. Len(buf) \in Nat /\ DOMAIN buf = 1..Len(buf)
  BY DEF IsDataBuffer
<1>2. IsFiniteSet(BufferAddresses) /\ Cardinality(BufferAddresses) \in Nat
  <2>1. IsFiniteSet(Word)
    BY FS_Interval, Numbers DEF Word
  <2>2. BufferAddresses \in SUBSET Word
    BY AddressTypes
  <2> QED
    BY <2>1, <2>2, FS_Subset, FS_CardinalityType
<1>3. f \in [1..Len(buf) -> BufferAddresses]
  OBVIOUS
<1>4. ASSUME NEW i \in 1..Len(buf), NEW j \in 1..Len(buf), f[i] = f[j] PROVE i = j
  <2>1. buf[i].Address \in Nat /\ buf[j].Address \in Nat /\ buf[i].Address = buf[j].Address
    BY <1>4, AddressTypes
  <2>2. (i < j => buf[i].Address < buf[j].Address) /\ (j < i => buf[j].Address < buf[i].Address)
    BY <1>1 DEF IsDataBuffer, Ascending
  <2> QED
    BY <2>1, <2>2
<1> HIDE DEF f
<1>5. f \in Injection(1..Len(buf), BufferAddresses)
  BY <1>3, <1>4 DEF Injection, IsInjective
<1>6. Cardinality(1..Len(buf)) <= Cardinality(BufferAddresses)
  <2>1. ASSUME NEW I, NEW A, IsFiniteSet(A), f \in Injection(I, A)
        PROVE  Cardinality(I) <= Cardinality(A)
    BY <2>1, FS_Injection
  <2>2. IsFiniteSet(BufferAddresses)
    BY <1>2
  <2> QED
    BY <1>5, <2>1, <2>2
<1>7. Cardinality(1..Len(buf)) = Len(buf)
  <2>1. ASSUME NEW n \in Nat PROVE Cardinality(1..n) = n
    <3>1. \A a, b \in Int : Cardinality(a..b) = IF a > b THEN 0 ELSE b - a + 1
      BY FS_Interval
    <3>2. Cardinality(1..n) = IF 1 > n THEN 0 ELSE n - 1 + 1
      BY <3>1
    <3> QED
      BY <3>2
  <2> QED
    BY <1>1, <2>1
<1> QED
  BY <1>2, <1>6, <1>7

-----------------------------------------------------------------------------
(***************************************************************************)
(* PanelUpdate: the invariant.                                             *)
(***************************************************************************)
Before == {"select", "copy", "callbacks", "begin"}
EncoderStates == Before \cup {"autosync", "first", "entry", "append", "clear", "write"}

\* The packet has been begun.
Encoding == encoderLoop \in {"entry", "append", "clear", "write"}

BufferType ==
    /\ IsDataBuffer(BinaryData)
    /\ \A i \in 1..Len(BinaryData) : BinaryData[i].Address \in BufferAddresses
    /\ sliceLen \in 0..Len(BinaryData)
    /\ oldArray = <<>> \/ (Len(oldArray) = sliceLen /\ IsDataBuffer(oldArray))
    /\ sliceLen = 0 => oldArray = <<>>

ControlType ==
    /\ encoderLoop \in EncoderStates
    /\ autosyncIndex \in 1..Cardinality(BufferAddresses)
    /\ toCopy \in Seq(SimAddresses \X Word)
    /\ sliceLen > 0 <=> (encoderLoop = "first" \/ Encoding)
    /\ index \in 0..sliceLen + 1
    /\ entry \in DataWord
    /\ packet \in Seq(Word \X Word)
    /\ Encoding => packet # <<>> /\ index > 0
    /\ encoderLoop \in {"append", "clear"} => index <= sliceLen
    /\ encoderLoop = "write" => index > sliceLen
    /\ encoderLoop = "callbacks" <=> luaLock = "E"
    /\ transmitLoop # "select" <=> luaLock = "T"
    /\ transmitLoop = "write" => set[1] \in BufferAddresses /\ set[2] \in Word
    /\ DOMAIN panel = BufferAddresses
    /\ restarts \in Nat

\* Update finds a dirty entry, whatever is written meanwhile.
SomethingDirty ==
    /\ encoderLoop = "autosync" => \E i \in 1..Len(BinaryData) : BinaryData[i].Dirty
    /\ encoderLoop = "first" => \E i \in 1..sliceLen : Slice[i].Dirty

\* Without a write during an Update, its slice is the whole buffer.
Whole ==
    /\ oldArray = <<>>
    /\ sliceLen > 0 => sliceLen = Len(BinaryData)
    /\ encoderLoop \in {"autosync", "first"} => EndsDirty(BinaryData)
    /\ encoderLoop = "append" => entry = BinaryData[index] /\ entry.Dirty

\* The entries that have been looked at, and put into the packet if they were dirty.
Handled == IF encoderLoop = "clear" THEN index ELSE index - 1

PacketSoFar ==
    /\ \A k \in 1..Len(packet) : packet[k][2] = GetValueAtAddress(BinaryData, packet[k][1])
    /\ \A j, k \in 1..Len(packet) : j < k => packet[j][1] < packet[k][1]
    /\ \E j \in 1..Handled : Last(packet)[1] = BinaryData[j].Address
    /\ BinaryData[Len(BinaryData)].Address = EndOfUpdate
    /\ Handled < Len(BinaryData) => BinaryData[Len(BinaryData)].Dirty
    /\ Handled = Len(BinaryData) => Last(packet)[1] = EndOfUpdate

IsSent(i) == panel[BinaryData[i].Address] = BinaryData[i].Data

InPacket(i) == \E k \in 1..Len(packet) : packet[k][1] = BinaryData[i].Address

SentSoFar ==
    /\ ~Encoding => \A i \in 1..Len(BinaryData) : BinaryData[i].Dirty \/ IsSent(i)
    /\ Encoding => /\ \A i \in 1..Handled : IsSent(i) \/ InPacket(i)
                   /\ \A i \in Handled + 1..Len(BinaryData) : BinaryData[i].Dirty \/ IsSent(i)

PanelInv ==
    /\ BufferType /\ ControlType /\ SomethingDirty
    /\ ~raced => Whole
    /\ ~raced /\ Encoding => PacketSoFar
    /\ ~raced /\ restarts = 0 => SentSoFar

LEMMA PanelInit == Init => PanelInv
<1> SUFFICES ASSUME Init PROVE PanelInv
  OBVIOUS
<1>1. /\ BinaryData = <<>> /\ Len(BinaryData) = 0 /\ IsDataBuffer(BinaryData)
      /\ sliceLen = 0 /\ oldArray = <<>> /\ encoderLoop = "select" /\ index = 0
  BY EmptyIsDataBuffer DEF Init, Empty
<1>2. BufferType
  BY <1>1 DEF BufferType
<1>3. Cardinality(BufferAddresses) \in Nat /\ Cardinality(BufferAddresses) >= 1
  <2> DEFINE one == <<[Address |-> EndOfUpdate, Data |-> 0, Dirty |-> FALSE]>>
  <2>1. [Address |-> EndOfUpdate, Data |-> 0, Dirty |-> FALSE] \in DataWord
    BY FFFEIsAWord, Numbers DEF DataWord, Word
  <2>2. IsDataBuffer(one) /\ Len(one) = 1
    BY <2>1 DEF IsDataBuffer, Ascending
  <2>3. \A i \in 1..Len(one) : one[i].Address \in BufferAddresses
    BY <2>2, AddressTypes
  <2> HIDE DEF one
  <2> QED
    BY <2>2, <2>3, LengthBound
<1>4. entry \in DataWord
  BY Numbers DEF Init, NoWord, DataWord, Word
<1>5. ControlType
  <2>1. /\ autosyncIndex = 1 /\ toCopy = <<>> /\ packet = <<>> /\ luaLock = Nobody
        /\ transmitLoop = "select" /\ DOMAIN panel = BufferAddresses /\ restarts = 0
    BY DEF Init
  <2>2. <<>> \in Seq(SimAddresses \X Word) /\ <<>> \in Seq(Word \X Word)
    OBVIOUS
  <2>3. luaLock # "E" /\ luaLock # "T"
    BY <2>1, PanelUpdateAssumption
  <2> QED
    BY <1>1, <1>3, <1>4, <2>1, <2>2, <2>3 DEF ControlType, EncoderStates, Before, Encoding
<1>6. SomethingDirty /\ Whole /\ ~Encoding /\ SentSoFar
  BY <1>1 DEF SomethingDirty, Whole, Encoding, SentSoFar
<1> QED
  BY <1>2, <1>5, <1>6 DEF PanelInv

\* A step that leaves the buffer and the packet alone.
LEMMA QuietStep ==
    ASSUME PanelInv, ControlType',
           encoderLoop' = encoderLoop \/ (encoderLoop \in Before /\ encoderLoop' \in Before),
           UNCHANGED <<BinaryData, oldArray, sliceLen, index, entry, packet, raced>>,
           (restarts' = restarts /\ panel' = panel) \/ restarts' # 0
    PROVE  PanelInv'
<1>1. BufferType'
  BY DEF PanelInv, BufferType
<1>2. Encoding' <=> Encoding
  BY DEF Before, Encoding
<1>3. SomethingDirty'
  BY DEF PanelInv, SomethingDirty, Slice, Before
<1>4. ~raced' => Whole'
  BY DEF PanelInv, Whole, Before
<1>5. Encoding => Handled' = Handled
  BY DEF Encoding, Handled, Before
<1>6. ~raced' /\ Encoding' => PacketSoFar'
  BY <1>2, <1>5 DEF PanelInv, PacketSoFar
<1>7. ~raced' /\ restarts' = 0 => SentSoFar'
  BY <1>2, <1>5 DEF PanelInv, SentSoFar, IsSent, InPacket
<1> QED
  BY <1>1, <1>3, <1>4, <1>6, <1>7 DEF PanelInv

\* A word is put into the buffer between two Updates.
LEMMA GrowingStep ==
    ASSUME PanelInv, ControlType', NEW a \in BufferAddresses, Grows(BinaryData, BinaryData', a),
           encoderLoop \in Before, encoderLoop' \in Before \cup {"autosync"},
           encoderLoop' = "autosync" => EndsDirty(BinaryData'),
           UNCHANGED <<oldArray, sliceLen, panel, restarts>>, ~raced' => ~raced
    PROVE  PanelInv'
<1>1. sliceLen = 0 /\ oldArray = <<>>
  BY DEF PanelInv, ControlType, BufferType, Before, Encoding
<1>2. IsDataBuffer(BinaryData')
  BY DEF Grows
<1>3. ASSUME NEW i \in 1..Len(BinaryData') PROVE BinaryData'[i].Address \in BufferAddresses
  BY DEF Grows, PanelInv, BufferType
<1>4. BufferType'
  <2>1. Len(BinaryData') \in Nat
    BY <1>2 DEF IsDataBuffer
  <2> QED
    BY <1>1, <1>2, <1>3, <2>1 DEF BufferType
<1>5. ~Encoding /\ ~Encoding'
  BY DEF Encoding, Before
<1>6. SomethingDirty' /\ (~raced' => Whole')
  BY <1>1 DEF SomethingDirty, Whole, EndsDirty, Before
<1>7. ASSUME ~raced', restarts' = 0 PROVE SentSoFar'
  <2>1. \A j \in 1..Len(BinaryData) : BinaryData[j].Dirty \/ IsSent(j)
    BY <1>5, <1>7 DEF PanelInv, SentSoFar
  <2>2. ASSUME NEW i \in 1..Len(BinaryData'), ~BinaryData'[i].Dirty
        PROVE  panel[BinaryData'[i].Address] = BinaryData'[i].Data
    <3>1. PICK j \in 1..Len(BinaryData) : BinaryData'[i] = BinaryData[j]
      BY <2>2 DEF Grows
    <3> QED
      BY <2>1, <2>2, <3>1 DEF IsSent
  <2> QED
    BY <1>5, <2>2 DEF SentSoFar, IsSent
<1> QED
  BY <1>4, <1>5, <1>6, <1>7 DEF PanelInv

-----------------------------------------------------------------------------
(***************************************************************************)
(* Between two Updates, and the steps of T that write nothing.             *)
(***************************************************************************)
LEMMA TakeFrameKeeps == ASSUME PanelInv, TakeFrame PROVE PanelInv'
<1>1. /\ encoderLoop = "select" /\ encoderLoop' = "copy"
      /\ UNCHANGED <<autosyncIndex, sliceLen, index, entry, packet, transmitVars, panelVars,
                     BinaryData, oldArray, luaLock, raced>>
  BY DEF TakeFrame
<1>2. PICK data \in [SimAddresses -> UNION Range(SimValues)] :
            /\ \A a \in SimAddresses : data[a] \in SimValues[a]
            /\ \E order \in [1..Cardinality(SimAddresses) -> SimAddresses] :
                  toCopy' = [i \in DOMAIN order |-> <<order[i], data[order[i]]>>]
  BY DEF TakeFrame
<1>3. PICK order \in [1..Cardinality(SimAddresses) -> SimAddresses] :
            toCopy' = [i \in DOMAIN order |-> <<order[i], data[order[i]]>>]
  BY <1>2
<1>4. \A a \in SimAddresses : data[a] \in Word
  BY <1>2, PanelUpdateAssumption
<1>5. Cardinality(SimAddresses) \in Nat
  <2>1. IsFiniteSet(Word)
    BY FS_Interval, Numbers DEF Word
  <2>2. SimAddresses \in SUBSET Word
    BY AddressTypes
  <2> QED
    BY <2>1, <2>2, FS_Subset, FS_CardinalityType
<1>6. toCopy' \in [1..Cardinality(SimAddresses) -> SimAddresses \X Word]
  BY <1>3, <1>4
<1>7. toCopy' \in Seq(SimAddresses \X Word)
  BY <1>5, <1>6
<1>8. ControlType'
  BY <1>1, <1>7 DEF PanelInv, ControlType, EncoderStates, Before, Encoding, transmitVars, panelVars
<1> QED
  BY <1>1, <1>8, QuietStep DEF Before, panelVars

LEMMA EnterOutputCallbacksKeeps == ASSUME PanelInv, EnterOutputCallbacks PROVE PanelInv'
<1>1. ControlType'
  BY PanelUpdateAssumption
  DEF EnterOutputCallbacks, PanelInv, ControlType, EncoderStates, Before, Encoding,
      transmitVars, panelVars
<1> QED
  BY <1>1, QuietStep DEF EnterOutputCallbacks, Before, panelVars

LEMMA IdleUpdateKeeps == ASSUME PanelInv, IdleUpdate PROVE PanelInv'
<1>1. ControlType'
  BY DEF IdleUpdate, PanelInv, ControlType, EncoderStates, Before, Encoding, transmitVars, panelVars
<1> QED
  BY <1>1, QuietStep DEF IdleUpdate, Before, panelVars

LEMMA EnterInputCallbacksKeeps == ASSUME PanelInv, EnterInputCallbacks PROVE PanelInv'
<1>1. ControlType'
  BY PanelUpdateAssumption
  DEF EnterInputCallbacks, PanelInv, ControlType, Encoding, encoderVars, panelVars
<1> QED
  BY <1>1, QuietStep DEF EnterInputCallbacks, encoderVars, panelVars

LEMMA ScriptWord ==
    ASSUME PanelInv, NEW o \in Outputs, NEW v \in ScriptValues[o]
    PROVE  /\ o.Address \in BufferAddresses /\ o.Address \in Word
           /\ WithField(GetValueAtAddress(BinaryData, o.Address), o, v) \in Word
<1>1. o \in Output /\ v \in Int
  BY PanelUpdateAssumption
<1>2. GetValueAtAddress(BinaryData, o.Address) \in Word
  BY GetValueIsAWord DEF PanelInv, BufferType
<1> QED
  BY <1>1, <1>2, WithFieldIsAWord, AddressTypes

LEMMA ReadWordKeeps == ASSUME PanelInv, ReadWord PROVE PanelInv'
<1>1. PICK o \in Outputs : \E v \in ScriptValues[o] :
            set' = <<o.Address, WithField(GetValueAtAddress(BinaryData, o.Address), o, v)>>
  BY DEF ReadWord
<1>2. PICK v \in ScriptValues[o] :
            set' = <<o.Address, WithField(GetValueAtAddress(BinaryData, o.Address), o, v)>>
  BY <1>1
<1>3. set'[1] \in BufferAddresses /\ set'[2] \in Word
  BY <1>2, ScriptWord
<1>4. ControlType'
  BY <1>3 DEF ReadWord, PanelInv, ControlType, Encoding, encoderVars, panelVars
<1> QED
  BY <1>4, QuietStep DEF ReadWord, encoderVars, panelVars

LEMMA LeaveInputCallbacksKeeps == ASSUME PanelInv, LeaveInputCallbacks PROVE PanelInv'
<1>1. ControlType'
  BY PanelUpdateAssumption
  DEF LeaveInputCallbacks, PanelInv, ControlType, Encoding, encoderVars, panelVars
<1> QED
  BY <1>1, QuietStep DEF LeaveInputCallbacks, encoderVars, panelVars

LEMMA RestartPanelKeeps == ASSUME PanelInv, RestartPanel PROVE PanelInv'
<1>1. DOMAIN panel' = BufferAddresses
  BY DEF RestartPanel
<1>2. ControlType'
  BY <1>1 DEF RestartPanel, PanelInv, ControlType, Encoding, encoderVars, transmitVars
<1>3. restarts' # 0
  BY DEF RestartPanel, PanelInv, ControlType
<1> QED
  BY <1>2, <1>3, QuietStep DEF RestartPanel, encoderVars

LEMMA CopyWordKeeps == ASSUME PanelInv, CopyWord PROVE PanelInv'
<1> DEFINE a == Head(toCopy)[1]
           v == Head(toCopy)[2]
<1>1. /\ toCopy \in Seq(SimAddresses \X Word) /\ toCopy # <<>>
      /\ BinaryData' = SetUint16(BinaryData, a, v) /\ toCopy' = Tail(toCopy)
      /\ encoderLoop = "copy"
      /\ UNCHANGED <<autosyncIndex, encoderLoop, sliceLen, index, entry, packet, transmitVars,
                     panelVars, oldArray, luaLock, raced>>
  BY DEF CopyWord, PanelInv, ControlType
<1>2. Head(toCopy) \in SimAddresses \X Word /\ toCopy' \in Seq(SimAddresses \X Word)
  BY <1>1
<1>3. a \in BufferAddresses /\ a \in Word /\ v \in Word
  BY <1>2, AddressTypes
<1> HIDE DEF a, v
<1>4. Grows(BinaryData, BinaryData', a)
  BY <1>1, <1>3, SetUint16Grows DEF PanelInv, BufferType
<1>5. ControlType'
  BY <1>1, <1>2 DEF PanelInv, ControlType, Encoding, transmitVars, panelVars
<1> QED
  BY <1>1, <1>3, <1>4, <1>5, GrowingStep DEF Before, panelVars

LEMMA OutputCallbacksKeeps == ASSUME PanelInv, OutputCallbacks PROVE PanelInv'
<1>1. /\ encoderLoop = "callbacks" /\ encoderLoop' = "begin" /\ luaLock' = Nobody
      /\ UNCHANGED <<autosyncIndex, toCopy, sliceLen, index, entry, packet, transmitVars,
                     panelVars, oldArray, raced>>
  BY DEF OutputCallbacks
<1>2. ControlType'
  BY <1>1, PanelUpdateAssumption
  DEF PanelInv, ControlType, EncoderStates, Before, Encoding, transmitVars, panelVars
<1>3. CASE UNCHANGED BinaryData
  BY <1>1, <1>2, <1>3, QuietStep DEF Before, panelVars
<1>4. ASSUME NEW o \in Outputs, NEW v \in ScriptValues[o],
             BinaryData' = SetUint16(BinaryData, o.Address,
                                WithField(GetValueAtAddress(BinaryData, o.Address), o, v))
      PROVE  PanelInv'
  <2>1. Grows(BinaryData, BinaryData', o.Address)
    BY <1>4, ScriptWord, SetUint16Grows DEF PanelInv, BufferType
  <2>2. o.Address \in BufferAddresses
    BY AddressTypes
  <2> QED
    BY <1>1, <1>2, <2>1, <2>2, GrowingStep DEF Before, panelVars
<1> QED
  BY <1>3, <1>4 DEF OutputCallbacks

LEMMA MarkEndOfUpdateKeeps == ASSUME PanelInv, MarkEndOfUpdate PROVE PanelInv'
<1>1. /\ encoderLoop = "begin" /\ encoderLoop' = "autosync"
      /\ BinaryData' = SetFFFEDirty(BinaryData)
      /\ UNCHANGED <<autosyncIndex, toCopy, sliceLen, index, entry, packet, transmitVars,
                     panelVars, oldArray, luaLock, raced>>
  BY DEF MarkEndOfUpdate
<1>2. Grows(BinaryData, BinaryData', EndOfUpdate) /\ EndsDirty(BinaryData')
  BY <1>1, SetFFFEDirtyIs DEF PanelInv, BufferType
<1>3. ControlType'
  BY <1>1 DEF PanelInv, ControlType, EncoderStates, Before, Encoding, transmitVars, panelVars
<1> QED
  BY <1>1, <1>2, <1>3, GrowingStep, AddressTypes DEF Before, panelVars

-----------------------------------------------------------------------------
(***************************************************************************)
(* encoder.Update.                                                         *)
(***************************************************************************)
LEMMA SubSeqIs ==
    ASSUME NEW S, NEW s \in Seq(S), NEW n \in 0..Len(s)
    PROVE  \A i \in 1..n : SubSeq(s, 1, n)[i] = s[i]
<1> DEFINE part == SubSeq(s, 1, n)
<1>1. \A i \in 1..n : part[i] = s[i]
  OBVIOUS
<1> QED
  BY <1>1

LEMMA SliceIs ==
    ASSUME BufferType
    PROVE  /\ IsDataBuffer(Slice) /\ Len(Slice) = sliceLen
           /\ oldArray = <<>> => \A i \in 1..sliceLen : Slice[i] = BinaryData[i]
           /\ oldArray # <<>> => Slice = oldArray
<1>1. BinaryData \in Seq(DataWord) /\ Len(BinaryData) \in Nat
  BY DEF BufferType, IsDataBuffer
<1>2. CASE oldArray = <<>>
  <2> DEFINE part == SubSeq(BinaryData, 1, sliceLen)
  <2>1. Slice = part
    BY <1>2 DEF Slice
  <2>2. sliceLen \in 0..Len(BinaryData)
    BY DEF BufferType
  <2>3. /\ part \in Seq(DataWord) /\ Len(part) = sliceLen /\ DOMAIN part = 1..sliceLen
        /\ \A i \in 1..sliceLen : part[i] = BinaryData[i]
    BY <1>1, <2>2
  <2> HIDE DEF part
  <2>4. Ascending(part)
    BY <1>1, <2>2, <2>3 DEF Ascending, BufferType, IsDataBuffer
  <2> QED
    BY <1>2, <2>1, <2>3, <2>4 DEF IsDataBuffer
<1>3. CASE oldArray # <<>>
  BY <1>3 DEF Slice, BufferType
<1> QED
  BY <1>2, <1>3

\* What SetDirty does to the array of the slice.
Flagged(array, new, indices, flag) ==
    /\ Reflagged(array, new)
    /\ \A i \in 1..Len(array) : new[i].Dirty = IF i \in indices THEN flag ELSE array[i].Dirty

LEMMA FlaggedIs ==
    ASSUME NEW array, IsDataBuffer(array), NEW indices, NEW flag \in BOOLEAN,
           NEW new, new = [i \in DOMAIN array |->
                IF i \in indices THEN [array[i] EXCEPT !.Dirty = flag] ELSE array[i]]
    PROVE  Flagged(array, new, indices, flag)
<1> DEFINE flags == [i \in 1..Len(array) |-> IF i \in indices THEN flag ELSE array[i].Dirty]
           same == [i \in DOMAIN array |-> [array[i] EXCEPT !.Dirty = flags[i]]]
<1>1. DOMAIN array = 1..Len(array) /\ \A i \in 1..Len(array) : array[i] \in DataWord
  BY Entries DEF IsDataBuffer
<1>2. flags \in [1..Len(array) -> BOOLEAN]
  BY <1>1 DEF DataWord
<1>3. \A i \in 1..Len(array) :
        [array[i] EXCEPT !.Dirty = flags[i]]
            = IF i \in indices THEN [array[i] EXCEPT !.Dirty = flag] ELSE array[i]
  BY <1>1 DEF DataWord
<1>4. new = same
  BY <1>1, <1>3
<1>5. \A i \in 1..Len(array) : flags[i] = IF i \in indices THEN flag ELSE array[i].Dirty
  OBVIOUS
<1> HIDE DEF flags
<1>6. Reflagged(array, same) /\ \A i \in 1..Len(array) : same[i].Dirty = flags[i]
  BY <1>2, ReflaggedIs, SMTT(30)
<1> HIDE DEF same
<1> QED
  BY <1>4, <1>5, <1>6 DEF Flagged

LEMMA SetDirtyIs ==
    ASSUME BufferType, NEW indices, NEW flag \in BOOLEAN, SetDirty(indices, flag)
    PROVE  \/ /\ oldArray = <<>> /\ oldArray' = <<>>
              /\ Flagged(BinaryData, BinaryData', indices, flag)
           \/ /\ oldArray # <<>> /\ BinaryData' = BinaryData
              /\ Flagged(oldArray, oldArray', indices, flag)
<1>1. CASE oldArray = <<>>
  BY <1>1, FlaggedIs DEF SetDirty, BufferType
<1>2. CASE oldArray # <<>>
  BY <1>2, FlaggedIs DEF SetDirty, BufferType
<1> QED
  BY <1>1, <1>2

LEMMA SetDirtyKeeps ==
    ASSUME BufferType, NEW indices, NEW flag \in BOOLEAN, SetDirty(indices, flag),
           sliceLen' = sliceLen \/ (oldArray = <<>> /\ sliceLen' = Len(BinaryData))
    PROVE  BufferType' /\ Len(BinaryData') = Len(BinaryData)
<1>1. IsDataBuffer(BinaryData) /\ Len(BinaryData) \in Nat
  BY DEF BufferType, IsDataBuffer
<1>2. CASE oldArray = <<>>
  <2>1. oldArray' = <<>> /\ Reflagged(BinaryData, BinaryData')
    BY <1>2, SetDirtyIs DEF Flagged
  <2> QED
    BY <1>1, <1>2, <2>1 DEF BufferType, Reflagged
<1>3. CASE oldArray # <<>>
  <2>1. BinaryData' = BinaryData /\ Reflagged(oldArray, oldArray') /\ sliceLen' = sliceLen
    BY <1>3, SetDirtyIs DEF Flagged
  <2>2. Len(oldArray') = sliceLen' /\ IsDataBuffer(oldArray') /\ sliceLen # 0
    BY <1>3, <2>1 DEF BufferType, Reflagged
  <2> QED
    BY <1>1, <2>1, <2>2 DEF BufferType
<1> QED
  BY <1>2, <1>3

LEMMA AutosyncIndices ==
    ASSUME PanelInv, Len(BinaryData) > 0
    PROVE  NextAutosync \in 1..Cardinality(BufferAddresses)
<1>1. /\ Cardinality(BufferAddresses) \in Nat /\ Len(BinaryData) <= Cardinality(BufferAddresses)
      /\ Len(BinaryData) \in Nat
  BY LengthBound DEF PanelInv, BufferType, IsDataBuffer
<1>2. AutosyncFrom \in Nat
  BY <1>1 DEF AutosyncFrom, PanelInv, ControlType
<1>3. AutosyncWords \in Nat
  BY PanelUpdateAssumption
<1>4. (AutosyncFrom - 1 + AutosyncWords) % Len(BinaryData) \in 0..Len(BinaryData) - 1
  BY <1>1, <1>2, <1>3
<1> QED
  BY <1>1, <1>4 DEF NextAutosync, AutosyncAt

LEMMA AutosyncKeeps == ASSUME PanelInv, Autosync PROVE PanelInv'
<1> DEFINE marked == {AutosyncAt(j) : j \in 0..AutosyncWords - 1}
<1>1. /\ encoderLoop = "autosync" /\ encoderLoop' = "first" /\ sliceLen' = Len(BinaryData)
      /\ SetDirty(marked, TRUE) /\ autosyncIndex' = NextAutosync
      /\ UNCHANGED <<toCopy, index, entry, packet, transmitVars, panelVars, luaLock, raced>>
  BY DEF Autosync
<1> HIDE DEF marked
<1>2. sliceLen = 0 /\ oldArray = <<>> /\ ~Encoding /\ ~Encoding'
  BY <1>1 DEF PanelInv, ControlType, BufferType, Encoding
<1>3. PICK d \in 1..Len(BinaryData) : BinaryData[d].Dirty
  BY <1>1 DEF PanelInv, SomethingDirty
<1>4. Len(BinaryData) \in Nat /\ Len(BinaryData) > 0
  BY <1>3 DEF PanelInv, BufferType, IsDataBuffer
<1>5. oldArray' = <<>> /\ Flagged(BinaryData, BinaryData', marked, TRUE)
  BY <1>1, <1>2, SetDirtyIs DEF PanelInv
<1>6. BufferType' /\ Len(BinaryData') = Len(BinaryData)
  BY <1>1, <1>2, SetDirtyKeeps DEF PanelInv
<1>7. \A i \in 1..Len(BinaryData) :
        /\ BinaryData'[i].Address = BinaryData[i].Address
        /\ BinaryData'[i].Data = BinaryData[i].Data
        /\ BinaryData[i].Dirty => BinaryData'[i].Dirty
  BY <1>5 DEF Flagged, Reflagged
<1>8. ControlType'
  BY <1>1, <1>2, <1>4, AutosyncIndices
  DEF PanelInv, ControlType, EncoderStates, Encoding, transmitVars, panelVars
<1>9. SomethingDirty'
  <2>1. \A i \in 1..sliceLen' : Slice'[i] = BinaryData'[i]
    <3>1. Slice' = SubSeq(BinaryData', 1, sliceLen')
      BY <1>5 DEF Slice
    <3>2. BinaryData' \in Seq(DataWord) /\ sliceLen' \in 0..Len(BinaryData')
      BY <1>6 DEF BufferType, IsDataBuffer
    <3> QED
      BY <3>1, <3>2, SubSeqIs
  <2> QED
    BY <1>1, <1>3, <1>7, <2>1 DEF SomethingDirty
<1>10. ASSUME ~raced' PROVE Whole'
  <2>1. EndsDirty(BinaryData)
    BY <1>1, <1>10 DEF PanelInv, Whole
  <2>2. EndsDirty(BinaryData')
    BY <1>6, <1>7, <2>1 DEF EndsDirty
  <2> QED
    BY <1>1, <1>5, <1>6, <2>2 DEF Whole
<1>11. ASSUME ~raced', restarts' = 0 PROVE SentSoFar'
  <2>1. \A i \in 1..Len(BinaryData) : BinaryData[i].Dirty \/ IsSent(i)
    BY <1>1, <1>2, <1>11 DEF PanelInv, SentSoFar, panelVars
  <2> QED
    BY <1>1, <1>2, <1>6, <1>7, <2>1 DEF SentSoFar, IsSent, panelVars
<1> QED
  BY <1>2, <1>6, <1>8, <1>9, <1>10, <1>11 DEF PanelInv

LEMMA ReadEntryKeeps == ASSUME PanelInv, ReadEntry PROVE PanelInv'
<1>1. /\ encoderLoop = "entry" /\ Encoding
      /\ UNCHANGED <<autosyncIndex, toCopy, sliceLen, index, packet, transmitVars, panelVars,
                     BinaryData, oldArray, luaLock, raced>>
      /\ \/ /\ index <= sliceLen /\ entry' = Slice[index]
            /\ encoderLoop' = IF Slice[index].Dirty THEN "append" ELSE "clear"
         \/ index > sliceLen /\ encoderLoop' = "write" /\ entry' = entry
  BY DEF ReadEntry, Encoding
<1>2. encoderLoop' \in {"append", "clear", "write"} /\ Encoding' /\ index \in Nat
  BY <1>1 DEF Encoding, PanelInv, ControlType, BufferType
<1>3. index > 0 /\ (index <= sliceLen => index \in 1..Len(Slice))
  BY <1>1, SliceIs DEF PanelInv, ControlType, BufferType
<1>4. IsDataBuffer(Slice)
  BY SliceIs DEF PanelInv
<1>5. entry' \in DataWord
  BY <1>1, <1>3, <1>4, Entries DEF PanelInv, ControlType
<1>6. ControlType'
  BY <1>1, <1>2, <1>5 DEF PanelInv, ControlType, EncoderStates, transmitVars, panelVars, Encoding
<1>7. BufferType'
  BY <1>1 DEF PanelInv, BufferType
<1>8. SomethingDirty'
  BY <1>2 DEF SomethingDirty
<1>9. ASSUME ~raced
      PROVE  /\ oldArray = <<>> /\ sliceLen = Len(BinaryData)
             /\ index <= sliceLen => Slice[index] = BinaryData[index]
  <2>1. oldArray = <<>> /\ sliceLen = Len(BinaryData)
    BY <1>1, <1>9 DEF PanelInv, Whole, ControlType
  <2> QED
    BY <1>3, <2>1, SliceIs DEF PanelInv
<1>10. ~raced' => Whole'
  BY <1>1, <1>2, <1>9 DEF Whole
<1>11. ASSUME ~raced', encoderLoop' = "clear"
       PROVE  ~BinaryData[index].Dirty /\ index \in 1..Len(BinaryData) /\ Handled' = index
  BY <1>1, <1>3, <1>9, <1>11 DEF Handled
<1>12. Handled = index - 1 /\ (encoderLoop' # "clear" => Handled' = Handled)
  BY <1>1 DEF Handled
<1>13. Len(BinaryData) \in Nat
  BY DEF PanelInv, BufferType, IsDataBuffer
<1>14. ASSUME ~raced' PROVE PacketSoFar'
  <2>1. PacketSoFar
    BY <1>1, <1>14 DEF PanelInv
  <2>2. CASE encoderLoop' # "clear"
    BY <1>1, <1>12, <2>1, <2>2 DEF PacketSoFar
  <2>3. CASE encoderLoop' = "clear"
    <3>1. Handled < Len(BinaryData) /\ Handled' = Handled + 1
      BY <1>2, <1>11, <1>12, <1>14, <1>13, <2>3
    <3>2. Handled' # Len(BinaryData)
      BY <1>11, <1>13, <1>14, <2>1, <2>3, <3>1 DEF PacketSoFar
    <3>3. \A j \in 1..Handled : j \in 1..Handled'
      BY <1>2, <1>12, <3>1
    <3> QED
      BY <1>1, <1>11, <1>13, <1>14, <2>1, <2>3, <3>1, <3>2, <3>3 DEF PacketSoFar
  <2> QED
    BY <2>2, <2>3
<1>15. ASSUME ~raced', restarts' = 0 PROVE SentSoFar'
  <2>1. /\ \A i \in 1..Handled : IsSent(i) \/ InPacket(i)
        /\ \A i \in Handled + 1..Len(BinaryData) : BinaryData[i].Dirty \/ IsSent(i)
    BY <1>1, <1>15 DEF PanelInv, SentSoFar, panelVars
  <2>2. \A i : (IsSent(i)' <=> IsSent(i)) /\ (InPacket(i)' <=> InPacket(i))
    BY <1>1 DEF IsSent, InPacket, panelVars
  <2>3. CASE encoderLoop' # "clear"
    BY <1>1, <1>2, <1>12, <2>1, <2>2, <2>3 DEF SentSoFar
  <2>4. CASE encoderLoop' = "clear"
    <3>1. /\ Handled' = index /\ Handled = index - 1 /\ index \in 1..Len(BinaryData)
          /\ ~BinaryData[index].Dirty
      BY <1>11, <1>12, <1>15, <2>4
    <3>2. IsSent(index)
      BY <1>13, <2>1, <3>1
    <3>3. \A i \in 1..index : IsSent(i) \/ InPacket(i)
      BY <1>2, <2>1, <3>1, <3>2
    <3>4. \A i \in index + 1..Len(BinaryData) : BinaryData[i].Dirty \/ IsSent(i)
      BY <1>2, <1>13, <2>1, <3>1
    <3> QED
      BY <1>1, <1>2, <2>2, <3>1, <3>3, <3>4 DEF SentSoFar
  <2> QED
    BY <2>3, <2>4
<1> QED
  BY <1>6, <1>7, <1>8, <1>10, <1>14, <1>15 DEF PanelInv

LEMMA ReflaggedValuesAll ==
    ASSUME NEW buf, IsDataBuffer(buf), NEW new, Reflagged(buf, new)
    PROVE  \A a : GetValueAtAddress(new, a) = GetValueAtAddress(buf, a)
BY ReflaggedValues

\* The last entry is that of 0xFFFE.
LEMMA LastEntry ==
    ASSUME BufferType, EndsDirty(BinaryData)
    PROVE  /\ Len(BinaryData) \in Nat \ {0}
           /\ BinaryData[Len(BinaryData)].Address = EndOfUpdate
           /\ BinaryData[Len(BinaryData)].Dirty
<1>1. Len(BinaryData) \in Nat /\ DOMAIN BinaryData = 1..Len(BinaryData)
  BY DEF BufferType, IsDataBuffer
<1>2. PICK i \in 1..Len(BinaryData) : BinaryData[i].Address = EndOfUpdate /\ BinaryData[i].Dirty
  BY DEF EndsDirty
<1> DEFINE n == Len(BinaryData)
<1>3. n \in 1..n
  BY <1>1, <1>2
<1>4. BinaryData[n].Address <= EndOfUpdate /\ BinaryData[n].Address \in Nat /\ EndOfUpdate \in Nat
  BY <1>3, AddressTypes DEF BufferType
<1>5. i < n => BinaryData[i].Address < BinaryData[n].Address
  BY <1>1, <1>3 DEF BufferType, IsDataBuffer, Ascending
<1>6. n \in Nat /\ i \in 1..n /\ BinaryData[i].Address = EndOfUpdate
  BY <1>1, <1>2
<1>7. i = n
  <2> HIDE DEF n
  <2> QED
    BY <1>4, <1>5, <1>6
<1> QED
  BY <1>1, <1>2, <1>3, <1>7

LEMMA LastOfOne == ASSUME NEW x PROVE Last(<<x>>) = x /\ Len(<<x>>) = 1 /\ <<x>> # <<>>
BY DEF Last

LEMMA FirstDirtyKeeps == ASSUME PanelInv, FirstDirty PROVE PanelInv'
<1> DEFINE toSend == {i \in 1..sliceLen : Slice[i].Dirty}
           first == Min(toSend)
           begun == <<Slice[first].Address, Slice[first].Data>>
<1>1. /\ encoderLoop = "first" /\ encoderLoop' = "entry" /\ packet' = <<begun>>
      /\ SetDirty({first}, FALSE) /\ index' = first + 1
      /\ UNCHANGED <<autosyncIndex, sliceLen, entry, toCopy, transmitVars, panelVars, luaLock, raced>>
  BY DEF FirstDirty
<1>2. first \in toSend /\ \A i \in toSend : first <= i
  <2>1. toSend # {}
    BY <1>1 DEF PanelInv, SomethingDirty
  <2>2. toSend \in SUBSET Nat
    OBVIOUS
  <2> HIDE DEF toSend
  <2> QED
    BY <2>1, <2>2, LeastElement DEF Min
<1>3. /\ sliceLen \in Nat /\ Len(BinaryData) \in Nat /\ sliceLen <= Len(BinaryData)
      /\ first \in 1..sliceLen /\ Slice[first].Dirty
      /\ \A i \in 1..first - 1 : ~Slice[i].Dirty
  <2>1. sliceLen \in Nat /\ Len(BinaryData) \in Nat /\ sliceLen <= Len(BinaryData)
    BY DEF PanelInv, BufferType, IsDataBuffer
  <2>2. first \in 1..sliceLen /\ Slice[first].Dirty
    BY <1>2
  <2>3. ASSUME NEW i \in 1..first - 1, Slice[i].Dirty PROVE FALSE
    <3>1. i \in 1..sliceLen /\ ~(first <= i)
      <4> HIDE DEF first
      <4> QED
        BY <2>1, <2>2
    <3>2. i \in toSend
      BY <2>3, <3>1
    <3> QED
      BY <1>2, <3>1, <3>2
  <2> QED
    BY <2>1, <2>2, <2>3
<1> HIDE DEF toSend, first
<1>4. /\ IsDataBuffer(Slice) /\ Len(Slice) = sliceLen
      /\ oldArray = <<>> => \A i \in 1..sliceLen : Slice[i] = BinaryData[i]
  BY SliceIs DEF PanelInv
<1>5. begun \in Word \X Word /\ packet' \in Seq(Word \X Word) /\ packet' # <<>>
  <2>1. begun \in Word \X Word
    BY <1>3, <1>4, Entries
  <2> HIDE DEF begun
  <2> QED
    BY <1>1, <2>1
<1>6. BufferType' /\ Len(BinaryData') = Len(BinaryData)
  BY <1>1, SetDirtyKeeps DEF PanelInv
<1>7. Encoding' /\ ~Encoding /\ Handled' = first /\ index' \in Nat
  BY <1>1, <1>3 DEF Encoding, Handled
<1>8. ControlType'
  BY <1>1, <1>3, <1>5, <1>7 DEF PanelInv, ControlType, EncoderStates, Encoding, transmitVars, panelVars
<1>9. SomethingDirty'
  BY <1>1 DEF SomethingDirty
<1>10. ASSUME ~raced
       PROVE  /\ oldArray = <<>> /\ oldArray' = <<>> /\ sliceLen = Len(BinaryData)
              /\ Flagged(BinaryData, BinaryData', {first}, FALSE)
              /\ EndsDirty(BinaryData)
              /\ \A i \in 1..Len(BinaryData) : Slice[i] = BinaryData[i]
  <2>1. oldArray = <<>> /\ sliceLen = Len(BinaryData) /\ EndsDirty(BinaryData)
    BY <1>1, <1>3, <1>10 DEF PanelInv, Whole
  <2> QED
    BY <1>1, <1>4, <2>1, SetDirtyIs DEF PanelInv
<1>11. ~raced' => Whole'
  BY <1>1, <1>6, <1>10 DEF Whole
<1>12. ASSUME ~raced
       PROVE  \A i \in 1..Len(BinaryData) :
                /\ BinaryData'[i].Address = BinaryData[i].Address
                /\ BinaryData'[i].Data = BinaryData[i].Data
                /\ i # first => BinaryData'[i].Dirty = BinaryData[i].Dirty
  BY <1>10, <1>12 DEF Flagged, Reflagged
<1>13. ASSUME ~raced' PROVE PacketSoFar'
  <2>1. ~raced
    BY <1>1, <1>13
  <2>2. Slice[first] = BinaryData[first] /\ first \in 1..Len(BinaryData)
    BY <1>3, <1>10, <2>1
  <2>3. /\ Len(packet') = 1 /\ packet'[1] = begun /\ Last(packet') = begun
        /\ begun[1] = BinaryData[first].Address /\ begun[2] = BinaryData[first].Data
    <3>1. begun[1] = BinaryData[first].Address /\ begun[2] = BinaryData[first].Data
      BY <2>2
    <3> HIDE DEF begun
    <3> QED
      BY <1>1, <3>1, LastOfOne
  <2> HIDE DEF begun
  <2>4. GetValueAtAddress(BinaryData', BinaryData[first].Address) = BinaryData[first].Data
    <3>1. IsDataBuffer(BinaryData) /\ Reflagged(BinaryData, BinaryData')
      BY <1>10, <2>1 DEF Flagged, PanelInv, BufferType
    <3> QED
      BY <2>2, <3>1, ReflaggedValuesAll, LookupIs
  <2>5. /\ Len(BinaryData) \in Nat \ {0}
        /\ BinaryData[Len(BinaryData)].Address = EndOfUpdate /\ BinaryData[Len(BinaryData)].Dirty
    BY <1>10, <2>1, LastEntry DEF PanelInv
  <2>6. BinaryData'[Len(BinaryData)].Address = EndOfUpdate
    BY <1>12, <2>1, <2>5
  <2>7. first < Len(BinaryData) => BinaryData'[Len(BinaryData)].Dirty
    BY <1>3, <1>12, <2>1, <2>5
  <2>8. \E j \in 1..first : begun[1] = BinaryData'[j].Address
    BY <1>3, <1>12, <2>1, <2>2, <2>3
  <2>9. first = Len(BinaryData) => begun[1] = EndOfUpdate
    BY <2>3, <2>5
  <2>10. \A k \in 1..Len(packet') : packet'[k] = begun /\ k = 1
    BY <2>3
  <2>11. \A j, k \in 1..Len(packet') : ~(j < k)
    BY <2>10
  <2> QED
    BY <1>6, <1>7, <2>3, <2>4, <2>6, <2>7, <2>8, <2>9, <2>10, <2>11 DEF PacketSoFar
<1>14. ASSUME ~raced', restarts' = 0 PROVE SentSoFar'
  <2>1. ~raced /\ restarts = 0 /\ panel' = panel
    BY <1>1, <1>14 DEF panelVars
  <2>2. \A i \in 1..Len(BinaryData) : BinaryData[i].Dirty \/ IsSent(i)
    BY <1>7, <2>1 DEF PanelInv, SentSoFar
  <2>3. \A i \in 1..Len(BinaryData) : IsSent(i)' <=> IsSent(i)
    BY <1>12, <2>1 DEF IsSent
  <2>4. ASSUME NEW i \in 1..first PROVE IsSent(i)' \/ InPacket(i)'
    <3>1. CASE i = first
      <4>1. Len(packet') = 1 /\ packet'[1] = begun
        BY <1>1
      <4>2. begun[1] = BinaryData'[first].Address
        BY <1>3, <1>10, <1>12, <2>1
      <4> HIDE DEF begun
      <4> QED
        BY <3>1, <4>1, <4>2 DEF InPacket
    <3>2. CASE i # first
      <4>1. i \in 1..first - 1 /\ i \in 1..Len(BinaryData)
        BY <1>3, <3>2
      <4>2. ~BinaryData[i].Dirty
        BY <1>3, <1>10, <2>1, <4>1
      <4> QED
        BY <2>2, <2>3, <4>1, <4>2
    <3> QED
      BY <3>1, <3>2
  <2>5. ASSUME NEW i \in first + 1..Len(BinaryData) PROVE BinaryData'[i].Dirty \/ IsSent(i)'
    <3>1. i \in 1..Len(BinaryData) /\ i # first
      BY <1>3
    <3> QED
      BY <1>12, <2>1, <2>2, <2>3, <3>1
  <2> QED
    BY <1>6, <1>7, <2>4, <2>5 DEF SentSoFar
<1> QED
  BY <1>6, <1>8, <1>9, <1>11, <1>13, <1>14 DEF PanelInv

LEMMA Concatenated ==
    ASSUME NEW S, NEW p \in Seq(S), NEW q \in Seq(S)
    PROVE  /\ p \o q \in Seq(S) /\ Len(p \o q) = Len(p) + Len(q)
           /\ \A k \in 1..Len(p) : (p \o q)[k] = p[k]
           /\ \A k \in 1..Len(q) : (p \o q)[Len(p) + k] = q[k]
<1> DEFINE r == p \o q
<1>1. /\ r \in Seq(S) /\ Len(r) = Len(p) + Len(q)
      /\ \A k \in 1..Len(p) : r[k] = p[k]
      /\ \A k \in 1..Len(q) : r[Len(p) + k] = q[k]
  OBVIOUS
<1> QED
  BY <1>1

\* The words an entry adds to the packet.
Added == IF Continues(Last(packet)[1]) THEN WordsAfter(Last(packet)[1])
                                       ELSE <<<<entry.Address, entry.Data>>>>

LEMMA Half == ASSUME NEW x \in Int PROVE x \div 2 \in Int /\ 2 * (x \div 2) <= x
OBVIOUS

LEMMA HalfTheDistance ==
    ASSUME NEW x \in Nat, NEW y \in Nat, x < y, x % 2 = 0, y % 2 = 0
    PROVE  (y - x) \div 2 \in Nat \ {0} /\ x + 2 * ((y - x) \div 2) = y
OBVIOUS

LEMMA AddedIsWords ==
    ASSUME BufferType, packet \in Seq(Word \X Word), packet # <<>>, entry \in DataWord
    PROVE  Added \in Seq(Word \X Word)
<1> DEFINE last == Last(packet)[1]
           n == (entry.Address - last) \div 2
<1>1. last \in Word
  BY DEF Last
<1>2. entry.Address \in Word /\ entry.Data \in Word
  BY DEF DataWord
<1>3. CASE Continues(last)
  <2>1. Added = [k \in 1..n |-> <<last + 2 * k, GetValueAtAddress(BinaryData, last + 2 * k)>>]
    BY <1>3 DEF Added, WordsAfter
  <2>2. n \in Int /\ 2 * n <= entry.Address - last
    <3> HIDE DEF last
    <3>1. entry.Address - last \in Int
      BY <1>1, <1>2, Numbers DEF Word
    <3> QED
      BY <3>1, Half
  <2> HIDE DEF n, last
  <2>3. ASSUME NEW k \in 1..n PROVE last + 2 * k \in Word
    BY <1>1, <1>2, <2>2, Numbers DEF Word
  <2>4. ASSUME NEW k \in 1..n PROVE GetValueAtAddress(BinaryData, last + 2 * k) \in Word
    BY GetValueIsAWord DEF BufferType
  <2>5. Added \in [1..n -> Word \X Word]
    BY <2>1, <2>3, <2>4
  <2>6. CASE n \in Nat
    BY <2>5, <2>6
  <2>7. CASE n \notin Nat
    <3>1. 1..n = 1..0
      BY <2>2, <2>7
    <3>2. Added \in [1..0 -> Word \X Word] /\ 0 \in Nat
      BY <2>5, <3>1
    <3> HIDE DEF Added
    <3> QED
      BY <3>2
  <2> QED
    BY <2>6, <2>7
<1>4. CASE ~Continues(last)
  <2>1. <<entry.Address, entry.Data>> \in Word \X Word
    BY <1>2
  <2> QED
    BY <1>4, <2>1 DEF Added
<1> QED
  BY <1>3, <1>4

\* When the packet is behind the entry, they lead up to it in steps.
LEMMA AddedLeadsToEntry ==
    ASSUME BufferType, packet \in Seq(Word \X Word), packet # <<>>,
           NEW i \in 1..Len(BinaryData), entry = BinaryData[i],
           NEW j \in 1..i - 1, Last(packet)[1] = BinaryData[j].Address
    PROVE  /\ Len(Added) \in Nat \ {0} /\ Added[Len(Added)][1] = entry.Address
           /\ \A k \in 1..Len(Added) : /\ Last(packet)[1] < Added[k][1]
                                       /\ Added[k][2] = GetValueAtAddress(BinaryData, Added[k][1])
           /\ \A k, m \in 1..Len(Added) : k < m => Added[k][1] < Added[m][1]
<1> DEFINE last == Last(packet)[1]
           n == (entry.Address - last) \div 2
<1>1. /\ Len(BinaryData) \in Nat /\ DOMAIN BinaryData = 1..Len(BinaryData)
      /\ j \in 1..Len(BinaryData) /\ j < i
  BY DEF BufferType, IsDataBuffer
<1>2. last < entry.Address
  BY <1>1 DEF BufferType, IsDataBuffer, Ascending
<1>3. last \in BufferAddresses /\ entry.Address \in BufferAddresses
  BY <1>1 DEF BufferType
<1>4. /\ last \in Nat /\ entry.Address \in Nat
      /\ last % 2 = 0 /\ entry.Address % 2 = 0
  BY <1>3, AddressTypes
<1>5. n \in Nat \ {0} /\ last + 2 * n = entry.Address
  <2> HIDE DEF last
  <2> QED
    BY <1>2, <1>4, HalfTheDistance
<1>6. CASE Continues(last)
  <2>1. Added = [k \in 1..n |-> <<last + 2 * k, GetValueAtAddress(BinaryData, last + 2 * k)>>]
    BY <1>6 DEF Added, WordsAfter
  <2> HIDE DEF n
  <2>2. Len(Added) = n
    BY <1>5, <2>1
  <2>3. \A k \in 1..n : /\ Added[k][1] = last + 2 * k
                        /\ Added[k][2] = GetValueAtAddress(BinaryData, last + 2 * k)
    BY <2>1
  <2> HIDE DEF last
  <2>4. \A k \in 1..n : last < Added[k][1]
    BY <1>4, <1>5, <2>3
  <2>5. \A k, m \in 1..n : k < m => Added[k][1] < Added[m][1]
    BY <1>4, <1>5, <2>3
  <2>6. Added[n][1] = entry.Address
    BY <1>5, <2>3
  <2> QED
    BY <1>5, <2>2, <2>3, <2>4, <2>5, <2>6 DEF last
<1>7. CASE ~Continues(last)
  <2> DEFINE word == <<entry.Address, entry.Data>>
  <2>1. word[1] = entry.Address /\ word[2] = GetValueAtAddress(BinaryData, entry.Address)
    BY LookupIs DEF BufferType
  <2>2. Added = <<word>>
    BY <1>7 DEF Added
  <2> HIDE DEF word
  <2>3. Len(Added) = 1 /\ Added[1] = word
    BY <2>2
  <2>4. \A k \in 1..Len(Added) : k = 1
    BY <2>3
  <2> QED
    BY <1>2, <2>1, <2>3, <2>4
<1> QED
  BY <1>6, <1>7

LEMMA AppendEntryKeeps == ASSUME PanelInv, AppendEntry PROVE PanelInv'
<1> DEFINE m == Len(packet)
           n == Len(Added)
<1>1. /\ encoderLoop = "append" /\ encoderLoop' = "clear" /\ packet' = packet \o Added
      /\ UNCHANGED <<autosyncIndex, toCopy, sliceLen, index, entry, transmitVars, panelVars,
                     BinaryData, oldArray, luaLock, raced>>
  BY DEF AppendEntry, Added
<1>2. Encoding /\ Encoding' /\ Handled = index - 1 /\ Handled' = index /\ index \in Nat
  BY <1>1 DEF Encoding, Handled, PanelInv, ControlType, BufferType
<1>3. /\ packet \in Seq(Word \X Word) /\ packet # <<>> /\ Added \in Seq(Word \X Word)
      /\ m \in Nat \ {0} /\ n \in Nat
  <2>1. packet \in Seq(Word \X Word) /\ packet # <<>> /\ entry \in DataWord
    BY <1>2 DEF PanelInv, ControlType
  <2>2. Added \in Seq(Word \X Word)
    BY <2>1, AddedIsWords DEF PanelInv
  <2> HIDE DEF Added
  <2> QED
    BY <2>1, <2>2
<1>4. /\ packet' \in Seq(Word \X Word) /\ Len(packet') = m + n
      /\ \A k \in 1..m : packet'[k] = packet[k]
      /\ \A k \in 1..n : packet'[m + k] = Added[k]
  <2> HIDE DEF Added
  <2> QED
    BY <1>1, <1>3, Concatenated
<1>5. packet' # <<>>
  BY <1>3, <1>4
<1> HIDE DEF m, n, Added
<1>6. ControlType'
  BY <1>1, <1>2, <1>4, <1>5
  DEF PanelInv, ControlType, EncoderStates, Encoding, transmitVars, panelVars
<1>7. BufferType' /\ SomethingDirty'
  BY <1>1 DEF PanelInv, BufferType, SomethingDirty
<1>8. ~raced' => Whole'
  BY <1>1 DEF PanelInv, Whole
<1>9. ASSUME ~raced
      PROVE  /\ index \in 1..Len(BinaryData) /\ entry = BinaryData[index] /\ PacketSoFar
             /\ \E j \in 1..index - 1 : Last(packet)[1] = BinaryData[j].Address
             /\ Len(BinaryData) \in Nat
  <2>1. PacketSoFar /\ sliceLen = Len(BinaryData) /\ entry = BinaryData[index]
    BY <1>1, <1>2, <1>9 DEF PanelInv, Whole, ControlType
  <2>2. index \in 1..Len(BinaryData) /\ Len(BinaryData) \in Nat
    BY <1>1, <1>2, <2>1 DEF PanelInv, ControlType, BufferType, IsDataBuffer
  <2> QED
    BY <1>2, <2>1, <2>2 DEF PacketSoFar
<1>10. ASSUME ~raced
       PROVE  /\ n \in Nat \ {0} /\ Added[n][1] = BinaryData[index].Address
              /\ \A k \in 1..n : /\ Last(packet)[1] < Added[k][1]
                                 /\ Added[k][2] = GetValueAtAddress(BinaryData, Added[k][1])
              /\ \A j, k \in 1..n : j < k => Added[j][1] < Added[k][1]
  <2>1. PICK j \in 1..index - 1 : Last(packet)[1] = BinaryData[j].Address
    BY <1>9, <1>10
  <2>2. BufferType /\ packet \in Seq(Word \X Word) /\ packet # <<>>
    BY <1>3 DEF PanelInv
  <2>3. index \in 1..Len(BinaryData) /\ entry = BinaryData[index]
    BY <1>9, <1>10
  <2>4. /\ n \in Nat \ {0} /\ Added[n][1] = entry.Address
        /\ \A k \in 1..n : /\ Last(packet)[1] < Added[k][1]
                           /\ Added[k][2] = GetValueAtAddress(BinaryData, Added[k][1])
        /\ \A k, l \in 1..n : k < l => Added[k][1] < Added[l][1]
    BY <2>1, <2>2, <2>3, AddedLeadsToEntry DEF n
  <2> QED
    BY <2>3, <2>4
<1>11. Last(packet) = packet[m]
  BY DEF Last, m
<1>12. ASSUME ~raced PROVE Last(packet')[1] = BinaryData[index].Address
  <2>1. Last(packet') = packet'[m + n]
    BY <1>4 DEF Last
  <2>2. packet'[m + n] = Added[n]
    BY <1>3, <1>4, <1>10, <1>12
  <2> QED
    BY <1>10, <1>12, <2>1, <2>2
<1>13. \A k \in 1..Len(packet') : k \in 1..m \/ \E i \in 1..n : k = m + i
  <2> SUFFICES ASSUME NEW k \in 1..Len(packet'), k \notin 1..m
               PROVE  \E i \in 1..n : k = m + i
    OBVIOUS
  <2>1. k - m \in 1..n /\ k = m + (k - m)
    BY <1>3, <1>4
  <2> QED
    BY <2>1
<1>14. ASSUME ~raced' PROVE PacketSoFar'
  <2>1. /\ ~raced
        /\ \A k \in 1..m : packet[k][2] = GetValueAtAddress(BinaryData, packet[k][1])
        /\ \A j, k \in 1..m : j < k => packet[j][1] < packet[k][1]
        /\ BinaryData[Len(BinaryData)].Address = EndOfUpdate
        /\ Handled < Len(BinaryData) => BinaryData[Len(BinaryData)].Dirty
    BY <1>1, <1>9, <1>14 DEF PacketSoFar, m
  <2>2. ASSUME NEW k \in 1..Len(packet')
        PROVE  packet'[k][2] = GetValueAtAddress(BinaryData, packet'[k][1])
    <3>1. CASE k \in 1..m
      BY <1>4, <2>1, <3>1
    <3>2. CASE k \notin 1..m
      <4>1. PICK i \in 1..n : k = m + i
        BY <1>13, <3>2
      <4>2. packet'[k] = Added[i]
        BY <1>4, <4>1
      <4> QED
        BY <1>10, <2>1, <4>2
    <3> QED
      BY <3>1, <3>2
  <2>3. ASSUME NEW j \in 1..Len(packet'), NEW k \in 1..Len(packet'), j < k
        PROVE  packet'[j][1] < packet'[k][1]
    <3>1. CASE k \in 1..m
      BY <1>3, <1>4, <2>1, <2>3, <3>1, SMTT(30)
    <3>2. CASE k \notin 1..m
      <4>1. PICK i \in 1..n : k = m + i
        BY <1>13, <3>2
      <4>2. packet'[k] = Added[i] /\ packet[m][1] < Added[i][1]
        BY <1>4, <1>10, <1>11, <2>1, <4>1
      <4>3. CASE j \in 1..m
        <5>1. packet'[j] = packet[j] /\ (j = m \/ packet[j][1] < packet[m][1])
          BY <1>3, <1>4, <2>1, <4>3
        <5>2. packet[j][1] \in Nat /\ packet[m][1] \in Nat /\ Added[i][1] \in Nat
          <6>1. packet[j] \in Word \X Word /\ packet[m] \in Word \X Word /\ Added[i] \in Word \X Word
            BY <1>3, <4>3 DEF m, n
          <6> QED
            BY <6>1, Numbers DEF Word
        <5> QED
          BY <4>2, <5>1, <5>2
      <4>4. CASE j \notin 1..m
        <5>1. PICK h \in 1..n : j = m + h
          BY <1>13, <4>4
        <5>2. h < i
          BY <1>3, <2>3, <4>1, <5>1
        <5> QED
          BY <1>4, <1>10, <2>1, <4>2, <5>1, <5>2
      <4> QED
        BY <4>3, <4>4
    <3> QED
      BY <3>1, <3>2
  <2>4. Last(packet')[1] = BinaryData[index].Address /\ index \in 1..index
    BY <1>9, <1>12, <2>1
  <2>5. index < Len(BinaryData) => Handled < Len(BinaryData)
    BY <1>2, <1>9, <2>1
  <2> QED
    BY <1>1, <1>2, <2>1, <2>2, <2>3, <2>4, <2>5 DEF PacketSoFar
<1>15. ASSUME ~raced', restarts' = 0 PROVE SentSoFar'
  <2>1. /\ ~raced
        /\ \A i \in 1..Handled : IsSent(i) \/ InPacket(i)
        /\ \A i \in Handled + 1..Len(BinaryData) : BinaryData[i].Dirty \/ IsSent(i)
    BY <1>1, <1>2, <1>15 DEF PanelInv, SentSoFar, panelVars
  <2>2. \A i : IsSent(i)' <=> IsSent(i)
    BY <1>1 DEF IsSent, panelVars
  <2>3. ASSUME NEW i, InPacket(i) PROVE InPacket(i)'
    <3>1. PICK k \in 1..m : packet[k][1] = BinaryData[i].Address
      BY <2>3 DEF InPacket, m
    <3>2. k \in 1..Len(packet')
      BY <1>3, <1>4
    <3> QED
      BY <1>1, <1>4, <3>1, <3>2 DEF InPacket
  <2>4. InPacket(index)'
    <3>1. m + n \in 1..Len(packet') /\ packet'[m + n] = Added[n]
      BY <1>3, <1>4, <1>10, <2>1
    <3> QED
      BY <1>1, <1>10, <2>1, <3>1 DEF InPacket
  <2>5. ASSUME NEW i \in 1..index PROVE IsSent(i)' \/ InPacket(i)'
    <3>1. i \in 1..Handled \/ i = index
      BY <1>2
    <3>2. CASE i \in 1..Handled
      BY <2>1, <2>2, <2>3, <3>2
    <3>3. CASE i = index
      BY <1>1, <2>4, <3>3 DEF InPacket
    <3> QED
      BY <3>1, <3>2, <3>3
  <2>6. ASSUME NEW i \in index + 1..Len(BinaryData) PROVE BinaryData[i].Dirty \/ IsSent(i)'
    <3>1. i \in Handled + 1..Len(BinaryData)
      BY <1>2, <1>9, <2>1
    <3> QED
      BY <2>1, <2>2, <3>1
  <2> QED
    BY <1>1, <1>2, <2>5, <2>6 DEF SentSoFar
<1> QED
  BY <1>6, <1>7, <1>8, <1>14, <1>15 DEF PanelInv

LEMMA ClearEntryKeeps == ASSUME PanelInv, ClearEntry PROVE PanelInv'
<1>1. /\ encoderLoop = "clear" /\ encoderLoop' = "entry" /\ SetDirty({index}, FALSE)
      /\ index' = index + 1
      /\ UNCHANGED <<autosyncIndex, toCopy, sliceLen, entry, packet, transmitVars, panelVars,
                     luaLock, raced>>
  BY DEF ClearEntry
<1>2. /\ Encoding /\ Encoding' /\ index \in Nat \ {0} /\ sliceLen \in Nat /\ index <= sliceLen
      /\ Len(BinaryData) \in Nat
  BY <1>1 DEF Encoding, PanelInv, ControlType, BufferType, IsDataBuffer
<1>3. Handled = index /\ Handled' = index
  BY <1>1, <1>2 DEF Handled
<1>4. BufferType' /\ Len(BinaryData') = Len(BinaryData)
  BY <1>1, SetDirtyKeeps DEF PanelInv
<1>5. ControlType'
  BY <1>1, <1>2 DEF PanelInv, ControlType, EncoderStates, Encoding, transmitVars, panelVars
<1>6. SomethingDirty'
  BY <1>1 DEF SomethingDirty
<1>7. ASSUME ~raced
      PROVE  /\ oldArray' = <<>> /\ sliceLen = Len(BinaryData) /\ IsDataBuffer(BinaryData)
             /\ Flagged(BinaryData, BinaryData', {index}, FALSE)
  <2>1. oldArray = <<>> /\ sliceLen = Len(BinaryData)
    BY <1>2, <1>7 DEF PanelInv, Whole
  <2> QED
    BY <1>1, <2>1, SetDirtyIs DEF PanelInv, BufferType
<1>8. ~raced' => Whole'
  BY <1>1, <1>4, <1>7 DEF Whole
<1>9. ASSUME ~raced
      PROVE  \A i \in 1..Len(BinaryData) :
                /\ BinaryData'[i].Address = BinaryData[i].Address
                /\ BinaryData'[i].Data = BinaryData[i].Data
                /\ i # index => BinaryData'[i].Dirty = BinaryData[i].Dirty
  BY <1>7, <1>9 DEF Flagged, Reflagged
<1>10. ASSUME ~raced' PROVE PacketSoFar'
  <2>1. ~raced /\ PacketSoFar
    BY <1>1, <1>2, <1>10 DEF PanelInv
  <2>2. \A a : GetValueAtAddress(BinaryData', a) = GetValueAtAddress(BinaryData, a)
    BY <1>7, <2>1, ReflaggedValuesAll DEF Flagged
  <2>3. \A k \in 1..Len(packet) : packet[k][2] = GetValueAtAddress(BinaryData', packet[k][1])
    BY <2>1, <2>2 DEF PacketSoFar
  <2>4. \A j, k \in 1..Len(packet) : j < k => packet[j][1] < packet[k][1]
    BY <2>1 DEF PacketSoFar
  <2>5. \E j \in 1..index : Last(packet)[1] = BinaryData'[j].Address
    <3>1. PICK j \in 1..index : Last(packet)[1] = BinaryData[j].Address
      BY <1>3, <2>1 DEF PacketSoFar
    <3>2. j \in 1..Len(BinaryData)
      BY <1>2, <1>7, <2>1
    <3> QED
      BY <1>9, <2>1, <3>1, <3>2
  <2>6. Len(BinaryData) \in 1..Len(BinaryData)
    BY <1>2, <1>7, <2>1
  <2>7. BinaryData'[Len(BinaryData)].Address = EndOfUpdate
    BY <1>9, <2>1, <2>6 DEF PacketSoFar
  <2>8. index < Len(BinaryData) => BinaryData'[Len(BinaryData)].Dirty
    BY <1>2, <1>3, <1>9, <2>1, <2>6 DEF PacketSoFar
  <2>9. index = Len(BinaryData) => Last(packet)[1] = EndOfUpdate
    BY <1>3, <2>1 DEF PacketSoFar
  <2> QED
    BY <1>1, <1>3, <1>4, <2>3, <2>4, <2>5, <2>7, <2>8, <2>9 DEF PacketSoFar
<1>11. ASSUME ~raced', restarts' = 0 PROVE SentSoFar'
  <2>1. /\ ~raced
        /\ \A i \in 1..index : IsSent(i) \/ InPacket(i)
        /\ \A i \in index + 1..Len(BinaryData) : BinaryData[i].Dirty \/ IsSent(i)
    BY <1>1, <1>2, <1>3, <1>11 DEF PanelInv, SentSoFar, panelVars
  <2>2. \A i \in 1..Len(BinaryData) :
            (IsSent(i)' <=> IsSent(i)) /\ (InPacket(i)' <=> InPacket(i))
    BY <1>1, <1>9, <2>1 DEF IsSent, InPacket, panelVars
  <2>3. ASSUME NEW i \in 1..index PROVE IsSent(i)' \/ InPacket(i)'
    <3>1. i \in 1..Len(BinaryData)
      BY <1>2, <1>7, <2>1
    <3> QED
      BY <2>1, <2>2, <3>1
  <2>4. ASSUME NEW i \in index + 1..Len(BinaryData) PROVE BinaryData'[i].Dirty \/ IsSent(i)'
    <3>1. i \in 1..Len(BinaryData) /\ i # index
      BY <1>2
    <3> QED
      BY <1>9, <2>1, <2>2, <3>1
  <2> QED
    BY <1>2, <1>3, <1>4, <2>3, <2>4 DEF SentSoFar
<1> QED
  BY <1>4, <1>5, <1>6, <1>8, <1>10, <1>11 DEF PanelInv

\* The packet writes no address twice: its word for an address is what a panel has.
LEMMA OneWrite ==
    ASSUME packet \in Seq(Word \X Word), NEW k \in 1..Len(packet),
           \A i, j \in 1..Len(packet) : i < j => packet[i][1] < packet[j][1]
    PROVE  LastWrite(packet[k][1]) = k
<1> DEFINE T == {i \in DOMAIN packet : packet[i][1] = packet[k][1]}
<1>1. DOMAIN packet = 1..Len(packet) /\ Len(packet) \in Nat
  OBVIOUS
<1>2. \A i \in 1..Len(packet) : packet[i][1] \in Nat
  <2>1. \A i \in 1..Len(packet) : packet[i] \in Word \X Word
    OBVIOUS
  <2> QED
    BY <2>1, Numbers DEF Word
<1>3. \A i \in 1..Len(packet) : packet[i][1] = packet[k][1] => i = k
  BY <1>1, <1>2
<1>4. T = {k} /\ k \in Nat
  BY <1>1, <1>3
<1>5. LastWrite(packet[k][1]) = Max(T)
  BY DEF LastWrite
<1> HIDE DEF T
<1>6. Max({k}) = k
  BY <1>4 DEF Max
<1> QED
  BY <1>4, <1>5, <1>6

LEMMA WritePacketKeeps == ASSUME PanelInv, WritePacket PROVE PanelInv'
<1>1. /\ encoderLoop = "write" /\ encoderLoop' = "select" /\ packet' = <<>> /\ sliceLen' = 0
      /\ oldArray' = <<>> /\ index' = 0 /\ entry' = NoWord
      /\ UNCHANGED <<autosyncIndex, toCopy, transmitVars, restarts, BinaryData, luaLock, raced>>
      /\ panel' = [a \in BufferAddresses |->
                      IF \E k \in DOMAIN packet : packet[k][1] = a
                      THEN packet[LastWrite(a)][2] ELSE panel[a]]
  BY DEF WritePacket
<1>2. Encoding /\ ~Encoding' /\ Len(BinaryData) \in Nat
  BY <1>1 DEF Encoding, PanelInv, BufferType, IsDataBuffer
<1>3. NoWord \in DataWord /\ <<>> \in Seq(Word \X Word) /\ DOMAIN panel' = BufferAddresses
  BY <1>1, Numbers DEF NoWord, DataWord, Word
<1>4. ControlType'
  BY <1>1, <1>3 DEF PanelInv, ControlType, EncoderStates, Before, Encoding, transmitVars
<1>5. BufferType'
  BY <1>1, <1>2 DEF PanelInv, BufferType
<1>6. SomethingDirty' /\ Whole'
  BY <1>1 DEF SomethingDirty, Whole
<1>7. ASSUME ~raced', restarts' = 0 PROVE SentSoFar'
  <2>1. /\ ~raced /\ PacketSoFar /\ Handled = Len(BinaryData)
        /\ \A i \in 1..Handled : IsSent(i) \/ InPacket(i)
    BY <1>1, <1>2, <1>7
    DEF PanelInv, SentSoFar, Whole, ControlType, BufferType, Handled
  <2>2. packet \in Seq(Word \X Word) /\ DOMAIN packet = 1..Len(packet)
    BY DEF PanelInv, ControlType
  <2>3. ASSUME NEW i \in 1..Len(BinaryData) PROVE panel'[BinaryData[i].Address] = BinaryData[i].Data
    <3>1. BinaryData[i].Address \in BufferAddresses /\ IsDataBuffer(BinaryData)
      BY DEF PanelInv, BufferType
    <3>2. CASE InPacket(i)
      <4>1. PICK k \in 1..Len(packet) : packet[k][1] = BinaryData[i].Address
        BY <3>2 DEF InPacket
      <4>2. LastWrite(packet[k][1]) = k
        BY <2>1, <2>2, OneWrite DEF PacketSoFar
      <4>3. panel'[BinaryData[i].Address] = packet[k][2]
        BY <1>1, <2>2, <3>1, <4>1, <4>2
      <4>4. packet[k][2] = GetValueAtAddress(BinaryData, BinaryData[i].Address)
        BY <2>1, <4>1 DEF PacketSoFar
      <4> QED
        BY <3>1, <4>3, <4>4, LookupIs
    <3>3. CASE ~InPacket(i)
      <4>1. panel'[BinaryData[i].Address] = panel[BinaryData[i].Address]
        BY <1>1, <2>2, <3>1, <3>3 DEF InPacket
      <4> QED
        BY <2>1, <3>3, <4>1 DEF IsSent
    <3> QED
      BY <3>2, <3>3
  <2> QED
    BY <1>1, <1>2, <2>3 DEF SentSoFar, IsSent
<1> QED
  BY <1>2, <1>4, <1>5, <1>6, <1>7 DEF PanelInv

-----------------------------------------------------------------------------
(***************************************************************************)
(* The callbacks of T write a word, perhaps in the middle of an Update.    *)
(***************************************************************************)
LEMMA WriteWordKeeps == ASSUME PanelInv, WriteWord PROVE PanelInv'
<1> DEFINE a == set[1]
<1>1. /\ transmitLoop = "write" /\ transmitLoop' = "done" /\ UNCHANGED <<encoderVars, panelVars, luaLock>>
      /\ BinaryData' = SetUint16(BinaryData, a, set[2])
      /\ raced' = (raced \/ encoderLoop \notin Before)
      /\ oldArray' = oldArray \/ (Updating /\ oldArray' = Slice)
  BY DEF WriteWord, Before
<1>2. a \in BufferAddresses /\ a \in Word /\ set[2] \in Word
  BY <1>1, AddressTypes DEF PanelInv, ControlType
<1> HIDE DEF a
<1>3. Grows(BinaryData, BinaryData', a)
  BY <1>1, <1>2, SetUint16Grows DEF PanelInv, BufferType
<1>4. ControlType'
  BY <1>1 DEF PanelInv, ControlType, Encoding, encoderVars, panelVars
<1>5. CASE encoderLoop \in Before
  <2>1. sliceLen = 0
    BY <1>5 DEF PanelInv, ControlType, BufferType, Before, Encoding
  <2>2. oldArray' = oldArray
    BY <1>1, <2>1 DEF Updating
  <2>3. ~raced' => ~raced
    BY <1>1
  <2>4. encoderLoop' = encoderLoop /\ UNCHANGED <<sliceLen, panel, restarts>> /\ encoderLoop # "autosync"
    BY <1>1, <1>5 DEF encoderVars, panelVars, Before
  <2> QED
    BY <1>2, <1>3, <1>4, <1>5, <2>2, <2>3, <2>4, GrowingStep
<1>6. CASE encoderLoop \notin Before
  <2>1. raced'
    BY <1>1, <1>6
  <2>2. /\ IsDataBuffer(BinaryData') /\ Len(BinaryData) <= Len(BinaryData')
        /\ Len(BinaryData) \in Nat /\ Len(BinaryData') \in Nat
        /\ \A i \in 1..Len(BinaryData') : BinaryData'[i].Address \in BufferAddresses
    BY <1>2, <1>3 DEF Grows, PanelInv, BufferType, IsDataBuffer
  <2>3. IsDataBuffer(Slice) /\ Len(Slice) = sliceLen /\ sliceLen' = sliceLen /\ sliceLen \in 0..Len(BinaryData)
    BY <1>1, SliceIs DEF PanelInv, BufferType, encoderVars
  <2>4. BufferType'
    <3>1. sliceLen' \in 0..Len(BinaryData')
      BY <2>2, <2>3
    <3>2. oldArray' = <<>> \/ (Len(oldArray') = sliceLen' /\ IsDataBuffer(oldArray'))
      BY <1>1, <2>3 DEF PanelInv, BufferType
    <3>3. sliceLen' = 0 => oldArray' = <<>>
      BY <1>1, <2>3 DEF PanelInv, BufferType, Updating
    <3> QED
      BY <2>2, <3>1, <3>2, <3>3 DEF BufferType
  <2>5. \A n \in 0..Len(BinaryData) :
            (\E i \in 1..n : BinaryData[i].Dirty) => \E i \in 1..n : BinaryData'[i].Dirty
    BY <1>3 DEF Grows
  <2>6. ASSUME encoderLoop' = "autosync" PROVE \E i \in 1..Len(BinaryData') : BinaryData'[i].Dirty
    <3>1. \E i \in 1..Len(BinaryData) : BinaryData[i].Dirty
      BY <1>1, <2>6 DEF PanelInv, SomethingDirty, encoderVars
    <3>2. PICK i \in 1..Len(BinaryData) : BinaryData'[i].Dirty
      BY <2>2, <2>5, <3>1
    <3> QED
      BY <2>2, <3>2
  <2>7. ASSUME encoderLoop' = "first" PROVE \E i \in 1..sliceLen' : Slice'[i].Dirty
    <3>1. PICK d \in 1..sliceLen : Slice[d].Dirty
      BY <1>1, <2>7 DEF PanelInv, SomethingDirty, encoderVars
    <3>2. CASE oldArray' # <<>>
      <4>1. Slice' = Slice
        BY <1>1, <3>2 DEF Slice
      <4> QED
        BY <2>3, <3>1, <4>1
    <3>3. CASE oldArray' = <<>>
      <4>1. Slice # <<>>
        BY <2>3, <3>1
      <4>2. oldArray = <<>>
        BY <1>1, <3>3, <4>1
      <4>3. BinaryData[d].Dirty
        BY <3>1, <4>2, SliceIs DEF PanelInv
      <4>4. PICK i \in 1..sliceLen : BinaryData'[i].Dirty
        BY <2>3, <2>5, <3>1, <4>3
      <4>5. BinaryData' \in Seq(DataWord) /\ sliceLen' \in 0..Len(BinaryData')
        BY <2>2, <2>3 DEF IsDataBuffer
      <4>6. Slice' = SubSeq(BinaryData', 1, sliceLen')
        BY <3>3 DEF Slice
      <4>7. Slice'[i] = BinaryData'[i]
        BY <2>3, <4>5, <4>6, SubSeqIs
      <4> QED
        BY <2>3, <4>4, <4>7
    <3> QED
      BY <3>2, <3>3
  <2> QED
    BY <1>4, <2>1, <2>4, <2>6, <2>7 DEF PanelInv, SomethingDirty
<1> QED
  BY <1>5, <1>6

-----------------------------------------------------------------------------
(***************************************************************************)
(* The theorems.                                                           *)
(***************************************************************************)
LEMMA PanelNext == ASSUME PanelInv, [Next]_vars PROVE PanelInv'
<1>1. CASE EncoderLoop
  BY <1>1, TakeFrameKeeps, CopyWordKeeps, EnterOutputCallbacksKeeps, OutputCallbacksKeeps,
     IdleUpdateKeeps, MarkEndOfUpdateKeeps, AutosyncKeeps, FirstDirtyKeeps, ReadEntryKeeps,
     AppendEntryKeeps, ClearEntryKeeps, WritePacketKeeps DEF EncoderLoop
<1>2. CASE EnterInputCallbacks
  BY <1>2, EnterInputCallbacksKeeps
<1>3. CASE InputCallbacks
  BY <1>3, ReadWordKeeps, WriteWordKeeps, LeaveInputCallbacksKeeps DEF InputCallbacks
<1>4. CASE RestartPanel
  BY <1>4, RestartPanelKeeps
<1>5. CASE UNCHANGED vars
  <2>1. UNCHANGED <<encoderVars, transmitVars, panelVars, BinaryData, oldArray, luaLock, raced>>
    BY <1>5 DEF vars
  <2>2. ControlType'
    BY <2>1 DEF PanelInv, ControlType, Encoding, encoderVars, transmitVars, panelVars
  <2> QED
    BY <2>1, <2>2, QuietStep DEF encoderVars, panelVars
<1> QED
  BY <1>1, <1>2, <1>3, <1>4, <1>5 DEF Next

\* The invariant that the others follow from.
THEOREM PanelInvariant == Spec => []PanelInv
<1>1. Init => PanelInv
  BY PanelInit
<1>2. PanelInv /\ [Next]_vars => PanelInv'
  BY PanelNext
<1> QED
  BY <1>1, <1>2, PTL DEF Spec

\* Whatever the frames and the scripts set, and whenever the transmit loop writes,
\* the panel data buffer stays a sorted list of words, Update's slice and index stay
\* inside it, and a packet is a list of words.
THEOREM PanelTypeCorrect == Spec => []TypeOK
<1>1. ASSUME PanelInv PROVE TypeOK
  <2>1. /\ IsDataBuffer(BinaryData) /\ sliceLen \in 0..Len(BinaryData)
        /\ oldArray = <<>> \/ (Len(oldArray) = sliceLen /\ IsDataBuffer(oldArray))
    BY <1>1 DEF PanelInv, BufferType
  <2>2. /\ autosyncIndex \in 1..Cardinality(BufferAddresses) /\ index \in 0..sliceLen + 1
        /\ packet \in Seq(Word \X Word) /\ DOMAIN panel = BufferAddresses
        /\ encoderLoop = "callbacks" <=> luaLock = "E"
        /\ transmitLoop # "select" <=> luaLock = "T"
    BY <1>1 DEF PanelInv, ControlType
  <2>3. \A k \in DOMAIN packet : packet[k] \in Word \X Word
    BY <2>2
  <2> QED
    BY <2>1, <2>2, <2>3 DEF TypeOK
<1> QED
  BY <1>1, PanelInvariant, PTL

\* Between updates, an entry that is clean has reached the panels, as long as no
\* script has written to the buffer during an update.
THEOREM CleanIsSentAlways == Spec => []CleanIsSent
<1>1. ASSUME PanelInv PROVE CleanIsSent
  <2> SUFFICES ASSUME ~raced, restarts = 0, ~Updating, NEW i \in DOMAIN BinaryData
               PROVE  BinaryData[i].Dirty \/ panel[BinaryData[i].Address] = BinaryData[i].Data
    BY DEF CleanIsSent
  <2>1. ~Encoding
    BY <1>1 DEF PanelInv, ControlType, Updating
  <2>2. i \in 1..Len(BinaryData)
    BY <1>1 DEF PanelInv, BufferType, IsDataBuffer
  <2> QED
    BY <1>1, <2>1, <2>2 DEF PanelInv, SentSoFar, IsSent
<1> QED
  BY <1>1, PanelInvariant, PTL

\* The packet an update ends with writes no address twice and 0xFFFE last.
THEOREM PacketEndsUpdateAlways == Spec => []PacketEndsUpdate
<1>1. ASSUME PanelInv PROVE PacketEndsUpdate
  <2> SUFFICES ASSUME encoderLoop = "write", ~raced
               PROVE  /\ \A j, k \in DOMAIN packet : j < k => packet[j][1] < packet[k][1]
                      /\ packet # <<>> /\ Last(packet)[1] = EndOfUpdate
    BY DEF PacketEndsUpdate
  <2>1. Encoding /\ PacketSoFar /\ packet # <<>> /\ DOMAIN packet = 1..Len(packet)
    BY <1>1 DEF PanelInv, ControlType, Encoding
  <2>2. Handled = Len(BinaryData)
    BY <1>1, <2>1 DEF PanelInv, ControlType, BufferType, IsDataBuffer, Whole, Handled
  <2> QED
    BY <2>1, <2>2 DEF PacketSoFar
<1> QED
  BY <1>1, PanelInvariant, PTL
-----------------------------------------------------------------------------
(***************************************************************************)
(* The byte stream.  Concatenation of the byte strings w[s] of a set of    *)
(* numbers s, in ascending order of s.                                     *)
(***************************************************************************)
LEMMA Bracketed == \A x, y, z \in Seq(Byte) : (x \o y) \o z = x \o (y \o z)
BY ConcatAssociative

LEMMA MinIs ==
    ASSUME NEW T \in SUBSET Nat, T # {}
    PROVE  Min(T) \in T /\ \A j \in T : Min(T) <= j
<1>1. \E i \in T : \A j \in T : i <= j
  BY LeastElement
<1> QED
  BY <1>1 DEF Min

LEMMA MinUnique ==
    ASSUME NEW T \in SUBSET Nat, NEW i \in T, \A j \in T : i <= j
    PROVE  Min(T) = i
<1>1. Min(T) \in T /\ \A j \in T : Min(T) <= j
  BY MinIs
<1>2. Min(T) <= i /\ i <= Min(T) /\ i \in Nat /\ Min(T) \in Nat
  BY <1>1
<1> QED
  BY <1>2

\* What holds of 0 and, with i, of i + 1 holds of every number up to n.
LEMMA UpTo ==
    ASSUME NEW n \in Nat, NEW T, 0 \in T, \A i \in 0..n - 1 : i \in T => i + 1 \in T
    PROVE  \A i \in 0..n : i \in T
<1> DEFINE Rest == {i \in 0..n : i \notin T}
<1> SUFFICES ASSUME Rest # {} PROVE FALSE
  OBVIOUS
<1>1. Rest \in SUBSET Nat
  OBVIOUS
<1>2. PICK i \in Rest : \A j \in Rest : i <= j
  <2> HIDE DEF Rest
  <2> QED
    BY <1>1, LeastElement
<1>3. i \in 1..n /\ i \notin T
  BY <1>2
<1>4. i - 1 \in 0..n - 1 /\ i - 1 \notin Rest
  BY <1>2, <1>3
<1>5. i - 1 \in T
  BY <1>4
<1>6. (i - 1) + 1 \in T
  BY <1>4, <1>5
<1> QED
  BY <1>3, <1>6

Joins(f, D, w) ==
    /\ f \in [SUBSET D -> Seq(Byte)]
    /\ f[{}] = <<>>
    /\ \A T \in SUBSET D : T # {} => f[T] = w[Min(T)] \o f[T \ {Min(T)}]

LEMMA JoinExists ==
    ASSUME NEW N \in Nat, NEW D \in SUBSET (0..N), NEW w \in [D -> Seq(Byte)]
    PROVE  \E f : Joins(f, D, w)
<1> DEFINE From(n) == {s \in D : s > N - n}
           T == {n \in 0..N + 1 : \E f : Joins(f, From(n), w)}
<1>1. 0 \in T
  <2> DEFINE f == [S \in SUBSET From(0) |-> <<>>]
  <2>1. From(0) = {}
    OBVIOUS
  <2>2. SUBSET From(0) = {{}}
    BY <2>1
  <2>3. f \in [SUBSET From(0) -> Seq(Byte)] /\ f[{}] = <<>>
    BY <2>2
  <2>4. Joins(f, From(0), w)
    <3> HIDE DEF f, From
    <3> QED
      BY <2>2, <2>3 DEF Joins
  <2>5. 0 \in 0..N + 1
    OBVIOUS
  <2> HIDE DEF f, From
  <2> QED
    BY <2>4, <2>5
<1>2. ASSUME NEW n \in 0..(N + 1) - 1, n \in T PROVE n + 1 \in T
  <2> DEFINE m == N - n
  <2>0. n + 1 \in 0..N + 1 /\ m \in Nat
    OBVIOUS
  <2>00. \A s \in D : s \in Nat /\ (s > N - (n + 1) <=> (s > N - n \/ s = m))
    OBVIOUS
  <2>1. PICK f : Joins(f, From(n), w)
    BY <1>2
  <2>2. CASE m \notin D
    <3>1. From(n + 1) = From(n)
      <4> HIDE DEF m
      <4> QED
        BY <2>00, <2>2
    <3> QED
      BY <2>0, <2>1, <3>1
  <2>3. CASE m \in D
    <3> DEFINE g == [S \in SUBSET From(n + 1) |-> IF m \in S THEN w[m] \o f[S \ {m}] ELSE f[S]]
    <3>1. /\ m \notin From(n)
          /\ From(n + 1) = From(n) \cup {m}
          /\ From(n + 1) \in SUBSET Nat
      <4>1. ~(m > N - n)
        OBVIOUS
      <4> HIDE DEF m
      <4> QED
        BY <2>00, <2>3, <4>1
    <3>2. \A S \in SUBSET From(n + 1) : S \ {m} \in SUBSET From(n)
      BY <3>1
    <3>3. ASSUME NEW S \in SUBSET From(n + 1) PROVE g[S] \in Seq(Byte)
      <4>1. f[S \ {m}] \in Seq(Byte) /\ w[m] \in Seq(Byte)
        BY <2>1, <2>3, <3>2 DEF Joins
      <4>2. w[m] \o f[S \ {m}] \in Seq(Byte)
        BY <4>1
      <4>3. m \notin S => S = S \ {m}
        OBVIOUS
      <4> QED
        BY <4>1, <4>2, <4>3
    <3>4. {} \in SUBSET From(n + 1) /\ g[{}] = <<>>
      BY <2>1 DEF Joins
    <3>5. ASSUME NEW S \in SUBSET From(n + 1), S # {}
          PROVE  g[S] = w[Min(S)] \o g[S \ {Min(S)}]
      <4>1. CASE m \in S
        <5>1. \A j \in S : m <= j
          <6>1. \A j \in From(n) : m <= j
            OBVIOUS
          <6> QED
            BY <3>1, <6>1, <2>0
        <5>2. Min(S) = m
          BY <3>1, <4>1, <5>1, MinUnique
        <5>3. S \ {m} \in SUBSET From(n + 1) /\ m \notin S \ {m}
          OBVIOUS
        <5> QED
          BY <4>1, <5>2, <5>3
      <4>2. CASE m \notin S
        <5>1. S \in SUBSET From(n)
          BY <3>1, <4>2
        <5>2. f[S] = w[Min(S)] \o f[S \ {Min(S)}]
          BY <2>1, <3>5, <5>1 DEF Joins
        <5>3. S \ {Min(S)} \in SUBSET From(n + 1) /\ m \notin S \ {Min(S)}
          BY <4>2
        <5> QED
          BY <4>2, <5>2, <5>3
      <4> QED
        BY <4>1, <4>2
    <3>6. g \in [SUBSET From(n + 1) -> Seq(Byte)]
      BY <3>3
    <3>7. Joins(g, From(n + 1), w)
      <4> HIDE DEF g, From
      <4> QED
        BY <3>4, <3>5, <3>6 DEF Joins
    <3> QED
      BY <2>0, <3>7
  <2> QED
    BY <2>2, <2>3
<1>3. \A n \in 0..N + 1 : n \in T
  <2>1. N + 1 \in Nat
    OBVIOUS
  <2> HIDE DEF T
  <2> QED
    BY <1>1, <1>2, <2>1, UpTo
<1>4. N + 1 \in T /\ From(N + 1) = D
  <2>1. N + 1 \in 0..N + 1
    OBVIOUS
  <2>2. From(N + 1) = D
    <3>1. \A s \in D : s > N - (N + 1)
      OBVIOUS
    <3> QED
      BY <3>1
  <2> QED
    BY <1>3, <2>1, <2>2
<1> QED
  BY <1>4

\* What holds of no bytes at all and stays true when the bytes of a number are
\* put in front holds of the whole.
LEMMA JoinIn ==
    ASSUME NEW N \in Nat, NEW D \in SUBSET (0..N), NEW w, NEW f, NEW Good,
           f[{}] \in Good,
           \A s \in D : \A r \in Good : w[s] \o r \in Good,
           \A T \in SUBSET D : T # {} => f[T] = w[Min(T)] \o f[T \ {Min(T)}]
    PROVE  \A T \in SUBSET D : f[T] \in Good
<1> DEFINE From(n) == {s \in D : s > N - n}
           T == {n \in 0..N + 1 : \A S \in SUBSET From(n) : f[S] \in Good}
<1>1. 0 \in T
  <2>1. From(0) = {}
    <3>1. \A s \in D : ~(s > N - 0)
      OBVIOUS
    <3> QED
      BY <3>1
  <2>2. 0 \in 0..N + 1
    OBVIOUS
  <2>3. \A S \in SUBSET From(0) : f[S] \in Good
    BY <2>1, <2>2
  <2> QED
    BY <2>2, <2>3
<1>2. ASSUME NEW n \in 0..(N + 1) - 1, n \in T PROVE n + 1 \in T
  <2> DEFINE m == N - n
  <2>0. n + 1 \in 0..N + 1 /\ m \in Nat
    OBVIOUS
  <2>000. \A s \in D : s \in Nat /\ (s > N - (n + 1) <=> (s > N - n \/ s = m))
    OBVIOUS
  <2>0000. \A s \in D : s > N - n => m <= s
    OBVIOUS
  <2>00. \A s \in D : s \in Nat /\ (s > N - (n + 1) <=> (s > N - n \/ s = m)) /\ (s > N - n => m <= s)
    BY <2>000, <2>0000
  <2>1. \A S \in SUBSET From(n) : f[S] \in Good
    BY <1>2
  <2>2. ASSUME NEW S \in SUBSET From(n + 1) PROVE f[S] \in Good
    <3>1. CASE m \notin S
      <4>1. S \in SUBSET From(n)
        <5> HIDE DEF m
        <5> QED
          BY <2>00, <3>1
      <4> QED
        BY <2>1, <4>1
    <3>2. CASE m \in S
      <4>1. S \in SUBSET D /\ S \in SUBSET Nat
        BY <2>00
      <4>2. S \ {m} \in SUBSET From(n)
        <5> HIDE DEF m
        <5> QED
          BY <2>00
      <4>3. \A j \in S : m <= j
        <5>1. \A j \in S : j = m \/ j \in From(n)
          BY <4>2
        <5>2. m <= m
          BY <2>0
        <5> QED
          BY <2>00, <5>1, <5>2
      <4>4. Min(S) = m
        <5> HIDE DEF m
        <5> QED
          BY <3>2, <4>1, <4>3, MinUnique
      <4>5. m \in D /\ f[S \ {m}] \in Good
        BY <2>1, <3>2, <4>1, <4>2
      <4>6. f[S] = w[m] \o f[S \ {m}]
        BY <3>2, <4>1, <4>4
      <4> QED
        BY <4>5, <4>6
    <3> QED
      BY <3>1, <3>2
  <2> HIDE DEF From
  <2> QED
    BY <2>0, <2>2
<1>3. \A n \in 0..N + 1 : n \in T
  <2>1. N + 1 \in Nat
    OBVIOUS
  <2> HIDE DEF T
  <2> QED
    BY <1>1, <1>2, <2>1, UpTo
<1>4. \A S \in SUBSET D : f[S] \in Good
  <2>1. N + 1 \in 0..N + 1
    OBVIOUS
  <2>2. From(N + 1) = D
    <3>1. \A s \in D : s > N - (N + 1)
      OBVIOUS
    <3> QED
      BY <3>1
  <2>3. N + 1 \in T
    BY <1>3, <2>1
  <2> QED
    BY <2>2, <2>3
<1> QED
  BY <1>4

LEMMA JoinedBytes ==
    ASSUME NEW N \in Nat, NEW D \in SUBSET (0..N), NEW w \in [D -> Seq(Byte)], NEW f,
           f[{}] = <<>>,
           \A T \in SUBSET D : T # {} => f[T] = w[Min(T)] \o f[T \ {Min(T)}]
    PROVE  \A T \in SUBSET D : f[T] \in Seq(Byte)
<1> DEFINE Good == Seq(Byte)
<1>1. <<>> \in Good /\ w \in [D -> Good]
  OBVIOUS
<1>2. \A x, y \in Good : x \o y \in Good
  OBVIOUS
<1> HIDE DEF Good
<1>3. \A T \in SUBSET D : f[T] \in Good
  <2>1. f[{}] \in Good
    BY <1>1
  <2>2. \A s \in D : \A r \in Good : w[s] \o r \in Good
    BY <1>1, <1>2
  <2> QED
    BY <2>1, <2>2, JoinIn
<1> QED
  BY <1>3 DEF Good

Follows(x, y, z) == z = x \o y

\* Streams one after the other: every number of the one is below every number
\* of the other.
LEMMA JoinsInARow ==
    ASSUME NEW D \in SUBSET Nat, NEW E \in SUBSET Nat, NEW w, NEW f, NEW g,
           Joins(f, D, w), Joins(g, E, w),
           \A s \in D \cup E : w[s] \in Seq(Byte),
           \A d \in D, e \in E : d < e
    PROVE  \E h : Joins(h, D \cup E, w) /\ Follows(f[D], g[E], h[D \cup E])
<1> DEFINE h == [T \in SUBSET (D \cup E) |-> f[T \cap D] \o g[T \cap E]]
<1>1. ASSUME NEW T \in SUBSET (D \cup E)
      PROVE  f[T \cap D] \in Seq(Byte) /\ g[T \cap E] \in Seq(Byte)
  BY DEF Joins
<1>2. h \in [SUBSET (D \cup E) -> Seq(Byte)]
  <2>1. \A s, t \in Seq(Byte) : s \o t \in Seq(Byte)
    OBVIOUS
  <2> QED
    BY <1>1, <2>1
<1>3. h[{}] = <<>>
  <2>1. {} \cap D = {} /\ {} \cap E = {} /\ {} \in SUBSET (D \cup E)
    OBVIOUS
  <2>2. f[{}] = <<>> /\ g[{}] = <<>>
    BY DEF Joins
  <2>3. <<>> \o <<>> = <<>>
    OBVIOUS
  <2> QED
    BY <2>1, <2>2, <2>3
<1>4. ASSUME NEW T \in SUBSET (D \cup E), T # {}
      PROVE  h[T] = w[Min(T)] \o h[T \ {Min(T)}]
  <2> DEFINE m == Min(T)
  <2>0. m \in T /\ \A j \in T : m <= j
    BY <1>4, MinIs
  <2>00. T \ {m} \in SUBSET (D \cup E)
    OBVIOUS
  <2> HIDE DEF m
  <2>1. CASE m \in D
    <3>1. Min(T \cap D) = m
      BY <2>0, <2>1, MinUnique
    <3>2. f[T \cap D] = w[m] \o f[(T \cap D) \ {m}]
      BY <2>0, <2>1, <3>1 DEF Joins
    <3>3. (T \cap D) \ {m} = (T \ {m}) \cap D /\ m \notin E
      BY <2>1
    <3>4. (T \ {m}) \cap E = T \cap E
      BY <3>3
    <3>5. /\ w[m] \in Seq(Byte)
          /\ f[(T \ {m}) \cap D] \in Seq(Byte)
          /\ g[T \cap E] \in Seq(Byte)
      BY <1>1, <2>1, <2>00
    <3>6. (w[m] \o f[(T \ {m}) \cap D]) \o g[T \cap E] = w[m] \o (f[(T \ {m}) \cap D] \o g[T \cap E])
      BY <3>5, Bracketed
    <3> QED
      BY <2>00, <3>2, <3>3, <3>4, <3>6 DEF m
  <2>2. CASE m \notin D
    <3>1. T \cap D = {}
      <4> SUFFICES ASSUME NEW d \in T \cap D PROVE FALSE
        OBVIOUS
      <4>1. m \in E /\ m <= d /\ d < m
        BY <2>0, <2>2
      <4>2. m \in Nat /\ d \in Nat
        BY <4>1
      <4> QED
        BY <4>1, <4>2
    <3>2. T \cap E = T /\ (T \ {m}) \cap D = {} /\ (T \ {m}) \cap E = T \ {m}
      BY <3>1
    <3>3. f[{}] = <<>>
      BY DEF Joins
    <3>4. g[T] = w[m] \o g[T \ {m}]
      BY <1>4, <3>2 DEF Joins, m
    <3>5. w[m] \in Seq(Byte) /\ g[T \ {m}] \in Seq(Byte)
      BY <1>1, <2>0, <2>00, <3>2
    <3>6. \A s \in Seq(Byte) : <<>> \o s = s
      OBVIOUS
    <3>7. h[T] = w[m] \o g[T \ {m}]
      <4>1. h[T] = f[{}] \o g[T]
        BY <3>1, <3>2
      <4>2. g[T] \in Seq(Byte)
        BY <1>1, <3>2
      <4> QED
        BY <3>3, <3>4, <3>6, <4>1, <4>2
    <3>8. h[T \ {m}] = g[T \ {m}]
      BY <2>00, <3>2, <3>3, <3>5, <3>6
    <3> QED
      BY <3>7, <3>8 DEF m
  <2> QED
    BY <2>1, <2>2
<1>5. h[D \cup E] = f[D] \o g[E]
  <2>1. (D \cup E) \cap D = D /\ (D \cup E) \cap E = E
    OBVIOUS
  <2> QED
    BY <2>1
<1>6. Joins(h, D \cup E, w)
  <2> HIDE DEF h
  <2> QED
    BY <1>2, <1>3, <1>4 DEF Joins
<1> HIDE DEF h
<1> QED
  BY <1>5, <1>6 DEF Follows
-----------------------------------------------------------------------------
(***************************************************************************)
(* Write accesses, byte by byte.                                           *)
(***************************************************************************)
EvenFrom(s, e) == {a \in s..e : a % 2 = 0}

LEMMA DataBytesIs ==
    ASSUME NEW s \in Nat, NEW e \in Int, s % 2 = 0, e % 2 = 0, s <= e + 2,
           NEW v, \A a \in EvenFrom(s, e) : v[a] \in Word
    PROVE  DataBytes(s, e, v) \in Seq(Byte) /\ Len(DataBytes(s, e, v)) = e - s + 2
<1> DEFINE n == e - s + 2
           d == DataBytes(s, e, v)
<1>1. n \in Nat
  OBVIOUS
<1>2. ASSUME NEW k \in 1..n PROVE d[k] \in Byte
  <2>1. d[k] = IF k % 2 = 1 THEN Lo(v[s + k - 1]) ELSE Hi(v[s + k - 2])
    BY DEF DataBytes
  <2>2. CASE k % 2 = 1
    <3>1. s + k - 1 \in EvenFrom(s, e)
      BY <2>2 DEF EvenFrom
    <3> QED
      BY <2>1, <2>2, <3>1, BytesAndWords
  <2>3. CASE k % 2 # 1
    <3>1. s + k - 2 \in EvenFrom(s, e)
      BY <2>3 DEF EvenFrom
    <3> QED
      BY <2>1, <2>3, <3>1, BytesAndWords
  <2> QED
    BY <2>2, <2>3
<1>3. d = [k \in 1..n |-> d[k]]
  BY DEF DataBytes
<1> HIDE DEF d, n
<1>4. d \in [1..n -> Byte]
  BY <1>2, <1>3
<1>5. d \in Seq(Byte) /\ Len(d) = n
  BY <1>1, <1>4
<1> QED
  BY <1>5 DEF d, n

LEMMA PrefixedBy ==
    ASSUME NEW b \in Byte, NEW r \in Seq(Byte)
    PROVE  /\ <<b>> \o r \in Seq(Byte) /\ Len(<<b>> \o r) = Len(r) + 1
           /\ (<<b>> \o r)[1] = b
           /\ \A k \in 1..Len(r) : (<<b>> \o r)[k + 1] = r[k]
           /\ <<b>> \o r # <<>> /\ Head(<<b>> \o r) = b /\ Tail(<<b>> \o r) = r
<1>1. <<b>> \in Seq(Byte) /\ Len(<<b>>) = 1 /\ <<b>>[1] = b
  OBVIOUS
<1> DEFINE t == <<b>> \o r
<1>2. /\ t \in Seq(Byte) /\ Len(t) = Len(r) + 1
      /\ t[1] = b
      /\ \A k \in 1..Len(r) : t[k + 1] = r[k]
  BY <1>1
<1> HIDE DEF t
<1>3. t # <<>> /\ Head(t) = b
  BY <1>2
<1>4. Tail(t) \in Seq(Byte) /\ Len(Tail(t)) = Len(r)
  BY <1>2, <1>3
<1>5. \A k \in 1..Len(r) : Tail(t)[k] = r[k]
  BY <1>2, <1>3
<1>6. Tail(t) = r
  BY <1>4, <1>5, SeqEqual
<1> QED
  BY <1>2, <1>3, <1>6 DEF t

LEMMA DataBytesStep ==
    ASSUME NEW s \in Nat, NEW e \in Int, s % 2 = 0, e % 2 = 0, s <= e,
           NEW v, \A a \in EvenFrom(s, e) : v[a] \in Word
    PROVE  /\ DataBytes(s + 2, e, v) \in Seq(Byte)
           /\ DataBytes(s, e, v) = <<Lo(v[s])>> \o (<<Hi(v[s])>> \o DataBytes(s + 2, e, v))
<1> DEFINE d == DataBytes(s, e, v)
           r == DataBytes(s + 2, e, v)
           t == <<Hi(v[s])>> \o r
           u == <<Lo(v[s])>> \o t
<1>1. d \in Seq(Byte) /\ Len(d) = e - s + 2
  <2>1. s <= e + 2
    OBVIOUS
  <2> QED
    BY <2>1, DataBytesIs
<1>2. r \in Seq(Byte) /\ Len(r) = e - s
  <2>1. s + 2 \in Nat /\ (s + 2) % 2 = 0 /\ s + 2 <= e + 2 /\ e - (s + 2) + 2 = e - s
    OBVIOUS
  <2>2. \A a \in EvenFrom(s + 2, e) : v[a] \in Word
    BY DEF EvenFrom
  <2> QED
    BY <2>1, <2>2, DataBytesIs
<1>3. v[s] \in Word
  BY DEF EvenFrom
<1>4. Lo(v[s]) \in Byte /\ Hi(v[s]) \in Byte
  BY <1>3, BytesAndWords
<1>5. \A k \in 1..e - s + 2 : d[k] = IF k % 2 = 1 THEN Lo(v[s + k - 1]) ELSE Hi(v[s + k - 2])
  BY DEF DataBytes
<1>6. \A k \in 1..e - s : r[k] = IF k % 2 = 1 THEN Lo(v[s + (k + 2) - 1]) ELSE Hi(v[s + (k + 2) - 2])
  <2>1. \A k \in 1..e - (s + 2) + 2 :
            r[k] = IF k % 2 = 1 THEN Lo(v[(s + 2) + k - 1]) ELSE Hi(v[(s + 2) + k - 2])
    BY DEF DataBytes
  <2>2. e - (s + 2) + 2 = e - s
    OBVIOUS
  <2>3. \A k \in 1..e - s : (s + 2) + k - 1 = s + (k + 2) - 1 /\ (s + 2) + k - 2 = s + (k + 2) - 2
    OBVIOUS
  <2> HIDE DEF r
  <2> QED
    BY <2>1, <2>2, <2>3
<1> HIDE DEF d, r
<1>7. /\ t \in Seq(Byte) /\ Len(t) = Len(r) + 1
      /\ t[1] = Hi(v[s])
      /\ \A k \in 1..Len(r) : t[k + 1] = r[k]
  BY <1>2, <1>4, PrefixedBy
<1> HIDE DEF t
<1>8. /\ u \in Seq(Byte) /\ Len(u) = Len(t) + 1
      /\ u[1] = Lo(v[s])
      /\ \A k \in 1..Len(t) : u[k + 1] = t[k]
  BY <1>4, <1>7, PrefixedBy
<1> HIDE DEF u
<1>9. ASSUME NEW k \in 1..Len(d) PROVE d[k] = u[k]
  <2>1. k = 1 \/ k = 2 \/ k - 2 \in 1..Len(r)
    BY <1>1, <1>2
  <2>2. CASE k = 1
    <3>1. 1 \in 1..e - s + 2 /\ 1 % 2 = 1 /\ s + 1 - 1 = s
      OBVIOUS
    <3>2. d[1] = Lo(v[s])
      BY <1>5, <3>1
    <3> QED
      BY <1>8, <2>2, <3>2
  <2>3. CASE k = 2
    <3>1. 2 \in 1..e - s + 2 /\ 2 % 2 # 1 /\ s + 2 - 2 = s
      OBVIOUS
    <3>2. d[2] = Hi(v[s])
      BY <1>5, <3>1
    <3>3. 1 \in 1..Len(t) /\ 1 + 1 = 2
      BY <1>2, <1>7
    <3>4. u[2] = t[1]
      BY <1>8, <3>3
    <3> QED
      BY <1>7, <2>3, <3>2, <3>4
  <2>4. CASE k - 2 \in 1..Len(r)
    <3>1. k - 1 \in 1..Len(t) /\ (k - 1) + 1 = k /\ (k - 2) + 1 = k - 1
      BY <1>2, <1>7, <2>4
    <3>2. u[k] = r[k - 2]
      BY <1>7, <1>8, <2>4, <3>1
    <3>3. k - 2 \in 1..e - s /\ (k - 2) + 2 = k /\ (k - 2) % 2 = k % 2
      BY <1>2, <2>4
    <3>4. k \in 1..e - s + 2
      BY <1>1
    <3> QED
      BY <1>5, <1>6, <3>2, <3>3, <3>4
  <2> QED
    BY <2>1, <2>2, <2>3, <2>4
<1>10. Len(d) = Len(u)
  BY <1>1, <1>2, <1>7, <1>8
<1>11. d = u
  BY <1>1, <1>8, <1>9, <1>10, SeqEqual
<1> QED
  BY <1>2, <1>11 DEF d, u, t, r

LEMMA DataBytesEnd ==
    ASSUME NEW e \in Int, NEW v
    PROVE  DataBytes(e + 2, e, v) = <<>>
<1>1. e - (e + 2) + 2 = 0
  OBVIOUS
<1>2. 1..0 = {}
  OBVIOUS
<1>3. DOMAIN DataBytes(e + 2, e, v) = {}
  BY <1>1, <1>2 DEF DataBytes
<1> QED
  BY <1>1, <1>2, <1>3 DEF DataBytes

IsAccess(s, e, v) ==
    /\ s \in Word /\ e \in Word /\ s % 2 = 0 /\ e % 2 = 0 /\ s <= e
    /\ e - s + 2 \in Word
    /\ \A a \in EvenFrom(s, e) : v[a] \in Word

AccessData(s, e, v, rest) == DataBytes(s, e, v) \o rest
FromHighByte(a, e, v, rest) == <<Hi(v[a])>> \o AccessData(a + 2, e, v, rest)
StartsWith(bytes, b, rest) == bytes = <<b>> \o rest
AccessCountHigh(s, e, v, rest) == <<Hi(e - s + 2)>> \o AccessData(s, e, v, rest)
AccessCount(s, e, v, rest) == <<Lo(e - s + 2)>> \o AccessCountHigh(s, e, v, rest)
AccessHigh(s, e, v, rest) == <<Hi(s)>> \o AccessCount(s, e, v, rest)

LEMMA WriteAccessIs ==
    ASSUME NEW s, NEW e, NEW v, IsAccess(s, e, v), NEW rest \in Seq(Byte)
    PROVE  /\ WriteAccess(s, e, v) \in Seq(Byte)
           /\ AccessData(s, e, v, rest) \in Seq(Byte)
           /\ AccessCountHigh(s, e, v, rest) \in Seq(Byte)
           /\ AccessCount(s, e, v, rest) \in Seq(Byte)
           /\ AccessHigh(s, e, v, rest) \in Seq(Byte)
           /\ WriteAccess(s, e, v) \o rest = <<Lo(s)>> \o AccessHigh(s, e, v, rest)
<1> DEFINE d == DataBytes(s, e, v)
<1>1. Lo(s) \in Byte /\ Hi(s) \in Byte /\ Lo(e - s + 2) \in Byte /\ Hi(e - s + 2) \in Byte
  BY BytesAndWords DEF IsAccess
<1>2. d \in Seq(Byte)
  <2>1. s \in Nat /\ e \in Int /\ s <= e + 2
    BY Numbers DEF IsAccess, Word
  <2> QED
    BY <2>1, DataBytesIs DEF IsAccess
<1> HIDE DEF d
<1>3. \A x, y \in Seq(Byte) : x \o y \in Seq(Byte)
  OBVIOUS
<1>4. \A b \in Byte : <<b>> \in Seq(Byte)
  OBVIOUS
<1>5. ASSUME NEW b \in Byte, NEW c \in Byte
      PROVE  <<b, c>> \in Seq(Byte) /\ <<b, c>> = <<b>> \o <<c>>
  <2> DEFINE x == <<b, c>>
             y == <<b>> \o <<c>>
  <2>1. x \in Seq(Byte) /\ Len(x) = 2 /\ x[1] = b /\ x[2] = c
    OBVIOUS
  <2>2. <<c>> \in Seq(Byte) /\ Len(<<c>>) = 1 /\ <<c>>[1] = c /\ 1 \in 1..1 /\ 1 + 1 = 2
    OBVIOUS
  <2>3. y \in Seq(Byte) /\ Len(y) = 2 /\ y[1] = b /\ y[2] = c
    BY <2>2, PrefixedBy
  <2> HIDE DEF x, y
  <2>4. \A k \in 1..Len(x) : x[k] = y[k]
    <3>1. \A k \in 1..Len(x) : k = 1 \/ k = 2
      BY <2>1
    <3> QED
      BY <2>1, <2>3, <3>1
  <2>5. x = y
    BY <2>1, <2>3, <2>4, SeqEqual
  <2> QED
    BY <2>1, <2>5 DEF x, y
<1> DEFINE w == WordBytes(s)
           n == WordBytes(e - s + 2)
<1>6. /\ w \in Seq(Byte) /\ w = <<Lo(s)>> \o <<Hi(s)>>
      /\ n \in Seq(Byte) /\ n = <<Lo(e - s + 2)>> \o <<Hi(e - s + 2)>>
  BY <1>1, <1>5 DEF WordBytes
<1> HIDE DEF w, n
<1>7. WriteAccess(s, e, v) = (w \o n) \o d
  BY DEF WriteAccess, w, n, d
<1>8. ((w \o n) \o d) \o rest = w \o (n \o (d \o rest))
  BY <1>2, <1>3, <1>6, Bracketed
<1>9. \A x \in Seq(Byte) : w \o x = <<Lo(s)>> \o (<<Hi(s)>> \o x)
  BY <1>1, <1>4, <1>6, Bracketed
<1>10. \A x \in Seq(Byte) : n \o x = <<Lo(e - s + 2)>> \o (<<Hi(e - s + 2)>> \o x)
  BY <1>1, <1>4, <1>6, Bracketed
<1>11. d \o rest \in Seq(Byte) /\ AccessData(s, e, v, rest) = d \o rest
  BY <1>2, <1>3 DEF AccessData, d
<1>12. /\ AccessCountHigh(s, e, v, rest) \in Seq(Byte)
       /\ AccessCount(s, e, v, rest) \in Seq(Byte)
       /\ AccessHigh(s, e, v, rest) \in Seq(Byte)
  BY <1>1, <1>3, <1>4, <1>11 DEF AccessCountHigh, AccessCount, AccessHigh
<1>13. n \o (d \o rest) = AccessCount(s, e, v, rest)
  BY <1>10, <1>11 DEF AccessCountHigh, AccessCount
<1>14. w \o AccessCount(s, e, v, rest) = <<Lo(s)>> \o AccessHigh(s, e, v, rest)
  BY <1>9, <1>12 DEF AccessHigh
<1>15. (w \o n) \o d \in Seq(Byte)
  BY <1>2, <1>3, <1>6
<1> QED
  BY <1>7, <1>8, <1>11, <1>12, <1>13, <1>14, <1>15
-----------------------------------------------------------------------------
(***************************************************************************)
(* flushData: the write accesses of a map cover its dirty words.           *)
(***************************************************************************)
LEMMA MaxIs ==
    ASSUME NEW N \in Nat, NEW T \in SUBSET (0..N), T # {}
    PROVE  Max(T) \in T /\ \A j \in T : j <= Max(T)
<1> DEFINE R == {N - x : x \in T}
<1>1. R \in SUBSET Nat /\ R # {}
  <2>1. \A x \in T : N - x \in Nat
    OBVIOUS
  <2> QED
    BY <2>1
<1>2. PICK r \in R : \A q \in R : r <= q
  <2> HIDE DEF R
  <2> QED
    BY <1>1, LeastElement
<1>3. PICK i \in T : r = N - i
  BY <1>2
<1>4. ASSUME NEW j \in T PROVE i >= j
  <2>1. r <= N - j
    BY <1>2
  <2>2. i \in 0..N /\ j \in 0..N
    OBVIOUS
  <2> QED
    BY <1>3, <2>1, <2>2
<1>5. Max(T) \in T /\ \A j \in T : Max(T) >= j
  BY <1>4 DEF Max
<1>6. \A j \in T : j \in Nat
  <2>1. \A j \in 0..N : j \in Nat
    OBVIOUS
  <2> QED
    BY <2>1
<1> QED
  BY <1>5, <1>6

\* The even addresses of a memory map, and how long it may be.
IsMap(map) ==
    /\ map \in SUBSET {a \in Word : a % 2 = 0}
    /\ \A a, b \in map : \A c \in a..b : c % 2 = 0 => c \in map
    /\ \A a, b \in map : a <= b => b - a + 2 \in Word

Starts(D, v) == {a \in D : StartsWriteAccess(a, D, v)}
Lasts(D, v) == [s \in Starts(D, v) |-> LastOfAccess(s, D, Starts(D, v))]
AccessBytes(D, v) == [s \in Starts(D, v) |-> WriteAccess(s, Lasts(D, v)[s], v)]

LEMMA LastOfAccessIs ==
    ASSUME NEW map, IsMap(map), NEW D \in SUBSET map, NEW v, \A a \in map : v[a] \in Word,
           NEW s \in Starts(D, v)
    PROVE  /\ Lasts(D, v)[s] \in D
           /\ IsAccess(s, Lasts(D, v)[s], v)
           /\ \A a \in D : a >= s /\ (\A t \in Starts(D, v) : t <= s \/ t > a)
                                => a <= Lasts(D, v)[s]
           /\ \A t \in Starts(D, v) : t <= s \/ t > Lasts(D, v)[s]
<1> DEFINE starts == Starts(D, v)
           e == Lasts(D, v)[s]
           T == {a \in D : a >= s /\ \A t \in starts : t <= s \/ t > a}
<1>1. WordMax \in Nat /\ Word = 0..WordMax
  BY Numbers DEF Word
<1>2. \A a \in D : a \in map /\ a \in 0..WordMax /\ a \in Nat
  BY <1>1 DEF IsMap
<1>3. s \in D /\ starts \in SUBSET D
  BY DEF Starts
<1>4. e = Max(T)
  BY DEF Lasts, LastOfAccess
<1> HIDE DEF starts, e
<1>5. T \in SUBSET (0..WordMax) /\ s \in T
  <2>1. \A t \in starts : t <= s \/ t > s
    BY <1>2, <1>3
  <2> QED
    BY <1>2, <1>3, <2>1
<1>6. e \in T /\ \A j \in T : j <= e
  <2> HIDE DEF T
  <2> QED
    BY <1>1, <1>4, <1>5, MaxIs
<1>7. e \in D /\ s <= e
  BY <1>2, <1>3, <1>6
<1>8. s \in map /\ e \in map /\ s \in Nat /\ e \in Nat
  BY <1>2, <1>3, <1>7
<1>9. s \in Word /\ e \in Word /\ s % 2 = 0 /\ e % 2 = 0 /\ e - s + 2 \in Word
  BY <1>7, <1>8 DEF IsMap
<1>10. \A a \in EvenFrom(s, e) : v[a] \in Word
  BY <1>8 DEF IsMap, EvenFrom
<1>11. IsAccess(s, e, v)
  BY <1>7, <1>9, <1>10 DEF IsAccess
<1> QED
  BY <1>6, <1>7, <1>11 DEF e, starts

LEMMA DirtyIsCovered ==
    ASSUME NEW map, IsMap(map), NEW D \in SUBSET map, NEW v, \A a \in map : v[a] \in Word,
           NEW a \in D
    PROVE  \E s \in Starts(D, v) : s <= a /\ a <= Lasts(D, v)[s]
<1> DEFINE starts == Starts(D, v)
           T == {s \in starts : s <= a}
<1>1. WordMax \in Nat /\ Word = 0..WordMax
  BY Numbers DEF Word
<1>2. \A b \in D : b \in 0..WordMax /\ b \in Nat
  BY <1>1 DEF IsMap
<1>3. Min(D) \in starts /\ Min(D) <= a
  <2>1. D \in SUBSET Nat /\ D # {}
    BY <1>2
  <2>2. Min(D) \in D /\ \A b \in D : Min(D) <= b
    BY <2>1, MinIs
  <2>3. \A b \in D : ~(b < Min(D))
    BY <1>2, <2>2
  <2> QED
    BY <2>2, <2>3 DEF Starts, StartsWriteAccess
<1>4. starts \in SUBSET D
  BY DEF Starts
<1>5. T \in SUBSET (0..WordMax) /\ T # {}
  BY <1>2, <1>3, <1>4
<1>6. Max(T) \in T /\ \A t \in T : t <= Max(T)
  <2> HIDE DEF T
  <2> QED
    BY <1>1, <1>5, MaxIs
<1> DEFINE s == Max(T)
<1>7. s \in starts /\ s <= a /\ s \in Nat /\ a \in Nat
  BY <1>2, <1>4, <1>6
<1>8. \A t \in starts : t <= s \/ t > a
  <2> SUFFICES ASSUME NEW t \in starts, ~(t > a) PROVE t <= s
    OBVIOUS
  <2>1. t \in Nat
    BY <1>2, <1>4
  <2>2. t \in T
    BY <1>7, <2>1
  <2> QED
    BY <1>6, <2>2
<1> HIDE DEF s
<1>9. a <= Lasts(D, v)[s]
  BY <1>7, <1>8, LastOfAccessIs DEF starts
<1> QED
  BY <1>7, <1>9

LEMMA WriteAccessesJoin ==
    ASSUME NEW map, IsMap(map), NEW D \in SUBSET map, NEW v, \A a \in map : v[a] \in Word
    PROVE  /\ AccessBytes(D, v) \in [Starts(D, v) -> Seq(Byte)]
           /\ \E f : Joins(f, Starts(D, v), AccessBytes(D, v)) /\ WriteAccesses(D, v) = f[Starts(D, v)]
<1> DEFINE starts == Starts(D, v)
           w == AccessBytes(D, v)
           Body(g) == [S \in SUBSET starts |->
                          IF S = {} THEN <<>>
                          ELSE WriteAccess(Min(S), LastOfAccess(Min(S), D, starts), v) \o g[S \ {Min(S)}]]
           From == CHOOSE g : g = Body(g)
<1>1. WordMax \in Nat /\ Word = 0..WordMax
  BY Numbers DEF Word
<1>2. starts \in SUBSET (0..WordMax)
  BY <1>1 DEF Starts, IsMap
<1>3. w \in [starts -> Seq(Byte)]
  <2>1. ASSUME NEW s \in starts PROVE WriteAccess(s, Lasts(D, v)[s], v) \in Seq(Byte)
    <3>1. IsAccess(s, Lasts(D, v)[s], v)
      BY LastOfAccessIs
    <3>2. <<>> \in Seq(Byte)
      OBVIOUS
    <3> QED
      BY <3>1, <3>2, WriteAccessIs
  <2> QED
    BY <2>1 DEF AccessBytes
<1>4. WriteAccesses(D, v) = From[starts]
  BY DEF WriteAccesses, Starts
<1>5. \A s \in starts : w[s] = WriteAccess(s, LastOfAccess(s, D, starts), v)
  BY DEF AccessBytes, Lasts
<1>6. \A S \in SUBSET starts : S # {} => Min(S) \in starts
  <2> SUFFICES ASSUME NEW S \in SUBSET starts, S # {} PROVE Min(S) \in S
    OBVIOUS
  <2>1. S \in SUBSET Nat
    BY <1>2
  <2> QED
    BY <2>1, MinIs
<1>7. PICK f : Joins(f, starts, w)
  <2> HIDE DEF starts, w
  <2> QED
    BY <1>1, <1>2, <1>3, JoinExists
<1> HIDE DEF starts, w
<1>8. f = Body(f)
  <2>1. f = [S \in SUBSET starts |-> f[S]]
    BY <1>7 DEF Joins
  <2>2. \A S \in SUBSET starts : f[S] = Body(f)[S]
    BY <1>5, <1>6, <1>7 DEF Joins
  <2> QED
    BY <2>1, <2>2
<1>9. From = Body(From)
  BY <1>8
<1> HIDE DEF From
<1>10. /\ From = [S \in SUBSET starts |-> From[S]]
       /\ From[{}] = <<>>
       /\ \A T \in SUBSET starts : T # {} => From[T] = w[Min(T)] \o From[T \ {Min(T)}]
  <2>1. {} \in SUBSET starts
    OBVIOUS
  <2>2. \A S \in SUBSET starts : From[S] = Body(From)[S]
    BY <1>9
  <2>3. From = [S \in SUBSET starts |-> From[S]]
    BY <1>9
  <2>4. From[{}] = <<>>
    BY <2>1, <2>2
  <2>5. \A T \in SUBSET starts : T # {} => From[T] = w[Min(T)] \o From[T \ {Min(T)}]
    BY <1>5, <1>6, <2>2
  <2> QED
    BY <2>3, <2>4, <2>5
<1>11. \A T \in SUBSET starts : From[T] \in Seq(Byte)
  BY <1>1, <1>2, <1>3, <1>10, JoinedBytes
<1>12. From \in [SUBSET starts -> Seq(Byte)]
  BY <1>10, <1>11
<1>13. Joins(From, starts, w)
  BY <1>10, <1>12 DEF Joins
<1> QED
  BY <1>3, <1>4, <1>13 DEF starts, w
-----------------------------------------------------------------------------
(***************************************************************************)
(* Sync sequences.  Clean(c, s): after c sync bytes in a row, the bytes s  *)
(* bring no four sync bytes in a row, and do not end in a sync byte.       *)
(***************************************************************************)
ByteAfter(c, s, n) == IF n <= c THEN SyncByte ELSE s[n - c]

NoSync(c, s) == \A n \in 1..c + Len(s) - 3 : \E k \in 0..3 : ByteAfter(c, s, n + k) # SyncByte

Clean(c, s) == NoSync(c, s) /\ (s # <<>> => s[Len(s)] # SyncByte)

LEMMA CleanStep ==
    ASSUME NEW c \in 0..3, NEW b \in Byte, NEW r \in Seq(Byte), Clean(c, <<b>> \o r)
    PROVE  /\ ~(b = SyncByte /\ c = 3)
           /\ Clean(IF b = SyncByte THEN c + 1 ELSE 0, r)
           /\ r = <<>> => b # SyncByte
<1> DEFINE s == <<b>> \o r
<1>1. /\ s \in Seq(Byte) /\ Len(s) = Len(r) + 1
      /\ s[1] = b /\ s # <<>>
      /\ \A k \in 1..Len(r) : s[k + 1] = r[k]
  BY PrefixedBy
<1>2. NoSync(c, s) /\ s[Len(s)] # SyncByte
  BY <1>1 DEF Clean
<1>3. Len(r) \in Nat
  OBVIOUS
<1> HIDE DEF s
<1>4. ASSUME b = SyncByte, c = 3 PROVE FALSE
  <2>1. 1 \in 1..c + Len(s) - 3
    BY <1>1, <1>3, <1>4
  <2>2. PICK k \in 0..3 : ByteAfter(c, s, 1 + k) # SyncByte
    BY <1>2, <2>1 DEF NoSync
  <2>3. k = 3 \/ 1 + k <= c
    BY <1>4
  <2>4. (1 + 3) - c = 1 /\ ~(1 + 3 <= c)
    BY <1>4
  <2> QED
    BY <1>1, <1>4, <2>2, <2>3, <2>4 DEF ByteAfter
<1>5. r # <<>> => r[Len(r)] # SyncByte
  <2> SUFFICES ASSUME r # <<>> PROVE r[Len(r)] # SyncByte
    OBVIOUS
  <2>1. Len(r) \in 1..Len(r)
    BY <1>3
  <2> QED
    BY <1>1, <1>2, <2>1
<1>6. r = <<>> => b # SyncByte
  <2>1. r = <<>> => Len(s) = 1
    BY <1>1
  <2> QED
    BY <1>1, <1>2, <2>1
<1>7. CASE b = SyncByte
  <2>1. ASSUME NEW n \in 1..(c + 1) + Len(r) - 3
        PROVE  \E k \in 0..3 : ByteAfter(c + 1, r, n + k) # SyncByte
    <3>1. n \in 1..c + Len(s) - 3
      BY <1>1, <1>3
    <3>2. PICK k \in 0..3 : ByteAfter(c, s, n + k) # SyncByte
      BY <1>2, <3>1 DEF NoSync
    <3>3. ~(n + k <= c) /\ s[(n + k) - c] # SyncByte
      BY <3>2 DEF ByteAfter
    <3>4. (n + k) - c # 1
      BY <1>1, <1>7, <3>3
    <3>5. /\ ~(n + k <= c + 1)
          /\ (n + k) - (c + 1) \in 1..Len(r)
          /\ ((n + k) - (c + 1)) + 1 = (n + k) - c
      BY <1>3, <3>3, <3>4
    <3>6. r[(n + k) - (c + 1)] # SyncByte
      BY <1>1, <3>3, <3>5
    <3> QED
      BY <3>5, <3>6 DEF ByteAfter
  <2>2. NoSync(c + 1, r)
    BY <2>1 DEF NoSync
  <2> QED
    BY <1>4, <1>5, <1>6, <1>7, <2>2 DEF Clean
<1>8. CASE b # SyncByte
  <2>1. ASSUME NEW n \in 1..0 + Len(r) - 3
        PROVE  \E k \in 0..3 : ByteAfter(0, r, n + k) # SyncByte
    <3>1. n + (c + 1) \in 1..c + Len(s) - 3
      BY <1>1, <1>3
    <3>2. PICK k \in 0..3 : ByteAfter(c, s, (n + (c + 1)) + k) # SyncByte
      BY <1>2, <3>1 DEF NoSync
    <3>3. /\ ~((n + (c + 1)) + k <= c)
          /\ ((n + (c + 1)) + k) - c = (n + k) + 1
          /\ n + k \in 1..Len(r)
          /\ ~(n + k <= 0) /\ (n + k) - 0 = n + k
      BY <1>3
    <3>4. r[n + k] # SyncByte
      BY <1>1, <3>2, <3>3 DEF ByteAfter
    <3> QED
      BY <3>3, <3>4 DEF ByteAfter
  <2>2. NoSync(0, r)
    BY <2>1 DEF NoSync
  <2> QED
    BY <1>4, <1>5, <1>6, <1>8, <2>2 DEF Clean
<1> QED
  BY <1>7, <1>8

-----------------------------------------------------------------------------
\* A word that is stored is in the buffer afterwards; the others are as before.
LEMMA SetUint16Stores ==
    ASSUME NEW buf, IsDataBuffer(buf), NEW a \in Word, NEW v \in Word,
           NEW i \in 1..Len(SetUint16(buf, a, v))
    PROVE  \/ SetUint16(buf, a, v)[i].Address = a /\ SetUint16(buf, a, v)[i].Data = v
           \/ /\ SetUint16(buf, a, v)[i].Address # a
              /\ \E j \in 1..Len(buf) : SetUint16(buf, a, v)[i] = buf[j]
<1> DEFINE new == SetUint16(buf, a, v)
           p == StopIndex(buf, a)
<1>1. p \in 1..Len(buf) + 1
  BY StopIndexIsStop DEF IsStop
<1>2. Len(buf) \in Nat /\ buf \in Seq(DataWord) /\ DOMAIN buf = 1..Len(buf)
  BY DEF IsDataBuffer
<1>3. IsDataBuffer(new)
  BY SetUint16Keeps
<1>4. Len(new) \in Nat /\ DOMAIN new = 1..Len(new)
  BY <1>3 DEF IsDataBuffer
<1>5. /\ p \in 1..Len(new) /\ new[p].Address = a /\ new[p].Data = v
      /\ \A k \in 1..Len(new) : k # p => \E j \in 1..Len(buf) : new[k] = buf[j]
  <2>1. CASE p <= Len(buf) /\ buf[p].Address = a
    <3>1. new = Overwrite(buf, p, v)
      BY <2>1 DEF SetUint16
    <3>2. p \in 1..Len(buf)
      BY <1>1, <1>2, <2>1
    <3> HIDE DEF p, new
    <3> DEFINE e == [Address |-> buf[p].Address, Data |-> v, Dirty |-> TRUE]
    <3>3. (new = buf /\ buf[p].Data = v) \/ new = [buf EXCEPT ![p] = e]
      BY <3>1 DEF Overwrite
    <3>4. e.Address = buf[p].Address /\ e.Data = v
      OBVIOUS
    <3> HIDE DEF e
    <3>5. DOMAIN new = 1..Len(buf)
      BY <1>2, <3>3
    <3>6. Len(new) = Len(buf)
      BY <1>2, <1>3, <3>5 DEF IsDataBuffer
    <3>7. new[p].Address = buf[p].Address /\ new[p].Data = v
      BY <1>2, <3>2, <3>3, <3>4
    <3>8. \A k \in 1..Len(new) : k # p => new[k] = buf[k]
      BY <1>2, <3>3, <3>6
    <3> QED
      BY <2>1, <3>2, <3>6, <3>7, <3>8
  <2>2. CASE ~(p <= Len(buf) /\ buf[p].Address = a)
    <3>1. new = Insert(buf, p, a, v)
      BY <2>2 DEF SetUint16
    <3> HIDE DEF p, new
    <3> DEFINE e == [Address |-> a, Data |-> v, Dirty |-> TRUE]
    <3>2. \A j \in 1..Len(buf) + 1 :
              new[j] = IF j < p THEN buf[j] ELSE IF j = p THEN e ELSE buf[j - 1]
      BY <3>1 DEF Insert
    <3>3. DOMAIN new = 1..Len(buf) + 1
      BY <3>1 DEF Insert
    <3>4. Len(new) = Len(buf) + 1
      BY <1>2, <1>3, <3>3 DEF IsDataBuffer
    <3>5. e.Address = a /\ e.Data = v
      OBVIOUS
    <3> HIDE DEF e
    <3>6. new[p] = e
      BY <1>1, <1>2, <3>2
    <3>7. ASSUME NEW k \in 1..Len(new), k # p PROVE \E j \in 1..Len(buf) : new[k] = buf[j]
      <4>1. CASE k < p
        <5>1. k \in 1..Len(buf)
          BY <1>1, <1>2, <3>4, <4>1
        <5> QED
          BY <1>2, <3>2, <3>4, <4>1, <5>1
      <4>2. CASE ~(k < p)
        <5>1. k - 1 \in 1..Len(buf)
          BY <1>1, <1>2, <3>4, <3>7, <4>2
        <5>2. new[k] = buf[k - 1]
          BY <3>2, <3>4, <3>7, <4>2
        <5> QED
          BY <5>1, <5>2
      <4> QED
        BY <4>1, <4>2
    <3> QED
      BY <1>1, <3>4, <3>5, <3>6, <3>7
  <2> QED
    BY <2>1, <2>2
<1> HIDE DEF new, p
<1>6. i \in 1..Len(new)
  BY DEF new
<1>7. CASE i = p
  BY <1>5, <1>7 DEF new
<1>8. CASE i # p
  <2>1. new[i].Address \in Word /\ new[p].Address \in Word
    BY <1>3, <1>5, <1>6, Entries
  <2>2. new[i].Address < new[p].Address \/ new[p].Address < new[i].Address
    <3>1. i < p \/ p < i
      BY <1>4, <1>5, <1>6, <1>8
    <3> QED
      BY <1>3, <1>4, <1>5, <1>6, <3>1 DEF IsDataBuffer, Ascending
  <2>3. new[i].Address # a
    <3>1. WordMax \in Nat
      BY Numbers
    <3> QED
      BY <1>5, <2>1, <2>2, <3>1 DEF Word
  <2> QED
    BY <1>5, <1>6, <1>8, <2>3 DEF new
<1> QED
  BY <1>7, <1>8

\* Clearing the dirty flags leaves addresses and data alone.
LEMMA ClearedValues ==
    ASSUME NEW buf, IsDataBuffer(buf)
    PROVE  /\ Len(ClearDirtyFlags(buf)) = Len(buf)
           /\ \A i \in 1..Len(buf) : /\ ClearDirtyFlags(buf)[i].Address = buf[i].Address
                                     /\ ClearDirtyFlags(buf)[i].Data = buf[i].Data
<1> DEFINE new == ClearDirtyFlags(buf)
<1>1. buf \in Seq(DataWord) /\ Len(buf) \in Nat /\ DOMAIN buf = 1..Len(buf)
  BY DEF IsDataBuffer
<1>2. \A i \in 1..Len(buf) : new[i] = [buf[i] EXCEPT !.Dirty = FALSE] /\ buf[i] \in DataWord
  BY <1>1, Entries DEF ClearDirtyFlags
<1>3. \A i \in 1..Len(buf) : new[i].Address = buf[i].Address /\ new[i].Data = buf[i].Data
  BY <1>2 DEF DataWord
<1>4. IsDataBuffer(new)
  BY ClearDirtyFlagsKeeps
<1>5. DOMAIN new = 1..Len(buf)
  BY <1>1 DEF ClearDirtyFlags
<1> HIDE DEF new
<1>6. Len(new) = Len(buf)
  BY <1>1, <1>4, <1>5 DEF IsDataBuffer
<1> QED
  BY <1>3, <1>6 DEF new
-----------------------------------------------------------------------------
(***************************************************************************)
(* An update on its way.  S are the addresses its write accesses begin at, *)
(* last[s] is the last word of the one that begins at s and f[T] the bytes *)
(* of those that begin in T; the words have the values vals.               *)
(***************************************************************************)
Known == StartAddresses \cup ModuleAddresses

\* The words of the buffer outside P have the values vals.
AgreesBut(buf, vals, P) ==
    \A i \in 1..Len(buf) :
        buf[i].Address \in Known \ P /\ vals[buf[i].Address] # Unset
            => buf[i].Data = vals[buf[i].Address]

Covered(S, last) == UNION {s..last[s] : s \in S}

Update(S, last, f, vals) ==
    /\ S \in SUBSET Word /\ EndOfUpdate \in S /\ last[EndOfUpdate] = EndOfUpdate
    /\ \A s \in S : /\ IsAccess(s, last[s], SentValue(vals))
                    /\ EvenFrom(s, last[s]) \subseteq Addresses
                    /\ s # EndOfUpdate => last[s] < EndOfUpdate
    /\ Joins(f, S, [s \in S |-> WriteAccess(s, last[s], SentValue(vals))])

Sync1(r) == <<SyncByte>> \o r
Sync2(r) == <<SyncByte>> \o Sync1(r)
Sync3(r) == <<SyncByte>> \o Sync2(r)
Sync4(r) == <<SyncByte>> \o Sync3(r)

\* The hub has some of the sync sequence: it waited for it, or takes what comes
\* for a write access until the fourth sync byte.
InSync(S, last, f) ==
    /\ AgreesBut(dataBuffer, value, Covered(S, last))
    /\ Clean(0, f[S])
    /\ \/ /\ protocolSyncByteCount = 0 /\ tcp = Sync4(f[S])
          /\ state \in {"WaitForSync", "AddressLow"}
       \/ /\ protocolSyncByteCount = 1 /\ tcp = Sync3(f[S])
          /\ state = "WaitForSync" \/ (state = "AddressHigh" /\ Lo(protocolAddressBuffer) = SyncByte)
       \/ /\ protocolSyncByteCount = 2 /\ tcp = Sync2(f[S])
          /\ state \in {"WaitForSync", "CountLow"}
       \/ /\ protocolSyncByteCount = 3 /\ tcp = Sync1(f[S])
          /\ state \in {"WaitForSync", "CountHigh"}

\* The write accesses in T are still to come.
BetweenAccesses(S, last, f, T) ==
    /\ T \in SUBSET S /\ EndOfUpdate \in T
    /\ state = "AddressLow"
    /\ tcp = f[T]
    /\ Clean(protocolSyncByteCount, tcp)
    /\ AgreesBut(dataBuffer, value, Covered(T, last))

\* The word at address a of the write access that begins at s is the next one
\* to be stored; those in U follow.
IsPlace(S, last, U, s, a) ==
    /\ U \in SUBSET S /\ s \in S
    /\ s = EndOfUpdate => U = {}
    /\ s # EndOfUpdate => EndOfUpdate \in U
    /\ a \in EvenFrom(s, last[s])

InHeader(last, f, U, s) ==
    LET e == last[s]
        v == SentValue(value)
    IN  \/ /\ state = "AddressHigh" /\ Lo(protocolAddressBuffer) = Lo(s)
           /\ tcp = AccessHigh(s, e, v, f[U])
        \/ /\ state = "CountLow" /\ protocolAddressBuffer = s
           /\ tcp = AccessCount(s, e, v, f[U])
        \/ /\ state = "CountHigh" /\ protocolAddressBuffer = s
           /\ Lo(protocolCountBuffer) = Lo(e - s + 2)
           /\ tcp = AccessCountHigh(s, e, v, f[U])

InData(last, f, U, s, a) ==
    LET e == last[s]
        v == SentValue(value)
    IN  /\ protocolAddressBuffer = a
        /\ \/ /\ state = "DataLow" /\ protocolCountBuffer = e - a + 2
              /\ tcp = AccessData(a, e, v, f[U])
           \/ /\ state = "DataHigh" /\ protocolCountBuffer = e - a + 1
              /\ Lo(protocolDataBuffer) = Lo(v[a])
              /\ tcp = FromHighByte(a, e, v, f[U])

InAccess(S, last, f, U, s, a) ==
    /\ IsPlace(S, last, U, s, a)
    /\ Clean(protocolSyncByteCount, tcp)
    /\ AgreesBut(dataBuffer, value, Covered(U, last) \cup (a..last[s]))
    /\ (a = s /\ InHeader(last, f, U, s)) \/ InData(last, f, U, s, a)

InUpdate(S, last, f) ==
    \/ InSync(S, last, f)
    \/ \E T : BetweenAccesses(S, last, f, T)
    \/ \E U, s, a : InAccess(S, last, f, U, s, a)

InTransit ==
    /\ connected /\ FrameData = <<>>
    /\ \E S, last, f : Update(S, last, f, value) /\ InUpdate(S, last, f)

Idle ==
    /\ tcp = <<>>
    /\ protocolSyncByteCount = 0
    /\ state \in {"WaitForSync", "AddressLow"}
    /\ AgreesBut(dataBuffer, value, {})
    /\ FrameData # <<>> => AgreesBut(FrameData[1], value, {})

\* Between two calls of the script, whatever the connection has made of them.
ExporterState ==
    /\ value \in [Addresses -> Word \cup {Unset}]
    /\ dirty = {}
    /\ \A m \in DOMAIN MapAddresses : autosyncPosition[m] \in MapAddresses[m]
    /\ DOMAIN autosyncPosition = DOMAIN MapAddresses
    /\ updateCounter \in Byte
    /\ updateSkipCounter \in Byte

ExporterOK == ExporterState /\ msg_buf = <<>>

StreamOK ==
    /\ ParserTypeOK
    /\ ExporterOK
    /\ connected \in BOOLEAN
    /\ tcp \in Seq(Byte)
    /\ ~connected => tcp = <<>> /\ dataBuffer = Empty
    /\ Idle \/ InTransit

-----------------------------------------------------------------------------
LEMMA Halves ==
    /\ \A w \in Word : MakeWord(Lo(w), Hi(w)) = w
    /\ \A lo, hi \in Byte : Lo(MakeWord(lo, hi)) = lo /\ Hi(MakeWord(lo, hi)) = hi
<1>1. Base \in Nat \ {0} /\ WordMax \in Nat /\ WordMax = Base * Base - 1
  BY Numbers
<1>2. ASSUME NEW w \in Word PROVE MakeWord(Lo(w), Hi(w)) = w
  <2>1. w \in Nat
    BY <1>1 DEF Word
  <2>2. w = Base * (w \div Base) + (w % Base) /\ w \div Base \in Int /\ w % Base \in Int
    BY <1>1, <2>1
  <2> QED
    BY <1>1, <2>2 DEF MakeWord, Lo, Hi
<1>3. ASSUME NEW lo \in Byte, NEW hi \in Byte
      PROVE  Lo(MakeWord(lo, hi)) = lo /\ Hi(MakeWord(lo, hi)) = hi
  BY DEF MakeWord, Lo, Hi, Byte, Base
<1> QED
  BY <1>2, <1>3

\* The next byte of what is on its way is processed.
LEMMA ReceiveByte ==
    ASSUME NEW b \in Byte, NEW r \in Seq(Byte), tcp = <<b>> \o r, Receive
    PROVE  /\ tcp' = r /\ ProcessByte(b)
           /\ UNCHANGED <<exporterVars, connected, faults>>
BY PrefixedBy DEF Receive

LEMMA ReceiveCleanByte ==
    ASSUME ParserTypeOK, NEW b \in Byte, NEW r \in Seq(Byte), tcp = <<b>> \o r, Receive,
           Clean(protocolSyncByteCount, tcp)
    PROVE  /\ tcp' = r /\ ProcessByte(b) /\ ~Synchronises(b)
           /\ UNCHANGED <<exporterVars, connected, faults>>
           /\ Clean(protocolSyncByteCount, tcp)'
           /\ r = <<>> => protocolSyncByteCount' = 0
<1>1. /\ tcp' = r /\ ProcessByte(b)
      /\ UNCHANGED <<exporterVars, connected, faults>>
  BY ReceiveByte
<1>2. protocolSyncByteCount \in 0..3
  BY DEF ParserTypeOK
<1>3. /\ ~(b = SyncByte /\ protocolSyncByteCount = 3)
      /\ Clean(IF b = SyncByte THEN protocolSyncByteCount + 1 ELSE 0, r)
      /\ r = <<>> => b # SyncByte
  BY <1>2, CleanStep
<1>4. ~Synchronises(b)
  BY <1>3 DEF Synchronises
<1>5. protocolSyncByteCount' = IF b = SyncByte THEN protocolSyncByteCount + 1 ELSE 0
  BY <1>1, <1>4 DEF ProcessByte, CountSyncBytes
<1>6. Clean(protocolSyncByteCount', tcp')
  BY <1>1, <1>3, <1>5
<1>7. Clean(protocolSyncByteCount, tcp)'
  BY <1>6 DEF Clean, NoSync, ByteAfter
<1> QED
  BY <1>1, <1>3, <1>4, <1>5, <1>7

\* The exporter does not move while an update is on its way.
LEMMA SameAgreement ==
    ASSUME UNCHANGED <<exporterVars, dataBuffer>>, NEW P, AgreesBut(dataBuffer, value, P)
    PROVE  AgreesBut(dataBuffer, value, P)'
BY DEF AgreesBut, exporterVars

LEMMA SyncBytesAre ==
    ASSUME NEW r \in Seq(Byte)
    PROVE  /\ SyncByte \in Byte
           /\ Sync1(r) \in Seq(Byte) /\ Sync1(r) = <<SyncByte>> \o r
           /\ Sync2(r) \in Seq(Byte) /\ Sync2(r) = <<SyncByte>> \o Sync1(r)
           /\ Sync3(r) \in Seq(Byte) /\ Sync3(r) = <<SyncByte>> \o Sync2(r)
           /\ Sync4(r) \in Seq(Byte) /\ Sync4(r) = <<SyncByte>> \o Sync3(r)
<1>1. SyncByte \in Byte
  BY DEF SyncByte, Byte, Base
<1>2. Sync1(r) \in Seq(Byte) /\ Sync1(r) = <<SyncByte>> \o r
  BY <1>1, PrefixedBy DEF Sync1
<1>3. Sync2(r) \in Seq(Byte) /\ Sync2(r) = <<SyncByte>> \o Sync1(r)
  BY <1>1, <1>2, PrefixedBy DEF Sync2
<1>4. Sync3(r) \in Seq(Byte) /\ Sync3(r) = <<SyncByte>> \o Sync2(r)
  BY <1>1, <1>3, PrefixedBy DEF Sync3
<1>5. Sync4(r) \in Seq(Byte) /\ Sync4(r) = <<SyncByte>> \o Sync3(r)
  BY <1>1, <1>4, PrefixedBy DEF Sync4
<1> QED
  BY <1>1, <1>2, <1>3, <1>4, <1>5
-----------------------------------------------------------------------------
(***************************************************************************)
(* A byte of an update that is on its way.                                 *)
(***************************************************************************)
LEMMA UpdateBytes ==
    ASSUME NEW S, NEW last, NEW f, NEW vals, Update(S, last, f, vals)
    PROVE  /\ S \in SUBSET Nat
           /\ \A T \in SUBSET S : f[T] \in Seq(Byte)
           /\ f[{}] = <<>>
           /\ \A s \in S : /\ IsAccess(s, last[s], SentValue(vals))
                           /\ EvenFrom(s, last[s]) \subseteq Addresses
                           /\ s \in Nat /\ last[s] \in Nat /\ s <= last[s]
                           /\ s % 2 = 0 /\ last[s] % 2 = 0
                           /\ s # EndOfUpdate => last[s] < EndOfUpdate
<1>1. S \in SUBSET Nat
  <2>1. WordMax \in Nat
    BY Numbers
  <2> QED
    BY <2>1 DEF Update, Word
<1>2. \A s \in S : /\ IsAccess(s, last[s], SentValue(vals)) /\ (s # EndOfUpdate => last[s] < EndOfUpdate)
                  /\ EvenFrom(s, last[s]) \subseteq Addresses
  BY DEF Update
<1>3. ASSUME NEW s \in S
      PROVE  s \in Nat /\ last[s] \in Nat /\ s <= last[s] /\ s % 2 = 0 /\ last[s] % 2 = 0
  <2>1. WordMax \in Nat
    BY Numbers
  <2> QED
    BY <1>2, <2>1 DEF IsAccess, Word
<1> DEFINE w == [s \in S |-> WriteAccess(s, last[s], SentValue(vals))]
<1>4. Joins(f, S, w)
  BY DEF Update
<1> HIDE DEF w
<1>5. f[{}] = <<>> /\ \A T \in SUBSET S : f[T] \in Seq(Byte)
  BY <1>4 DEF Joins
<1> QED
  BY <1>1, <1>2, <1>3, <1>5

\* The bytes of the write accesses in T begin with those of the first.
BeginsWith(f, last, vals, T, s) == f[T] = WriteAccess(s, last[s], SentValue(vals)) \o f[T \ {s}]

LEMMA FirstAccess ==
    ASSUME NEW S, NEW last, NEW f, NEW vals, Update(S, last, f, vals),
           NEW T \in SUBSET S, T # {}
    PROVE  BeginsWith(f, last, vals, T, Min(T))
<1> DEFINE w == [s \in S |-> WriteAccess(s, last[s], SentValue(vals))]
<1>1. S \in SUBSET Nat
  BY UpdateBytes
<1>2. Joins(f, S, w)
  BY DEF Update
<1>3. Min(T) \in S
  BY <1>1, MinIs
<1> QED
  BY <1>2, <1>3 DEF Joins, BeginsWith

\* The sync sequence: the fourth sync byte leads to the first write access,
\* whatever the parser took the first three for.
LEMMA SyncByteReceived ==
    ASSUME ParserTypeOK, NEW S, NEW last, NEW f, Update(S, last, f, value),
           FrameData = <<>>, InSync(S, last, f), Receive
    PROVE  InSync(S, last, f)' \/ BetweenAccesses(S, last, f, S)'
<1>1. f[S] \in Seq(Byte)
  BY UpdateBytes
<1>2. /\ SyncByte \in Byte
      /\ Sync1(f[S]) \in Seq(Byte) /\ Sync1(f[S]) = <<SyncByte>> \o f[S]
      /\ Sync2(f[S]) \in Seq(Byte) /\ Sync2(f[S]) = <<SyncByte>> \o Sync1(f[S])
      /\ Sync3(f[S]) \in Seq(Byte) /\ Sync3(f[S]) = <<SyncByte>> \o Sync2(f[S])
      /\ Sync4(f[S]) \in Seq(Byte) /\ Sync4(f[S]) = <<SyncByte>> \o Sync3(f[S])
  BY <1>1, SyncBytesAre
<1> DEFINE Taken(r) == /\ tcp' = r /\ ProcessByte(SyncByte)
                      /\ UNCHANGED <<exporterVars, connected, faults>>
<1>3. AgreesBut(dataBuffer, value, Covered(S, last)) /\ Clean(0, f[S])
  BY DEF InSync
<1>4. Clean(0, f[S])'
  BY <1>3 DEF Clean, NoSync, ByteAfter
<1>5. ASSUME NEW r, Taken(r), state \in {"WaitForSync", "AddressLow", "AddressHigh", "CountLow", "CountHigh"}
      PROVE  AgreesBut(dataBuffer, value, Covered(S, last))'
  <2>1. UNCHANGED <<exporterVars, dataBuffer>>
    BY <1>5 DEF ProcessByte, WaitForSync, AddressLow, AddressHigh, CountLow, CountHigh,
       DataLow, DataHigh
  <2> QED
    BY <1>3, <2>1, SameAgreement
<1>6. Hi(protocolAddressBuffer) \in Byte /\ Lo(protocolAddressBuffer) \in Byte
  BY BytesAndWords DEF ParserTypeOK
<1>7. CASE /\ protocolSyncByteCount = 0 /\ tcp = Sync4(f[S])
           /\ state \in {"WaitForSync", "AddressLow"}
  <2>1. Taken(Sync3(f[S]))
    BY <1>2, <1>7, ReceiveByte
  <2>2. ~Synchronises(SyncByte) /\ protocolSyncByteCount' = 1
    BY <1>7, <2>1 DEF Synchronises, ProcessByte, CountSyncBytes
  <2>3. CASE state = "WaitForSync"
    <3>1. state' = "WaitForSync"
      BY <2>1, <2>2, <2>3 DEF ProcessByte, Goto, WaitForSync, AddressLow, AddressHigh, CountLow,
         CountHigh, DataLow, DataHigh
    <3> QED
      BY <1>4, <1>5, <2>1, <2>2, <2>3, <3>1 DEF InSync
  <2>4. CASE state = "AddressLow"
    <3>1. /\ state' = "AddressHigh"
          /\ protocolAddressBuffer' = MakeWord(SyncByte, Hi(protocolAddressBuffer))
      BY <2>1, <2>2, <2>4 DEF ProcessByte, Goto, WaitForSync, AddressLow, AddressHigh, CountLow,
         CountHigh, DataLow, DataHigh
    <3>2. Lo(protocolAddressBuffer') = SyncByte
      BY <1>2, <1>6, <3>1, Halves
    <3>3. (Lo(protocolAddressBuffer) = SyncByte)'
      BY <3>2 DEF Lo
    <3> QED
      BY <1>4, <1>5, <2>1, <2>2, <2>4, <3>1, <3>3 DEF InSync
  <2> QED
    BY <1>7, <2>3, <2>4
<1>8. CASE /\ protocolSyncByteCount = 1 /\ tcp = Sync3(f[S])
           /\ state = "WaitForSync" \/ (state = "AddressHigh" /\ Lo(protocolAddressBuffer) = SyncByte)
  <2>1. Taken(Sync2(f[S]))
    BY <1>2, <1>8, ReceiveByte
  <2>2. ~Synchronises(SyncByte) /\ protocolSyncByteCount' = 2
    BY <1>8, <2>1 DEF Synchronises, ProcessByte, CountSyncBytes
  <2>3. CASE state = "WaitForSync"
    <3>1. state' = "WaitForSync"
      BY <2>1, <2>2, <2>3 DEF ProcessByte, Goto, WaitForSync, AddressLow, AddressHigh, CountLow,
         CountHigh, DataLow, DataHigh
    <3> QED
      BY <1>4, <1>5, <2>1, <2>2, <2>3, <3>1 DEF InSync
  <2>4. CASE state = "AddressHigh" /\ Lo(protocolAddressBuffer) = SyncByte
    <3>1. /\ protocolAddressBuffer' = MakeWord(SyncByte, SyncByte)
          /\ Goto(SyncByte, IF protocolAddressBuffer' # SkippedAddress THEN "CountLow" ELSE "WaitForSync")
      BY <2>1, <2>4 DEF ProcessByte, WaitForSync, AddressLow, AddressHigh, CountLow,
         CountHigh, DataLow, DataHigh
    <3>2. MakeWord(SyncByte, SyncByte) # SkippedAddress
      BY DEF MakeWord, SyncByte, SkippedAddress, Base
    <3>3. state' = "CountLow"
      BY <2>2, <3>1, <3>2 DEF Goto
    <3> QED
      BY <1>4, <1>5, <2>1, <2>2, <2>4, <3>3 DEF InSync
  <2> QED
    BY <1>8, <2>3, <2>4
<1>9. CASE /\ protocolSyncByteCount = 2 /\ tcp = Sync2(f[S])
           /\ state \in {"WaitForSync", "CountLow"}
  <2>1. Taken(Sync1(f[S]))
    BY <1>2, <1>9, ReceiveByte
  <2>2. ~Synchronises(SyncByte) /\ protocolSyncByteCount' = 3
    BY <1>9, <2>1 DEF Synchronises, ProcessByte, CountSyncBytes
  <2>3. state' \in {"WaitForSync", "CountHigh"}
    BY <1>9, <2>1, <2>2 DEF ProcessByte, Goto, WaitForSync, AddressLow, AddressHigh, CountLow,
       CountHigh, DataLow, DataHigh
  <2> QED
    BY <1>4, <1>5, <1>9, <2>1, <2>2, <2>3 DEF InSync
<1>10. CASE /\ protocolSyncByteCount = 3 /\ tcp = Sync1(f[S])
            /\ state \in {"WaitForSync", "CountHigh"}
  <2>1. Taken(f[S])
    BY <1>1, <1>2, <1>10, ReceiveByte
  <2>2. Synchronises(SyncByte) /\ protocolSyncByteCount' = 0
    BY <1>10, <2>1 DEF Synchronises, ProcessByte, CountSyncBytes
  <2>3. state' = "AddressLow"
    BY <1>10, <2>1, <2>2 DEF ProcessByte, Goto, WaitForSync, AddressLow, AddressHigh, CountLow,
       CountHigh, DataLow, DataHigh
  <2>4. Clean(protocolSyncByteCount', tcp')
    BY <1>3, <2>1, <2>2
  <2>5. Clean(protocolSyncByteCount, tcp)'
    BY <2>4 DEF Clean, NoSync, ByteAfter
  <2>6. S \in SUBSET S /\ EndOfUpdate \in S
    BY DEF Update
  <2> QED
    BY <1>5, <1>10, <2>1, <2>3, <2>5, <2>6 DEF BetweenAccesses
<1> QED
  BY <1>7, <1>8, <1>9, <1>10 DEF InSync

\* The first byte of a write access.
LEMMA AccessBegins ==
    ASSUME ParserTypeOK, NEW S, NEW last, NEW f, Update(S, last, f, value),
           NEW T, BetweenAccesses(S, last, f, T), Receive
    PROVE  \E U, s, a : InAccess(S, last, f, U, s, a)'
<1> DEFINE s == Min(T)
           U == T \ {s}
           v == SentValue(value)
<1>1. /\ T \in SUBSET S /\ EndOfUpdate \in T /\ state = "AddressLow" /\ tcp = f[T]
      /\ Clean(protocolSyncByteCount, tcp)
      /\ AgreesBut(dataBuffer, value, Covered(T, last))
  BY DEF BetweenAccesses
<1>2. s \in T /\ \A t \in T : s <= t
  <2>1. T \in SUBSET Nat /\ T # {}
    BY <1>1, UpdateBytes
  <2> QED
    BY <2>1, MinIs
<1>3. f[T] = WriteAccess(s, last[s], v) \o f[U]
  <2>1. T \in SUBSET S /\ T # {}
    BY <1>1
  <2>2. BeginsWith(f, last, value, T, Min(T))
    BY <2>1, FirstAccess
  <2> QED
    BY <2>2 DEF BeginsWith
<1> HIDE DEF s, v
<1>4. /\ s \in S /\ U \in SUBSET S /\ f[U] \in Seq(Byte)
      /\ IsAccess(s, last[s], v)
      /\ s \in Nat /\ last[s] \in Nat /\ s <= last[s] /\ s % 2 = 0
  BY <1>1, <1>2, UpdateBytes DEF v
<1>5. IsPlace(S, last, U, s, s)
  <2>1. s \in EvenFrom(s, last[s])
    BY <1>4 DEF EvenFrom
  <2>2. ASSUME s = EndOfUpdate PROVE U = {}
    <3>1. \A t \in T : t = s
      <4> SUFFICES ASSUME NEW t \in T, t # s PROVE FALSE
        OBVIOUS
      <4>1. t \in S /\ t # EndOfUpdate
        BY <1>1, <2>2
      <4>2. t \in Nat /\ last[t] \in Nat /\ t <= last[t] /\ last[t] < EndOfUpdate
        BY <4>1, UpdateBytes
      <4>3. s <= t /\ s \in Nat
        BY <1>2, <1>4
      <4> QED
        BY <2>2, <4>2, <4>3
    <3> QED
      BY <3>1
  <2>3. s # EndOfUpdate => EndOfUpdate \in U
    BY <1>1
  <2> QED
    BY <1>4, <2>1, <2>2, <2>3 DEF IsPlace
<1>6. /\ tcp = <<Lo(s)>> \o AccessHigh(s, last[s], v, f[U])
      /\ AccessHigh(s, last[s], v, f[U]) \in Seq(Byte)
  <2>1. IsAccess(s, last[s], v) /\ f[U] \in Seq(Byte)
    BY <1>4
  <2> HIDE DEF U
  <2>2. /\ WriteAccess(s, last[s], v) \o f[U] = <<Lo(s)>> \o AccessHigh(s, last[s], v, f[U])
        /\ AccessHigh(s, last[s], v, f[U]) \in Seq(Byte)
    BY <2>1, WriteAccessIs
  <2> QED
    BY <1>1, <1>3, <2>2
<1>7. s \in Word /\ Lo(s) \in Byte
  BY <1>4, BytesAndWords DEF IsAccess
<1>8. /\ tcp' = AccessHigh(s, last[s], v, f[U]) /\ ProcessByte(Lo(s)) /\ ~Synchronises(Lo(s))
      /\ UNCHANGED <<exporterVars, connected, faults>>
      /\ Clean(protocolSyncByteCount, tcp)'
  BY <1>1, <1>6, <1>7, ReceiveCleanByte
<1>9. /\ state' = "AddressHigh"
      /\ protocolAddressBuffer' = MakeWord(Lo(s), Hi(protocolAddressBuffer))
      /\ UNCHANGED dataBuffer
  BY <1>1, <1>8 DEF ProcessByte, Goto, WaitForSync, AddressLow, AddressHigh, CountLow,
     CountHigh, DataLow, DataHigh
<1>10. Lo(protocolAddressBuffer') = Lo(s)
  <2>1. Hi(protocolAddressBuffer) \in Byte
    BY BytesAndWords DEF ParserTypeOK
  <2> QED
    BY <1>7, <1>9, <2>1, Halves
<1>11. InHeader(last, f, U, s)'
  <2>1. SentValue(value)' = v
    BY <1>8 DEF v, SentValue, exporterVars
  <2> QED
    BY <1>8, <1>9, <1>10, <2>1 DEF InHeader, Lo, AccessHigh, AccessCount, AccessCountHigh,
       AccessData, DataBytes
<1>12. AgreesBut(dataBuffer, value, Covered(U, last) \cup (s..last[s]))'
  <2>1. Covered(T, last) = Covered(U, last) \cup (s..last[s])
    BY <1>2 DEF Covered
  <2>2. AgreesBut(dataBuffer, value, Covered(U, last) \cup (s..last[s]))
    BY <1>1, <2>1
  <2> QED
    BY <1>8, <1>9, <2>2, SameAgreement
<1>13. InAccess(S, last, f, U, s, s)'
  BY <1>5, <1>8, <1>11, <1>12 DEF InAccess, IsPlace, EvenFrom
<1> QED
  BY <1>13

\* The rest of the header of a write access.
LEMMA HeaderContinues ==
    ASSUME ParserTypeOK, NEW S, NEW last, NEW f, Update(S, last, f, value),
           NEW U, NEW s, InAccess(S, last, f, U, s, s), InHeader(last, f, U, s), Receive
    PROVE  InAccess(S, last, f, U, s, s)'
<1> DEFINE v == SentValue(value)
           e == last[s]
           n == e - s + 2
<1>1. /\ IsPlace(S, last, U, s, s)
      /\ Clean(protocolSyncByteCount, tcp)
      /\ AgreesBut(dataBuffer, value, Covered(U, last) \cup (s..e))
  BY DEF InAccess
<1>2. /\ f[U] \in Seq(Byte) /\ IsAccess(s, e, v)
      /\ s % 2 = 0
  BY <1>1, UpdateBytes DEF IsPlace
<1>3. s \in Word /\ n \in Word
  BY <1>2 DEF IsAccess
<1> DEFINE high == AccessHigh(s, e, v, f[U])
           count == AccessCount(s, e, v, f[U])
           countHigh == AccessCountHigh(s, e, v, f[U])
           data == AccessData(s, e, v, f[U])
<1>4. /\ high \in Seq(Byte) /\ high = <<Hi(s)>> \o count
      /\ count \in Seq(Byte) /\ count = <<Lo(n)>> \o countHigh
      /\ countHigh \in Seq(Byte) /\ countHigh = <<Hi(n)>> \o data
      /\ data \in Seq(Byte)
  BY <1>2, WriteAccessIs DEF AccessHigh, AccessCount, AccessCountHigh
<1>5. \/ state = "AddressHigh" /\ Lo(protocolAddressBuffer) = Lo(s) /\ tcp = high
      \/ state = "CountLow" /\ protocolAddressBuffer = s /\ tcp = count
      \/ /\ state = "CountHigh" /\ protocolAddressBuffer = s
         /\ Lo(protocolCountBuffer) = Lo(n) /\ tcp = countHigh
  BY DEF InHeader
<1>6. Lo(s) \in Byte /\ Hi(s) \in Byte /\ Lo(n) \in Byte /\ Hi(n) \in Byte /\ Hi(protocolCountBuffer) \in Byte
  BY <1>3, BytesAndWords DEF ParserTypeOK
<1> HIDE DEF high, count, countHigh, data, v
<1> DEFINE Goes(r) == /\ tcp' = r
                      /\ UNCHANGED <<exporterVars, dataBuffer>>
                      /\ Clean(protocolSyncByteCount, tcp)'
<1>7. ASSUME NEW r, Goes(r),
             \/ state' = "CountLow" /\ protocolAddressBuffer' = s /\ r = count
             \/ /\ state' = "CountHigh" /\ protocolAddressBuffer' = s
                /\ Lo(protocolCountBuffer') = Lo(n) /\ r = countHigh
             \/ /\ state' = "DataLow" /\ protocolAddressBuffer' = s
                /\ protocolCountBuffer' = n /\ r = data
      PROVE  InAccess(S, last, f, U, s, s)'
  <2>1. SentValue(value)' = v
    BY <1>7 DEF v, SentValue, exporterVars
  <2>2. AgreesBut(dataBuffer, value, Covered(U, last) \cup (s..e))'
    BY <1>1, <1>7, SameAgreement
  <2>3. IsPlace(S, last, U, s, s)'
    BY <1>1 DEF IsPlace, EvenFrom
  <2>4. InHeader(last, f, U, s)' \/ InData(last, f, U, s, s)'
    BY <1>7, <2>1 DEF InHeader, InData, Lo, AccessHigh, AccessCount, AccessCountHigh,
       AccessData, DataBytes, count, countHigh, data
  <2> QED
    BY <1>7, <2>2, <2>3, <2>4 DEF InAccess
<1>8. CASE state = "AddressHigh" /\ Lo(protocolAddressBuffer) = Lo(s) /\ tcp = high
  <2>1. /\ tcp' = count /\ ProcessByte(Hi(s)) /\ ~Synchronises(Hi(s))
        /\ UNCHANGED <<exporterVars, connected, faults>>
        /\ Clean(protocolSyncByteCount, tcp)'
    BY <1>1, <1>4, <1>6, <1>8, ReceiveCleanByte
  <2>2. /\ protocolAddressBuffer' = MakeWord(Lo(s), Hi(s))
        /\ Goto(Hi(s), IF protocolAddressBuffer' # SkippedAddress THEN "CountLow" ELSE "WaitForSync")
        /\ UNCHANGED dataBuffer
    BY <1>8, <2>1 DEF ProcessByte, WaitForSync, AddressLow, AddressHigh, CountLow,
       CountHigh, DataLow, DataHigh
  <2>3. protocolAddressBuffer' = s
    BY <1>3, <2>2, Halves
  <2>4. s # SkippedAddress
    BY <1>2 DEF SkippedAddress
  <2>5. state' = "CountLow"
    BY <2>1, <2>2, <2>3, <2>4 DEF Goto
  <2> QED
    BY <1>7, <2>1, <2>2, <2>3, <2>5
<1>9. CASE state = "CountLow" /\ protocolAddressBuffer = s /\ tcp = count
  <2>1. /\ tcp' = countHigh /\ ProcessByte(Lo(n)) /\ ~Synchronises(Lo(n))
        /\ UNCHANGED <<exporterVars, connected, faults>>
        /\ Clean(protocolSyncByteCount, tcp)'
    BY <1>1, <1>4, <1>6, <1>9, ReceiveCleanByte
  <2>2. /\ protocolCountBuffer' = MakeWord(Lo(n), Hi(protocolCountBuffer))
        /\ state' = "CountHigh" /\ protocolAddressBuffer' = s
        /\ UNCHANGED dataBuffer
    BY <1>9, <2>1 DEF ProcessByte, Goto, WaitForSync, AddressLow, AddressHigh, CountLow,
       CountHigh, DataLow, DataHigh
  <2>3. Lo(protocolCountBuffer') = Lo(n)
    BY <1>6, <2>2, Halves
  <2> QED
    BY <1>7, <2>1, <2>2, <2>3
<1>10. CASE /\ state = "CountHigh" /\ protocolAddressBuffer = s
            /\ Lo(protocolCountBuffer) = Lo(n) /\ tcp = countHigh
  <2>1. /\ tcp' = data /\ ProcessByte(Hi(n)) /\ ~Synchronises(Hi(n))
        /\ UNCHANGED <<exporterVars, connected, faults>>
        /\ Clean(protocolSyncByteCount, tcp)'
    BY <1>1, <1>4, <1>6, <1>10, ReceiveCleanByte
  <2>2. /\ protocolCountBuffer' = MakeWord(Lo(n), Hi(n))
        /\ state' = "DataLow" /\ protocolAddressBuffer' = s
        /\ UNCHANGED dataBuffer
    BY <1>10, <2>1 DEF ProcessByte, Goto, WaitForSync, AddressLow, AddressHigh, CountLow,
       CountHigh, DataLow, DataHigh
  <2>3. protocolCountBuffer' = n
    BY <1>3, <2>2, Halves
  <2> QED
    BY <1>7, <2>1, <2>2, <2>3
<1> QED
  BY <1>5, <1>8, <1>9, <1>10

-----------------------------------------------------------------------------
\* The maps of the exporter are apart from each other and from 0xFFFE.
LEMMA AddressesAre ==
    /\ EndOfUpdate \in Word /\ EndOfUpdate \in Nat /\ EndOfUpdate \in Addresses
    /\ EndOfUpdate = WordMax - 1 /\ EndOfUpdate % 2 = 0
    /\ EndOfUpdate \notin Known
    /\ Known \subseteq Addresses
    /\ \A a \in Addresses : a \in Word /\ a \in Nat /\ a <= EndOfUpdate /\ a % 2 = 0
    /\ Word \subseteq Nat /\ 0 \in Word
    /\ Unset \notin Word
    /\ StartAddresses \cap ModuleAddresses = {}
<1>1. /\ EndOfUpdate \in Word /\ EndOfUpdate = WordMax - 1 /\ EndOfUpdate % 2 = 0
      /\ Word \subseteq Nat /\ 0 \in Word
      /\ \A a \in Word : a \in Nat /\ (a % 2 = 0 => a <= EndOfUpdate)
  <2>1. WordMax \in Nat /\ WordMax % 2 = 1 /\ WordMax > 0
    BY SMT DEF WordMax, Base
  <2>2. EndOfUpdate = WordMax - 1
    BY DEF EndOfUpdate
  <2>3. Word = 0..WordMax
    BY DEF Word
  <2> QED
    BY <2>1, <2>2, <2>3
<1>2. \A a \in Addresses : a \in Word /\ a % 2 = 0
  BY ExporterAssumption
<1>3. \A a \in StartAddresses, b \in ModuleAddresses : a \in Nat /\ b \in Nat /\ a < b /\ b <= EndOfUpdate
  <2>1. \A a \in Addresses : a \in Nat /\ a <= EndOfUpdate
    BY <1>1, <1>2
  <2>2. \A a \in StartAddresses, b \in ModuleAddresses : a < b
    BY ExporterAssumption
  <2>3. StartAddresses \subseteq Addresses /\ ModuleAddresses \subseteq Addresses
    BY DEF Addresses
  <2> QED
    BY <2>1, <2>2, <2>3
<1>4. ModuleAddresses # {}
  BY ExporterAssumption
<1>5. EndOfUpdate \notin StartAddresses
  <2>1. PICK b \in ModuleAddresses : TRUE
    BY <1>4
  <2>2. EndOfUpdate \in Nat
    BY <1>1
  <2>3. \A a \in StartAddresses : a \in Nat /\ b \in Nat /\ a < b /\ b <= EndOfUpdate
    BY <1>3
  <2>4. \A a \in StartAddresses : a # EndOfUpdate
    BY <2>2, <2>3
  <2> QED
    BY <2>4
<1>6. EndOfUpdate \notin ModuleAddresses /\ Unset \notin Word
  BY ExporterAssumption
<1>7. StartAddresses \cap ModuleAddresses = {}
  <2>1. \A a \in Nat : ~(a < a)
    OBVIOUS
  <2> QED
    BY <1>3, <2>1
<1>8. EndOfUpdate \in Addresses /\ Known \subseteq Addresses /\ EndOfUpdate \notin Known
  BY <1>5, <1>6 DEF Known, Addresses, EndAddresses
<1>9. EndOfUpdate \in Nat
  BY <1>1
<1>10. \A a \in Addresses : a \in Nat /\ a <= EndOfUpdate
  BY <1>1, <1>2
<1> QED
  BY <1>1, <1>2, <1>6, <1>7, <1>8, <1>9, <1>10

\* What is sent is a word, and it is the value where there is one.
LEMMA SentIs ==
    ASSUME NEW vals \in [Addresses -> Word \cup {Unset}], NEW a \in Addresses
    PROVE  /\ SentValue(vals)[a] \in Word
           /\ vals[a] # Unset => SentValue(vals)[a] = vals[a]
BY AddressesAre DEF SentValue

\* A stored word has the exporter's value, and need no longer be left out.
LEMMA StoredAgrees ==
    ASSUME NEW buf, IsDataBuffer(buf), NEW vals \in [Addresses -> Word \cup {Unset}],
           NEW a \in Addresses, NEW P, NEW e \in Nat, AgreesBut(buf, vals, P \cup (a..e))
    PROVE  /\ AgreesBut(SetUint16(buf, a, SentValue(vals)[a]), vals, P \cup (a + 2..e))
           /\ IsDataBuffer(SetUint16(buf, a, SentValue(vals)[a]))
<1> DEFINE w == SentValue(vals)[a]
           new == SetUint16(buf, a, w)
<1>1. w \in Word /\ (vals[a] # Unset => w = vals[a]) /\ a \in Word
  BY SentIs, AddressesAre
<1> HIDE DEF w
<1>2. IsDataBuffer(new)
  BY <1>1, SetUint16Keeps
<1>3. ASSUME NEW i \in 1..Len(new), new[i].Address \in Known \ (P \cup (a + 2..e)),
             vals[new[i].Address] # Unset
      PROVE  new[i].Data = vals[new[i].Address]
  <2>1. \/ new[i].Address = a /\ new[i].Data = w
        \/ new[i].Address # a /\ \E j \in 1..Len(buf) : new[i] = buf[j]
    BY <1>1, SetUint16Stores
  <2> HIDE DEF new
  <2>2. CASE new[i].Address = a /\ new[i].Data = w
    BY <1>1, <1>3, <2>2
  <2>3. CASE new[i].Address # a /\ \E j \in 1..Len(buf) : new[i] = buf[j]
    <3>1. PICK j \in 1..Len(buf) : new[i] = buf[j]
      BY <2>3
    <3> DEFINE x == new[i].Address
    <3>2. x \in Nat /\ a \in Nat /\ x % 2 = 0 /\ a % 2 = 0
      BY <1>3, AddressesAre
    <3>3. x # a /\ x \notin a + 2..e
      BY <1>3, <2>3
    <3> HIDE DEF x
    <3>4. x \notin a..e
      BY <3>2, <3>3
    <3>5. x \in Known \ (P \cup (a..e))
      BY <1>3, <3>4 DEF x
    <3> QED
      BY <1>3, <3>1, <3>5 DEF AgreesBut, x
  <2> QED
    BY <2>1, <2>2, <2>3
<1>4. AgreesBut(new, vals, P \cup (a + 2..e))
  <2> HIDE DEF new
  <2> QED
    BY <1>3 DEF AgreesBut
<1> QED
  BY <1>2, <1>4 DEF new, w

LEMMA ClearedAgrees ==
    ASSUME NEW buf, IsDataBuffer(buf), NEW vals, NEW P, AgreesBut(buf, vals, P)
    PROVE  AgreesBut(ClearDirtyFlags(buf), vals, P)
<1> DEFINE new == ClearDirtyFlags(buf)
<1>1. /\ Len(new) = Len(buf)
      /\ \A i \in 1..Len(buf) : new[i].Address = buf[i].Address /\ new[i].Data = buf[i].Data
  BY ClearedValues
<1> HIDE DEF new
<1>2. AgreesBut(new, vals, P)
  BY <1>1 DEF AgreesBut
<1> QED
  BY <1>2 DEF new

\* The words of a write access are words of the exporter.
LEMMA PlaceIs ==
    ASSUME ExporterOK, NEW S, NEW last, NEW f, Update(S, last, f, value),
           NEW U, NEW s, NEW a, IsPlace(S, last, U, s, a)
    PROVE  LET e == last[s]
               v == SentValue(value)
           IN  /\ s \in Nat /\ e \in Nat /\ a \in Nat /\ s <= a /\ a <= e
               /\ a % 2 = 0 /\ e % 2 = 0 /\ a \in Word /\ e - a + 2 \in Word
               /\ a \in Addresses
               /\ e <= EndOfUpdate /\ (a = EndOfUpdate => s = EndOfUpdate)
               /\ s = EndOfUpdate => e = EndOfUpdate /\ U = {}
               /\ s # EndOfUpdate => EndOfUpdate \in U
               /\ U \in SUBSET S /\ f[U] \in Seq(Byte) /\ f[{}] = <<>>
               /\ \A b \in EvenFrom(a, e) : v[b] \in Word
<1> DEFINE e == last[s]
           v == SentValue(value)
<1>1. /\ U \in SUBSET S /\ s \in S
      /\ s = EndOfUpdate => U = {}
      /\ s # EndOfUpdate => EndOfUpdate \in U
      /\ a \in EvenFrom(s, e)
  BY DEF IsPlace
<1>2. /\ IsAccess(s, e, v) /\ s \in Nat /\ e \in Nat /\ s <= e /\ e % 2 = 0
      /\ s # EndOfUpdate => e < EndOfUpdate
      /\ f[U] \in Seq(Byte) /\ f[{}] = <<>>
      /\ EvenFrom(s, e) \subseteq Addresses
  BY <1>1, UpdateBytes
<1>3. last[EndOfUpdate] = EndOfUpdate
  BY DEF Update
<1> HIDE DEF v, e
<1>4. s = EndOfUpdate => e = EndOfUpdate
  BY <1>3 DEF e
<1>5. EndOfUpdate \in Nat /\ WordMax \in Nat /\ EndOfUpdate = WordMax - 1
  BY AddressesAre, Numbers
<1>6. e <= EndOfUpdate
  BY <1>2, <1>4, <1>5
<1>7. a \in Nat /\ s <= a /\ a <= e /\ a % 2 = 0
  BY <1>1, <1>2 DEF EvenFrom
<1>8. a = EndOfUpdate => s = EndOfUpdate
  BY <1>2, <1>5, <1>7
<1>9. a \in Word /\ e - a + 2 \in Word
  <2>1. e - s + 2 \in Word
    BY <1>2 DEF IsAccess
  <2> QED
    BY <1>2, <1>5, <1>6, <1>7, <2>1 DEF Word
<1>10. \A b \in EvenFrom(a, e) : v[b] \in Word
  <2>1. \A b \in EvenFrom(s, e) : v[b] \in Word
    BY <1>2 DEF IsAccess
  <2>2. \A b \in EvenFrom(a, e) : b \in EvenFrom(s, e)
    BY <1>2, <1>7 DEF EvenFrom
  <2> QED
    BY <2>1, <2>2
<1> QED
  BY <1>1, <1>2, <1>4, <1>6, <1>7, <1>8, <1>9, <1>10 DEF e, v

\* The data of an access from a word on.
LEMMA DataIs ==
    ASSUME NEW a \in Nat, NEW e \in Nat, a % 2 = 0, e % 2 = 0, a <= e,
           NEW v, \A b \in EvenFrom(a, e) : v[b] \in Word, NEW rest \in Seq(Byte)
    PROVE  /\ AccessData(a + 2, e, v, rest) \in Seq(Byte)
           /\ FromHighByte(a, e, v, rest) \in Seq(Byte)
           /\ StartsWith(FromHighByte(a, e, v, rest), Hi(v[a]), AccessData(a + 2, e, v, rest))
           /\ StartsWith(AccessData(a, e, v, rest), Lo(v[a]), FromHighByte(a, e, v, rest))
           /\ v[a] \in Word /\ Lo(v[a]) \in Byte /\ Hi(v[a]) \in Byte
<1> DEFINE d == DataBytes(a + 2, e, v)
           lo == <<Lo(v[a])>>
           hi == <<Hi(v[a])>>
<1>1. v[a] \in Word
  BY DEF EvenFrom
<1>2. Lo(v[a]) \in Byte /\ Hi(v[a]) \in Byte
  BY <1>1, BytesAndWords
<1>3. d \in Seq(Byte) /\ DataBytes(a, e, v) = lo \o (hi \o d)
  <2>1. e \in Int
    OBVIOUS
  <2>2. /\ DataBytes(a + 2, e, v) \in Seq(Byte)
        /\ DataBytes(a, e, v) = <<Lo(v[a])>> \o (<<Hi(v[a])>> \o DataBytes(a + 2, e, v))
    BY <2>1, DataBytesStep
  <2> QED
    BY <2>2
<1>4. lo \in Seq(Byte) /\ hi \in Seq(Byte)
  BY <1>2
<1> HIDE DEF d, lo, hi
<1>6. \A x, y \in Seq(Byte) : x \o y \in Seq(Byte)
  OBVIOUS
<1>7. (lo \o (hi \o d)) \o rest = lo \o (hi \o (d \o rest))
  <2>1. (lo \o (hi \o d)) \o rest = lo \o ((hi \o d) \o rest)
    <3>1. hi \o d \in Seq(Byte)
      BY <1>3, <1>4, <1>6
    <3> QED
      BY <1>4, <3>1, Bracketed
  <2>2. (hi \o d) \o rest = hi \o (d \o rest)
    BY <1>3, <1>4, Bracketed
  <2> QED
    BY <2>1, <2>2
<1>8. d \o rest \in Seq(Byte) /\ hi \o (d \o rest) \in Seq(Byte)
  BY <1>3, <1>4, <1>6
<1> QED
  BY <1>1, <1>2, <1>3, <1>7, <1>8 DEF AccessData, FromHighByte, StartsWith, d, lo, hi

LEMMA SmallRemainder ==
    ASSUME NEW m \in Nat, NEW x \in 0..m
    PROVE  x % (m + 1) = x
OBVIOUS

\* The first byte of a word.
LEMMA LowByteReceived ==
    ASSUME ParserTypeOK, ExporterOK, NEW S, NEW last, NEW f, Update(S, last, f, value),
           NEW U, NEW s, NEW a, InAccess(S, last, f, U, s, a), InData(last, f, U, s, a),
           state = "DataLow", Receive
    PROVE  InAccess(S, last, f, U, s, a)'
<1> DEFINE v == SentValue(value)
           e == last[s]
           rest == FromHighByte(a, e, v, f[U])
<1>1. /\ IsPlace(S, last, U, s, a)
      /\ Clean(protocolSyncByteCount, tcp)
      /\ AgreesBut(dataBuffer, value, Covered(U, last) \cup (a..e))
  BY DEF InAccess
<1>2. /\ e \in Nat /\ a \in Nat /\ a <= e /\ a % 2 = 0 /\ e % 2 = 0
      /\ e - a + 2 \in Word /\ f[U] \in Seq(Byte)
      /\ \A b \in EvenFrom(a, e) : v[b] \in Word
  BY <1>1, PlaceIs
<1>3. /\ protocolAddressBuffer = a /\ protocolCountBuffer = e - a + 2
      /\ tcp = AccessData(a, e, v, f[U])
  BY DEF InData
<1> HIDE DEF v, e
<1>4. /\ rest \in Seq(Byte)
      /\ AccessData(a, e, v, f[U]) = <<Lo(v[a])>> \o rest
      /\ Lo(v[a]) \in Byte
  <2>1. /\ FromHighByte(a, e, v, f[U]) \in Seq(Byte)
        /\ StartsWith(AccessData(a, e, v, f[U]), Lo(v[a]), FromHighByte(a, e, v, f[U]))
        /\ Lo(v[a]) \in Byte
    BY <1>2, DataIs
  <2> QED
    BY <2>1 DEF StartsWith
<1> HIDE DEF rest
<1>5. /\ tcp' = rest /\ ProcessByte(Lo(v[a])) /\ ~Synchronises(Lo(v[a]))
      /\ UNCHANGED <<exporterVars, connected, faults>>
      /\ Clean(protocolSyncByteCount, tcp)'
  BY <1>1, <1>3, <1>4, ReceiveCleanByte
<1>6. /\ state' = "DataHigh" /\ protocolAddressBuffer' = a
      /\ protocolDataBuffer' = MakeWord(Lo(v[a]), Hi(protocolDataBuffer))
      /\ protocolCountBuffer' = Plus16(protocolCountBuffer, -1)
      /\ UNCHANGED dataBuffer
  BY <1>3, <1>5 DEF ProcessByte, Goto, WaitForSync, AddressLow, AddressHigh, CountLow,
     CountHigh, DataLow, DataHigh
<1>7. Lo(protocolDataBuffer') = Lo(v[a])
  <2>1. Hi(protocolDataBuffer) \in Byte
    BY BytesAndWords DEF ParserTypeOK
  <2> QED
    BY <1>4, <1>6, <2>1, Halves
<1>8. protocolCountBuffer' = e - a + 1
  <2>1. WordMax \in Nat /\ e - a + 2 \in 0..WordMax
    BY <1>2, Numbers DEF Word
  <2> DEFINE x == (e - a + 2) + -1
  <2>2. x \in 0..WordMax /\ x = e - a + 1
    BY <1>2, <2>1
  <2>3. x % (WordMax + 1) = x
    <3> HIDE DEF x
    <3> QED
      BY <2>1, <2>2, SmallRemainder
  <2> QED
    BY <1>3, <1>6, <2>2, <2>3 DEF Plus16
<1>9. InData(last, f, U, s, a)'
  <2>1. SentValue(value)' = v
    BY <1>5 DEF v, SentValue, exporterVars
  <2> QED
    BY <1>5, <1>6, <1>7, <1>8, <2>1 DEF InData, Lo, Hi, AccessData, FromHighByte, DataBytes, e, rest
<1>10. AgreesBut(dataBuffer, value, Covered(U, last) \cup (a..e))'
  BY <1>1, <1>5, <1>6, SameAgreement
<1>11. IsPlace(S, last, U, s, a)'
  BY <1>1 DEF IsPlace, EvenFrom
<1> QED
  BY <1>5, <1>9, <1>10, <1>11 DEF InAccess, e

\* The second byte of a word: the word is stored.  The one at 0xFFFE is the last
\* of the update; any other is followed by the next word of its write access or
\* by the next write access.
LEMMA HighByteReceived ==
    ASSUME ParserTypeOK, ExporterOK, NEW S, NEW last, NEW f, Update(S, last, f, value),
           FrameData = <<>>,
           NEW U, NEW s, NEW a, InAccess(S, last, f, U, s, a), InData(last, f, U, s, a),
           state = "DataHigh", Receive
    PROVE  \/ Idle'
           \/ FrameData' = <<>> /\ BetweenAccesses(S, last, f, U)'
           \/ FrameData' = <<>> /\ InAccess(S, last, f, U, s, a + 2)'
<1> DEFINE v == SentValue(value)
           e == last[s]
           rest == AccessData(a + 2, e, v, f[U])
           P == Covered(U, last)
           updated == SetUint16(dataBuffer, a, v[a])
<1>1. /\ IsPlace(S, last, U, s, a)
      /\ Clean(protocolSyncByteCount, tcp)
      /\ AgreesBut(dataBuffer, value, P \cup (a..e))
  BY DEF InAccess
<1>2. /\ s \in Nat /\ e \in Nat /\ a \in Nat /\ s <= a /\ a <= e /\ a % 2 = 0 /\ e % 2 = 0
      /\ a \in Word /\ a \in Addresses /\ e - a + 2 \in Word
      /\ e <= EndOfUpdate /\ (a = EndOfUpdate => s = EndOfUpdate)
      /\ s = EndOfUpdate => e = EndOfUpdate /\ U = {}
      /\ s # EndOfUpdate => EndOfUpdate \in U
      /\ U \in SUBSET S /\ f[U] \in Seq(Byte) /\ f[{}] = <<>>
      /\ \A b \in EvenFrom(a, e) : v[b] \in Word
  BY <1>1, PlaceIs
<1>3. /\ protocolAddressBuffer = a /\ protocolCountBuffer = e - a + 1
      /\ Lo(protocolDataBuffer) = Lo(v[a])
      /\ tcp = FromHighByte(a, e, v, f[U])
  BY DEF InData
<1>4. IsDataBuffer(dataBuffer) /\ value \in [Addresses -> Word \cup {Unset}]
  BY DEF ParserTypeOK, ExporterOK, ExporterState
<1>5. AgreesBut(updated, value, P \cup (a + 2..e)) /\ IsDataBuffer(updated)
  BY <1>1, <1>2, <1>4, StoredAgrees
<1> HIDE DEF v, e
<1>6. /\ rest \in Seq(Byte) /\ v[a] \in Word /\ Lo(v[a]) \in Byte /\ Hi(v[a]) \in Byte
      /\ a = e => rest = f[U]
      /\ FromHighByte(a, e, v, f[U]) = <<Hi(v[a])>> \o rest
  <2>1. /\ AccessData(a + 2, e, v, f[U]) \in Seq(Byte)
        /\ v[a] \in Word /\ Lo(v[a]) \in Byte /\ Hi(v[a]) \in Byte
    BY <1>2, DataIs
  <2>2. a = e => AccessData(a + 2, e, v, f[U]) = f[U]
    <3>1. DataBytes(e + 2, e, v) = <<>>
      BY <1>2, DataBytesEnd
    <3>2. <<>> \o f[U] = f[U]
      BY <1>2
    <3> QED
      BY <3>1, <3>2 DEF AccessData
  <2>3. StartsWith(FromHighByte(a, e, v, f[U]), Hi(v[a]), AccessData(a + 2, e, v, f[U]))
    BY <1>2, DataIs
  <2> QED
    BY <2>1, <2>2, <2>3 DEF StartsWith
<1> HIDE DEF P, rest
<1>7. /\ tcp' = rest /\ ProcessByte(Hi(v[a])) /\ ~Synchronises(Hi(v[a]))
      /\ UNCHANGED <<exporterVars, connected, faults>>
      /\ Clean(protocolSyncByteCount, tcp)'
      /\ rest = <<>> => protocolSyncByteCount' = 0
  BY <1>1, <1>3, <1>6, ReceiveCleanByte
<1>8. MakeWord(Lo(protocolDataBuffer), Hi(v[a])) = v[a]
  BY <1>3, <1>6, Halves
<1>9. /\ \/ a = EndOfUpdate /\ FrameData' = <<updated>> /\ dataBuffer' = ClearDirtyFlags(updated)
         \/ a # EndOfUpdate /\ FrameData' = <<>> /\ dataBuffer' = updated
      /\ protocolCountBuffer' = Plus16(protocolCountBuffer, -1)
      /\ protocolAddressBuffer' = Plus16(a, 2)
      /\ state' = IF protocolCountBuffer' = 0 THEN "AddressLow" ELSE "DataLow"
  BY <1>3, <1>7, <1>8 DEF ProcessByte, Goto, WaitForSync, AddressLow, AddressHigh, CountLow,
     CountHigh, DataLow, DataHigh
<1> HIDE DEF updated
<1>10. protocolCountBuffer' = e - a
  <2>1. WordMax \in Nat /\ e - a + 2 \in 0..WordMax
    BY <1>2, Numbers DEF Word
  <2> DEFINE x == (e - a + 1) + -1
  <2>2. x \in 0..WordMax /\ x = e - a
    BY <1>2, <2>1
  <2>3. x % (WordMax + 1) = x
    <3> HIDE DEF x
    <3> QED
      BY <2>1, <2>2, SmallRemainder
  <2> QED
    BY <1>3, <1>9, <2>2, <2>3 DEF Plus16
<1>11. value' = value /\ SentValue(value)' = v
  BY <1>7 DEF v, SentValue, exporterVars
<1>12. CASE a = EndOfUpdate
  <2>1. e = a /\ U = {} /\ rest = <<>>
    BY <1>2, <1>6, <1>12
  <2>2. protocolCountBuffer' = 0 /\ state' = "AddressLow"
    BY <1>2, <1>9, <1>10, <2>1
  <2>3. P \cup (a + 2..e) = {}
    <3>1. a + 2..e = {}
      BY <1>2, <2>1
    <3> QED
      BY <2>1, <3>1 DEF P, Covered
  <2>4. AgreesBut(updated, value, {}) /\ AgreesBut(ClearDirtyFlags(updated), value, {})
    BY <1>5, <2>3, ClearedAgrees
  <2>5. FrameData' = <<updated>> /\ dataBuffer' = ClearDirtyFlags(updated)
    BY <1>9, <1>12
  <2>6. <<updated>>[1] = updated
    OBVIOUS
  <2>7. AgreesBut(dataBuffer', value', {}) /\ AgreesBut(FrameData'[1], value', {})
    BY <1>11, <2>4, <2>5, <2>6
  <2> QED
    BY <1>7, <2>1, <2>2, <2>7 DEF Idle, AgreesBut
<1>13. CASE a # EndOfUpdate
  <2>1. FrameData' = <<>> /\ dataBuffer' = updated
    BY <1>9, <1>13
  <2>2. AgreesBut(dataBuffer', value', P \cup (a + 2..e))
    BY <1>5, <1>11, <2>1
  <2>3. s # EndOfUpdate /\ EndOfUpdate \in U
    <3>1. s = EndOfUpdate => a = EndOfUpdate
      BY <1>2
    <3> QED
      BY <1>2, <1>13, <3>1
  <2>4. CASE a = e
    <3>1. state' = "AddressLow" /\ tcp' = f[U]
      BY <1>2, <1>6, <1>7, <1>9, <1>10, <2>4
    <3>2. a + 2..e = {}
      BY <1>2, <2>4
    <3>3. AgreesBut(dataBuffer', value', P)
      BY <2>2, <3>2
    <3>4. AgreesBut(dataBuffer, value, Covered(U, last))'
      BY <3>3 DEF AgreesBut, Covered, P
    <3> QED
      BY <1>2, <1>7, <2>1, <2>3, <3>1, <3>4 DEF BetweenAccesses
  <2>5. CASE a # e
    <3>1. a + 2 <= e
      BY <1>2, <2>5
    <3>2. state' = "DataLow"
      <4>1. e - a # 0
        BY <1>2, <2>5
      <4> QED
        BY <1>9, <1>10, <4>1
    <3>3. protocolAddressBuffer' = a + 2
      <4>1. WordMax \in Nat /\ e \in 0..WordMax
        BY <1>2, AddressesAre, Numbers
      <4> DEFINE x == a + 2
      <4>2. x \in 0..WordMax
        BY <1>2, <3>1, <4>1
      <4>3. x % (WordMax + 1) = x
        <5> HIDE DEF x
        <5> QED
          BY <4>1, <4>2, SmallRemainder
      <4> QED
        BY <1>9, <4>3 DEF Plus16
    <3>4. protocolCountBuffer' = e - (a + 2) + 2
      BY <1>2, <1>10
    <3>5. IsPlace(S, last, U, s, a + 2)
      <4>1. a + 2 \in EvenFrom(s, last[s])
        BY <1>2, <3>1 DEF EvenFrom, e
      <4> QED
        BY <1>1, <4>1 DEF IsPlace
    <3>6. InData(last, f, U, s, a + 2)'
      <4>1. tcp' = AccessData(a + 2, e, v, f[U])
        BY <1>7 DEF rest
      <4> QED
        BY <1>11, <3>2, <3>3, <3>4, <4>1 DEF InData, AccessData, DataBytes, e
    <3>7. AgreesBut(dataBuffer, value, Covered(U, last) \cup (a + 2..last[s]))'
      BY <2>2 DEF AgreesBut, Covered, P, e
    <3>8. IsPlace(S, last, U, s, a + 2)'
      BY <3>5 DEF IsPlace, EvenFrom
    <3> QED
      BY <1>7, <2>1, <3>6, <3>7, <3>8 DEF InAccess
  <2> QED
    BY <2>4, <2>5
<1> QED
  BY <1>12, <1>13

LEMMA ReceiveKeeps == ASSUME StreamOK, Receive PROVE StreamOK'
<1>1. /\ ParserTypeOK /\ ExporterOK /\ connected \in BOOLEAN /\ tcp \in Seq(Byte)
      /\ ~connected => tcp = <<>> /\ dataBuffer = Empty
      /\ Idle \/ InTransit
  BY DEF StreamOK
<1>2. /\ tcp # <<>> /\ ProcessByte(Head(tcp)) /\ tcp' = Tail(tcp)
      /\ UNCHANGED <<exporterVars, connected, faults>>
  BY DEF Receive
<1>3. Head(tcp) \in Byte /\ tcp' \in Seq(Byte)
  BY <1>1, <1>2
<1>4. ParserTypeOK'
  BY <1>1, <1>2, <1>3, ProcessByteKeeps
<1>5. connected = TRUE /\ connected' = TRUE
  BY <1>1, <1>2
<1>6. ExporterOK'
  BY <1>1, <1>2 DEF ExporterOK, ExporterState, exporterVars
<1>7. InTransit
  BY <1>1, <1>2 DEF Idle
<1>8. PICK S, last, f : Update(S, last, f, value) /\ InUpdate(S, last, f)
  BY <1>7 DEF InTransit
<1>9. FrameData = <<>>
  BY <1>7 DEF InTransit
<1>10. Update(S, last, f, value')
  BY <1>2, <1>8 DEF exporterVars
<1>11. ASSUME FrameData' = <<>>, InUpdate(S, last, f)' PROVE InTransit'
  <2>1. Update(S, last, f, value)'
    BY <1>10 DEF Update, IsAccess, Joins, EvenFrom, WriteAccess, WordBytes, DataBytes, Lo, Hi, SentValue
  <2> QED
    BY <1>5, <1>11, <2>1 DEF InTransit
<1>12. Idle' \/ (FrameData' = <<>> /\ InUpdate(S, last, f)')
  <2>1. CASE InSync(S, last, f)
    <3>1. InSync(S, last, f)' \/ BetweenAccesses(S, last, f, S)'
      BY <1>1, <1>8, <1>9, <2>1, SyncByteReceived
    <3>2. FrameData' = <<>>
      <4>1. state # "DataHigh"
        BY <2>1 DEF InSync
      <4> QED
        BY <1>2, <1>9, <4>1 DEF ProcessByte, WaitForSync, AddressLow, AddressHigh, CountLow,
           CountHigh, DataLow, DataHigh
    <3> QED
      BY <3>1, <3>2 DEF InUpdate
  <2>2. ASSUME NEW T, BetweenAccesses(S, last, f, T) PROVE FrameData' = <<>> /\ InUpdate(S, last, f)'
    <3>1. \E U, s, a : InAccess(S, last, f, U, s, a)'
      BY <1>1, <1>2, <1>8, <2>2, AccessBegins
    <3>2. FrameData' = <<>>
      <4>1. state # "DataHigh"
        BY <2>2 DEF BetweenAccesses
      <4> QED
        BY <1>2, <1>9, <4>1 DEF ProcessByte, WaitForSync, AddressLow, AddressHigh, CountLow,
           CountHigh, DataLow, DataHigh
    <3> QED
      BY <3>1, <3>2 DEF InUpdate
  <2>3. ASSUME NEW U, NEW s, NEW a, InAccess(S, last, f, U, s, a)
        PROVE  Idle' \/ (FrameData' = <<>> /\ InUpdate(S, last, f)')
    <3>1. CASE a = s /\ InHeader(last, f, U, s)
      <4>1. InAccess(S, last, f, U, s, s)'
        BY <1>1, <1>8, <2>3, <3>1, HeaderContinues
      <4>2. FrameData' = <<>>
        <5>1. state # "DataHigh"
          BY <3>1 DEF InHeader
        <5> QED
          BY <1>2, <1>9, <5>1 DEF ProcessByte, WaitForSync, AddressLow, AddressHigh, CountLow,
             CountHigh, DataLow, DataHigh
      <4> QED
        BY <4>1, <4>2 DEF InUpdate
    <3>2. CASE InData(last, f, U, s, a) /\ state = "DataLow"
      <4>1. InAccess(S, last, f, U, s, a)'
        BY <1>1, <1>8, <2>3, <3>2, LowByteReceived
      <4>2. FrameData' = <<>>
        BY <1>2, <1>9, <3>2 DEF ProcessByte, WaitForSync, AddressLow, AddressHigh, CountLow,
           CountHigh, DataLow, DataHigh
      <4> QED
        BY <4>1, <4>2 DEF InUpdate
    <3>3. CASE InData(last, f, U, s, a) /\ state = "DataHigh"
      <4>1. \/ Idle'
            \/ FrameData' = <<>> /\ BetweenAccesses(S, last, f, U)'
            \/ FrameData' = <<>> /\ InAccess(S, last, f, U, s, a + 2)'
        BY <1>1, <1>8, <1>9, <2>3, <3>3, HighByteReceived
      <4> QED
        BY <4>1 DEF InUpdate
    <3>4. InData(last, f, U, s, a) => state \in {"DataLow", "DataHigh"}
      BY DEF InData
    <3>5. (a = s /\ InHeader(last, f, U, s)) \/ InData(last, f, U, s, a)
      BY <2>3 DEF InAccess
    <3> QED
      BY <3>1, <3>2, <3>3, <3>4, <3>5
  <2> QED
    BY <1>8, <2>1, <2>2, <2>3 DEF InUpdate
<1> QED
  BY <1>3, <1>4, <1>5, <1>6, <1>11, <1>12 DEF StreamOK

-----------------------------------------------------------------------------
(***************************************************************************)
(* An exported frame is an update.                                         *)
(***************************************************************************)
LEMMA MapsAre == IsMap(StartAddresses) /\ IsMap(ModuleAddresses) /\ IsMap({EndOfUpdate})
<1>1. EndOfUpdate \in Nat /\ EndOfUpdate % 2 = 0 /\ EndOfUpdate = WordMax - 1 /\ WordMax \in Nat
  BY AddressesAre, Numbers
<1>2. \A a \in Addresses : a \in Word /\ a \in Nat /\ a <= EndOfUpdate /\ a % 2 = 0
  BY AddressesAre
<1>3. ASSUME NEW map \in {StartAddresses, ModuleAddresses} PROVE IsMap(map)
  <2>1. \A a \in map : a \in Known
    BY DEF Known
  <2>2. \A a \in map : a \in Addresses /\ a # EndOfUpdate
    BY <2>1, AddressesAre
  <2>3. map \in SUBSET {a \in Word : a % 2 = 0}
    BY <1>2, <2>2
  <2>4. ASSUME NEW a \in map, NEW b \in map, a <= b PROVE b - a + 2 \in Word
    <3>1. /\ a \in Nat /\ b \in Nat /\ b <= EndOfUpdate /\ b # EndOfUpdate /\ b % 2 = 0
      BY <1>2, <2>2
    <3>2. b + 2 <= EndOfUpdate
      BY <1>1, <3>1
    <3> QED
      BY <1>1, <2>4, <3>1, <3>2 DEF Word
  <2>5. \A a, b \in map : \A c \in a..b : c % 2 = 0 => c \in map
    BY ExporterAssumption
  <2> QED
    BY <2>3, <2>4, <2>5 DEF IsMap
<1>4. IsMap({EndOfUpdate})
  <2>1. EndOfUpdate \in Word
    BY AddressesAre
  <2>2. \A c \in EndOfUpdate..EndOfUpdate : c = EndOfUpdate
    BY <1>1
  <2>3. EndOfUpdate - EndOfUpdate + 2 \in Word
    <3>1. WordMax > 2
      BY SMT DEF WordMax, Base
    <3> QED
      BY <1>1, <3>1 DEF Word
  <2> QED
    BY <1>1, <2>1, <2>2, <2>3 DEF IsMap
<1> QED
  BY <1>3, <1>4

\* flushData of a map with the dirty words D.
Flush1(D, v) == IF D = {} THEN <<>> ELSE WriteAccesses(D, v)

LEMMA FlushJoins ==
    ASSUME NEW map, IsMap(map), NEW D \in SUBSET map, NEW v, \A a \in map : v[a] \in Word
    PROVE  \E f : Joins(f, Starts(D, v), AccessBytes(D, v)) /\ Flush1(D, v) = f[Starts(D, v)]
<1>1. PICK f : Joins(f, Starts(D, v), AccessBytes(D, v)) /\ WriteAccesses(D, v) = f[Starts(D, v)]
  BY WriteAccessesJoin
<1>2. CASE D = {}
  <2>1. Starts(D, v) = {}
    BY <1>2 DEF Starts
  <2>2. f[{}] = <<>>
    BY <1>1 DEF Joins
  <2> QED
    BY <1>1, <1>2, <2>1, <2>2 DEF Flush1
<1>3. CASE D # {}
  BY <1>1, <1>3 DEF Flush1
<1> QED
  BY <1>2, <1>3

LEMMA JoinsSame ==
    ASSUME NEW D \in SUBSET Nat, NEW w, NEW u, NEW f, Joins(f, D, w), \A s \in D : w[s] = u[s]
    PROVE  Joins(f, D, u)
<1>1. \A T \in SUBSET D : T # {} => Min(T) \in D
  BY MinIs
<1> QED
  BY <1>1 DEF Joins

\* What a map contributes to the update.
LEMMA MapAccesses ==
    ASSUME NEW map, IsMap(map), map \subseteq Addresses,
           NEW D \in SUBSET map, NEW v, \A a \in map : v[a] \in Word,
           NEW s \in Starts(D, v)
    PROVE  /\ s \in map /\ s \in Word /\ Lasts(D, v)[s] \in map
           /\ IsAccess(s, Lasts(D, v)[s], v)
           /\ EvenFrom(s, Lasts(D, v)[s]) \subseteq Addresses
<1> DEFINE e == Lasts(D, v)[s]
<1>1. e \in D /\ IsAccess(s, e, v)
  BY LastOfAccessIs
<1>2. s \in map /\ e \in map
  BY <1>1 DEF Starts
<1> HIDE DEF e
<1>3. EvenFrom(s, e) \subseteq Addresses
  <2>1. \A c \in s..e : c % 2 = 0 => c \in map
    BY <1>2 DEF IsMap
  <2> QED
    BY <2>1 DEF EvenFrom
<1> QED
  BY <1>1, <1>2, <1>3 DEF e, IsAccess

\* The write accesses of a frame.
Accesses(D1, D2, v) == (Flush1(D1, v) \o Flush1(D2, v)) \o Flush1({EndOfUpdate}, v)

IsUpdateOf(S, last, f, vals, D1, D2) ==
    /\ Update(S, last, f, vals)
    /\ f[S] = Accesses(D1, D2, SentValue(vals))
    /\ D1 \cup D2 \cup {EndOfUpdate} \subseteq Covered(S, last)

LEMMA UpdateIs ==
    ASSUME NEW vals \in [Addresses -> Word \cup {Unset}],
           NEW D1 \in SUBSET StartAddresses, NEW D2 \in SUBSET ModuleAddresses
    PROVE  \E S, last, f : IsUpdateOf(S, last, f, vals, D1, D2)
<1> DEFINE v == SentValue(vals)
           D3 == {EndOfUpdate}
           S1 == Starts(D1, v)
           S2 == Starts(D2, v)
           S3 == Starts(D3, v)
           S == (S1 \cup S2) \cup S3
           last == [s \in S |-> IF s \in S1 THEN Lasts(D1, v)[s]
                                ELSE IF s \in S2 THEN Lasts(D2, v)[s]
                                ELSE Lasts(D3, v)[s]]
           w == [s \in S |-> WriteAccess(s, last[s], v)]
<1>1. \A a \in Addresses : v[a] \in Word
  BY SentIs
<1>2. /\ IsMap(StartAddresses) /\ StartAddresses \subseteq Addresses
      /\ IsMap(ModuleAddresses) /\ ModuleAddresses \subseteq Addresses
      /\ IsMap({EndOfUpdate}) /\ {EndOfUpdate} \subseteq Addresses
  BY MapsAre, AddressesAre DEF Addresses
<1> HIDE DEF v
<1>3. /\ \A a \in StartAddresses : v[a] \in Word
      /\ \A a \in ModuleAddresses : v[a] \in Word
      /\ \A a \in {EndOfUpdate} : v[a] \in Word
  BY <1>1, <1>2
<1>4. \A s \in S1 : /\ s \in StartAddresses /\ s \in Word /\ Lasts(D1, v)[s] \in StartAddresses
                    /\ IsAccess(s, Lasts(D1, v)[s], v)
                    /\ EvenFrom(s, Lasts(D1, v)[s]) \subseteq Addresses
  BY <1>2, <1>3, MapAccesses
<1>5. \A s \in S2 : /\ s \in ModuleAddresses /\ s \in Word /\ Lasts(D2, v)[s] \in ModuleAddresses
                    /\ IsAccess(s, Lasts(D2, v)[s], v)
                    /\ EvenFrom(s, Lasts(D2, v)[s]) \subseteq Addresses
  BY <1>2, <1>3, MapAccesses
<1>6. \A s \in S3 : /\ s \in {EndOfUpdate} /\ s \in Word /\ Lasts(D3, v)[s] \in {EndOfUpdate}
                    /\ IsAccess(s, Lasts(D3, v)[s], v)
                    /\ EvenFrom(s, Lasts(D3, v)[s]) \subseteq Addresses
  <2>1. D3 \in SUBSET {EndOfUpdate}
    OBVIOUS
  <2> HIDE DEF D3
  <2> QED
    BY <1>2, <1>3, <2>1, MapAccesses
<1>7. PICK f1 : Joins(f1, S1, AccessBytes(D1, v)) /\ Flush1(D1, v) = f1[S1]
  BY <1>2, <1>3, FlushJoins
<1>8. PICK f2 : Joins(f2, S2, AccessBytes(D2, v)) /\ Flush1(D2, v) = f2[S2]
  BY <1>2, <1>3, FlushJoins
<1>9. PICK f3 : Joins(f3, S3, AccessBytes(D3, v)) /\ Flush1(D3, v) = f3[S3]
  BY <1>2, <1>3, FlushJoins
<1>10. /\ \A s \in S1 : AccessBytes(D1, v)[s] = WriteAccess(s, Lasts(D1, v)[s], v)
       /\ \A s \in S2 : AccessBytes(D2, v)[s] = WriteAccess(s, Lasts(D2, v)[s], v)
       /\ \A s \in S3 : AccessBytes(D3, v)[s] = WriteAccess(s, Lasts(D3, v)[s], v)
  BY DEF AccessBytes
<1>11. EndOfUpdate \in S3
  <2>1. EndOfUpdate \in Nat /\ ~(EndOfUpdate < EndOfUpdate)
    BY AddressesAre
  <2> QED
    BY <2>1 DEF Starts, StartsWriteAccess
<1>12. \A a \in D1 : \E s \in S1 : s <= a /\ a <= Lasts(D1, v)[s]
  BY <1>2, <1>3, DirtyIsCovered
<1>13. \A a \in D2 : \E s \in S2 : s <= a /\ a <= Lasts(D2, v)[s]
  BY <1>2, <1>3, DirtyIsCovered
<1> HIDE DEF S1, S2, S3
<1>14. S1 \cap S2 = {} /\ S1 \cap S3 = {} /\ S2 \cap S3 = {}
  BY <1>4, <1>5, <1>6, AddressesAre DEF Known
<1>15. /\ \A s \in S1 : s \in S /\ last[s] = Lasts(D1, v)[s]
       /\ \A s \in S2 : s \in S /\ last[s] = Lasts(D2, v)[s]
       /\ \A s \in S3 : s \in S /\ last[s] = Lasts(D3, v)[s]
  BY <1>14
<1>16. \A s \in S : /\ IsAccess(s, last[s], v) /\ EvenFrom(s, last[s]) \subseteq Addresses
                    /\ s \in Word /\ s \in Nat
  BY <1>4, <1>5, <1>6, <1>15, AddressesAre
<1>17. \A s \in S : w[s] = WriteAccess(s, last[s], v) /\ w[s] \in Seq(Byte)
  <2>1. ASSUME NEW s \in S PROVE w[s] = WriteAccess(s, last[s], v) /\ w[s] \in Seq(Byte)
    <3> HIDE DEF last
    <3>1. IsAccess(s, last[s], v)
      BY <1>16
    <3>2. <<>> \in Seq(Byte)
      OBVIOUS
    <3>3. WriteAccess(s, last[s], v) \in Seq(Byte)
      BY <3>1, <3>2, WriteAccessIs
    <3> QED
      BY <3>3
  <2> QED
    BY <2>1
<1>18. /\ \A s \in S1 : AccessBytes(D1, v)[s] = w[s]
       /\ \A s \in S2 : AccessBytes(D2, v)[s] = w[s]
       /\ \A s \in S3 : AccessBytes(D3, v)[s] = w[s]
  BY <1>10, <1>15, <1>17
<1> HIDE DEF last, w
<1>19. S1 \in SUBSET Nat /\ S2 \in SUBSET Nat /\ S3 \in SUBSET Nat /\ S1 \cup S2 \in SUBSET Nat
  BY <1>16
<1>20. Joins(f1, S1, w) /\ Joins(f2, S2, w) /\ Joins(f3, S3, w)
  BY <1>7, <1>8, <1>9, <1>18, <1>19, JoinsSame
<1>21. PICK g : Joins(g, S1 \cup S2, w) /\ Follows(f1[S1], f2[S2], g[S1 \cup S2])
  <2>1. \A s \in S1 \cup S2 : w[s] \in Seq(Byte)
    BY <1>17
  <2>2. \A s \in S1, t \in S2 : s < t
    BY <1>4, <1>5, ExporterAssumption
  <2> QED
    BY <1>19, <1>20, <2>1, <2>2, JoinsInARow
<1>22. PICK f : Joins(f, S, w) /\ Follows(g[S1 \cup S2], f3[S3], f[S])
  <2>1. \A s \in (S1 \cup S2) \cup S3 : w[s] \in Seq(Byte)
    BY <1>17
  <2>2. \A s \in S1 \cup S2, t \in S3 : s < t
    <3>1. \A s \in S1 \cup S2 : s \in Known
      BY <1>4, <1>5 DEF Known
    <3>2. \A s \in S1 \cup S2 : s \in Nat /\ s <= EndOfUpdate /\ s # EndOfUpdate
      BY <3>1, AddressesAre
    <3>3. EndOfUpdate \in Nat
      BY AddressesAre
    <3>4. \A s \in S1 \cup S2 : s < EndOfUpdate
      BY <3>2, <3>3
    <3> QED
      BY <1>6, <3>4
  <2> QED
    BY <1>19, <1>20, <1>21, <2>1, <2>2, JoinsInARow
<1>23. Update(S, last, f, vals)
  <2>1. last[EndOfUpdate] = EndOfUpdate /\ EndOfUpdate \in S
    BY <1>6, <1>11, <1>15
  <2>2. ASSUME NEW s \in S, s # EndOfUpdate PROVE last[s] < EndOfUpdate
    <3>1. last[s] \in Known
      BY <1>4, <1>5, <1>6, <1>15, <2>2 DEF Known
    <3>2. last[s] \in Nat /\ last[s] <= EndOfUpdate /\ last[s] # EndOfUpdate /\ EndOfUpdate \in Nat
      BY <3>1, AddressesAre
    <3> QED
      BY <3>2
  <2>3. w = [s \in S |-> WriteAccess(s, last[s], SentValue(vals))]
    BY DEF w, v
  <2>4. \A s \in S : IsAccess(s, last[s], SentValue(vals)) /\ EvenFrom(s, last[s]) \subseteq Addresses
    BY <1>16 DEF v
  <2>5. S \in SUBSET Word
    BY <1>16
  <2> HIDE DEF S
  <2> QED
    BY <1>22, <2>1, <2>2, <2>3, <2>4, <2>5 DEF Update
<1>24. f[S] = Accesses(D1, D2, v)
  BY <1>7, <1>8, <1>9, <1>21, <1>22 DEF Follows, Accesses
<1>25. D1 \cup D2 \cup {EndOfUpdate} \subseteq Covered(S, last)
  <2>1. ASSUME NEW a \in D1 \cup D2 PROVE a \in Covered(S, last)
    <3>1. PICK s \in S : s <= a /\ a <= last[s]
      BY <1>12, <1>13, <1>15
    <3>2. a \in Addresses
      BY <1>2
    <3>3. a \in s..last[s]
      <4>1. a \in Int /\ s \in Int
        BY <1>16, <3>2, AddressesAre
      <4> QED
        BY <3>1, <4>1
    <3> QED
      BY <3>3 DEF Covered
  <2>2. EndOfUpdate \in Covered(S, last)
    <3>1. EndOfUpdate \in S /\ last[EndOfUpdate] = EndOfUpdate
      BY <1>6, <1>11, <1>15
    <3>2. EndOfUpdate \in EndOfUpdate..last[EndOfUpdate]
      BY <3>1, AddressesAre
    <3> QED
      BY <3>1, <3>2 DEF Covered
  <2> QED
    BY <2>1, <2>2
<1> HIDE DEF S
<1>26. IsUpdateOf(S, last, f, vals, D1, D2)
  BY <1>23, <1>24, <1>25 DEF v, IsUpdateOf
<1> QED
  BY <1>26
-----------------------------------------------------------------------------
\* Autosync stays within a map.
LEMMA NextInMap ==
    ASSUME NEW map, IsMap(map), NEW a \in map, NEW m \in DOMAIN MapAddresses,
           MapAddresses[m] = map
    PROVE  NextPosition(m, a) \in map
<1>1. WordMax \in Nat /\ map \in SUBSET (0..WordMax) /\ map \in SUBSET Nat /\ map # {}
  BY Numbers DEF IsMap, Word
<1>2. Min(map) \in map /\ Max(map) \in map
  BY <1>1, MinIs, MaxIs
<1>3. CASE a + 2 > Max(map)
  BY <1>2, <1>3 DEF NextPosition
<1>4. CASE ~(a + 2 > Max(map))
  <2>1. a \in Nat /\ Max(map) \in Nat /\ a % 2 = 0
    BY <1>1, <1>2 DEF IsMap
  <2>2. a + 2 \in a..Max(map) /\ (a + 2) % 2 = 0
    <3> HIDE DEF Max
    <3> QED
      BY <1>4, <2>1
  <2>3. a + 2 \in map
    BY <1>2, <2>2 DEF IsMap
  <2> QED
    BY <1>4, <2>3 DEF NextPosition
<1> QED
  BY <1>3, <1>4

LEMMA MapNames ==
    /\ DOMAIN MapAddresses = {"start", "module", "end"}
    /\ MapAddresses["start"] = StartAddresses
    /\ MapAddresses["module"] = ModuleAddresses
    /\ MapAddresses["end"] = {EndOfUpdate}
    /\ \A m \in DOMAIN MapAddresses : IsMap(MapAddresses[m])
<1>1. /\ DOMAIN MapAddresses = {"start", "module", "end"}
      /\ MapAddresses["start"] = StartAddresses
      /\ MapAddresses["module"] = ModuleAddresses
      /\ MapAddresses["end"] = {EndOfUpdate}
  BY DEF MapAddresses, EndAddresses
<1> QED
  BY <1>1, MapsAre

LEMMA VisitsAre ==
    ASSUME ExporterState, NEW m \in DOMAIN MapAddresses, NEW n \in {1, 2}
    PROVE  /\ AutosyncVisits(m, n) # <<>>
           /\ Last(AutosyncVisits(m, n)) \in MapAddresses[m]
           /\ AutosyncVisits(m, n) \in Seq(MapAddresses[m])
           /\ Range(AutosyncVisits(m, n)) # {}
           /\ Range(AutosyncVisits(m, n)) \subseteq MapAddresses[m]
<1> DEFINE map == MapAddresses[m]
           p == NextPosition(m, autosyncPosition[m])
           q == NextPosition(m, p)
<1>1. autosyncPosition[m] \in map /\ IsMap(map)
  BY MapNames DEF ExporterState
<1>2. p \in map
  BY <1>1, NextInMap
<1>3. q \in map
  BY <1>1, <1>2, NextInMap
<1>4. AutosyncVisits(m, n) = IF n = 1 THEN <<p>> ELSE <<p, q>>
  BY DEF AutosyncVisits
<1> HIDE DEF map, p, q
<1>5. /\ <<p>> # <<>> /\ Last(<<p>>) = p /\ <<p>> \in Seq(map) /\ Range(<<p>>) = {p}
      /\ <<p, q>> # <<>> /\ Last(<<p, q>>) = q /\ <<p, q>> \in Seq(map) /\ Range(<<p, q>>) = {p, q}
  BY <1>2, <1>3 DEF Last, Range
<1> QED
  BY <1>2, <1>3, <1>4, <1>5 DEF map

LEMMA AutosyncPositions ==
    ASSUME ExporterState, NEW acft
    PROVE  /\ \A m \in DOMAIN MapAddresses : AutosyncSteps(acft)[m] # <<>>
                  => Last(AutosyncSteps(acft)[m]) \in MapAddresses[m]
           /\ \A m \in DOMAIN MapAddresses : Range(AutosyncSteps(acft)[m]) \subseteq MapAddresses[m]
           /\ acft = "NONE" => Range(AutosyncSteps(acft)["module"]) = {}
           /\ EndOfUpdate \in Range(AutosyncSteps(acft)["end"])
<1>1. /\ DOMAIN MapAddresses = {"start", "module", "end"}
      /\ MapAddresses["end"] = {EndOfUpdate}
  BY MapNames
<1>2. ASSUME NEW m \in {"start", "module", "end"}
      PROVE  AutosyncSteps(acft)[m] \in {<<>>, AutosyncVisits(m, 1), AutosyncVisits(m, 2)}
  BY <1>1, <1>2 DEF AutosyncSteps
<1>3. Range(<<>>) = {}
  BY DEF Range
<1>4. AutosyncSteps(acft)["end"] = AutosyncVisits("end", 1)
  BY <1>1 DEF AutosyncSteps
<1>5. acft = "NONE" => AutosyncSteps(acft)["module"] = <<>>
  BY <1>1 DEF AutosyncSteps
<1>6. ASSUME NEW m \in DOMAIN MapAddresses
      PROVE  /\ AutosyncSteps(acft)[m] # <<>> => Last(AutosyncSteps(acft)[m]) \in MapAddresses[m]
             /\ Range(AutosyncSteps(acft)[m]) \subseteq MapAddresses[m]
  BY <1>1, <1>2, <1>3, VisitsAre
<1>7. EndOfUpdate \in Range(AutosyncVisits("end", 1))
  BY <1>1, VisitsAre
<1> QED
  BY <1>3, <1>4, <1>5, <1>6, <1>7
-----------------------------------------------------------------------------
LEMMA ValuesForTyped ==
    ASSUME ExporterState, NEW acft
    PROVE  /\ ValuesFor(acft) \in [Addresses -> Word \cup {Unset}]
           /\ \A a \in Addresses : ValuesFor(acft)[a] \in {value[a], Unset}
           /\ acft = "NONE" => ValuesFor(acft) = value
BY DEF ExporterState, ValuesFor

LEMMA ValuesAfterTyped ==
    ASSUME ExporterState, NEW acft \in Aircraft, NEW hooks \in HookResults(acft)
    PROVE  /\ ValuesAfter(acft, hooks) \in [Addresses -> Word \cup {Unset}]
           /\ ValuesAfter(acft, hooks)[EndOfUpdate] = MakeWord(NextCounter, updateSkipCounter)
           /\ MakeWord(NextCounter, updateSkipCounter) \in Word
           /\ NextCounter \in Byte
<1>1. NextCounter \in Byte
  <2>1. updateCounter \in Nat /\ CounterModulus \in 2..256
    BY ExporterAssumption DEF ExporterState, Byte
  <2>2. (updateCounter + 1) % CounterModulus \in 0..CounterModulus - 1
    BY <2>1
  <2> QED
    BY <2>1, <2>2 DEF NextCounter, Byte, Base
<1>2. MakeWord(NextCounter, updateSkipCounter) \in Word
  BY <1>1, BytesAndWords DEF ExporterState
<1>3. ASSUME NEW a \in StartAddresses PROVE AircraftName[acft][a] \in Word
  BY ExporterAssumption
<1>4. ASSUME NEW a \in Active(acft) PROVE hooks[a] \in Word \cup {Unset}
  <2>1. acft # "NONE" /\ a \in ModuleAddresses
    BY <1>4 DEF Active
  <2>2. hooks[a] \in HookValues[a] \/ hooks[a] = ValuesFor(acft)[a]
    BY <2>1 DEF HookResults
  <2>3. HookValues[a] \subseteq Word /\ a \in Addresses
    BY <2>1, ExporterAssumption DEF Addresses
  <2> QED
    BY <2>2, <2>3, ValuesForTyped
<1>5. value \in [Addresses -> Word \cup {Unset}]
  BY DEF ExporterState
<1>6. ValuesAfter(acft, hooks) \in [Addresses -> Word \cup {Unset}]
  <2> HIDE DEF NextCounter
  <2> QED
    BY <1>2, <1>3, <1>4, <1>5 DEF ValuesAfter
<1>7. ValuesAfter(acft, hooks)[EndOfUpdate] = MakeWord(NextCounter, updateSkipCounter)
  <2>1. EndOfUpdate \in Addresses /\ EndOfUpdate \notin StartAddresses /\ EndOfUpdate \notin Active(acft)
    BY AddressesAre DEF Known, Active
  <2> QED
    BY <2>1 DEF ValuesAfter
<1> QED
  BY <1>1, <1>2, <1>6, <1>7

\* What is dirty in a frame belongs to the maps that are flushed; the word at
\* 0xFFFE is always among it, and what is not dirty has kept its value.
LEMMA DirtyIs ==
    ASSUME ExporterState, NEW acft \in Aircraft, NEW hooks \in HookResults(acft)
    PROVE  LET D == DirtyInFrame(acft, hooks)
               vals == ValuesAfter(acft, hooks)
           IN  /\ D \subseteq StartAddresses \cup Active(acft) \cup EndAddresses
               /\ EndOfUpdate \in D
               /\ \A a \in Addresses \ D : vals[a] = ValuesFor(acft)[a]
<1> DEFINE D == DirtyInFrame(acft, hooks)
           vals == ValuesAfter(acft, hooks)
           Visited(m) == MadeDirty(AutosyncSteps(acft)[m], vals)
           Changed == {a \in Addresses : vals[a] # ValuesFor(acft)[a]}
           Flushable == StartAddresses \cup Active(acft) \cup EndAddresses
<1>1. D = Changed \cup UNION {Visited(m) : m \in {"start", "module", "end"}}
  BY MapNames DEF DirtyInFrame, ExporterState
<1>2. vals \in [Addresses -> Word \cup {Unset}] /\ vals[EndOfUpdate] \in Word
  BY ValuesAfterTyped
<1>3. Changed \subseteq Flushable
  <2> SUFFICES ASSUME NEW a \in Addresses, a \notin Flushable PROVE vals[a] = ValuesFor(acft)[a]
    OBVIOUS
  <2>1. acft = "NONE"
    BY DEF Active, Addresses
  <2>2. a # EndOfUpdate
    BY DEF EndAddresses
  <2>3. vals[a] = value[a]
    BY <2>2 DEF ValuesAfter
  <2> QED
    BY <2>1, <2>3, ValuesForTyped
<1>4. \A m \in {"start", "module", "end"} : Visited(m) \subseteq Range(AutosyncSteps(acft)[m])
  BY DEF MadeDirty
<1>5. Visited("start") \subseteq Flushable
  BY <1>4, MapNames, AutosyncPositions
<1>6. Visited("end") \subseteq Flushable
  BY <1>4, MapNames, AutosyncPositions DEF EndAddresses
<1>7. Visited("module") \subseteq Flushable
  BY <1>4, MapNames, AutosyncPositions DEF Active
<1>8. D \subseteq Flushable
  <2> HIDE DEF D, Changed, Visited, Flushable
  <2> QED
    BY <1>1, <1>3, <1>5, <1>6, <1>7
<1>9. EndOfUpdate \in Visited("end")
  <2>1. EndOfUpdate \in Range(AutosyncSteps(acft)["end"])
    BY AutosyncPositions
  <2>2. vals[EndOfUpdate] # Unset
    BY <1>2, AddressesAre
  <2> HIDE DEF vals
  <2> QED
    BY <2>1, <2>2 DEF MadeDirty
<1>10. EndOfUpdate \in D
  <2> HIDE DEF D, Changed, Visited
  <2> QED
    BY <1>1, <1>9
<1>11. \A a \in Addresses \ D : vals[a] = ValuesFor(acft)[a]
  <2>1. \A a \in Addresses \ Changed : vals[a] = ValuesFor(acft)[a]
    OBVIOUS
  <2> HIDE DEF D, Changed, Visited, vals
  <2> QED
    BY <1>1, <2>1
<1> QED
  BY <1>8, <1>10, <1>11
-----------------------------------------------------------------------------
LEMMA SyncedBytes ==
    ASSUME NEW r \in Seq(Byte)
    PROVE  SyncSequence \o r = Sync4(r)
<1>1. SyncByte \in Byte /\ <<SyncByte>> \in Seq(Byte)
  BY SyncBytesAre
<1> DEFINE b == <<SyncByte>>
<1>2. SyncSequence = b \o (b \o (b \o b))
  BY <1>1 DEF SyncSequence
<1> HIDE DEF b
<1>3. b \in Seq(Byte)
  BY <1>1 DEF b
<1>4. b \o b \in Seq(Byte) /\ b \o (b \o b) \in Seq(Byte)
  BY <1>3
<1>5. (b \o b) \o r = b \o (b \o r)
  BY <1>3, Bracketed
<1>6. (b \o (b \o b)) \o r = b \o ((b \o b) \o r)
  BY <1>3, <1>4, Bracketed
<1>7. (b \o (b \o (b \o b))) \o r = b \o ((b \o (b \o b)) \o r)
  BY <1>3, <1>4, Bracketed
<1> QED
  BY <1>2, <1>5, <1>6, <1>7 DEF b, Sync1, Sync2, Sync3, Sync4

\* The write accesses of the frame that is exported.
FrameAccesses(acft, hooks) ==
    Accesses(DirtyInFrame(acft, hooks) \cap StartAddresses,
             DirtyInFrame(acft, hooks) \cap Active(acft),
             SentValue(ValuesAfter(acft, hooks)))

\* The frame exported is an update; what it does not cover has kept its value.
LEMMA FrameIs ==
    ASSUME ExporterState, NEW acft \in Aircraft, NEW hooks \in HookResults(acft)
    PROVE  /\ FrameAccesses(acft, hooks) \in Seq(Byte)
           /\ Frame(acft, hooks) = Sync4(FrameAccesses(acft, hooks))
           /\ \E S, last, f :
                 /\ Update(S, last, f, ValuesAfter(acft, hooks))
                 /\ f[S] = FrameAccesses(acft, hooks)
                 /\ DirtyInFrame(acft, hooks) \subseteq Covered(S, last)
<1> DEFINE D == DirtyInFrame(acft, hooks)
           vals == ValuesAfter(acft, hooks)
           v == SentValue(vals)
           D1 == D \cap StartAddresses
           D2 == D \cap Active(acft)
           A == Flush1(D1, v)
           B == Flush1(D2, v)
           C == Flush1({EndOfUpdate}, v)
<1>1. /\ D \subseteq StartAddresses \cup Active(acft) \cup EndAddresses
      /\ EndOfUpdate \in D
  BY DirtyIs
<1>2. vals \in [Addresses -> Word \cup {Unset}]
  BY ValuesAfterTyped
<1>3. D1 \in SUBSET StartAddresses /\ D2 \in SUBSET ModuleAddresses
  BY DEF Active
<1> HIDE DEF D, vals
<1>4. PICK S, last, f : /\ Update(S, last, f, vals)
                        /\ f[S] = Accesses(D1, D2, v)
                        /\ D1 \cup D2 \cup {EndOfUpdate} \subseteq Covered(S, last)
  <2> HIDE DEF D1, D2
  <2>1. \E S, last, f : IsUpdateOf(S, last, f, vals, D1, D2)
    BY <1>2, <1>3, UpdateIs
  <2> QED
    BY <2>1 DEF IsUpdateOf
<1>5. D \subseteq D1 \cup D2 \cup {EndOfUpdate}
  BY <1>1 DEF EndAddresses
<1>6. A \in Seq(Byte) /\ B \in Seq(Byte) /\ C \in Seq(Byte)
  <2>1. \A a \in Addresses : v[a] \in Word
    BY <1>2, SentIs
  <2>2. /\ StartAddresses \subseteq Addresses /\ ModuleAddresses \subseteq Addresses
        /\ {EndOfUpdate} \subseteq Addresses
    BY DEF Addresses, EndAddresses
  <2>3. {EndOfUpdate} \in SUBSET {EndOfUpdate}
    OBVIOUS
  <2> HIDE DEF D1, D2, v
  <2>4. ASSUME NEW map, IsMap(map), map \subseteq Addresses, NEW E \in SUBSET map
        PROVE  Flush1(E, v) \in Seq(Byte)
    <3>1. \A a \in map : v[a] \in Word
      BY <2>1, <2>4
    <3>2. PICK g : Joins(g, Starts(E, v), AccessBytes(E, v)) /\ Flush1(E, v) = g[Starts(E, v)]
      BY <2>4, <3>1, FlushJoins
    <3> QED
      BY <3>2 DEF Joins
  <2>5. A \in Seq(Byte)
    BY <1>3, <2>2, <2>4, MapsAre
  <2>6. B \in Seq(Byte)
    BY <1>3, <2>2, <2>4, MapsAre
  <2>7. C \in Seq(Byte)
    BY <2>2, <2>3, <2>4, MapsAre
  <2> QED
    BY <2>5, <2>6, <2>7
<1>7. FlushData("start", vals, D) = A
  <2>1. MapAddresses["start"] = StartAddresses
    BY MapNames
  <2> QED
    BY <2>1 DEF FlushData, Flush1
<1>8. (IF acft = "NONE" THEN <<>> ELSE FlushData("module", vals, D)) = B
  <2>1. MapAddresses["module"] = ModuleAddresses
    BY MapNames
  <2>2. D \cap {} = {}
    OBVIOUS
  <2> QED
    BY <2>1, <2>2 DEF FlushData, Flush1, Active
<1>9. FlushData("end", vals, D) = C
  <2>1. MapAddresses["end"] = {EndOfUpdate} /\ D \cap {EndOfUpdate} = {EndOfUpdate}
    BY <1>1, MapNames
  <2> QED
    BY <2>1 DEF FlushData, Flush1
<1>10. Frame(acft, hooks) = ((SyncSequence \o A) \o B) \o C
  BY <1>7, <1>8, <1>9 DEF Frame, D, vals
<1>11. FrameAccesses(acft, hooks) = (A \o B) \o C
  BY DEF FrameAccesses, Accesses, D, vals
<1> HIDE DEF A, B, C
<1>12. ((SyncSequence \o A) \o B) \o C = SyncSequence \o ((A \o B) \o C)
  <2>1. SyncSequence \in Seq(Byte)
    <3>1. SyncByte \in Byte
      BY DEF SyncByte, Byte, Base
    <3> QED
      BY <3>1 DEF SyncSequence
  <2>2. A \o B \in Seq(Byte) /\ SyncSequence \o A \in Seq(Byte)
    BY <1>6, <2>1
  <2>3. (SyncSequence \o A) \o B = SyncSequence \o (A \o B)
    BY <1>6, <2>1, Bracketed
  <2>4. (SyncSequence \o (A \o B)) \o C = SyncSequence \o ((A \o B) \o C)
    BY <1>6, <2>1, <2>2, Bracketed
  <2> QED
    BY <2>3, <2>4
<1>13. (A \o B) \o C \in Seq(Byte)
  BY <1>6
<1>14. SyncSequence \o ((A \o B) \o C) = Sync4((A \o B) \o C)
  BY <1>13, SyncedBytes
<1>15. FrameAccesses(acft, hooks) \in Seq(Byte) /\ Frame(acft, hooks) = Sync4(FrameAccesses(acft, hooks))
  BY <1>10, <1>11, <1>12, <1>13, <1>14
<1>16. f[S] = FrameAccesses(acft, hooks)
  BY <1>4 DEF FrameAccesses, D, vals
<1>17. D \subseteq Covered(S, last)
  BY <1>4, <1>5
<1> QED
  BY <1>4, <1>15, <1>16, <1>17 DEF D, vals

\* An update that is on its way has bytes left.
LEMMA TransitHasBytes == ASSUME StreamOK, InTransit PROVE tcp # <<>>
<1>1. PICK S, last, f : Update(S, last, f, value) /\ InUpdate(S, last, f)
  BY DEF InTransit
<1>2. /\ S \in SUBSET Nat
      /\ \A T \in SUBSET S : f[T] \in Seq(Byte)
      /\ \A s \in S : IsAccess(s, last[s], SentValue(value))
  BY <1>1, UpdateBytes
<1>3. \A b \in Byte, r \in Seq(Byte) : <<b>> \o r # <<>>
  BY PrefixedBy
<1> DEFINE v == SentValue(value)
<1>4. CASE InSync(S, last, f)
  <2>1. f[S] \in Seq(Byte)
    BY <1>2
  <2>2. Sync1(f[S]) # <<>> /\ Sync2(f[S]) # <<>> /\ Sync3(f[S]) # <<>> /\ Sync4(f[S]) # <<>>
    BY <1>3, <2>1, SyncBytesAre
  <2> QED
    BY <1>4, <2>2 DEF InSync
<1>5. ASSUME NEW T, BetweenAccesses(S, last, f, T) PROVE tcp # <<>>
  <2>1. T \in SUBSET S /\ T # {} /\ tcp = f[T]
    BY <1>5 DEF BetweenAccesses
  <2> DEFINE m == Min(T)
  <2>2. m \in S /\ f[T \ {m}] \in Seq(Byte)
    BY <1>2, <2>1, MinIs
  <2>3. f[T] = WriteAccess(m, last[m], v) \o f[T \ {m}]
    <3>1. BeginsWith(f, last, value, T, m)
      BY <1>1, <2>1, FirstAccess
    <3> QED
      BY <3>1 DEF BeginsWith
  <2> HIDE DEF m, v
  <2>4. /\ WriteAccess(m, last[m], v) \o f[T \ {m}] = <<Lo(m)>> \o AccessHigh(m, last[m], v, f[T \ {m}])
        /\ AccessHigh(m, last[m], v, f[T \ {m}]) \in Seq(Byte)
    BY <1>2, <2>2, WriteAccessIs DEF v
  <2>5. Lo(m) \in Byte
    BY <1>2, <2>2, BytesAndWords DEF IsAccess
  <2> QED
    BY <1>3, <2>1, <2>3, <2>4, <2>5
<1>6. ASSUME NEW U, NEW s, NEW a, InAccess(S, last, f, U, s, a) PROVE tcp # <<>>
  <2> DEFINE e == last[s]
             r == f[U]
  <2>1. ExporterOK /\ IsPlace(S, last, U, s, a)
    BY <1>6 DEF StreamOK, InAccess
  <2>2. /\ s \in S /\ r \in Seq(Byte) /\ IsAccess(s, e, v)
    BY <1>2, <2>1 DEF IsPlace
  <2>3. /\ e \in Nat /\ a \in Nat /\ a <= e /\ a % 2 = 0 /\ e % 2 = 0 /\ a \in Addresses
        /\ \A b \in EvenFrom(a, e) : v[b] \in Word
    BY <1>1, <2>1, PlaceIs
  <2> HIDE DEF e, r, v
  <2>4. CASE InHeader(last, f, U, s)
    <3>1. /\ AccessData(s, e, v, r) \in Seq(Byte)
          /\ AccessCountHigh(s, e, v, r) \in Seq(Byte)
          /\ AccessCount(s, e, v, r) \in Seq(Byte)
      BY <2>2, WriteAccessIs
    <3>2. Hi(s) \in Byte /\ Lo(e - s + 2) \in Byte /\ Hi(e - s + 2) \in Byte
      BY <2>2, BytesAndWords DEF IsAccess
    <3>3. AccessHigh(s, e, v, r) # <<>> /\ AccessCount(s, e, v, r) # <<>> /\ AccessCountHigh(s, e, v, r) # <<>>
      BY <1>3, <3>1, <3>2, WriteAccessIs DEF AccessHigh, AccessCount, AccessCountHigh
    <3> QED
      BY <2>4, <3>3 DEF InHeader, e, r, v
  <2>5. CASE InData(last, f, U, s, a)
    <3>1. CASE tcp = AccessData(a, e, v, r)
      <4>1. a <= e + 2
        BY <2>3
      <4>2. DataBytes(a, e, v) \in Seq(Byte) /\ Len(DataBytes(a, e, v)) = e - a + 2
        <5>1. \A b \in EvenFrom(a, e) : v[b] \in Word
          BY <2>3
        <5>2. a \in Nat /\ e \in Int /\ a % 2 = 0 /\ e % 2 = 0
          BY <2>3
        <5> QED
          BY <4>1, <5>1, <5>2, DataBytesIs
      <4>3. Len(DataBytes(a, e, v)) > 0
        BY <2>3, <4>2
      <4> DEFINE d == DataBytes(a, e, v)
      <4> HIDE DEF d
      <4>4. d \in Seq(Byte) /\ Len(d) > 0
        BY <4>2, <4>3 DEF d
      <4>5. d \o r # <<>>
        BY <2>2, <4>4
      <4> QED
        BY <3>1, <4>5 DEF AccessData, d
    <3>2. CASE tcp = FromHighByte(a, e, v, r)
      <4>1. a + 2 \in Nat /\ (a + 2) % 2 = 0 /\ a + 2 <= e + 2
        BY <2>3
      <4>2. \A b \in EvenFrom(a + 2, e) : v[b] \in Word
        <5>1. EvenFrom(a + 2, e) \subseteq EvenFrom(a, e)
          BY <2>3 DEF EvenFrom
        <5> QED
          BY <2>3, <5>1
      <4>3. DataBytes(a + 2, e, v) \in Seq(Byte)
        BY <2>3, <4>1, <4>2, DataBytesIs
      <4>4. AccessData(a + 2, e, v, r) \in Seq(Byte)
        BY <2>2, <4>3 DEF AccessData
      <4>5. v[a] \in Word
        <5>1. a \in EvenFrom(a, e)
          BY <2>3 DEF EvenFrom
        <5> QED
          BY <2>3, <5>1
      <4> QED
        BY <1>3, <3>2, <4>4, <4>5, BytesAndWords DEF FromHighByte
    <3> QED
      BY <2>5, <3>1, <3>2 DEF InData, e, r, v
  <2> QED
    BY <1>6, <2>4, <2>5 DEF InAccess
<1> QED
  BY <1>1, <1>4, <1>5, <1>6 DEF InUpdate
-----------------------------------------------------------------------------
(***************************************************************************)
(* The invariant of the stream, step by step.                              *)
(***************************************************************************)
LEMMA CaughtUpIsIdle ==
    ASSUME StreamOK, tcp = <<>>
    PROVE  Idle /\ ParserTypeOK /\ ExporterOK /\ connected \in BOOLEAN
           /\ (~connected => dataBuffer = Empty)
BY TransitHasBytes DEF StreamOK

\* The frame leaves nothing dirty.
LEMMA ExporterKeeps ==
    ASSUME ExporterState, NEW acft \in Aircraft, NEW hooks \in HookResults(acft),
           ExportFrame(acft, hooks)
    PROVE  ExporterState'
<1>1. value' \in [Addresses -> Word \cup {Unset}]
  BY ValuesAfterTyped DEF ExportFrame
<1>2. dirty' = {}
  <2>1. dirty' = DirtyInFrame(acft, hooks) \ (StartAddresses \cup Active(acft) \cup EndAddresses)
    BY DEF ExportFrame
  <2> QED
    BY <2>1, DirtyIs
<1>3. /\ DOMAIN autosyncPosition' = DOMAIN MapAddresses
      /\ \A m \in DOMAIN MapAddresses : autosyncPosition'[m] \in MapAddresses[m]
  <2>1. autosyncPosition' = [m \in DOMAIN MapAddresses |->
            IF AutosyncSteps(acft)[m] = <<>> THEN autosyncPosition[m]
            ELSE Last(AutosyncSteps(acft)[m])]
    BY DEF ExportFrame
  <2>2. \A m \in DOMAIN MapAddresses : autosyncPosition[m] \in MapAddresses[m]
    BY DEF ExporterState
  <2>3. \A m \in DOMAIN MapAddresses : AutosyncSteps(acft)[m] # <<>>
                  => Last(AutosyncSteps(acft)[m]) \in MapAddresses[m]
    BY AutosyncPositions
  <2> QED
    BY <2>1, <2>2, <2>3
<1>4. updateCounter' \in Byte
  BY ValuesAfterTyped DEF ExportFrame
<1>5. updateSkipCounter' \in Byte
  BY DEF ExportFrame, ExporterState
<1> QED
  BY <1>1, <1>2, <1>3, <1>4, <1>5 DEF ExporterState

LEMMA ExportKeeps ==
    ASSUME StreamOK, CaughtUp, NEW acft \in Aircraft, NEW hooks \in HookResults(acft),
           ExportFrame(acft, hooks), FlushSucceeds(msg_buf \o Frame(acft, hooks)),
           UNCHANGED <<parserVars, connected>>,
           Clean(0, FrameAccesses(acft, hooks))
    PROVE  StreamOK'
<1> DEFINE vals == ValuesAfter(acft, hooks)
           bytes == FrameAccesses(acft, hooks)
<1>1. tcp = <<>> /\ FrameData = <<>>
  BY DEF CaughtUp
<1>2. Idle /\ ParserTypeOK /\ ExporterOK /\ connected \in BOOLEAN /\ (~connected => dataBuffer = Empty)
  BY <1>1, CaughtUpIsIdle
<1>3. /\ FrameAccesses(acft, hooks) \in Seq(Byte)
      /\ Frame(acft, hooks) = Sync4(FrameAccesses(acft, hooks))
      /\ \E S, last, f :
                 /\ Update(S, last, f, ValuesAfter(acft, hooks))
                 /\ f[S] = FrameAccesses(acft, hooks)
                 /\ DirtyInFrame(acft, hooks) \subseteq Covered(S, last)
  BY <1>2, FrameIs DEF ExporterOK
<1>4. PICK S, last, f : /\ Update(S, last, f, vals)
                        /\ f[S] = bytes
                        /\ DirtyInFrame(acft, hooks) \subseteq Covered(S, last)
  BY <1>3
<1>5. value' = vals /\ msg_buf' = <<>>
  BY DEF ExportFrame, FlushSucceeds
<1>6. /\ tcp' = IF connected THEN Sync4(bytes) ELSE <<>>
      /\ Sync4(bytes) \in Seq(Byte)
  <2>1. Sync4(bytes) \in Seq(Byte)
    BY <1>3, SyncBytesAre
  <2>2. msg_buf \o Frame(acft, hooks) = Sync4(bytes)
    <3>1. msg_buf = <<>>
      BY <1>2 DEF ExporterOK, ExporterState
    <3>2. \A s \in Seq(Byte) : <<>> \o s = s
      OBVIOUS
    <3> QED
      BY <1>3, <2>1, <3>1, <3>2
  <2> QED
    BY <2>1, <2>2 DEF FlushSucceeds
<1>7. ExporterOK'
  BY <1>2, <1>5, ExporterKeeps DEF ExporterOK
<1>8. ParserTypeOK'
  BY <1>2 DEF ParserTypeOK, parserVars
<1>9. /\ state' = state /\ protocolSyncByteCount' = protocolSyncByteCount
      /\ dataBuffer' = dataBuffer /\ FrameData' = <<>> /\ connected' = connected
      /\ protocolAddressBuffer' = protocolAddressBuffer
  BY <1>1 DEF parserVars
<1>10. AgreesBut(dataBuffer, vals, Covered(S, last))
  <2>1. \A a \in Addresses \ DirtyInFrame(acft, hooks) : vals[a] = ValuesFor(acft)[a]
    BY <1>2, DirtyIs DEF ExporterOK
  <2>2. \A a \in Known \ Covered(S, last) : vals[a] \in {value[a], Unset}
    BY <1>2, <1>4, <2>1, ValuesForTyped, AddressesAre DEF ExporterOK
  <2>3. AgreesBut(dataBuffer, value, {})
    BY <1>2 DEF Idle
  <2> HIDE DEF vals
  <2> QED
    BY <2>2, <2>3 DEF AgreesBut
<1> HIDE DEF vals, bytes
<1>11. CASE connected
  <2>1. tcp' = Sync4(f[S])
    BY <1>4, <1>6, <1>11
  <2>2. AgreesBut(dataBuffer, value, Covered(S, last))'
    <3>1. AgreesBut(dataBuffer', value', Covered(S, last))
      BY <1>5, <1>9, <1>10
    <3> QED
      BY <3>1 DEF AgreesBut, Covered
  <2>3. Clean(0, f[S])'
    <3>1. Clean(0, f[S])
      BY <1>4 DEF bytes
    <3> QED
      BY <3>1 DEF Clean, NoSync, ByteAfter
  <2>4. protocolSyncByteCount' = 0 /\ state' \in {"WaitForSync", "AddressLow"}
    BY <1>2, <1>9 DEF Idle
  <2>5. InSync(S, last, f)'
    BY <2>1, <2>2, <2>3, <2>4 DEF InSync, Sync1, Sync2, Sync3, Sync4
  <2>6. Update(S, last, f, value)'
    <3>1. Update(S, last, f, value')
      BY <1>4, <1>5
    <3> QED
      BY <3>1 DEF Update, IsAccess, Joins, EvenFrom, WriteAccess, WordBytes, DataBytes, Lo, Hi, SentValue
  <2>7. InTransit'
    <3>1. connected' /\ FrameData' = <<>>
      BY <1>9, <1>11
    <3> QED
      BY <2>5, <2>6, <3>1 DEF InTransit, InUpdate
  <2> QED
    BY <1>2, <1>6, <1>7, <1>8, <1>9, <1>11, <2>7 DEF StreamOK
<1>12. CASE ~connected
  <2>1. tcp' = <<>> /\ dataBuffer' = <<>> /\ FrameData' = <<>>
    BY <1>2, <1>6, <1>9, <1>12 DEF Empty
  <2>2. AgreesBut(dataBuffer, value, {})'
    BY <2>1 DEF AgreesBut
  <2>3. Idle'
    BY <1>2, <1>9, <2>1, <2>2 DEF Idle
  <2>4. dataBuffer' = Empty /\ <<>> \in Seq(Byte)
    BY <2>1 DEF Empty
  <2> QED
    BY <1>2, <1>6, <1>7, <1>8, <1>9, <1>12, <2>1, <2>3, <2>4 DEF StreamOK, Empty
<1> QED
  BY <1>2, <1>11, <1>12

LEMMA NoFrameTypes ==
    ASSUME ExporterState, NEW acft, NotDue(acft) \/ SkipFrame(acft)
    PROVE  ExporterState'
<1>1. value' = ValuesFor(acft) /\ UNCHANGED <<dirty, autosyncPosition>>
  BY DEF NotDue, SkipFrame
<1>2. updateCounter' \in Byte /\ updateSkipCounter' \in Byte
  <2>1. updateCounter \in Nat /\ updateCounter \in Byte /\ updateSkipCounter \in Byte
    BY DEF ExporterState, Byte
  <2>2. CounterModulus \in 2..256
    BY ExporterAssumption
  <2>3. (updateCounter + 1) % CounterModulus \in 0..CounterModulus - 1
    BY <2>1, <2>2
  <2>4. (updateCounter + 1) % CounterModulus \in Byte
    BY <2>2, <2>3 DEF Byte, Base
  <2>5. (updateSkipCounter + 1) % Base \in Byte
    BY <2>1 DEF Byte, Base
  <2> QED
    BY <2>1, <2>4, <2>5 DEF NotDue, SkipFrame
<1> QED
  BY <1>1, <1>2, ValuesForTyped DEF ExporterState

\* No frame is exported: the words of a new aircraft's module lose their values.
LEMMA NoFrameKeeps ==
    ASSUME StreamOK, CaughtUp, NEW acft \in Aircraft,
           NotDue(acft) \/ SkipFrame(acft), FlushSucceeds(msg_buf),
           UNCHANGED <<parserVars, connected>>
    PROVE  StreamOK'
<1>1. tcp = <<>> /\ FrameData = <<>>
  BY DEF CaughtUp
<1>2. Idle /\ ParserTypeOK /\ ExporterOK /\ connected \in BOOLEAN /\ (~connected => dataBuffer = Empty)
  BY <1>1, CaughtUpIsIdle
<1>3. tcp' = <<>> /\ msg_buf' = <<>>
  BY <1>2 DEF FlushSucceeds, ExporterOK, ExporterState
<1>4. value' = ValuesFor(acft) /\ UNCHANGED <<dirty, autosyncPosition>>
  BY DEF NotDue, SkipFrame
<1>6. ExporterOK'
  BY <1>2, <1>3, NoFrameTypes DEF ExporterOK
<1>7. ParserTypeOK'
  BY <1>2 DEF ParserTypeOK, parserVars
<1>8. /\ state' = state /\ protocolSyncByteCount' = protocolSyncByteCount
      /\ dataBuffer' = dataBuffer /\ FrameData' = <<>> /\ connected' = connected
  BY <1>1 DEF parserVars
<1>9. AgreesBut(dataBuffer, value, {})'
  <2>1. AgreesBut(dataBuffer, value, {})
    BY <1>2 DEF Idle
  <2>2. \A a \in Known : value'[a] \in {value[a], Unset}
    BY <1>2, <1>4, ValuesForTyped, AddressesAre DEF ExporterOK
  <2> QED
    BY <1>8, <2>1, <2>2 DEF AgreesBut
<1>10. Idle'
  BY <1>2, <1>3, <1>8, <1>9 DEF Idle
<1>11. tcp' \in Seq(Byte)
  BY <1>3
<1> QED
  BY <1>2, <1>3, <1>6, <1>7, <1>8, <1>10, <1>11 DEF StreamOK, Empty

LEMMA ConnectKeeps == ASSUME StreamOK, Connect PROVE StreamOK'
<1>1. /\ tcp = <<>> /\ connected' = TRUE
      /\ UNCHANGED <<exporterVars, parserVars, tcp>>
  BY DEF Connect
<1>2. Idle /\ ParserTypeOK /\ ExporterOK
  BY <1>1, CaughtUpIsIdle
<1>3. ParserTypeOK'
  BY <1>1, <1>2 DEF ParserTypeOK, parserVars
<1>4. ExporterOK'
  BY <1>1, <1>2 DEF ExporterOK, ExporterState, exporterVars
<1>5. Idle'
  BY <1>1, <1>2 DEF Idle, AgreesBut, parserVars, exporterVars
<1> QED
  BY <1>1, <1>3, <1>4, <1>5 DEF StreamOK

LEMMA DeliverKeeps == ASSUME StreamOK, Deliver PROVE StreamOK'
<1>1. /\ FrameData # <<>> /\ FrameData' = <<>>
      /\ UNCHANGED <<state, protocolSyncByteCount, protocolAddressBuffer,
                     protocolCountBuffer, protocolDataBuffer, dataBuffer>>
      /\ UNCHANGED <<exporterVars, connected, tcp, faults>>
  BY DEF Deliver, ReceiveFrame
<1>2. Idle /\ ParserTypeOK /\ ExporterOK
  BY <1>1 DEF StreamOK, InTransit
<1>3. ParserTypeOK'
  BY <1>1, <1>2 DEF ParserTypeOK
<1>4. ExporterOK'
  BY <1>1, <1>2 DEF ExporterOK, ExporterState, exporterVars
<1>5. Idle'
  BY <1>1, <1>2 DEF Idle, AgreesBut, exporterVars
<1> QED
  BY <1>1, <1>3, <1>4, <1>5 DEF StreamOK

LEMMA BeginsTyped ==
    /\ \A m \in DOMAIN MapAddresses : Min(MapAddresses[m]) \in MapAddresses[m]
    /\ 0 \in Byte /\ InitialSkips \in Byte
<1>1. ASSUME NEW m \in DOMAIN MapAddresses PROVE Min(MapAddresses[m]) \in MapAddresses[m]
  <2>1. MapAddresses[m] # {}
    BY MapNames, ExporterAssumption
  <2>2. IsMap(MapAddresses[m])
    BY MapNames
  <2>3. MapAddresses[m] \in SUBSET Nat
    BY <2>2, AddressesAre DEF IsMap
  <2> QED
    BY <2>1, <2>3, MinIs
<1>2. 0 \in Byte /\ InitialSkips \in Byte
  BY ExporterAssumption DEF Byte, Base
<1> QED
  BY <1>1, <1>2

LEMMA StreamBegins == ASSUME StreamInit PROVE StreamOK /\ faults = 0
<1>1. ExporterInit /\ ParserInit /\ connected = FALSE /\ tcp = <<>> /\ faults = 0
  BY DEF StreamInit
<1>2. ParserTypeOK
  BY <1>1, EmptyIsDataBuffer, AddressesAre DEF ParserInit, ParserTypeOK, ParserState
<1>3. ExporterOK
  BY <1>1, BeginsTyped DEF ExporterInit, ExporterOK, ExporterState
<1>4. Idle
  BY <1>1 DEF ParserInit, Idle, AgreesBut, Empty
<1>5. connected \in BOOLEAN
  BY <1>1
<1>6. tcp \in Seq(Byte) /\ dataBuffer = Empty
  <2>1. <<>> \in Seq(Byte)
    OBVIOUS
  <2> QED
    BY <1>1, <2>1 DEF ParserInit
<1> QED
  BY <1>1, <1>2, <1>3, <1>4, <1>5, <1>6 DEF StreamOK

LEMMA StreamOKIsConsistent == ASSUME StreamOK PROVE FrameConsistent
<1>1. ASSUME NEW i \in DOMAIN FrameData PROVE Agrees(FrameData[i])
  <2>1. FrameData # <<>>
    BY <1>1
  <2>2. Len(FrameData) = 1 /\ IsDataBuffer(FrameData[1])
    BY <2>1 DEF StreamOK, ParserTypeOK
  <2>3. i = 1
    BY <1>1, <2>2
  <2>4. AgreesBut(FrameData[1], value, {})
    BY <2>1 DEF StreamOK, InTransit, Idle
  <2>5. \A a \in Exported : a \in Known /\ value[a] # Unset
    BY DEF Exported, Known, Active
  <2>6. DOMAIN FrameData[1] = 1..Len(FrameData[1])
    BY <2>2 DEF IsDataBuffer
  <2> QED
    BY <2>3, <2>4, <2>5, <2>6 DEF Agrees, AgreesBut
<1> QED
  BY <1>1 DEF FrameConsistent
-----------------------------------------------------------------------------
(***************************************************************************)
(* Bytes among which there is no sync sequence, and none with three sync   *)
(* bytes before them.                                                      *)
(***************************************************************************)
SyncAt(x, n) ==
    x[n] = SyncByte /\ x[n + 1] = SyncByte /\ x[n + 2] = SyncByte /\ x[n + 3] = SyncByte

Plain == {x \in Seq(Byte) : /\ \A n \in 1..Len(x) - 3 : ~SyncAt(x, n)
                            /\ x # <<>> => x[1] # SyncByte}

LEMMA PlainIsNoSync == ASSUME NEW x \in Plain PROVE x \in Seq(Byte) /\ NoSync(0, x)
<1>1. x \in Seq(Byte) /\ Len(x) \in Nat /\ \A n \in 1..Len(x) - 3 : ~SyncAt(x, n)
  BY DEF Plain
<1>2. ASSUME NEW n \in 1..0 + Len(x) - 3 PROVE \E k \in 0..3 : ByteAfter(0, x, n + k) # SyncByte
  <2>1. n \in 1..Len(x) - 3
    BY <1>1
  <2>2. /\ ByteAfter(0, x, n + 0) = x[n] /\ ByteAfter(0, x, n + 1) = x[n + 1]
        /\ ByteAfter(0, x, n + 2) = x[n + 2] /\ ByteAfter(0, x, n + 3) = x[n + 3]
    BY <2>1 DEF ByteAfter
  <2>3. ~SyncAt(x, n)
    BY <1>1, <2>1
  <2>4. 0 \in 0..3 /\ 1 \in 0..3 /\ 2 \in 0..3 /\ 3 \in 0..3
    OBVIOUS
  <2> QED
    BY <2>2, <2>3, <2>4 DEF SyncAt
<1> QED
  BY <1>1, <1>2 DEF NoSync

LEMMA JoinedIs ==
    ASSUME NEW x \in Seq(Byte), NEW y \in Seq(Byte)
    PROVE  /\ x \o y \in Seq(Byte) /\ Len(x \o y) = Len(x) + Len(y)
           /\ \A n \in 1..Len(x) : (x \o y)[n] = x[n]
           /\ \A n \in 1..Len(y) : (x \o y)[Len(x) + n] = y[n]
OBVIOUS

LEMMA PlainJoined == \A x, y \in Plain : x \o y \in Plain
<1> SUFFICES ASSUME NEW x \in Plain, NEW y \in Plain PROVE x \o y \in Plain
  OBVIOUS
<1> DEFINE z == x \o y
<1>1. /\ x \in Seq(Byte) /\ \A n \in 1..Len(x) - 3 : ~SyncAt(x, n)
      /\ x # <<>> => x[1] # SyncByte
      /\ y \in Seq(Byte) /\ \A n \in 1..Len(y) - 3 : ~SyncAt(y, n)
      /\ y # <<>> => y[1] # SyncByte
  BY DEF Plain
<1>2. /\ z \in Seq(Byte) /\ Len(z) = Len(x) + Len(y)
      /\ \A n \in 1..Len(x) : z[n] = x[n]
      /\ \A n \in 1..Len(y) : z[Len(x) + n] = y[n]
  BY <1>1, JoinedIs
<1>3. /\ Len(x) \in Nat /\ Len(y) \in Nat
      /\ (x = <<>> <=> Len(x) = 0) /\ (y = <<>> <=> Len(y) = 0) /\ (z = <<>> <=> Len(z) = 0)
  BY <1>1, <1>2
<1> HIDE DEF z
<1>4. ASSUME NEW n \in 1..Len(z) - 3 PROVE ~SyncAt(z, n)
  <2>0. n \in Nat /\ n >= 1 /\ n + 3 <= Len(x) + Len(y)
    BY <1>2, <1>3
  <2>1. CASE n + 3 <= Len(x)
    <3>1. /\ z[n] = x[n] /\ z[n + 1] = x[n + 1] /\ z[n + 2] = x[n + 2] /\ z[n + 3] = x[n + 3]
      BY <1>2, <1>3, <2>0, <2>1
    <3>2. n \in 1..Len(x) - 3
      BY <1>3, <2>0, <2>1
    <3> QED
      BY <1>1, <3>1, <3>2 DEF SyncAt
  <2>2. CASE n > Len(x)
    <3> DEFINE m == n - Len(x)
    <3>1. m \in 1..Len(y) - 3
      BY <1>3, <2>0, <2>2
    <3>2. /\ m \in 1..Len(y) /\ m + 1 \in 1..Len(y) /\ m + 2 \in 1..Len(y) /\ m + 3 \in 1..Len(y)
          /\ n = Len(x) + m /\ n + 1 = Len(x) + (m + 1)
          /\ n + 2 = Len(x) + (m + 2) /\ n + 3 = Len(x) + (m + 3)
      BY <1>3, <2>0, <2>2
    <3> HIDE DEF m
    <3>3. /\ z[n] = y[m] /\ z[n + 1] = y[m + 1] /\ z[n + 2] = y[m + 2] /\ z[n + 3] = y[m + 3]
      BY <1>2, <3>2
    <3> QED
      BY <1>1, <3>1, <3>3 DEF SyncAt
  <2>3. CASE n <= Len(x) /\ Len(x) < n + 3
    <3>1. /\ Len(x) + 1 \in {n + 1, n + 2, n + 3}
          /\ 1 \in 1..Len(y) /\ y # <<>>
      BY <1>3, <2>0, <2>3
    <3>2. z[Len(x) + 1] = y[1] /\ y[1] # SyncByte
      BY <1>1, <1>2, <3>1
    <3> QED
      BY <3>1, <3>2 DEF SyncAt
  <2> QED
    BY <1>3, <2>0, <2>1, <2>2, <2>3
<1>5. ASSUME z # <<>> PROVE z[1] # SyncByte
  <2>1. CASE Len(x) = 0
    <3>1. 1 \in 1..Len(y) /\ Len(x) + 1 = 1 /\ y # <<>>
      BY <1>2, <1>3, <1>5, <2>1
    <3> QED
      BY <1>1, <1>2, <3>1
  <2>2. CASE Len(x) # 0
    <3>1. 1 \in 1..Len(x) /\ x # <<>>
      BY <1>3, <2>2
    <3> QED
      BY <1>1, <1>2, <3>1
  <2> QED
    BY <2>1, <2>2
<1>6. z \in Plain
  BY <1>2, <1>4, <1>5 DEF Plain
<1> QED
  BY <1>6 DEF z

\* The word at a completes no sync sequence with its neighbours in s..e.
Harmless(s, e, v, a) ==
    v[a] = SyncWord /\ Hi(v[a - 2]) = SyncByte
        => Lo(v[a - 2]) # SyncByte /\ (a + 2 <= e => Lo(v[a + 2]) # SyncByte)

LEMMA DataHasNoSync ==
    ASSUME NEW s \in Nat, NEW e \in Nat, s % 2 = 0, e % 2 = 0, s <= e,
           NEW v, \A a \in EvenFrom(s, e) : v[a] \in Word,
           \A a \in EvenFrom(s, e) : a # s => Harmless(s, e, v, a)
    PROVE  \A n \in 1..Len(DataBytes(s, e, v)) - 3 : ~SyncAt(DataBytes(s, e, v), n)
<1> DEFINE d == DataBytes(s, e, v)
           len == e - s + 2
<1>1. d \in Seq(Byte) /\ Len(d) = len
  <2>1. s <= e + 2 /\ e \in Int
    OBVIOUS
  <2> QED
    BY <2>1, DataBytesIs
<1>2. \A k \in 1..len : d[k] = IF k % 2 = 1 THEN Lo(v[s + k - 1]) ELSE Hi(v[s + k - 2])
  BY DEF DataBytes
<1> HIDE DEF d
<1>3. ASSUME NEW n \in 1..Len(d) - 3, SyncAt(d, n) PROVE FALSE
  <2>1. n \in Nat /\ n >= 1 /\ n + 3 <= len /\ len \in Nat
    BY <1>1
  <2>2. n \in 1..len /\ n + 1 \in 1..len /\ n + 2 \in 1..len /\ n + 3 \in 1..len
    BY <2>1
  <2>3. CASE n % 2 = 1
    <3> DEFINE a == s + n + 1
    <3>1. a \in EvenFrom(s, e) /\ a # s /\ a \in Nat
      BY <2>1, <2>3 DEF EvenFrom
    <3>2. /\ (n + 1) % 2 # 1 /\ (n + 2) % 2 = 1 /\ (n + 3) % 2 # 1
      BY <2>1, <2>3
    <3>3. /\ s + n - 1 = a - 2 /\ s + (n + 1) - 2 = a - 2
          /\ s + (n + 2) - 1 = a /\ s + (n + 3) - 2 = a
      BY <2>1
    <3> HIDE DEF a
    <3>4. /\ d[n] = Lo(v[a - 2]) /\ d[n + 1] = Hi(v[a - 2])
          /\ d[n + 2] = Lo(v[a]) /\ d[n + 3] = Hi(v[a])
      BY <1>2, <2>2, <2>3, <3>2, <3>3
    <3>5. v[a] = SyncWord
      BY <1>3, <3>1, <3>4, Halves DEF SyncAt, SyncWord
    <3> QED
      BY <1>3, <3>1, <3>4, <3>5 DEF SyncAt, Harmless
  <2>4. CASE n % 2 # 1
    <3> DEFINE a == s + n
    <3>1. a \in EvenFrom(s, e) /\ a # s /\ a \in Nat /\ a + 2 <= e
      BY <2>1, <2>4 DEF EvenFrom
    <3>2. /\ (n + 1) % 2 = 1 /\ (n + 2) % 2 # 1 /\ (n + 3) % 2 = 1
      BY <2>1, <2>4
    <3>3. /\ s + n - 2 = a - 2 /\ s + (n + 1) - 1 = a
          /\ s + (n + 2) - 2 = a /\ s + (n + 3) - 1 = a + 2
      BY <2>1
    <3> HIDE DEF a
    <3>4. /\ d[n] = Hi(v[a - 2]) /\ d[n + 1] = Lo(v[a])
          /\ d[n + 2] = Hi(v[a]) /\ d[n + 3] = Lo(v[a + 2])
      BY <1>2, <2>2, <2>4, <3>2, <3>3
    <3>5. v[a] = SyncWord
      BY <1>3, <3>1, <3>4, Halves DEF SyncAt, SyncWord
    <3> QED
      BY <1>3, <3>1, <3>4, <3>5 DEF SyncAt, Harmless
  <2> QED
    BY <2>3, <2>4
<1> QED
  BY <1>3 DEF d

\* The low byte of an even word is not 0x55, and the high byte of a small one
\* neither.
ShortLength == SyncByte * Base

LEMMA HeaderBytes ==
    /\ \A w \in Word : w % 2 = 0 => Lo(w) # SyncByte
    /\ \A w \in Word : w < ShortLength => Hi(w) # SyncByte
<1>1. \A w \in Word : w \in Nat
  BY AddressesAre
<1>2. ASSUME NEW w \in Nat, w % 2 = 0 PROVE Lo(w) # SyncByte
  <2>1. w % 256 = 85 => w % 2 = 1
    OBVIOUS
  <2> QED
    BY <1>2, <2>1 DEF Lo, Base, SyncByte
<1>3. ASSUME NEW w \in Nat, w < ShortLength PROVE Hi(w) # SyncByte
  BY <1>3 DEF Hi, Base, SyncByte, ShortLength
<1> QED
  BY <1>1, <1>2, <1>3

LEMMA AccessIsPlain ==
    ASSUME NEW s, NEW e, NEW v, IsAccess(s, e, v), e - s + 2 < ShortLength,
           \A a \in EvenFrom(s, e) : a # s => Harmless(s, e, v, a)
    PROVE  WriteAccess(s, e, v) \in Plain
<1> DEFINE n == e - s + 2
           d == DataBytes(s, e, v)
           h == WordBytes(s) \o WordBytes(n)
           x == h \o d
<1>1. /\ s \in Word /\ e \in Word /\ s \in Nat /\ e \in Nat /\ s % 2 = 0 /\ e % 2 = 0 /\ s <= e
      /\ n \in Word /\ n \in Nat
      /\ \A a \in EvenFrom(s, e) : v[a] \in Word
  BY AddressesAre DEF IsAccess
<1>2. n % 2 = 0
  BY <1>1
<1>3. /\ Lo(s) \in Byte /\ Hi(s) \in Byte /\ Lo(n) \in Byte /\ Hi(n) \in Byte
      /\ Lo(s) # SyncByte /\ Lo(n) # SyncByte /\ Hi(n) # SyncByte
  <2> HIDE DEF n
  <2>1. Lo(s) # SyncByte /\ Lo(n) # SyncByte
    BY <1>1, <1>2, HeaderBytes
  <2>2. n < ShortLength
    BY DEF n
  <2>3. Hi(n) # SyncByte
    BY <1>1, <2>2, HeaderBytes
  <2> QED
    BY <1>1, <2>1, <2>3, BytesAndWords
<1>4. /\ h \in Seq(Byte) /\ Len(h) = 4 /\ h[1] # SyncByte /\ h[3] # SyncByte /\ h[4] # SyncByte
  <2> DEFINE p == WordBytes(s)
             q == WordBytes(n)
  <2> HIDE DEF n
  <2>1. /\ p \in Seq(Byte) /\ Len(p) = 2 /\ p[1] = Lo(s)
        /\ q \in Seq(Byte) /\ Len(q) = 2 /\ q[1] = Lo(n) /\ q[2] = Hi(n)
    BY <1>3 DEF WordBytes
  <2> HIDE DEF p, q
  <2>2. /\ h \in Seq(Byte) /\ Len(h) = Len(p) + Len(q)
        /\ \A k \in 1..Len(p) : h[k] = p[k]
        /\ \A k \in 1..Len(q) : h[Len(p) + k] = q[k]
    BY <2>1, JoinedIs DEF p, q
  <2> HIDE DEF h
  <2>3. h[1] = p[1] /\ h[3] = q[1] /\ h[4] = q[2]
    BY <2>1, <2>2
  <2> QED
    BY <1>3, <2>1, <2>2, <2>3
<1>5. d \in Seq(Byte) /\ \A k \in 1..Len(d) - 3 : ~SyncAt(d, k)
  <2>1. s <= e + 2
    BY <1>1
  <2>2. d \in Seq(Byte)
    BY <1>1, <2>1, DataBytesIs
  <2> QED
    BY <1>1, <2>2, DataHasNoSync
<1> HIDE DEF h, d
<1>6. /\ x \in Seq(Byte) /\ Len(x) = 4 + Len(d)
      /\ \A k \in 1..4 : x[k] = h[k]
      /\ \A k \in 1..Len(d) : x[4 + k] = d[k]
  <2>1. /\ x \in Seq(Byte) /\ Len(x) = Len(h) + Len(d)
        /\ \A k \in 1..Len(h) : x[k] = h[k]
        /\ \A k \in 1..Len(d) : x[Len(h) + k] = d[k]
    BY <1>4, <1>5, JoinedIs
  <2> HIDE DEF x
  <2> QED
    BY <1>4, <2>1
<1>7. Len(d) \in Nat
  BY <1>5
<1> HIDE DEF x
<1>8. x[1] # SyncByte /\ x[3] # SyncByte /\ x[4] # SyncByte
  BY <1>4, <1>6
<1>9. ASSUME NEW k \in 1..Len(x) - 3 PROVE ~SyncAt(x, k)
  <2>1. CASE k \in {1, 2, 3, 4}
    BY <1>8, <2>1 DEF SyncAt
  <2>2. CASE k \notin {1, 2, 3, 4}
    <3> DEFINE m == k - 4
    <3>1. /\ m \in 1..Len(d) - 3
          /\ m \in 1..Len(d) /\ m + 1 \in 1..Len(d) /\ m + 2 \in 1..Len(d) /\ m + 3 \in 1..Len(d)
          /\ k = 4 + m /\ k + 1 = 4 + (m + 1) /\ k + 2 = 4 + (m + 2) /\ k + 3 = 4 + (m + 3)
      BY <1>6, <1>7, <2>2
    <3> HIDE DEF m
    <3>2. x[k] = d[m] /\ x[k + 1] = d[m + 1] /\ x[k + 2] = d[m + 2] /\ x[k + 3] = d[m + 3]
      BY <1>6, <3>1
    <3> QED
      BY <1>5, <3>1, <3>2 DEF SyncAt
  <2> QED
    BY <2>1, <2>2
<1>10. x \in Plain
  BY <1>6, <1>8, <1>9 DEF Plain
<1> QED
  BY <1>10 DEF x, h, d, WriteAccess
-----------------------------------------------------------------------------
\* The word at a and its neighbours hold four sync bytes in a row.
HidesSync(map, v, a) ==
    /\ v[a] = SyncWord
    /\ a - 2 \in map /\ Hi(v[a - 2]) = SyncByte
    /\ \/ Lo(v[a - 2]) = SyncByte
       \/ a + 2 \in map /\ Lo(v[a + 2]) = SyncByte

\* No such word is sent only because it lies between two dirty ones: dirty, it
\* begins a write access of its own.
NoCleanSync(map, D, v) ==
    \A a \in map \ D : (\E b \in D \cap map : b > a) => ~HidesSync(map, v, a)

ShortMap(map) == \A a, b \in map : b - a + 2 < ShortLength

LEMMA FlushIsPlain ==
    ASSUME NEW map, IsMap(map), ShortMap(map), NEW D \in SUBSET map,
           NEW v, \A a \in map : v[a] \in Word, NoCleanSync(map, D, v)
    PROVE  Flush1(D, v) \in Plain
<1> DEFINE starts == Starts(D, v)
           w == AccessBytes(D, v)
<1>1. WordMax \in Nat /\ map \in SUBSET (0..WordMax)
  BY Numbers DEF IsMap, Word
<1>2. starts \in SUBSET (0..WordMax)
  BY <1>1 DEF Starts
<1>3. PICK f : Joins(f, starts, w) /\ Flush1(D, v) = f[starts]
  BY FlushJoins
<1>4. ASSUME NEW s \in starts PROVE w[s] \in Plain
  <2> DEFINE e == Lasts(D, v)[s]
  <2>1. /\ e \in D /\ IsAccess(s, e, v)
        /\ \A t \in Starts(D, v) : t <= s \/ t > e
    BY LastOfAccessIs
  <2>2. s \in map /\ e \in map /\ w[s] = WriteAccess(s, e, v)
    BY <2>1 DEF Starts, AccessBytes
  <2> HIDE DEF e, w, starts
  <2>3. /\ s \in Nat /\ e \in Nat /\ s % 2 = 0 /\ e % 2 = 0
        /\ \A c \in s..e : c % 2 = 0 => c \in map
    <3>1. \A a \in map : a \in Nat /\ a % 2 = 0
      BY <1>1 DEF IsMap
    <3>2. \A c \in s..e : c % 2 = 0 => c \in map
      BY <2>2 DEF IsMap
    <3> QED
      BY <2>2, <3>1, <3>2
  <2>4. ASSUME NEW a \in EvenFrom(s, e), a # s PROVE Harmless(s, e, v, a)
    <3>1. a \in Nat /\ a > s /\ a <= e /\ a % 2 = 0 /\ a \in map
      BY <2>3, <2>4 DEF EvenFrom
    <3>2. a - 2 \in map
      <4>1. a - 2 \in s..e /\ (a - 2) % 2 = 0
        BY <2>3, <3>1
      <4> QED
        BY <2>3, <4>1
    <3>3. a + 2 <= e => a + 2 \in map
      <4>1. a + 2 <= e => a + 2 \in s..e /\ (a + 2) % 2 = 0
        BY <2>3, <3>1
      <4> QED
        BY <2>3, <4>1
    <3>4. ASSUME v[a] = SyncWord PROVE ~HidesSync(map, v, a)
      <4>1. a \notin D
        <5> SUFFICES ASSUME a \in D PROVE FALSE
          OBVIOUS
        <5>1. a \in Starts(D, v)
          BY <3>4 DEF Starts, StartsWriteAccess
        <5>2. a <= s \/ a > e
          BY <2>1, <5>1
        <5> QED
          BY <2>3, <3>1, <5>2
      <4>2. e > a
        <5>1. a # e
          BY <2>1, <4>1
        <5> QED
          BY <2>3, <3>1, <5>1
      <4> QED
        BY <2>1, <2>2, <3>1, <4>1, <4>2 DEF NoCleanSync
    <3> QED
      BY <3>2, <3>3, <3>4 DEF Harmless, HidesSync
  <2>5. e - s + 2 < ShortLength
    BY <2>2 DEF ShortMap
  <2>6. WriteAccess(s, e, v) \in Plain
    BY <2>1, <2>4, <2>5, AccessIsPlain
  <2> QED
    BY <2>2, <2>6
<1> HIDE DEF w, starts
<1>5. f[{}] \in Plain
  <2>1. <<>> \in Plain
    <3>1. <<>> \in Seq(Byte) /\ Len(<<>>) = 0
      OBVIOUS
    <3>2. \A n \in 1..Len(<<>>) - 3 : ~SyncAt(<<>>, n)
      BY <3>1
    <3> QED
      BY <3>1, <3>2 DEF Plain
  <2> QED
    BY <1>3, <2>1 DEF Joins
<1>6. \A s \in starts : \A r \in Plain : w[s] \o r \in Plain
  BY <1>4, PlainJoined
<1>7. \A T \in SUBSET starts : T # {} => f[T] = w[Min(T)] \o f[T \ {Min(T)}]
  BY <1>3 DEF Joins
<1>8. \A T \in SUBSET starts : f[T] \in Plain
  BY <1>1, <1>2, <1>5, <1>6, <1>7, JoinIn
<1> QED
  BY <1>3, <1>8

\* The write access for the word at 0xFFFE ends with the high byte of that word.
LEMMA LastByteIs ==
    ASSUME NEW v, v[EndOfUpdate] \in Word
    PROVE  LET c == Flush1({EndOfUpdate}, v)
           IN  c \in Seq(Byte) /\ c # <<>> /\ c[Len(c)] = Hi(v[EndOfUpdate])
<1> DEFINE D == {EndOfUpdate}
           c == Flush1(D, v)
           starts == Starts(D, v)
           h == WordBytes(EndOfUpdate) \o WordBytes(EndOfUpdate - EndOfUpdate + 2)
           d == DataBytes(EndOfUpdate, EndOfUpdate, v)
<1>1. /\ IsMap(D) /\ D \in SUBSET D /\ \A a \in D : v[a] \in Word
  BY MapsAre
<1>2. EndOfUpdate \in Nat /\ EndOfUpdate % 2 = 0 /\ D \in SUBSET Nat
  BY AddressesAre
<1>3. starts = D
  <2>1. ~(EndOfUpdate < EndOfUpdate)
    BY <1>2
  <2> QED
    BY <2>1 DEF Starts, StartsWriteAccess
<1>4. PICK f : Joins(f, starts, AccessBytes(D, v)) /\ c = f[starts]
  <2> HIDE DEF D
  <2> QED
    BY <1>1, FlushJoins
<1>5. Lasts(D, v)[EndOfUpdate] = EndOfUpdate /\ IsAccess(EndOfUpdate, EndOfUpdate, v)
  <2>1. EndOfUpdate \in Starts(D, v)
    BY <1>3
  <2> HIDE DEF D
  <2>2. Lasts(D, v)[EndOfUpdate] \in D /\ IsAccess(EndOfUpdate, Lasts(D, v)[EndOfUpdate], v)
    BY <1>1, <2>1, LastOfAccessIs
  <2>3. Lasts(D, v)[EndOfUpdate] = EndOfUpdate
    BY <2>2 DEF D
  <2> QED
    BY <2>2, <2>3
<1>6. AccessBytes(D, v)[EndOfUpdate] = WriteAccess(EndOfUpdate, EndOfUpdate, v)
  <2>1. EndOfUpdate \in Starts(D, v)
    BY <1>3
  <2> HIDE DEF D
  <2> QED
    BY <1>5, <2>1 DEF AccessBytes
<1>7. Min(D) = EndOfUpdate
  <2>1. \A j \in D : EndOfUpdate <= j
    BY <1>2
  <2>2. EndOfUpdate \in D
    OBVIOUS
  <2> HIDE DEF D
  <2> QED
    BY <1>2, <2>1, <2>2, MinUnique
<1>8. f[{}] = <<>> /\ c = WriteAccess(EndOfUpdate, EndOfUpdate, v) \o f[{}]
  <2>1. f[D] = AccessBytes(D, v)[Min(D)] \o f[D \ {Min(D)}]
    BY <1>3, <1>4 DEF Joins
  <2>2. D \ {EndOfUpdate} = {}
    OBVIOUS
  <2>3. f[{}] = <<>>
    BY <1>4 DEF Joins
  <2> HIDE DEF D, c
  <2> QED
    BY <1>3, <1>4, <1>6, <1>7, <2>1, <2>2, <2>3
<1>9. h \in Seq(Byte)
  <2>1. Lo(EndOfUpdate) \in Byte /\ Hi(EndOfUpdate) \in Byte
    BY BytesAndWords, AddressesAre
  <2>2. EndOfUpdate - EndOfUpdate + 2 \in Word
    BY <1>5 DEF IsAccess
  <2> DEFINE n == EndOfUpdate - EndOfUpdate + 2
  <2>3. Lo(n) \in Byte /\ Hi(n) \in Byte
    <3> HIDE DEF n
    <3>1. n \in Word
      BY <2>2 DEF n
    <3> QED
      BY <3>1, BytesAndWords
  <2> HIDE DEF n
  <2>4. WordBytes(EndOfUpdate) \in Seq(Byte) /\ WordBytes(n) \in Seq(Byte)
    BY <2>1, <2>3 DEF WordBytes
  <2> QED
    BY <2>4, JoinedIs DEF n
<1>10. d \in Seq(Byte) /\ Len(d) = 2 /\ d[2] = Hi(v[EndOfUpdate])
  <2>1. /\ EndOfUpdate \in Int /\ EndOfUpdate <= EndOfUpdate + 2
        /\ \A a \in EvenFrom(EndOfUpdate, EndOfUpdate) : v[a] \in Word
    BY <1>2 DEF EvenFrom
  <2>2. d \in Seq(Byte) /\ Len(d) = EndOfUpdate - EndOfUpdate + 2
    BY <1>2, <2>1, DataBytesIs
  <2>3. EndOfUpdate - EndOfUpdate + 2 = 2 /\ EndOfUpdate + 2 - 2 = EndOfUpdate
    BY <1>2
  <2>4. 2 \in 1..EndOfUpdate - EndOfUpdate + 2
    BY <2>3
  <2>5. d[2] = IF 2 % 2 = 1 THEN Lo(v[EndOfUpdate + 2 - 1]) ELSE Hi(v[EndOfUpdate + 2 - 2])
    BY <2>4 DEF DataBytes
  <2>6. 2 % 2 # 1
    OBVIOUS
  <2> HIDE DEF d
  <2> QED
    BY <2>2, <2>3, <2>5, <2>6
<1>11. c = h \o d
  <2>1. WriteAccess(EndOfUpdate, EndOfUpdate, v) = h \o d
    BY DEF WriteAccess
  <2> HIDE DEF h, d, c
  <2>2. h \o d \in Seq(Byte)
    BY <1>9, <1>10, JoinedIs
  <2>3. \A x \in Seq(Byte) : x \o <<>> = x
    OBVIOUS
  <2> QED
    BY <1>8, <2>1, <2>2, <2>3
<1> HIDE DEF h, d, c
<1>12. /\ c \in Seq(Byte) /\ Len(c) = Len(h) + Len(d)
       /\ \A n \in 1..Len(d) : c[Len(h) + n] = d[n]
  BY <1>9, <1>10, <1>11, JoinedIs
<1>13. c \in Seq(Byte) /\ c # <<>> /\ c[Len(c)] = Hi(v[EndOfUpdate])
  <2>1. Len(h) \in Nat /\ Len(c) = Len(h) + 2 /\ 2 \in 1..Len(d)
    BY <1>9, <1>10, <1>12
  <2>2. c[Len(h) + 2] = d[2]
    BY <1>12, <2>1
  <2> QED
    BY <1>10, <1>12, <2>1, <2>2
<1> QED
  BY <1>13 DEF c, D

ShortMaps == ShortMap(StartAddresses) /\ ShortMap(ModuleAddresses)

(***************************************************************************)
(* A frame that keeps the rule of the wire format: nothing in it but its   *)
(* beginning can be taken for a sync sequence.                             *)
(***************************************************************************)
KeepsSync(acft, hooks) ==
    /\ updateSkipCounter # SyncByte
    /\ \A map \in {StartAddresses, Active(acft)} :
           NoCleanSync(map, DirtyInFrame(acft, hooks), SentValue(ValuesAfter(acft, hooks)))

LEMMA FrameIsClean ==
    ASSUME ShortMaps, ExporterState, NEW acft \in Aircraft, NEW hooks \in HookResults(acft),
           KeepsSync(acft, hooks)
    PROVE  Clean(0, FrameAccesses(acft, hooks))
<1> DEFINE D == DirtyInFrame(acft, hooks)
           vals == ValuesAfter(acft, hooks)
           v == SentValue(vals)
           D1 == D \cap StartAddresses
           D2 == D \cap Active(acft)
           A == Flush1(D1, v)
           B == Flush1(D2, v)
           C == Flush1({EndOfUpdate}, v)
<1>1. vals \in [Addresses -> Word \cup {Unset}]
  BY ValuesAfterTyped
<1>2. /\ vals[EndOfUpdate] = MakeWord(NextCounter, updateSkipCounter)
      /\ vals[EndOfUpdate] \in Word /\ NextCounter \in Byte
  BY ValuesAfterTyped
<1>3. /\ NoCleanSync(StartAddresses, D, v) /\ NoCleanSync(Active(acft), D, v)
      /\ updateSkipCounter # SyncByte
  BY DEF KeepsSync
<1> HIDE DEF D, vals
<1>4. \A a \in Addresses : v[a] \in Word
  BY <1>1, SentIs
<1>5. v[EndOfUpdate] = vals[EndOfUpdate]
  <2>1. vals[EndOfUpdate] # Unset
    BY <1>2, AddressesAre
  <2> QED
    BY <1>1, <2>1, SentIs, AddressesAre
<1> HIDE DEF v
<1>6. Hi(v[EndOfUpdate]) # SyncByte
  BY <1>2, <1>3, <1>5, Halves DEF ExporterState
<1>7. A \in Plain
  <2>1. D1 \in SUBSET StartAddresses /\ \A a \in StartAddresses : v[a] \in Word
    BY <1>4 DEF Addresses
  <2>2. NoCleanSync(StartAddresses, D1, v)
    BY <1>3 DEF NoCleanSync
  <2> HIDE DEF D1
  <2> QED
    BY <2>1, <2>2, MapsAre, FlushIsPlain DEF ShortMaps
<1>8. B \in Plain
  <2>1. CASE acft = "NONE"
    <3>1. D2 = {}
      BY <2>1 DEF Active
    <3>2. B = <<>>
      BY <3>1 DEF Flush1
    <3>3. <<>> \in Seq(Byte) /\ Len(<<>>) = 0
      OBVIOUS
    <3>4. \A n \in 1..Len(<<>>) - 3 : ~SyncAt(<<>>, n)
      BY <3>3
    <3> QED
      BY <3>2, <3>3, <3>4 DEF Plain
  <2>2. CASE acft # "NONE"
    <3>1. Active(acft) = ModuleAddresses
      BY <2>2 DEF Active
    <3>2. D2 \in SUBSET ModuleAddresses /\ \A a \in ModuleAddresses : v[a] \in Word
      BY <1>4, <3>1 DEF Addresses
    <3>3. NoCleanSync(ModuleAddresses, D2, v)
      BY <1>3, <3>1 DEF NoCleanSync
    <3> HIDE DEF D2
    <3> QED
      BY <3>2, <3>3, MapsAre, FlushIsPlain DEF ShortMaps
  <2> QED
    BY <2>1, <2>2
<1>9. C \in Plain
  <2> DEFINE E == {EndOfUpdate}
  <2>1. /\ E \in SUBSET E /\ \A a \in E : v[a] \in Word
        /\ NoCleanSync(E, E, v) /\ IsMap(E)
    BY <1>4, MapsAre, AddressesAre DEF NoCleanSync
  <2>2. ShortMap(E)
    <3>1. EndOfUpdate - EndOfUpdate + 2 = 2
      BY AddressesAre
    <3>2. 2 < ShortLength
      BY DEF ShortLength, SyncByte, Base
    <3> QED
      BY <3>1, <3>2 DEF ShortMap
  <2> HIDE DEF E
  <2>3. Flush1(E, v) \in Plain
    BY <2>1, <2>2, FlushIsPlain
  <2> QED
    BY <2>3 DEF E
<1>10. C \in Seq(Byte) /\ C # <<>> /\ C[Len(C)] # SyncByte
  <2>1. v[EndOfUpdate] \in Word
    BY <1>4, AddressesAre
  <2> QED
    BY <1>6, <2>1, LastByteIs
<1> HIDE DEF A, B, C
<1> DEFINE x == A \o B
           y == x \o C
<1>11. x \in Plain
  BY <1>7, <1>8, PlainJoined
<1>12. y \in Plain
  <2> HIDE DEF x
  <2> QED
    BY <1>9, <1>11, PlainJoined
<1>13. y[Len(y)] # SyncByte
  <2>1. x \in Seq(Byte)
    BY <1>11 DEF Plain
  <2> HIDE DEF x
  <2>2. Len(y) = Len(x) + Len(C) /\ \A n \in 1..Len(C) : y[Len(x) + n] = C[n]
    BY <1>10, <2>1, JoinedIs
  <2>3. Len(C) \in 1..Len(C)
    BY <1>10
  <2> HIDE DEF y
  <2> QED
    BY <1>10, <2>2, <2>3
<1>14. FrameAccesses(acft, hooks) = y
  BY DEF FrameAccesses, Accesses, A, B, C, D, v, vals
<1> HIDE DEF y
<1> QED
  BY <1>12, <1>13, <1>14, PlainIsNoSync DEF Clean
-----------------------------------------------------------------------------
LEMMA StutterKeeps == ASSUME StreamOK, UNCHANGED streamVars PROVE StreamOK'
<1>1. /\ UNCHANGED exporterVars /\ UNCHANGED parserVars /\ connected' = connected /\ tcp' = tcp
      /\ value' = value
  BY DEF streamVars, exporterVars
<1>2. ParserTypeOK'
  BY <1>1 DEF StreamOK, ParserTypeOK, parserVars
<1>3. ExporterOK'
  BY <1>1 DEF StreamOK, ExporterOK, ExporterState, exporterVars
<1>4. ASSUME NEW P, AgreesBut(dataBuffer, value, P) PROVE AgreesBut(dataBuffer, value, P)'
  BY <1>1, <1>4 DEF AgreesBut, parserVars
<1>5. ASSUME Idle PROVE Idle'
  BY <1>1, <1>5 DEF Idle, AgreesBut, parserVars
<1>6. ASSUME InTransit PROVE InTransit'
  <2>1. PICK S, last, f : Update(S, last, f, value) /\ InUpdate(S, last, f)
    BY <1>6 DEF InTransit
  <2>2. Update(S, last, f, value)'
    <3>1. Update(S, last, f, value')
      BY <1>1, <2>1
    <3> QED
      BY <3>1 DEF Update, IsAccess, Joins, EvenFrom, WriteAccess, WordBytes, DataBytes, Lo, Hi, SentValue
  <2>3. ASSUME NEW T, BetweenAccesses(S, last, f, T) PROVE BetweenAccesses(S, last, f, T)'
    BY <1>1, <1>4, <2>3 DEF BetweenAccesses, parserVars, Clean, NoSync, ByteAfter, Covered
  <2>4. ASSUME InSync(S, last, f) PROVE InSync(S, last, f)'
    <3>1. AgreesBut(dataBuffer, value, Covered(S, last))'
      BY <1>4, <2>4 DEF InSync
    <3> QED
      BY <1>1, <2>4, <3>1 DEF InSync, parserVars, Clean, NoSync, ByteAfter, Sync1, Sync2, Sync3, Sync4, Lo
  <2>5. ASSUME NEW U, NEW s, NEW a, InAccess(S, last, f, U, s, a) PROVE InAccess(S, last, f, U, s, a)'
    <3>1. AgreesBut(dataBuffer, value, Covered(U, last) \cup (a..last[s]))'
      BY <1>4, <2>5 DEF InAccess
    <3>2. InHeader(last, f, U, s) => InHeader(last, f, U, s)'
      BY <1>1 DEF InHeader, parserVars
    <3>3. InData(last, f, U, s, a) => InData(last, f, U, s, a)'
      BY <1>1 DEF InData, parserVars
    <3>4. Clean(protocolSyncByteCount, tcp)'
      BY <1>1, <2>5 DEF InAccess, parserVars, Clean, NoSync, ByteAfter
    <3>5. IsPlace(S, last, U, s, a)'
      BY <2>5 DEF InAccess, IsPlace, EvenFrom
    <3> QED
      BY <2>5, <3>1, <3>2, <3>3, <3>4, <3>5 DEF InAccess
  <2> QED
    BY <1>1, <1>6, <2>1, <2>2, <2>3, <2>4, <2>5 DEF InTransit, InUpdate, parserVars
<1> QED
  BY <1>1, <1>2, <1>3, <1>5, <1>6 DEF StreamOK, parserVars

LEMMA RestartHubKeeps == ASSUME StreamOK, RestartHub PROVE StreamOK'
<1>1. /\ state' = "WaitForSync" /\ protocolSyncByteCount' = 0
      /\ protocolAddressBuffer' = 0 /\ protocolCountBuffer' = 0 /\ protocolDataBuffer' = 0
      /\ dataBuffer' = Empty /\ FrameData' = <<>>
      /\ connected' = FALSE /\ tcp' = <<>> /\ UNCHANGED exporterVars
  BY DEF RestartHub
<1>2. ParserTypeOK'
  BY <1>1, EmptyIsDataBuffer, AddressesAre DEF ParserTypeOK, ParserState
<1>3. ExporterOK'
  BY <1>1 DEF StreamOK, ExporterOK, ExporterState, exporterVars
<1>4. Idle'
  BY <1>1 DEF Idle, AgreesBut, Empty
<1>5. tcp' \in Seq(Byte) /\ dataBuffer' = Empty
  BY <1>1
<1> QED
  BY <1>1, <1>2, <1>3, <1>4, <1>5 DEF StreamOK, Empty

\* Every frame exported keeps the rule of the wire format.
ExportsKeepSync ==
    \A acft \in Aircraft : \A hooks \in HookResults(acft) :
        ExportFrame(acft, hooks) => KeepsSync(acft, hooks)

\* The hub may be restarted; DCS is not, and no send times out.
OnlyTheHubFails == faults' # faults => RestartHub

StreamInv == faults \in Nat /\ StreamOK

LEMMA StreamStep ==
    ASSUME ShortMaps, StreamInv, [StreamNext]_streamVars,
           [ExportsKeepSync /\ OnlyTheHubFails]_streamVars
    PROVE  StreamInv'
<1>1. CASE UNCHANGED streamVars
  <2>1. faults' = faults
    BY <1>1 DEF streamVars
  <2> QED
    BY <1>1, <2>1, StutterKeeps DEF StreamInv
<1>2. ASSUME ExportsKeepSync, OnlyTheHubFails, NEW acft \in Aircraft, AfterNextFrame(acft)
      PROVE  StreamInv'
  <2>1. /\ faults \in Nat /\ StreamOK /\ CaughtUp /\ UNCHANGED <<parserVars, connected>>
    BY <1>2 DEF StreamInv, AfterNextFrame
  <2>2. ASSUME NEW queued, FlushTimesOut(queued) PROVE FALSE
    <3>1. connected /\ faults' = faults + 1
      BY <2>2 DEF FlushTimesOut
    <3>2. RestartHub
      <4>1. faults' # faults
        BY <2>1, <3>1
      <4> QED
        BY <1>2, <4>1 DEF OnlyTheHubFails
    <3>3. connected' = FALSE /\ connected' = connected
      BY <2>1, <3>2 DEF RestartHub
    <3> QED
      BY <3>1, <3>3
  <2>3. ASSUME NEW queued, Flush(queued)
        PROVE  faults' = faults /\ FlushSucceeds(queued)
    BY <2>2, <2>3 DEF Flush, FlushSucceeds
  <2>4. ASSUME NEW hooks \in HookResults(acft), ExportFrame(acft, hooks),
               Flush(msg_buf \o Frame(acft, hooks))
        PROVE  StreamInv'
    <3>1. faults' = faults /\ FlushSucceeds(msg_buf \o Frame(acft, hooks))
      BY <2>3, <2>4
    <3>2. Clean(0, FrameAccesses(acft, hooks))
      BY <1>2, <2>1, <2>4, FrameIsClean DEF ExportsKeepSync, StreamOK, ExporterOK
    <3> QED
      BY <2>1, <2>4, <3>1, <3>2, ExportKeeps DEF StreamInv
  <2>5. ASSUME NotDue(acft) \/ SkipFrame(acft), Flush(msg_buf)
        PROVE  StreamInv'
    <3>1. faults' = faults /\ FlushSucceeds(msg_buf)
      BY <2>3, <2>5
    <3> QED
      BY <2>1, <2>5, <3>1, NoFrameKeeps DEF StreamInv
  <2> QED
    BY <1>2, <2>4, <2>5 DEF AfterNextFrame
<1>3. CASE Connect
  BY <1>3, ConnectKeeps DEF StreamInv, Connect
<1>4. CASE Receive
  BY <1>4, ReceiveKeeps DEF StreamInv, Receive
<1>5. CASE Deliver
  BY <1>5, DeliverKeeps DEF StreamInv, Deliver
<1>6. CASE RestartHub
  <2>1. faults' = faults + 1
    BY <1>6 DEF RestartHub
  <2> QED
    BY <1>6, <2>1, RestartHubKeeps DEF StreamInv
<1>7. ASSUME RestartDcs, OnlyTheHubFails PROVE StreamInv'
  <2>1. faults' = faults + 1
    BY <1>7 DEF RestartDcs
  <2>2. faults' # faults
    BY <2>1 DEF StreamInv
  <2> QED
    BY <1>6, <1>7, <2>2 DEF OnlyTheHubFails
<1> QED
  BY <1>1, <1>2, <1>3, <1>4, <1>5, <1>6, <1>7 DEF StreamNext

(***************************************************************************)
(* What MetadataEnd.lua promises, for every fleet of aircraft, memory map  *)
(* and value: as long as DCS is not restarted, no send times out and every *)
(* frame exported keeps the rule of the wire format, the words the hub has *)
(* when the write to 0xFFFE arrives have the exporter's values, whenever   *)
(* the hub connects and however often it is started anew.                  *)
(***************************************************************************)
THEOREM FrameConsistentAlways ==
    ASSUME ShortMaps
    PROVE  StreamSpec /\ [][ExportsKeepSync /\ OnlyTheHubFails]_streamVars => []FrameConsistent
<1>1. StreamInit => StreamInv
  BY StreamBegins DEF StreamInv
<1>2. StreamInv /\ [StreamNext]_streamVars /\ [ExportsKeepSync /\ OnlyTheHubFails]_streamVars
          => StreamInv'
  BY StreamStep
<1>3. StreamInv => FrameConsistent
  BY StreamOKIsConsistent DEF StreamInv
<1> QED
  BY <1>1, <1>2, <1>3, PTL DEF StreamSpec
-----------------------------------------------------------------------------
(***************************************************************************)
(* What holds of the stream whatever is started anew and whatever part of  *)
(* the data a send gets out: the exporter keeps words, leaves no word      *)
(* dirty between two frames and sends bytes.                               *)
(***************************************************************************)
StreamTypes ==
    /\ ExporterState
    /\ connected \in BOOLEAN
    /\ msg_buf \in Seq(Byte)
    /\ tcp \in Seq(Byte)

LEMMA SomeBytes == \A q \in Seq(Byte) : \A n \in 0..Len(q) : SubSeq(q, 1, n) \in Seq(Byte)
OBVIOUS

LEMMA FlushTypes ==
    ASSUME NEW q \in Seq(Byte), Flush(q)
    PROVE  msg_buf' \in Seq(Byte) /\ tcp' \in Seq(Byte)
<1>1. <<>> \in Seq(Byte)
  OBVIOUS
<1>2. CASE FlushSucceeds(q)
  BY <1>1, <1>2 DEF FlushSucceeds
<1>3. CASE FlushTimesOut(q)
  <2>1. PICK n \in 0..Len(q) - 1 : tcp' = SubSeq(q, 1, n)
    BY <1>3 DEF FlushTimesOut
  <2>2. n \in 0..Len(q)
    BY <2>1
  <2> QED
    BY <1>3, <2>1, <2>2, SomeBytes DEF FlushTimesOut
<1> QED
  BY <1>2, <1>3 DEF Flush

LEMMA NextFrameTypes ==
    ASSUME StreamTypes, NEW acft \in Aircraft, AfterNextFrame(acft)
    PROVE  StreamTypes'
<1>1. /\ ExporterState /\ msg_buf \in Seq(Byte)
      /\ connected' = connected /\ connected \in BOOLEAN
  BY DEF AfterNextFrame, StreamTypes
<1>2. ASSUME NEW hooks \in HookResults(acft), ExportFrame(acft, hooks),
             Flush(msg_buf \o Frame(acft, hooks))
      PROVE  StreamTypes'
  <2>1. FrameAccesses(acft, hooks) \in Seq(Byte) /\ Frame(acft, hooks) = Sync4(FrameAccesses(acft, hooks))
    BY <1>1, FrameIs
  <2>2. Frame(acft, hooks) \in Seq(Byte)
    BY <2>1, SyncBytesAre
  <2>3. msg_buf \o Frame(acft, hooks) \in Seq(Byte)
    BY <1>1, <2>2
  <2>4. ExporterState'
    BY <1>1, <1>2, ExporterKeeps
  <2> QED
    BY <1>1, <1>2, <2>3, <2>4, FlushTypes DEF StreamTypes
<1>3. ASSUME NotDue(acft) \/ SkipFrame(acft), Flush(msg_buf) PROVE StreamTypes'
  <2>1. ExporterState'
    BY <1>1, <1>3, NoFrameTypes
  <2> QED
    BY <1>1, <1>3, <2>1, FlushTypes DEF StreamTypes
<1> QED
  BY <1>2, <1>3 DEF AfterNextFrame

LEMMA RestartDcsTypes ==
    ASSUME StreamTypes, RestartDcs
    PROVE  StreamTypes' /\ UNCHANGED parserVars
<1>1. PICK n \in 0..Len(tcp) : tcp' = SubSeq(tcp, 1, n)
  BY DEF RestartDcs
<1>2. tcp' \in Seq(Byte)
  BY <1>1, SomeBytes DEF StreamTypes
<1>3. msg_buf' \in Seq(Byte) /\ connected' \in BOOLEAN
  <2>1. <<>> \in Seq(Byte)
    OBVIOUS
  <2> QED
    BY <2>1 DEF RestartDcs
<1>4. ExporterState'
  BY BeginsTyped DEF RestartDcs, ExporterState
<1> QED
  BY <1>2, <1>3, <1>4 DEF StreamTypes, RestartDcs

LEMMA StreamTypesStep ==
    ASSUME ParserTypeOK, StreamTypes, [StreamNext]_streamVars
    PROVE  ParserTypeOK' /\ StreamTypes'
<1>1. ASSUME UNCHANGED exporterVars, connected' \in BOOLEAN, tcp' \in Seq(Byte)
      PROVE  StreamTypes'
  BY <1>1 DEF StreamTypes, ExporterState, exporterVars
<1>2. ASSUME UNCHANGED parserVars PROVE ParserTypeOK'
  BY <1>2 DEF ParserTypeOK, parserVars
<1>3. ASSUME NEW acft \in Aircraft, AfterNextFrame(acft) PROVE ParserTypeOK' /\ StreamTypes'
  BY <1>2, <1>3, NextFrameTypes DEF AfterNextFrame
<1>4. CASE Connect
  BY <1>1, <1>2, <1>4 DEF Connect, StreamTypes
<1>5. CASE Receive
  <2>1. Head(tcp) \in Byte /\ Tail(tcp) \in Seq(Byte)
    BY <1>5 DEF Receive, StreamTypes
  <2> QED
    BY <1>1, <1>5, <2>1, ProcessByteKeeps DEF Receive, StreamTypes
<1>6. CASE Deliver
  <2>1. ParserTypeOK'
    BY <1>6 DEF Deliver, ReceiveFrame, ParserTypeOK
  <2> QED
    BY <1>1, <1>6, <2>1 DEF Deliver, StreamTypes
<1>7. CASE RestartDcs
  BY <1>2, <1>7, RestartDcsTypes
<1>8. CASE RestartHub
  <2>1. ParserTypeOK'
    BY <1>8, EmptyIsDataBuffer, AddressesAre DEF RestartHub, ParserTypeOK, ParserState
  <2>2. <<>> \in Seq(Byte)
    OBVIOUS
  <2> QED
    BY <1>1, <1>8, <2>1, <2>2 DEF RestartHub
<1>9. CASE UNCHANGED streamVars
  BY <1>1, <1>2, <1>9 DEF streamVars, StreamTypes
<1> QED
  BY <1>3, <1>4, <1>5, <1>6, <1>7, <1>8, <1>9 DEF StreamNext

(***************************************************************************)
(* Whatever values are exported, wherever a timed out send cuts a frame    *)
(* and whenever DCS or the hub is started anew: the script sends bytes and *)
(* has nothing left that is dirty when a frame is out, and the parser's    *)
(* numbers and its buffer keep to their types.                             *)
(***************************************************************************)
THEOREM StreamTypeCorrect == StreamSpec => [](ParserTypeOK /\ StreamTypes)
<1>1. StreamInit => ParserTypeOK /\ StreamTypes
  BY StreamBegins DEF StreamOK, ExporterOK, StreamTypes
<1>2. ParserTypeOK /\ StreamTypes /\ [StreamNext]_streamVars => (ParserTypeOK /\ StreamTypes)'
  BY StreamTypesStep
<1> QED
  BY <1>1, <1>2, PTL DEF StreamSpec
=============================================================================
