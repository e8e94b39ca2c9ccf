-------------------------- MODULE MemoryMapProofs --------------------------
(***************************************************************************)
(* Proofs about MemoryMap: fields of a word never overlap, and strings     *)
(* occupy consecutive bytes, whatever a module defines and in whatever     *)
(* order; the words that are sent have every value in its field, and the   *)
(* hub can replace the value of one field.                                 *)
(***************************************************************************)
EXTENDS MemoryMap, WellFoundedInduction, TLAPS

Allocation == [shiftBy : Nat, bits : Nat, maxValue : Nat, value : Int \cup {NoValue}]

Entry == [allocatedBitCounter : 0..WordBits, allocations : Seq(Allocation), dirty : BOOLEAN]

\* The allocations of an entry follow each other from bit 0 to the counter.
EntryOK(e) ==
    /\ e \in Entry
    /\ \A k \in DOMAIN e.allocations :
            /\ e.allocations[k].shiftBy + e.allocations[k].bits <= e.allocatedBitCounter
            /\ FitsIn(e.allocations[k].maxValue, e.allocations[k].bits)
    /\ \A j, k \in DOMAIN e.allocations :
            j < k => e.allocations[j].shiftBy + e.allocations[j].bits <= e.allocations[k].shiftBy

EntriesOK ==
    /\ entries \in Seq(Entry)
    /\ Len(entries) > 0
    /\ \A i \in DOMAIN entries : EntryOK(entries[i])

LEMMA Bits == /\ WordBits \in Nat /\ CharBits \in Nat /\ CharBits > 0
              /\ WordBits = 2 * CharBits /\ WordBits <= 16
BY MemoryMapAssumption DEF CharBits

\* A set of natural numbers that is not empty has a least element.
LEMMA LeastElement ==
    ASSUME NEW T \in SUBSET Nat, T # {}
    PROVE  \E i \in T : \A j \in T : i <= j
<1>1. PICK i \in T : \A j \in T : ~(<<j, i>> \in OpToRel(<, Nat))
  BY NatLessThanWellFounded, WFMin
<1>2. \A j \in T : ~(j < i)
  BY <1>1 DEF OpToRel
<1>3. ASSUME NEW j \in T PROVE i <= j
  <2>1. i \in Nat /\ j \in Nat
    OBVIOUS
  <2> QED
    BY <1>2, <2>1
<1> QED
  BY <1>3

LEMMA MinIsLeast ==
    ASSUME NEW T \in SUBSET Nat, T # {}
    PROVE  Min(T) \in T /\ \A j \in T : Min(T) <= j
BY LeastElement DEF Min

-----------------------------------------------------------------------------
\* Arithmetic of whole numbers and of the powers of two up to that of a word.
LEMMA ProductGrows ==
    ASSUME NEW a \in Int, NEW b \in Int, NEW c \in Nat, a <= b
    PROVE  a * c <= b * c
<1>1. b - a \in Nat
  OBVIOUS
<1>2. (b - a) * c \in Nat
  BY <1>1
<1>3. (b - a) * c = b * c - a * c
  OBVIOUS
<1> QED
  BY <1>2, <1>3

LEMMA DivMod ==
    ASSUME NEW w \in Int, NEW u \in Nat \ {0}
    PROVE  /\ w \div u \in Int /\ w % u \in 0..u - 1
           /\ w = (w \div u) * u + (w % u)
OBVIOUS

LEMMA DivModUnique ==
    ASSUME NEW u \in Nat \ {0}, NEW q \in Int, NEW r \in 0..u - 1, NEW w \in Int, w = q * u + r
    PROVE  w \div u = q /\ w % u = r
<1> DEFINE p == w \div u
           s == w % u
<1>1. p \in Int /\ s \in 0..u - 1 /\ w = p * u + s
  BY DivMod
<1> HIDE DEF p, s
<1>2. CASE q < p
  <2>1. (q + 1) * u <= p * u
    BY <1>1, <1>2, ProductGrows
  <2>2. (q + 1) * u = q * u + u
    OBVIOUS
  <2> QED
    BY <1>1, <2>1, <2>2
<1>3. CASE p < q
  <2>1. (p + 1) * u <= q * u
    BY <1>1, <1>3, ProductGrows
  <2>2. (p + 1) * u = p * u + u
    BY <1>1
  <2> QED
    BY <1>1, <2>1, <2>2
<1>4. CASE p = q
  <2> QED
    BY <1>1, <1>4 DEF p, s
<1> QED
  BY <1>1, <1>2, <1>3, <1>4

LEMMA MultipleAdded ==
    ASSUME NEW w \in Int, NEW c \in Int, NEW u \in Nat \ {0}
    PROVE  (w + c * u) \div u = w \div u + c /\ (w + c * u) % u = w % u
<1> DEFINE q == w \div u
           r == w % u
<1>1. q \in Int /\ r \in 0..u - 1 /\ w = q * u + r
  BY DivMod
<1> HIDE DEF q, r
<1>2. w + c * u = (q + c) * u + r /\ w + c * u \in Int /\ q + c \in Int
  BY <1>1
<1> DEFINE x == w + c * u
           y == q + c
<1> HIDE DEF x, y
<1>3. x \div u = y /\ x % u = r
  <2>1. x \in Int /\ y \in Int /\ x = y * u + r
    BY <1>2 DEF x, y
  <2> QED
    BY <1>1, <2>1, DivModUnique
<1> QED
  BY <1>3 DEF x, y, q, r

LEMMA PowersOfTwo ==
    /\ 2^0 = 1
    /\ \A n \in 0..16 : 2^n \in Nat \ {0}
    /\ \A n \in 0..15 : 2^(n + 1) = 2 * 2^n
<1>1. /\ 2^0 \in Nat \ {0} /\ 2^(0 + 1) = 2 * 2^0
      /\ 2^1 \in Nat \ {0} /\ 2^(1 + 1) = 2 * 2^1
      /\ 2^2 \in Nat \ {0} /\ 2^(2 + 1) = 2 * 2^2
      /\ 2^3 \in Nat \ {0} /\ 2^(3 + 1) = 2 * 2^3
      /\ 2^4 \in Nat \ {0} /\ 2^(4 + 1) = 2 * 2^4
      /\ 2^5 \in Nat \ {0} /\ 2^(5 + 1) = 2 * 2^5
  OBVIOUS
<1>2. /\ 2^6 \in Nat \ {0} /\ 2^(6 + 1) = 2 * 2^6
      /\ 2^7 \in Nat \ {0} /\ 2^(7 + 1) = 2 * 2^7
      /\ 2^8 \in Nat \ {0} /\ 2^(8 + 1) = 2 * 2^8
      /\ 2^9 \in Nat \ {0} /\ 2^(9 + 1) = 2 * 2^9
      /\ 2^10 \in Nat \ {0} /\ 2^(10 + 1) = 2 * 2^10
  OBVIOUS
<1>3. /\ 2^11 \in Nat \ {0} /\ 2^(11 + 1) = 2 * 2^11
      /\ 2^12 \in Nat \ {0} /\ 2^(12 + 1) = 2 * 2^12
      /\ 2^13 \in Nat \ {0} /\ 2^(13 + 1) = 2 * 2^13
      /\ 2^14 \in Nat \ {0} /\ 2^(14 + 1) = 2 * 2^14
      /\ 2^15 \in Nat \ {0} /\ 2^(15 + 1) = 2 * 2^15
  OBVIOUS
<1>4. ASSUME NEW n \in 0..15 PROVE 2^n \in Nat \ {0} /\ 2^(n + 1) = 2 * 2^n
  <2>1. CASE n \in 0..5
    <3>1. n = 0 \/ n = 1 \/ n = 2 \/ n = 3 \/ n = 4 \/ n = 5
      BY <2>1
    <3> QED
      BY <1>1, <3>1, Zenon
  <2>2. CASE n \in 6..10
    <3>1. n = 6 \/ n = 7 \/ n = 8 \/ n = 9 \/ n = 10
      BY <2>2
    <3> QED
      BY <1>2, <3>1, Zenon
  <2>3. CASE n \in 11..15
    <3>1. n = 11 \/ n = 12 \/ n = 13 \/ n = 14 \/ n = 15
      BY <2>3
    <3> QED
      BY <1>3, <3>1, Zenon
  <2> QED
    BY <2>1, <2>2, <2>3
<1>5. 2^0 = 1 /\ 2^16 \in Nat \ {0}
  OBVIOUS
<1>6. \A n \in 0..16 : n \in 0..15 \/ n = 16
  OBVIOUS
<1> QED
  BY <1>4, <1>5, <1>6

LEMMA PowerIsANumber ==
    ASSUME NEW n \in Nat, n <= 16
    PROVE  2^n \in Nat /\ 2^n \in Nat \ {0}
<1>1. n \in 0..16
  OBVIOUS
<1>2. 2^n \in Nat \ {0}
  BY <1>1, PowersOfTwo, Zenon
<1>3. 2^n \in Nat
  BY <1>2, Zenon
<1> QED
  BY <1>2, <1>3, Zenon

LEMMA PowersAdd ==
    ASSUME NEW m \in Nat, NEW n \in Nat, m + n <= 16
    PROVE  2^(m + n) = 2^m * 2^n
<1> DEFINE T == {k \in 0..16 - m : 2^(m + k) # 2^m * 2^k}
<1> SUFFICES ASSUME T # {} PROVE FALSE
  <2>1. n \in 0..16 - m
    OBVIOUS
  <2> QED
    BY <2>1
<1>1. PICK k \in T : \A j \in T : k <= j
  <2>1. T \in SUBSET Nat
    OBVIOUS
  <2> HIDE DEF T
  <2> QED
    BY <2>1, LeastElement
<1>2. k \in 0..16 - m /\ 2^(m + k) # 2^m * 2^k
  BY <1>1
<1>3. m <= 16 /\ 2^m \in Nat
  <2>1. m <= 16
    OBVIOUS
  <2> QED
    BY <2>1, PowerIsANumber, Zenon
<1>4. k # 0
  <2>1. 2^m * 1 = 2^m /\ m + 0 = m
    BY <1>3
  <2>2. 2^(m + 0) = 2^m * 2^0
    BY <2>1, PowersOfTwo, Zenon
  <2> QED
    BY <1>2, <2>2
<1>5. PICK j : j = k - 1
  OBVIOUS
<1>6. j \in 0..16 - m /\ j \in 0..15 /\ m + j \in 0..15 /\ k = j + 1 /\ m + k = (m + j) + 1 /\ ~(k <= j)
  BY <1>2, <1>4, <1>5
<1>7. 2^(m + j) = 2^m * 2^j
  BY <1>1, <1>6
<1>8. 2^(m + k) = 2 * 2^(m + j)
  BY <1>6, PowersOfTwo
<1>9. 2^k = 2 * 2^j
  BY <1>6, PowersOfTwo
<1>10. 2^j \in Nat
  <2>1. j \in Nat /\ j <= 16
    BY <1>6
  <2> QED
    BY <2>1, PowerIsANumber, Zenon
<1>11. 2 * (2^m * 2^j) = 2^m * (2 * 2^j)
  BY <1>3, <1>10
<1> QED
  BY <1>2, <1>7, <1>8, <1>9, <1>11

LEMMA PowersGrow ==
    ASSUME NEW m \in Nat, NEW n \in Nat, m <= n, n <= 16
    PROVE  2^m <= 2^n
<1>1. PICK d : d = n - m
  OBVIOUS
<1>2. d \in Nat /\ m + d = n /\ m + d <= 16
  BY <1>1
<1>3. 2^n = 2^m * 2^d
  BY <1>2, PowersAdd
<1>4. 2^m \in Nat /\ 2^d \in Nat \ {0}
  <2>1. m <= 16 /\ d <= 16
    BY <1>2
  <2> QED
    BY <1>2, <2>1, PowerIsANumber, Zenon
<1> DEFINE a == 2^m
           b == 2^d
<1>5. a \in Nat /\ b \in Nat /\ 1 <= b
  BY <1>4
<1> HIDE DEF a, b
<1>6. 1 * a <= b * a /\ 1 * a = a /\ b * a = a * b
  BY <1>5, ProductGrows
<1>7. a <= a * b
  BY <1>5, <1>6
<1> QED
  BY <1>3, <1>7 DEF a, b

LEMMA ProductsReordered ==
    ASSUME NEW a \in Int, NEW b \in Int, NEW c \in Int, NEW d \in Int
    PROVE  d * (a * (b * c)) = ((d * c) * b) * a
OBVIOUS

\* What mask and shift take out of a word.
Part(w, s, b) == (w \div 2^s) % 2^b

\* What is added above a field does not change it.
LEMMA PartBelow ==
    ASSUME NEW w \in Int, NEW s \in Nat, NEW b \in Nat, NEW t \in Nat, s + b <= t, t <= 16, NEW d \in Int
    PROVE  Part(w + d * 2^t, s, b) = Part(w, s, b)
<1>1. PICK e : e = t - (s + b)
  OBVIOUS
<1>2. e \in Nat /\ b + e \in Nat /\ s + (b + e) = t /\ b + e <= 16 /\ s \in 0..16 /\ b \in 0..16 /\ e \in 0..16
  BY <1>1
<1>3. 2^t = 2^s * (2^b * 2^e)
  BY <1>2, PowersAdd
<1>4. 2^s \in Nat \ {0} /\ 2^b \in Nat \ {0} /\ 2^e \in Nat \ {0}
  BY <1>2, PowersOfTwo
<1> DEFINE u == 2^s
           v == 2^b
           c == 2^e
<1>5. u \in Nat \ {0} /\ v \in Nat \ {0} /\ c \in Nat
  BY <1>4
<1>6. 2^t = u * (v * c)
  BY <1>3
<1> HIDE DEF u, v, c
<1>7. d * (u * (v * c)) = ((d * c) * v) * u
  BY <1>5, ProductsReordered
<1>8. d * c \in Int /\ (d * c) * v \in Int
  BY <1>5
<1>9. (w + ((d * c) * v) * u) \div u = w \div u + (d * c) * v
  BY <1>5, <1>8, MultipleAdded
<1>10. (w \div u + (d * c) * v) % v = (w \div u) % v
  <2>1. w \div u \in Int
    BY <1>5, DivMod
  <2> QED
    BY <1>5, <1>8, <2>1, MultipleAdded
<1>11. ((w + d * 2^t) \div u) % v = (w \div u) % v
  BY <1>6, <1>7, <1>9, <1>10
<1> QED
  BY <1>11 DEF Part, u, v

\* A value that is put in above everything else is read again.
LEMMA PartOnTop ==
    ASSUME NEW s \in Nat, NEW b \in Nat, s + b <= 16, NEW r \in 0..2^s - 1, NEW x \in 0..2^b - 1
    PROVE  /\ Part(r + x * 2^s, s, b) = x
           /\ r + x * 2^s \in 0..2^(s + b) - 1
<1>1. s \in 0..16 /\ b \in 0..16
  OBVIOUS
<1> DEFINE u == 2^s
           v == 2^b
           w == r + x * u
<1>2. u \in Nat \ {0} /\ v \in Nat \ {0} /\ r \in 0..u - 1 /\ x \in 0..v - 1
  BY <1>1, PowersOfTwo
<1>3. 2^(s + b) = u * v
  BY PowersAdd
<1> HIDE DEF u, v
<1>4. x * u \in Nat /\ w \in Nat /\ w = x * u + r
  BY <1>2
<1> HIDE DEF w
<1>5. w \div u = x
  BY <1>2, <1>4, DivModUnique
<1>6. x % v = x
  <2>1. x = 0 * v + x /\ x \in Int
    BY <1>2
  <2> QED
    BY <1>2, <2>1, DivModUnique
<1>7. w < u * v
  <2>1. (x + 1) * u <= v * u
    BY <1>2, ProductGrows
  <2>2. (x + 1) * u = x * u + u /\ v * u = u * v /\ x * u \in Nat /\ u * v \in Nat
    BY <1>2
  <2> QED
    BY <1>2, <1>4, <2>1, <2>2
<1>8. u * v \in Nat
  BY <1>2
<1>9. Part(w, s, b) = x
  BY <1>5, <1>6 DEF Part, u, v
<1>10. w \in 0..2^(s + b) - 1
  BY <1>3, <1>4, <1>7, <1>8
<1> QED
  BY <1>9, <1>10 DEF w, u

-----------------------------------------------------------------------------
\* What an entry is.
LEMMA EntryFacts ==
    ASSUME NEW e, EntryOK(e)
    PROVE  /\ e.allocatedBitCounter \in 0..WordBits
           /\ e.allocations \in Seq(Allocation)
           /\ e.dirty \in BOOLEAN
           /\ Len(e.allocations) \in Nat
           /\ DOMAIN e.allocations = 1..Len(e.allocations)
           /\ \A k \in 1..Len(e.allocations) :
                /\ e.allocations[k] \in Allocation
                /\ e.allocations[k].shiftBy \in Nat
                /\ e.allocations[k].bits \in Nat
                /\ e.allocations[k].shiftBy + e.allocations[k].bits <= e.allocatedBitCounter
                /\ FitsIn(e.allocations[k].maxValue, e.allocations[k].bits)
           /\ \A j, k \in 1..Len(e.allocations) :
                j < k => e.allocations[j].shiftBy + e.allocations[j].bits <= e.allocations[k].shiftBy
<1>1. /\ e.allocatedBitCounter \in 0..WordBits
      /\ e.allocations \in Seq(Allocation)
      /\ e.dirty \in BOOLEAN
  BY DEF EntryOK, Entry
<1>2. \A k \in 1..Len(e.allocations) : e.allocations[k] \in Allocation
  BY <1>1
<1>3. \A k \in 1..Len(e.allocations) : e.allocations[k].shiftBy \in Nat /\ e.allocations[k].bits \in Nat
  BY <1>2 DEF Allocation
<1> QED
  BY <1>1, <1>2, <1>3 DEF EntryOK

LEMMA BitsRequiredSuffice ==
    ASSUME NEW max \in MaxValues
    PROVE  /\ max \in Nat
           /\ BitsRequired(max) \in 0..WordBits
           /\ FitsIn(max, BitsRequired(max))
<1> DEFINE S == {n \in 0..WordBits : FitsIn(max, n)}
<1>1. WordBits \in S /\ S \in SUBSET Nat
  BY MemoryMapAssumption, Bits
<1>2. Min(S) \in S
  <2> HIDE DEF S
  <2> QED
    BY <1>1, MinIsLeast
<1> QED
  BY <1>2, MemoryMapAssumption DEF BitsRequired

LEMMA AllocatedOK ==
    ASSUME NEW e, EntryOK(e), NEW max \in Nat, NEW bits \in Nat,
           e.allocatedBitCounter + bits <= WordBits, FitsIn(max, bits)
    PROVE  EntryOK(Allocated(e, max, bits))
<1> DEFINE a == [shiftBy |-> e.allocatedBitCounter, bits |-> bits, maxValue |-> max, value |-> NoValue]
           n == Len(e.allocations)
           new == Allocated(e, max, bits)
<1>1. /\ e.allocatedBitCounter \in 0..WordBits
      /\ e.allocations \in Seq(Allocation)
      /\ e.dirty \in BOOLEAN
      /\ n \in Nat
  BY EntryFacts
<1>2. a \in Allocation
  BY <1>1, Bits DEF Allocation
<1>3. /\ new.allocatedBitCounter = e.allocatedBitCounter + bits
      /\ new.allocations = Append(e.allocations, a)
      /\ new \in Entry
  BY <1>1, <1>2, Bits DEF EntryOK, Entry, Allocated, BitsTaken
<1>4. /\ DOMAIN new.allocations = 1..n + 1
      /\ \A k \in 1..n : new.allocations[k] = e.allocations[k] /\ e.allocations[k] \in Allocation
      /\ new.allocations[n + 1] = a
  <2> HIDE DEF a, new
  <2> QED
    BY <1>1, <1>2, <1>3
<1>5. ASSUME NEW k \in 1..n + 1
      PROVE  /\ new.allocations[k].shiftBy + new.allocations[k].bits <= new.allocatedBitCounter
             /\ FitsIn(new.allocations[k].maxValue, new.allocations[k].bits)
  <2>1. CASE k \in 1..n
    <3>1. /\ e.allocations[k].shiftBy + e.allocations[k].bits <= e.allocatedBitCounter
          /\ FitsIn(e.allocations[k].maxValue, e.allocations[k].bits)
          /\ e.allocations[k].shiftBy \in Nat /\ e.allocations[k].bits \in Nat
      BY <2>1, EntryFacts
    <3>2. new.allocations[k] = e.allocations[k]
      BY <2>1, <1>4
    <3>3. FitsIn(new.allocations[k].maxValue, new.allocations[k].bits)
      BY <3>1, <3>2, Zenon
    <3>4. new.allocatedBitCounter \in Nat /\ new.allocatedBitCounter >= e.allocatedBitCounter
      BY <1>1, <1>3, Bits
    <3>5. e.allocatedBitCounter \in Nat
      BY <1>1, Bits
    <3> HIDE DEF new
    <3>6. new.allocations[k].shiftBy + new.allocations[k].bits <= new.allocatedBitCounter
      BY <3>1, <3>2, <3>4, <3>5, SMTT(30)
    <3> QED
      BY <3>3, <3>6
  <2>2. CASE k = n + 1
    <3> HIDE DEF new
    <3> QED
      BY <2>2, <1>1, <1>3, <1>4, Bits
  <2> QED
    BY <2>1, <2>2, <1>1
<1>6. ASSUME NEW j \in 1..n + 1, NEW k \in 1..n + 1, j < k
      PROVE  new.allocations[j].shiftBy + new.allocations[j].bits <= new.allocations[k].shiftBy
  <2>1. j \in 1..n /\ new.allocations[j] = e.allocations[j]
    BY <1>1, <1>4, <1>6, SMTT(30)
  <2>2. CASE k \in 1..n
    BY <2>1, <2>2, <1>4, <1>6, EntryFacts
  <2>3. CASE k = n + 1
    BY <2>1, <2>3, <1>4, EntryFacts
  <2> QED
    BY <2>2, <2>3, <1>1
<1> HIDE DEF new
<1>7. EntryOK(new)
  BY <1>3, <1>4, <1>5, <1>6 DEF EntryOK
<1> QED
  BY <1>7 DEF new

\* Allocating in an entry that has room, the last new one included.
LEMMA AllocateInOK ==
    ASSUME EntriesOK, NEW i \in 1..Len(entries) + 1, NEW max \in Nat, NEW bits \in Nat,
           HasRoom(i, bits), FitsIn(max, bits), AllocateIn(i, max, bits)
    PROVE  EntriesOK'
<1>1. Len(entries) \in Nat /\ entries \in Seq(Entry)
  BY DEF EntriesOK
<1>2. EntryOK(NewEntry)
  BY Bits DEF NewEntry, EntryOK, Entry
<1>3. EntryOK(EntryAt(i))
  BY <1>1, <1>2 DEF EntriesOK, EntryAt
<1>4. EntryAt(i).allocatedBitCounter \in 0..WordBits
  BY <1>3 DEF EntryOK, Entry
<1>5. EntryOK(Allocated(EntryAt(i), max, bits))
  BY <1>3, <1>4, AllocatedOK, Bits DEF HasRoom
<1> DEFINE n == IF i > Len(entries) THEN i ELSE Len(entries)
<1>6. n \in Nat /\ n > 0 /\ n <= Len(entries) + 1 /\ n >= i /\ (n > Len(entries) => i = n)
  BY <1>1 DEF EntriesOK
<1>7. /\ DOMAIN entries' = 1..n
      /\ \A j \in 1..n : entries'[j] = IF j = i THEN Allocated(EntryAt(i), max, bits) ELSE entries[j]
  BY DEF AllocateIn
<1>8. \A j \in 1..n : EntryOK(entries'[j])
  BY <1>1, <1>5, <1>6, <1>7 DEF EntriesOK
<1>9. entries' \in Seq(Entry) /\ Len(entries') = n
  <2>1. \A j \in 1..n : entries'[j] \in Entry
    BY <1>8 DEF EntryOK
  <2>2. entries' = [j \in 1..n |-> IF j = i THEN Allocated(EntryAt(i), max, bits) ELSE entries[j]]
    BY DEF AllocateIn
  <2> HIDE DEF n
  <2>3. \A j \in 1..n : (IF j = i THEN Allocated(EntryAt(i), max, bits) ELSE entries[j]) \in Entry
    BY <2>1, <1>7
  <2> QED
    BY <2>2, <2>3, <1>6
<1> QED
  BY <1>6, <1>7, <1>8, <1>9 DEF EntriesOK

-----------------------------------------------------------------------------
\* What the export does to an entry leaves its layout alone.
SameLayout(e, f) ==
    /\ f.allocatedBitCounter = e.allocatedBitCounter
    /\ Len(f.allocations) = Len(e.allocations)
    /\ \A k \in 1..Len(e.allocations) :
            /\ f.allocations[k].shiftBy = e.allocations[k].shiftBy
            /\ f.allocations[k].bits = e.allocations[k].bits
            /\ f.allocations[k].maxValue = e.allocations[k].maxValue

LEMMA SameLayoutOK ==
    ASSUME NEW e, EntryOK(e), NEW f \in Entry, SameLayout(e, f)
    PROVE  EntryOK(f)
<1>1. DOMAIN f.allocations = 1..Len(e.allocations)
  BY DEF Entry, SameLayout
<1>2. \A k \in 1..Len(e.allocations) :
        /\ f.allocations[k].shiftBy + f.allocations[k].bits <= f.allocatedBitCounter
        /\ FitsIn(f.allocations[k].maxValue, f.allocations[k].bits)
  BY EntryFacts DEF SameLayout
<1>3. \A j, k \in 1..Len(e.allocations) :
        j < k => f.allocations[j].shiftBy + f.allocations[j].bits <= f.allocations[k].shiftBy
  BY EntryFacts DEF SameLayout
<1> QED
  BY <1>1, <1>2, <1>3 DEF EntryOK

LEMMA RevaluedKeepsLayout ==
    ASSUME NEW e, EntryOK(e), NEW values, NEW dirty \in BOOLEAN,
           \A k \in 1..Len(e.allocations) : values[k] \in Int \cup {NoValue}
    PROVE  Revalued(e, values, dirty) \in Entry /\ SameLayout(e, Revalued(e, values, dirty))
<1> DEFINE n == Len(e.allocations)
           new == [k \in 1..n |-> [e.allocations[k] EXCEPT !.value = values[k]]]
           f == Revalued(e, values, dirty)
<1>1. /\ f.allocatedBitCounter = e.allocatedBitCounter
      /\ f.allocations = new
      /\ f.dirty = dirty
      /\ f = [allocatedBitCounter |-> e.allocatedBitCounter, allocations |-> new, dirty |-> dirty]
  BY EntryFacts DEF Revalued
<1>2. n \in Nat /\ e.allocatedBitCounter \in 0..WordBits
  BY EntryFacts
<1>3. ASSUME NEW k \in 1..n
      PROVE  /\ new[k] \in Allocation
             /\ new[k].shiftBy = e.allocations[k].shiftBy
             /\ new[k].bits = e.allocations[k].bits
             /\ new[k].maxValue = e.allocations[k].maxValue
  <2>1. e.allocations[k] \in Allocation /\ values[k] \in Int \cup {NoValue}
    BY EntryFacts
  <2> QED
    BY <2>1 DEF Allocation
<1>4. new \in Seq(Allocation) /\ Len(new) = n
  <2>1. \A k \in 1..n : [e.allocations[k] EXCEPT !.value = values[k]] \in Allocation
    BY <1>3
  <2> QED
    BY <1>2, <2>1
<1> HIDE DEF new, f
<1>5. f \in Entry
  BY <1>1, <1>2, <1>4 DEF Entry
<1>6. SameLayout(e, f)
  BY <1>1, <1>3, <1>4 DEF SameLayout
<1> QED
  BY <1>5, <1>6 DEF f

\* The same for all entries at once.
LayoutKept ==
    /\ entries' \in Seq(Entry)
    /\ Len(entries') = Len(entries)
    /\ \A i \in 1..Len(entries) : SameLayout(entries[i], entries'[i])

LEMMA LayoutKeptOK ==
    ASSUME EntriesOK, LayoutKept
    PROVE  EntriesOK'
<1>1. entries' \in Seq(Entry) /\ Len(entries') = Len(entries) /\ Len(entries) \in Nat
  BY DEF EntriesOK, LayoutKept
<1>2. ASSUME NEW i \in 1..Len(entries) PROVE EntryOK(entries'[i])
  <2>1. entries'[i] \in Entry
    BY <1>1
  <2>2. EntryOK(entries[i]) /\ SameLayout(entries[i], entries'[i])
    BY <1>1 DEF EntriesOK, LayoutKept
  <2> QED
    BY <2>1, <2>2, SameLayoutOK
<1> QED
  BY <1>1, <1>2 DEF EntriesOK

LEMMA SetFieldsKeepsLayout ==
    ASSUME EntriesOK, NEW new, SetFields(new)
    PROVE  LayoutKept
<1>1. Len(entries) \in Nat /\ DOMAIN entries = 1..Len(entries)
  BY DEF EntriesOK
<1> DEFINE values(i) == [k \in DOMAIN entries[i].allocations |-> ValueAfter(<<i, k>>, new)]
           dirty(i) == entries[i].dirty \/ \E k \in DOMAIN entries[i].allocations :
                            Changes(Field(<<i, k>>).value, ValueAfter(<<i, k>>, new))
<1>2. ASSUME NEW i \in 1..Len(entries)
      PROVE  /\ Revalued(entries[i], values(i), dirty(i)) \in Entry
             /\ SameLayout(entries[i], Revalued(entries[i], values(i), dirty(i)))
  <2>1. EntryOK(entries[i])
    BY <1>1 DEF EntriesOK
  <2>2. \A k \in 1..Len(entries[i].allocations) : values(i)[k] \in Int \cup {NoValue}
    <3> SUFFICES ASSUME NEW k \in 1..Len(entries[i].allocations)
                 PROVE  ValueAfter(<<i, k>>, new) \in Int \cup {NoValue}
      BY <2>1, EntryFacts
    <3>1. entries[i].allocations[k] \in Allocation
      BY <2>1, EntryFacts
    <3>2. Field(<<i, k>>) = entries[i].allocations[k]
      BY DEF Field
    <3>3. Field(<<i, k>>).maxValue \in Nat /\ Field(<<i, k>>).value \in Int \cup {NoValue}
      BY <3>1, <3>2 DEF Allocation
    <3> QED
      BY <3>3 DEF ValueAfter
  <2>3. dirty(i) \in BOOLEAN
    BY <2>1, EntryFacts
  <2> HIDE DEF values, dirty
  <2> QED
    BY <2>1, <2>2, <2>3, RevaluedKeepsLayout
<1>3. entries' = [i \in 1..Len(entries) |-> Revalued(entries[i], values(i), dirty(i))]
  BY <1>1 DEF SetFields
<1> HIDE DEF values, dirty
<1> QED
  BY <1>1, <1>2, <1>3 DEF LayoutKept

LEMMA ClearValuesKeepsLayout ==
    ASSUME EntriesOK, ClearValues
    PROVE  LayoutKept
<1>1. Len(entries) \in Nat /\ DOMAIN entries = 1..Len(entries)
  BY DEF EntriesOK
<1> DEFINE values(i) == [k \in DOMAIN entries[i].allocations |-> NoValue]
<1>2. ASSUME NEW i \in 1..Len(entries)
      PROVE  /\ Revalued(entries[i], values(i), entries[i].dirty) \in Entry
             /\ SameLayout(entries[i], Revalued(entries[i], values(i), entries[i].dirty))
  <2>1. EntryOK(entries[i])
    BY <1>1 DEF EntriesOK
  <2>2. \A k \in 1..Len(entries[i].allocations) : values(i)[k] \in Int \cup {NoValue}
    BY <2>1, EntryFacts
  <2>3. entries[i].dirty \in BOOLEAN
    BY <2>1, EntryFacts
  <2> HIDE DEF values
  <2> QED
    BY <2>1, <2>2, <2>3, RevaluedKeepsLayout
<1>3. entries' = [i \in 1..Len(entries) |-> Revalued(entries[i], values(i), entries[i].dirty)]
  BY <1>1 DEF ClearValues
<1> HIDE DEF values
<1> QED
  BY <1>1, <1>2, <1>3 DEF LayoutKept

LEMMA FlushKeepsLayout ==
    ASSUME EntriesOK, Flush
    PROVE  LayoutKept
<1>1. Len(entries) \in Nat /\ DOMAIN entries = 1..Len(entries)
  BY DEF EntriesOK
<1> DEFINE sent(i) == [entries[i] EXCEPT !.dirty = FALSE]
<1>2. ASSUME NEW i \in 1..Len(entries)
      PROVE  sent(i) \in Entry /\ SameLayout(entries[i], sent(i))
  <2>1. entries[i] \in Entry
    BY <1>1 DEF EntriesOK
  <2> QED
    BY <2>1 DEF Entry, SameLayout
<1>3. entries' = [i \in 1..Len(entries) |-> sent(i)]
  BY <1>1 DEF Flush
<1> HIDE DEF sent
<1> QED
  BY <1>1, <1>2, <1>3 DEF LayoutKept

-----------------------------------------------------------------------------
\* Where the fields are.
IsField(f) ==
    /\ f \in Nat \X Nat
    /\ f[1] \in 1..Len(entries)
    /\ f[2] \in 1..Len(entries[f[1]].allocations)

LEMMA FieldsAre ==
    ASSUME EntriesOK, NEW f
    PROVE  f \in Fields <=> IsField(f)
<1>1. DOMAIN entries = 1..Len(entries) /\ Len(entries) \in Nat
  BY DEF EntriesOK
<1>2. \A i \in 1..Len(entries) : /\ Len(entries[i].allocations) \in Nat
                                 /\ DOMAIN entries[i].allocations = 1..Len(entries[i].allocations)
  BY <1>1, EntryFacts DEF EntriesOK
<1> QED
  BY <1>1, <1>2 DEF Fields, IsField

LEMMA FieldFacts ==
    ASSUME EntriesOK, NEW f, IsField(f)
    PROVE  /\ Field(f) \in Allocation
           /\ Field(f).shiftBy \in Nat
           /\ Field(f).bits \in Nat
<1>1. EntryOK(entries[f[1]])
  BY DEF EntriesOK, IsField
<1> QED
  BY <1>1, EntryFacts DEF Field, IsField

\* A field stays where it is.
FieldKept(f) ==
    /\ IsField(f)'
    /\ Field(f)'.shiftBy = Field(f).shiftBy
    /\ Field(f)'.bits = Field(f).bits

LEMMA LayoutKeptFields ==
    ASSUME EntriesOK, LayoutKept, NEW f, IsField(f)
    PROVE  FieldKept(f)
BY DEF LayoutKept, SameLayout, FieldKept, IsField, Field

LEMMA AllocateInFields ==
    ASSUME EntriesOK, NEW i \in 1..Len(entries) + 1, NEW max \in Nat, NEW bits \in Nat,
           HasRoom(i, bits), FitsIn(max, bits), AllocateIn(i, max, bits),
           NEW new, new = NewAllocation(i)
    PROVE  /\ \A f : IsField(f) => FieldKept(f)
           /\ \A f : IsField(f) => Field(f)' = Field(f)
           /\ IsField(new)' /\ ~IsField(new)
           /\ Field(new)'.maxValue = max
           /\ Field(new)'.value = NoValue
           /\ new[1] = i
           /\ Field(new)'.shiftBy = EntryAt(i).allocatedBitCounter
           /\ Field(new)'.bits = bits
           /\ Len(entries)' = IF i > Len(entries) THEN i ELSE Len(entries)
           /\ entries'[i].allocatedBitCounter = EntryAt(i).allocatedBitCounter + bits
<1> DEFINE n == IF i > Len(entries) THEN i ELSE Len(entries)
           e == EntryAt(i)
           a == [shiftBy |-> e.allocatedBitCounter, bits |-> bits, maxValue |-> max, value |-> NoValue]
<1>1. Len(entries) \in Nat /\ Len(entries) > 0
  BY DEF EntriesOK
<1>2. EntriesOK'
  BY AllocateInOK
<1>3. /\ DOMAIN entries' = 1..n
      /\ \A j \in 1..n : entries'[j] = IF j = i THEN Allocated(e, max, bits) ELSE entries[j]
  BY DEF AllocateIn
<1>4. n \in Nat /\ i \in 1..n /\ Len(entries') = n /\ \A j \in 1..Len(entries) : j \in 1..n
  BY <1>1, <1>2, <1>3 DEF EntriesOK
<1>5. EntryOK(e)
  BY <1>1, Bits DEF EntriesOK, EntryAt, NewEntry, EntryOK, Entry
<1>6. /\ entries'[i].allocatedBitCounter = e.allocatedBitCounter + bits
      /\ entries'[i].allocations = Append(e.allocations, a)
  BY <1>3, <1>4 DEF Allocated, BitsTaken
<1>7. Len(e.allocations) \in Nat /\ e.allocations \in Seq(Allocation)
  BY <1>5, EntryFacts
<1>8. /\ Len(entries'[i].allocations) = Len(e.allocations) + 1
      /\ entries'[i].allocations[Len(e.allocations) + 1] = a
      /\ \A k \in 1..Len(e.allocations) : entries'[i].allocations[k] = e.allocations[k]
  <2> HIDE DEF a, e
  <2> QED
    BY <1>6, <1>7
<1>9. new = <<i, Len(e.allocations) + 1>>
  BY DEF NewAllocation
<1>10. ASSUME NEW f, IsField(f)
       PROVE  FieldKept(f) /\ Field(f)' = Field(f)
  <2>1. f \in Nat \X Nat /\ f[1] \in 1..Len(entries) /\ f[2] \in 1..Len(entries[f[1]].allocations)
    BY <1>10 DEF IsField
  <2>2. f[1] \in 1..Len(entries')
    BY <2>1, <1>4
  <2>3. CASE f[1] = i
    <3>1. e = entries[i]
      BY <2>1, <2>3, <1>1 DEF EntryAt
    <3>2. f[2] \in 1..Len(entries'[i].allocations)
      BY <2>1, <2>3, <3>1, <1>7, <1>8
    <3>3. entries'[i].allocations[f[2]] = entries[i].allocations[f[2]]
      BY <2>1, <2>3, <3>1, <1>8
    <3> QED
      BY <2>1, <2>2, <2>3, <3>2, <3>3 DEF FieldKept, IsField, Field
  <2>4. CASE f[1] # i
    <3>1. entries'[f[1]] = entries[f[1]]
      BY <2>1, <2>4, <1>3, <1>4
    <3> QED
      BY <2>1, <2>2, <3>1 DEF FieldKept, IsField, Field
  <2> QED
    BY <2>3, <2>4
<1>11. IsField(new)'
  BY <1>4, <1>7, <1>8, <1>9 DEF IsField
<1>12. Field(new)' = a
  BY <1>8, <1>9 DEF Field
<1>13. ~IsField(new)
  <2>1. CASE i \in 1..Len(entries)
    <3>1. e = entries[i]
      BY <2>1, <1>1 DEF EntryAt
    <3>2. new[1] = i /\ new[2] = Len(entries[i].allocations) + 1 /\ Len(entries[i].allocations) \in Nat
      BY <3>1, <1>7, <1>9
    <3>3. ~(new[2] \in 1..Len(entries[i].allocations))
      BY <3>2
    <3> QED
      BY <3>2, <3>3 DEF IsField
  <2>2. CASE i \notin 1..Len(entries)
    BY <2>2, <1>9 DEF IsField
  <2> QED
    BY <2>1, <2>2
<1>14. Field(new)'.maxValue = max /\ Field(new)'.value = NoValue
  BY <1>12
<1>15. \A f : IsField(f) => FieldKept(f)
  BY <1>10
<1>16. \A f : IsField(f) => Field(f)' = Field(f)
  BY <1>10
<1> QED
  BY <1>4, <1>6, <1>9, <1>11, <1>12, <1>13, <1>14, <1>15, <1>16

-----------------------------------------------------------------------------
\* Where allocateInt finds room.
LEMMA RoomForInt ==
    ASSUME EntriesOK, NEW bits \in 0..WordBits
    PROVE  EntryForInt(bits) \in 1..Len(entries) + 1 /\ HasRoom(EntryForInt(bits), bits)
<1> DEFINE S == {i \in 1..Len(entries) + 1 : HasRoom(i, bits)}
<1>1. Len(entries) \in Nat
  BY DEF EntriesOK
<1>2. Len(entries) + 1 \in S /\ S \in SUBSET Nat
  BY <1>1, Bits DEF HasRoom, EntryAt, NewEntry
<1>3. Min(S) \in S
  <2> HIDE DEF S
  <2> QED
    BY <1>2, MinIsLeast
<1> QED
  BY <1>3 DEF EntryForInt

LEMMA RoomForFirstCharacter ==
    ASSUME EntriesOK
    PROVE  /\ EntryForFirstCharacter \in 1..Len(entries) + 1
           /\ EntryForFirstCharacter \in Len(entries)..Len(entries) + 1
           /\ EntryAt(EntryForFirstCharacter).allocatedBitCounter = 0
           /\ HasRoom(EntryForFirstCharacter, CharBits)
<1> DEFINE S == {i \in Len(entries)..Len(entries) + 1 : EntryAt(i).allocatedBitCounter = 0}
<1>1. Len(entries) \in Nat /\ Len(entries) > 0
  BY DEF EntriesOK
<1>2. Len(entries) + 1 \in S /\ S \in SUBSET Nat
  BY <1>1 DEF EntryAt, NewEntry
<1>3. Min(S) \in S
  <2> HIDE DEF S
  <2> QED
    BY <1>2, MinIsLeast
<1> QED
  BY <1>1, <1>3, Bits DEF EntryForFirstCharacter, HasRoom

\* The next character goes into the other half of the last entry, or, when that is
\* full, into the first half of a new one.
LEMMA RoomForCharacter ==
    ASSUME EntriesOK, entries[Len(entries)].allocatedBitCounter \in {CharBits, 2 * CharBits}
    PROVE  /\ EntryForCharacter \in 1..Len(entries) + 1
           /\ HasRoom(EntryForCharacter, CharBits)
           /\ \/ /\ entries[Len(entries)].allocatedBitCounter = CharBits
                 /\ EntryForCharacter = Len(entries)
                 /\ EntryAt(EntryForCharacter).allocatedBitCounter = CharBits
              \/ /\ entries[Len(entries)].allocatedBitCounter = 2 * CharBits
                 /\ EntryForCharacter = Len(entries) + 1
                 /\ EntryAt(EntryForCharacter).allocatedBitCounter = 0
<1> DEFINE n == Len(entries)
           S == {i \in n..n + 1 :
                    HasRoom(i, CharBits) /\ EntryAt(i).allocatedBitCounter \in {0, CharBits}}
<1>1. n \in Nat /\ n > 0
  BY DEF EntriesOK
<1>2. /\ EntryAt(n) = entries[n]
      /\ EntryAt(n + 1).allocatedBitCounter = 0
  BY <1>1 DEF EntryAt, NewEntry
<1>3. n + 1 \in S /\ S \in SUBSET Nat
  BY <1>1, <1>2, Bits DEF HasRoom
<1>4. n \in S <=> entries[n].allocatedBitCounter = CharBits
  BY <1>1, <1>2, Bits DEF HasRoom
<1>5. Min(S) \in S /\ \A j \in S : Min(S) <= j
  <2> HIDE DEF S
  <2> QED
    BY <1>3, MinIsLeast
<1>6. EntryForCharacter = Min(S)
  BY DEF EntryForCharacter
<1>7. Min(S) \in n..n + 1 /\ HasRoom(Min(S), CharBits)
  BY <1>5
<1>8. CASE entries[n].allocatedBitCounter = CharBits
  <2>1. Min(S) <= n
    BY <1>4, <1>5, <1>8
  <2>2. Min(S) = n
    <3> HIDE DEF S
    <3> QED
      BY <2>1, <1>7, <1>1
  <2> QED
    BY <2>2, <1>1, <1>2, <1>6, <1>7, <1>8
<1>9. CASE entries[n].allocatedBitCounter = 2 * CharBits
  <2>1. n \notin S
    BY <1>4, <1>9, Bits
  <2>2. Min(S) = n + 1
    <3> HIDE DEF S
    <3> QED
      BY <2>1, <1>1, <1>5, <1>7
  <2> QED
    BY <2>2, <1>1, <1>2, <1>6, <1>7, <1>9
<1> QED
  BY <1>8, <1>9

-----------------------------------------------------------------------------
\* Strings.
StringOK(s) ==
    /\ s \in Seq(Nat \X Nat)
    /\ Len(s) > 0
    /\ \A c \in 1..Len(s) : /\ IsField(s[c])
                            /\ Field(s[c]).shiftBy \in {0, CharBits}
                            /\ Field(s[c]).bits = CharBits
                            /\ ByteOf(s[c]) = ByteOf(s[1]) + c - 1
    /\ Field(s[1]).shiftBy = 0

StringsOK ==
    /\ strings \in Seq(Seq(Nat \X Nat))
    /\ \A s \in Range(strings) : StringOK(s)

\* While a string is being allocated its last character ends the last entry.
LastCharacter == LET s == strings[Len(strings)] IN s[Len(s)]

StringOpen ==
    /\ charactersLeft \in Nat
    /\ charactersLeft > 0 =>
        /\ defining
        /\ Len(strings) > 0
        /\ \A last : last = LastCharacter =>
            /\ last[1] = Len(entries)
            /\ Field(last).shiftBy + CharBits = entries[Len(entries)].allocatedBitCounter

IInv == EntriesOK /\ StringsOK /\ StringOpen

LEMMA StringKept ==
    ASSUME NEW s, StringOK(s), \A f : IsField(f) => FieldKept(f)
    PROVE  StringOK(s)'
<1>1. s \in Seq(Nat \X Nat) /\ Len(s) \in Nat /\ Len(s) > 0
  BY DEF StringOK
<1>2. ASSUME NEW c \in 1..Len(s)
      PROVE  /\ IsField(s[c])'
             /\ Field(s[c])'.shiftBy = Field(s[c]).shiftBy
             /\ Field(s[c])'.bits = Field(s[c]).bits
             /\ ByteOf(s[c])' = ByteOf(s[c])
  <2>1. IsField(s[c])
    BY DEF StringOK
  <2> QED
    BY <2>1 DEF FieldKept, ByteOf
<1>3. 1 \in 1..Len(s)
  BY <1>1
<1>4. Field(s[1])'.shiftBy = 0
  BY <1>2, <1>3 DEF StringOK
<1>5. \A c \in 1..Len(s) : /\ Field(s[c])'.shiftBy \in {0, CharBits}
                           /\ Field(s[c])'.bits = CharBits
                           /\ ByteOf(s[c])' = ByteOf(s[1])' + c - 1
  <2> SUFFICES ASSUME NEW c \in 1..Len(s)
               PROVE  /\ Field(s[c])'.shiftBy \in {0, CharBits}
                      /\ Field(s[c])'.bits = CharBits
                      /\ ByteOf(s[c])' = ByteOf(s[1])' + c - 1
    OBVIOUS
  <2>1. /\ Field(s[c]).shiftBy \in {0, CharBits}
        /\ Field(s[c]).bits = CharBits
        /\ ByteOf(s[c]) = ByteOf(s[1]) + c - 1
    BY DEF StringOK
  <2> QED
    BY <2>1, <1>2, <1>3
<1> QED
  BY <1>1, <1>2, <1>4, <1>5 DEF StringOK

LEMMA StringsKept ==
    ASSUME StringsOK, \A f : IsField(f) => FieldKept(f), UNCHANGED strings
    PROVE  StringsOK'
BY StringKept DEF StringsOK

\* Strings stay, and a new one or a longer one is right.
LEMMA StringsChanged ==
    ASSUME StringsOK, \A f : IsField(f) => FieldKept(f),
           strings' \in Seq(Seq(Nat \X Nat)), NEW w, StringOK(w)',
           \A k \in 1..Len(strings') : strings'[k] = w \/ strings'[k] \in Range(strings)
    PROVE  StringsOK'
<1>1. ASSUME NEW s \in Range(strings') PROVE StringOK(s)'
  <2>1. PICK k \in 1..Len(strings') : s = strings'[k]
    BY DEF Range
  <2>2. s = w \/ s \in Range(strings)
    BY <2>1
  <2>3. CASE s \in Range(strings)
    BY <2>3, StringKept DEF StringsOK
  <2> QED
    BY <2>2, <2>3
<1> QED
  BY <1>1 DEF StringsOK

LEMMA StringInRange ==
    ASSUME StringsOK, NEW k \in 1..Len(strings)
    PROVE  strings[k] \in Range(strings) /\ strings[k] \in Seq(Nat \X Nat)
BY DEF StringsOK, Range

\* An export step changes no layout, and with it no string.
LEMMA LayoutKeptIInv ==
    ASSUME IInv, LayoutKept, charactersLeft = 0, UNCHANGED <<strings, charactersLeft>>
    PROVE  IInv'
<1>1. EntriesOK'
  BY LayoutKeptOK DEF IInv
<1>2. StringsOK'
  BY LayoutKeptFields, StringsKept DEF IInv
<1> QED
  BY <1>1, <1>2 DEF IInv, StringOpen

\* So does a step that leaves the map alone.
LEMMA Unchanged ==
    ASSUME EntriesOK, StringsOK, UNCHANGED <<entries, strings>>
    PROVE  EntriesOK' /\ StringsOK'
<1>1. EntriesOK'
  BY DEF EntriesOK
<1>2. \A f : IsField(f) => FieldKept(f)
  BY DEF IsField, FieldKept, Field
<1> QED
  BY <1>1, <1>2, StringsKept

LEMMA DefineIntKeeps ==
    ASSUME IInv, NEW max \in MaxValues, NEW skips, DefineInt(max, skips)
    PROVE  IInv'
<1> DEFINE bits == BitsRequired(max)
           i == EntryForInt(bits)
<1>1. max \in Nat /\ bits \in Nat /\ bits \in 0..WordBits /\ FitsIn(max, bits)
  BY BitsRequiredSuffice, Bits
<1>2. i \in 1..Len(entries) + 1 /\ HasRoom(i, bits) /\ AllocateIn(i, max, bits)
  BY <1>1, RoomForInt DEF IInv, DefineInt
<1>3. charactersLeft = 0 /\ charactersLeft' = 0 /\ UNCHANGED strings
  BY DEF DefineInt
<1> HIDE DEF bits, i
<1>4. EntriesOK'
  BY <1>1, <1>2, AllocateInOK DEF IInv
<1>5. \A f : IsField(f) => FieldKept(f)
  BY <1>1, <1>2, AllocateInFields DEF IInv
<1>6. StringsOK'
  BY <1>3, <1>5, StringsKept DEF IInv
<1> QED
  BY <1>3, <1>4, <1>6 DEF IInv, StringOpen

LEMMA DefineStringKeeps ==
    ASSUME IInv, NEW length \in 1..MaxLength, DefineString(length)
    PROVE  IInv'
<1> DEFINE i == EntryForFirstCharacter
<1>1. /\ i \in 1..Len(entries) + 1 /\ i \in Len(entries)..Len(entries) + 1
      /\ EntryAt(i).allocatedBitCounter = 0
      /\ HasRoom(i, CharBits)
  BY RoomForFirstCharacter DEF IInv
<1>2. CharMax \in Nat /\ CharBits \in Nat /\ CharBits > 0 /\ FitsIn(CharMax, CharBits)
  BY MemoryMapAssumption, Bits
<1>3. AllocateIn(i, CharMax, CharBits)
  BY DEF DefineString
<1>4. PICK new : new = NewAllocation(i)
  OBVIOUS
<1>5. strings' = Append(strings, <<new>>) /\ charactersLeft' = length - 1
  BY <1>4 DEF DefineString
<1> HIDE DEF i
<1>6. EntriesOK'
  BY <1>1, <1>2, <1>3, AllocateInOK DEF IInv
<1>7. /\ \A f : IsField(f) => FieldKept(f)
      /\ IsField(new)'
      /\ new[1] = i
      /\ Field(new)'.shiftBy = 0
      /\ Field(new)'.bits = CharBits
      /\ Len(entries)' = IF i > Len(entries) THEN i ELSE Len(entries)
      /\ entries'[i].allocatedBitCounter = CharBits
  BY <1>1, <1>2, <1>3, <1>4, AllocateInFields DEF IInv
<1>8. Len(entries)' = i
  BY <1>1, <1>7 DEF IInv, EntriesOK
<1>9. new \in Nat \X Nat
  BY <1>7 DEF IsField
<1>10. StringOK(<<new>>)'
  <2>1. \A c \in 1..Len(<<new>>) : c = 1 /\ <<new>>[c] = new
    BY <1>9
  <2>2. new[1] \in Nat
    BY <1>9
  <2>3. ByteOf(new)' = 2 * new[1]
    BY <1>7, <1>9 DEF ByteOf
  <2>4. ByteOf(new)' = ByteOf(new)' + 1 - 1
    BY <2>2, <2>3
  <2>5. PICK w : w = <<new>>
    OBVIOUS
  <2>6. w \in Seq(Nat \X Nat) /\ Len(w) = 1 /\ w[1] = new
    BY <2>5, <1>9
  <2>7. StringOK(w)'
    BY <2>4, <2>6, <1>7 DEF StringOK
  <2> QED
    BY <2>5, <2>7
<1>11. strings \in Seq(Seq(Nat \X Nat)) /\ Len(strings) \in Nat
  BY DEF IInv, StringsOK
<1>12. /\ strings' \in Seq(Seq(Nat \X Nat))
       /\ Len(strings') = Len(strings) + 1
       /\ strings'[Len(strings) + 1] = <<new>>
       /\ \A t \in 1..Len(strings) : strings'[t] = strings[t]
  BY <1>5, <1>9, <1>11
<1>13. \A t \in 1..Len(strings') : strings'[t] = <<new>> \/ strings'[t] \in Range(strings)
  <2> SUFFICES ASSUME NEW t \in 1..Len(strings')
               PROVE  strings'[t] = <<new>> \/ strings'[t] \in Range(strings)
    OBVIOUS
  <2>1. t \in 1..Len(strings) \/ t = Len(strings) + 1
    BY <1>11, <1>12
  <2> QED
    BY <2>1, <1>12, StringInRange DEF IInv
<1>14. StringsOK'
  BY <1>7, <1>10, <1>12, <1>13, StringsChanged DEF IInv
<1>15. LastCharacter' = new
  BY <1>9, <1>11, <1>12 DEF LastCharacter
<1>16. charactersLeft' \in Nat /\ Len(strings') > 0 /\ defining'
  BY <1>5, <1>11, <1>12, MemoryMapAssumption DEF DefineString
<1>17. Field(new)'.shiftBy + CharBits = entries'[Len(entries)'].allocatedBitCounter
  BY <1>2, <1>7, <1>8
<1>18. StringOpen'
  BY <1>7, <1>8, <1>15, <1>16, <1>17 DEF StringOpen
<1> QED
  BY <1>6, <1>14, <1>18 DEF IInv

LEMMA DefineCharacterKeeps ==
    ASSUME IInv, DefineCharacter
    PROVE  IInv'
<1> DEFINE i == EntryForCharacter
           n == Len(entries)
<1>1. /\ strings \in Seq(Seq(Nat \X Nat)) /\ Len(strings) \in Nat /\ Len(strings) > 0
      /\ n \in Nat /\ n > 0
      /\ charactersLeft \in Nat /\ charactersLeft > 0 /\ defining
  BY DEF IInv, EntriesOK, StringsOK, StringOpen, DefineCharacter
<1>2. PICK s : s = strings[Len(strings)]
  OBVIOUS
<1>3. StringOK(s)
  BY <1>1, <1>2, StringInRange DEF IInv, StringsOK
<1>4. s \in Seq(Nat \X Nat) /\ Len(s) \in Nat /\ Len(s) > 0
  BY <1>3 DEF StringOK
<1>5. PICK last : last = s[Len(s)]
  OBVIOUS
<1>6. /\ last[1] = n
      /\ Field(last).shiftBy + CharBits = entries[n].allocatedBitCounter
  BY <1>1, <1>2, <1>5 DEF IInv, StringOpen, LastCharacter
<1>7. /\ IsField(last)
      /\ Field(last).shiftBy \in {0, CharBits}
      /\ ByteOf(last) = ByteOf(s[1]) + Len(s) - 1
  BY <1>3, <1>4, <1>5 DEF StringOK
<1>8. entries[n].allocatedBitCounter \in {CharBits, 2 * CharBits}
  BY <1>6, <1>7, Bits
<1>9. /\ i \in 1..n + 1
      /\ HasRoom(i, CharBits)
      /\ \/ /\ entries[n].allocatedBitCounter = CharBits
            /\ i = n
            /\ EntryAt(i).allocatedBitCounter = CharBits
         \/ /\ entries[n].allocatedBitCounter = 2 * CharBits
            /\ i = n + 1
            /\ EntryAt(i).allocatedBitCounter = 0
  BY <1>8, RoomForCharacter DEF IInv
<1>10. CharMax \in Nat /\ CharBits \in Nat /\ CharBits > 0 /\ FitsIn(CharMax, CharBits)
  BY MemoryMapAssumption, Bits
<1>11. AllocateIn(i, CharMax, CharBits)
  BY DEF DefineCharacter
<1>12. PICK new : new = NewAllocation(i)
  OBVIOUS
<1>13. PICK w : w = Append(s, new)
  OBVIOUS
<1>14. /\ strings' = [strings EXCEPT ![Len(strings)] = w]
       /\ charactersLeft' = charactersLeft - 1
       /\ defining'
  BY <1>1, <1>2, <1>12, <1>13 DEF DefineCharacter
<1> HIDE DEF i
<1>15. EntriesOK'
  BY <1>9, <1>10, <1>11, AllocateInOK DEF IInv
<1>16. /\ \A f : IsField(f) => FieldKept(f)
       /\ IsField(new)'
       /\ new[1] = i
       /\ Field(new)'.shiftBy = EntryAt(i).allocatedBitCounter
       /\ Field(new)'.bits = CharBits
       /\ Len(entries)' = IF i > Len(entries) THEN i ELSE Len(entries)
       /\ entries'[i].allocatedBitCounter = EntryAt(i).allocatedBitCounter + CharBits
  BY <1>9, <1>10, <1>11, <1>12, AllocateInFields DEF IInv
<1>17. new \in Nat \X Nat
  BY <1>16 DEF IsField
<1>18. Len(entries)' = i
  BY <1>1, <1>9, <1>16
<1>19. ByteOf(new)' = ByteOf(last) + 1
  <2>1. CASE i = n /\ EntryAt(i).allocatedBitCounter = CharBits /\ entries[n].allocatedBitCounter = CharBits
    <3>1. Field(last).shiftBy = 0
      BY <2>1, <1>6, <1>7, <1>10
    <3>2. ByteOf(last) = 2 * n
      BY <3>1, <1>1, <1>6 DEF ByteOf
    <3>3. Field(new)'.shiftBy # 0 /\ new[1] = n
      BY <2>1, <1>10, <1>16
    <3>4. ByteOf(new)' = 2 * n + 1
      BY <3>3 DEF ByteOf
    <3> QED
      BY <3>2, <3>4
  <2>2. CASE i = n + 1 /\ EntryAt(i).allocatedBitCounter = 0 /\ entries[n].allocatedBitCounter = 2 * CharBits
    <3>1. Field(last).shiftBy # 0
      BY <2>2, <1>6, <1>7, <1>10
    <3>2. ByteOf(last) = 2 * n + 1
      BY <3>1, <1>6 DEF ByteOf
    <3>3. Field(new)'.shiftBy = 0 /\ new[1] = n + 1
      BY <2>2, <1>16
    <3>4. ByteOf(new)' = 2 * (n + 1)
      BY <3>3, <1>1 DEF ByteOf
    <3> QED
      BY <3>2, <3>4, <1>1
  <2> QED
    BY <2>1, <2>2, <1>9
<1>20. /\ w \in Seq(Nat \X Nat)
       /\ Len(w) = Len(s) + 1
       /\ w[Len(s) + 1] = new
       /\ w[1] = s[1]
       /\ \A c \in 1..Len(s) : w[c] = s[c]
  BY <1>4, <1>13, <1>17
<1>21. StringOK(s)'
  BY <1>3, <1>16, StringKept
<1>22. StringOK(w)'
  <2>1. Field(w[1])'.shiftBy = 0
    BY <1>20, <1>21 DEF StringOK
  <2>2. ASSUME NEW c \in 1..Len(s) + 1
        PROVE  /\ IsField(w[c])'
               /\ Field(w[c])'.shiftBy \in {0, CharBits}
               /\ Field(w[c])'.bits = CharBits
               /\ ByteOf(w[c])' = ByteOf(w[1])' + c - 1
    <3>1. CASE c \in 1..Len(s)
      <4>1. w[c] = s[c] /\ w[1] = s[1]
        BY <1>20, <3>1
      <4> QED
        BY <4>1, <3>1, <1>21 DEF StringOK
    <3>2. CASE c = Len(s) + 1
      <4>1. w[c] = new /\ w[1] = s[1]
        BY <1>20, <3>2
      <4>2. PICK a : a = s[1]
        OBVIOUS
      <4>3. IsField(a)
        BY <1>3, <1>4, <4>2 DEF StringOK
      <4>4. ByteOf(a)' = ByteOf(a)
        BY <4>3, <1>16 DEF FieldKept, ByteOf
      <4>5. ByteOf(last) = ByteOf(a) + Len(s) - 1
        BY <1>7, <4>2
      <4>6. ByteOf(a) \in Int
        <5>1. a[1] \in Int
          BY <4>3 DEF IsField
        <5> QED
          BY <5>1 DEF ByteOf
      <4>7. ByteOf(new)' = ByteOf(a)' + c - 1
        BY <3>2, <4>4, <4>5, <4>6, <1>4, <1>19
      <4>8. Field(new)'.shiftBy \in {0, CharBits}
        BY <1>9, <1>16
      <4> QED
        BY <4>1, <4>2, <4>7, <4>8, <1>16
    <3> QED
      BY <1>4, <3>1, <3>2
  <2> QED
    BY <1>4, <1>20, <2>1, <2>2 DEF StringOK
<1>23. /\ strings' \in Seq(Seq(Nat \X Nat))
       /\ Len(strings') = Len(strings)
       /\ strings'[Len(strings)] = w
       /\ \A k \in 1..Len(strings) : k # Len(strings) => strings'[k] = strings[k]
  BY <1>1, <1>14, <1>20
<1>24. \A k \in 1..Len(strings') : strings'[k] = w \/ strings'[k] \in Range(strings)
  BY <1>23, StringInRange DEF IInv
<1>25. StringsOK'
  BY <1>16, <1>22, <1>23, <1>24, StringsChanged DEF IInv
<1>26. LastCharacter' = new
  BY <1>4, <1>20, <1>23 DEF LastCharacter
<1>27. Field(new)'.shiftBy + CharBits = entries'[Len(entries)'].allocatedBitCounter
  BY <1>16, <1>18
<1>28. charactersLeft' \in Nat
  BY <1>1, <1>14
<1>29. StringOpen'
  BY <1>1, <1>14, <1>16, <1>18, <1>23, <1>26, <1>27, <1>28 DEF StringOpen
<1> QED
  BY <1>15, <1>25, <1>29 DEF IInv

-----------------------------------------------------------------------------
LEMMA NextKeepsIInv ==
    ASSUME IInv, [Next]_vars
    PROVE  IInv'
<1>1. EntriesOK
  BY DEF IInv
<1>2. ASSUME NEW max \in MaxValues, NEW skips, DefineInt(max, skips) PROVE IInv'
  BY <1>2, DefineIntKeeps
<1>3. ASSUME NEW length \in 1..MaxLength, DefineString(length) PROVE IInv'
  BY <1>3, DefineStringKeeps
<1>4. CASE DefineCharacter
  BY <1>4, DefineCharacterKeeps
<1>5. CASE StartExport
  BY <1>5, Unchanged DEF StartExport, IInv, StringOpen
<1>6. ~defining => charactersLeft = 0
  BY DEF IInv, StringOpen
<1>7. ASSUME NEW f \in Fields, NEW v, SetInt(f, v) PROVE IInv'
  BY <1>1, <1>6, <1>7, SetFieldsKeepsLayout, LayoutKeptIInv DEF SetInt
<1>8. ASSUME NEW s \in Range(strings), NEW text, SetString(s, text) PROVE IInv'
  BY <1>1, <1>6, <1>8, SetFieldsKeepsLayout, LayoutKeptIInv DEF SetString
<1>9. CASE ClearValues
  BY <1>1, <1>6, <1>9, ClearValuesKeepsLayout, LayoutKeptIInv DEF ClearValues
<1>10. CASE Flush
  BY <1>1, <1>6, <1>10, FlushKeepsLayout, LayoutKeptIInv DEF Flush
<1>11. CASE UNCHANGED vars
  <2>1. UNCHANGED <<entries, strings, charactersLeft, defining>>
    BY <1>11 DEF vars
  <2>2. EntriesOK' /\ StringsOK'
    BY <2>1, Unchanged DEF IInv
  <2>3. StringOpen'
    <3>1. LastCharacter' = LastCharacter
      BY <2>1 DEF LastCharacter
    <3>2. \A last : Field(last)' = Field(last)
      BY <2>1 DEF Field
    <3> QED
      BY <2>1, <3>1, <3>2 DEF IInv, StringOpen
  <2> QED
    BY <2>2, <2>3 DEF IInv
<1> QED
  BY <1>2, <1>3, <1>4, <1>5, <1>7, <1>8, <1>9, <1>10, <1>11 DEF Next

LEMMA InitIsIInv ==
    ASSUME Init
    PROVE  IInv
<1>1. /\ entries = <<NewEntry>> /\ entries \in Seq(Entry) /\ Len(entries) = 1
      /\ \A i \in DOMAIN entries : entries[i] = NewEntry
  <2>1. NewEntry \in Entry
    BY Bits DEF NewEntry, Entry
  <2>2. entries = <<NewEntry>>
    BY DEF Init
  <2> QED
    BY <2>1, <2>2
<1>2. EntryOK(NewEntry)
  BY Bits DEF NewEntry, EntryOK, Entry
<1>3. Range(strings) = {}
  BY DEF Init, Range
<1> QED
  BY <1>1, <1>2, <1>3 DEF Init, IInv, EntriesOK, StringsOK, StringOpen

(***************************************************************************)
(* In every word of the memory map of a module, whatever values and        *)
(* strings it defines and in whatever order, no two fields share a bit,    *)
(* each lies within the word and is wide enough for its values.            *)
(***************************************************************************)
THEOREM FieldsApartAlways == Spec => []FieldsApart
<1>1. Init => IInv
  BY InitIsIInv
<1>2. IInv /\ [Next]_vars => IInv'
  BY NextKeepsIInv
<1>3. IInv => FieldsApart
  <2> SUFFICES ASSUME IInv, NEW f \in Fields
               PROVE  /\ Field(f).shiftBy + Field(f).bits <= WordBits
                      /\ FitsIn(Field(f).maxValue, Field(f).bits)
                      /\ \A g \in Fields : f[1] = g[1] /\ f[2] < g[2] =>
                            Field(f).shiftBy + Field(f).bits <= Field(g).shiftBy
    BY DEF FieldsApart
  <2>1. EntriesOK /\ IsField(f) /\ EntryOK(entries[f[1]])
    BY FieldsAre DEF IInv, EntriesOK, IsField
  <2>2. /\ Field(f) = entries[f[1]].allocations[f[2]]
        /\ f[2] \in 1..Len(entries[f[1]].allocations)
    BY <2>1 DEF Field, IsField
  <2>3. /\ Field(f).shiftBy + Field(f).bits <= WordBits
        /\ FitsIn(Field(f).maxValue, Field(f).bits)
    <3>1. /\ Field(f).shiftBy + Field(f).bits <= entries[f[1]].allocatedBitCounter
          /\ FitsIn(Field(f).maxValue, Field(f).bits)
          /\ entries[f[1]].allocatedBitCounter \in 0..WordBits
          /\ Field(f).shiftBy \in Nat /\ Field(f).bits \in Nat
      BY <2>1, <2>2, EntryFacts
    <3> QED
      BY <3>1, Bits
  <2>4. ASSUME NEW g \in Fields, f[1] = g[1], f[2] < g[2]
        PROVE  Field(f).shiftBy + Field(f).bits <= Field(g).shiftBy
    <3>1. /\ Field(g) = entries[f[1]].allocations[g[2]]
          /\ g[2] \in 1..Len(entries[f[1]].allocations)
      BY <2>1, <2>4, FieldsAre DEF Field, IsField
    <3> QED
      BY <2>1, <2>2, <2>4, <3>1, EntryFacts
  <2> QED
    BY <2>3, <2>4
<1> QED
  BY <1>1, <1>2, <1>3, PTL DEF Spec

(***************************************************************************)
(* The characters of every string of a module are consecutive bytes from   *)
(* the start of a word on, whatever is allocated before it.                *)
(***************************************************************************)
THEOREM CharactersConsecutiveAlways == Spec => []CharactersConsecutive
<1>1. Init => IInv
  BY InitIsIInv
<1>2. IInv /\ [Next]_vars => IInv'
  BY NextKeepsIInv
<1>3. IInv => CharactersConsecutive
  <2> SUFFICES ASSUME IInv, NEW s \in Range(strings)
               PROVE  /\ Field(s[1]).shiftBy = 0
                      /\ \A c \in DOMAIN s : /\ Field(s[c]).shiftBy \in {0, CharBits}
                                             /\ Field(s[c]).bits = CharBits
                                             /\ ByteOf(s[c]) = ByteOf(s[1]) + c - 1
    BY DEF CharactersConsecutive
  <2>1. StringOK(s)
    BY DEF IInv, StringsOK
  <2>2. DOMAIN s = 1..Len(s)
    BY <2>1 DEF StringOK
  <2> QED
    BY <2>1, <2>2 DEF StringOK
<1> QED
  BY <1>1, <1>2, <1>3, PTL DEF Spec
-----------------------------------------------------------------------------
\* Induction over the first n numbers, with a set for what holds of them.
LEMMA UpTo ==
    ASSUME NEW n \in Nat, NEW T, 0 \in T, \A i \in 0..n - 1 : i \in T => i + 1 \in T
    PROVE  \A i \in 0..n : i \in T
<1> DEFINE Rest == {i \in 0..n : i \notin T}
<1> SUFFICES ASSUME Rest # {} PROVE FALSE
  OBVIOUS
<1>1. Rest \in SUBSET Nat
  OBVIOUS
<1>2. PICK i \in Rest : \A j \in Rest : i <= j
  <2> HIDE DEF Rest
  <2> QED
    BY <1>1, LeastElement
<1>3. i \in 1..n /\ i \notin T
  BY <1>2
<1>4. i - 1 \in 0..n - 1 /\ i - 1 \notin Rest
  BY <1>2, <1>3
<1>5. i - 1 \in T
  BY <1>4
<1>6. (i - 1) + 1 \in T
  BY <1>4, <1>5
<1> QED
  BY <1>3, <1>6

\* The values of sum after each of the first n allocations.
IsSum(sum, allocations, n) ==
    /\ sum \in [0..n -> Nat]
    /\ sum[0] = 0
    /\ \A k \in 1..n : sum[k] = sum[k - 1] + Share(allocations[k])

LEMMA SumExists ==
    ASSUME NEW allocations, Len(allocations) \in Nat,
           \A k \in 1..Len(allocations) : Share(allocations[k]) \in Nat
    PROVE  \E sum : IsSum(sum, allocations, Len(allocations))
<1> DEFINE T == {n \in 0..Len(allocations) : \E sum : IsSum(sum, allocations, n)}
<1>1. 0 \in T
  <2> DEFINE none == [i \in 0..0 |-> 0]
  <2>1. IsSum(none, allocations, 0)
    BY DEF IsSum
  <2> QED
    BY <2>1
<1>2. ASSUME NEW n \in 0..Len(allocations) - 1, n \in T PROVE n + 1 \in T
  <2>1. PICK g : IsSum(g, allocations, n)
    BY <1>2
  <2>2. PICK s : s = g[n] + Share(allocations[n + 1])
    OBVIOUS
  <2> DEFINE h == [i \in 0..n + 1 |-> IF i = n + 1 THEN s ELSE g[i]]
  <2>3. /\ g \in [0..n -> Nat] /\ g[0] = 0
        /\ \A k \in 1..n : g[k] = g[k - 1] + Share(allocations[k])
    BY <2>1 DEF IsSum
  <2>4. s \in Nat
    <3>1. n + 1 \in 1..Len(allocations) /\ g[n] \in Nat
      BY <2>3
    <3> QED
      BY <3>1, <2>2
  <2>5. h \in [0..n + 1 -> Nat]
    BY <2>3, <2>4
  <2>6. h[0] = 0
    BY <2>3
  <2>7. ASSUME NEW k \in 1..n + 1 PROVE h[k] = h[k - 1] + Share(allocations[k])
    <3>1. CASE k = n + 1
      BY <3>1, <2>2
    <3>2. CASE k # n + 1
      <4>1. k \in 1..n /\ h[k] = g[k] /\ h[k - 1] = g[k - 1]
        BY <3>2
      <4> QED
        BY <4>1, <2>3
    <3> QED
      BY <3>1, <3>2
  <2>8. IsSum(h, allocations, n + 1)
    BY <2>5, <2>6, <2>7 DEF IsSum
  <2> QED
    BY <2>8
<1>3. \A n \in 0..Len(allocations) : n \in T
  <2> HIDE DEF T
  <2> QED
    BY <1>1, <1>2, UpTo
<1> QED
  BY <1>3

LEMMA WordUpToIsSum ==
    ASSUME NEW allocations, Len(allocations) \in Nat,
           \A k \in 1..Len(allocations) : Share(allocations[k]) \in Nat
    PROVE  IsSum(WordUpTo(allocations), allocations, Len(allocations))
<1> DEFINE n == Len(allocations)
           Body(g) == [k \in 0..n |-> IF k = 0 THEN 0 ELSE g[k - 1] + Share(allocations[k])]
           W == WordUpTo(allocations)
<1>1. PICK g : IsSum(g, allocations, n)
  BY SumExists
<1>2. g = Body(g)
  <2>1. g = [k \in 0..n |-> g[k]]
    BY <1>1 DEF IsSum
  <2>2. ASSUME NEW k \in 0..n PROVE g[k] = Body(g)[k]
    <3>1. k = 0 \/ k \in 1..n
      OBVIOUS
    <3> QED
      BY <3>1, <1>1 DEF IsSum
  <2> QED
    BY <2>1, <2>2
<1>3. W = Body(W)
  BY <1>2 DEF WordUpTo
<1> HIDE DEF W
<1>4. /\ W = [k \in 0..n |-> W[k]]
      /\ W[0] = 0
      /\ \A k \in 1..n : W[k] = W[k - 1] + Share(allocations[k])
  <2>1. DOMAIN W = 0..n /\ \A k \in 0..n : W[k] = IF k = 0 THEN 0 ELSE W[k - 1] + Share(allocations[k])
    BY <1>3
  <2>2. 0 \in 0..n /\ \A k \in 1..n : k \in 0..n /\ k # 0
    OBVIOUS
  <2>3. W = [k \in 0..n |-> W[k]]
    BY <1>3
  <2> QED
    BY <2>1, <2>2, <2>3
<1> DEFINE T == {k \in 0..n : W[k] \in Nat}
<1>5. ASSUME NEW k \in 0..n - 1, k \in T PROVE k + 1 \in T
  <2>1. k + 1 \in 1..n /\ (k + 1) - 1 = k /\ k + 1 \in 0..n
    OBVIOUS
  <2>2. W[k + 1] = W[k] + Share(allocations[k + 1])
    BY <1>4, <2>1
  <2> QED
    BY <1>5, <2>1, <2>2
<1>6. \A k \in 0..n : k \in T
  <2>1. 0 \in T
    BY <1>4
  <2> HIDE DEF T
  <2> QED
    BY <1>5, <2>1, UpTo
<1>7. W \in [0..n -> Nat]
  BY <1>4, <1>6
<1> QED
  BY <1>4, <1>7 DEF IsSum, W
-----------------------------------------------------------------------------
\* A value is missing or in the range of its allocation.
AllocationOK(a) == a.value = NoValue \/ a.value \in 0..a.maxValue

ValuesOK(e) == \A k \in 1..Len(e.allocations) : AllocationOK(e.allocations[k])

ValueOf(a) == IF a.value = NoValue THEN 0 ELSE a.value

LEMMA ValueInField ==
    ASSUME NEW a \in Allocation, AllocationOK(a), FitsIn(a.maxValue, a.bits),
           a.shiftBy + a.bits <= 16
    PROVE  /\ ValueOf(a) \in 0..2^a.bits - 1
           /\ Share(a) = ValueOf(a) * 2^a.shiftBy
           /\ Share(a) \in Nat
<1>1. a.shiftBy \in Nat /\ a.bits \in Nat /\ a.maxValue \in Nat /\ a.shiftBy <= 16 /\ a.bits <= 16
  BY DEF Allocation
<1> DEFINE u == 2^a.shiftBy
           v == 2^a.bits
<1>2. u \in Nat /\ v \in Nat \ {0}
  BY <1>1, PowerIsANumber, Zenon
<1>3. a.maxValue < v
  BY DEF FitsIn
<1> HIDE DEF u, v
<1>4. ValueOf(a) \in 0..v - 1
  BY <1>1, <1>2, <1>3 DEF AllocationOK, ValueOf
<1>5. Share(a) = ValueOf(a) * u
  <2>1. Share(a) = IF a.value = NoValue THEN 0 ELSE a.value * u
    BY DEF Share, u
  <2>2. 0 * u = 0
    BY <1>2
  <2> QED
    BY <2>1, <2>2 DEF ValueOf
<1>6. ValueOf(a) * u \in Nat
  BY <1>2, <1>4
<1> QED
  BY <1>4, <1>5, <1>6 DEF u, v

\* The first bit that the first n allocations leave free.
EndOf(allocations, n) == IF n = 0 THEN 0 ELSE allocations[n].shiftBy + allocations[n].bits

\* The sum over the first n allocations has the value of each in its field, and no
\* bits above them.
Holds(sum, allocations, n) ==
    /\ sum[n] \in 0..2^EndOf(allocations, n) - 1
    /\ \A k \in 1..n :
        Part(sum[n], allocations[k].shiftBy, allocations[k].bits) = ValueOf(allocations[k])

LEMMA NextAllocationHolds ==
    ASSUME NEW e, EntryOK(e), ValuesOK(e),
           NEW sum, IsSum(sum, e.allocations, Len(e.allocations)),
           NEW n \in 0..Len(e.allocations) - 1, Holds(sum, e.allocations, n)
    PROVE  Holds(sum, e.allocations, n + 1)
<1> DEFINE al == e.allocations
           a == al[n + 1]
           s == a.shiftBy
           b == a.bits
           x == ValueOf(a)
           r == sum[n]
<1>1. /\ WordBits <= 16 /\ e.allocatedBitCounter <= 16 /\ e.allocatedBitCounter \in Nat
      /\ Len(al) \in Nat
      /\ \A k \in 1..Len(al) : /\ al[k] \in Allocation /\ al[k].shiftBy \in Nat /\ al[k].bits \in Nat
                               /\ al[k].shiftBy + al[k].bits <= e.allocatedBitCounter
                               /\ FitsIn(al[k].maxValue, al[k].bits)
      /\ \A j, k \in 1..Len(al) : j < k => al[j].shiftBy + al[j].bits <= al[k].shiftBy
  <2>1. e.allocatedBitCounter \in 0..WordBits
    BY EntryFacts
  <2> QED
    BY <2>1, EntryFacts, Bits
<1>2. n + 1 \in 1..Len(al) /\ \A k \in 1..n : k \in 1..Len(al) /\ k < n + 1
  BY <1>1
<1>3. /\ a \in Allocation /\ s \in Nat /\ b \in Nat /\ s + b <= 16 /\ s <= 16
      /\ AllocationOK(a) /\ FitsIn(a.maxValue, b)
  <2>1. /\ a \in Allocation /\ s \in Nat /\ b \in Nat /\ FitsIn(a.maxValue, b)
        /\ s + b <= e.allocatedBitCounter
    BY <1>1, <1>2
  <2>2. AllocationOK(a)
    BY <1>2 DEF ValuesOK
  <2> HIDE DEF a, s, b
  <2> QED
    BY <1>1, <2>1, <2>2
<1>4. x \in 0..2^b - 1 /\ Share(a) = x * 2^s
  BY <1>3, ValueInField
<1>5. sum[n + 1] = r + x * 2^s
  BY <1>2, <1>4, <1>1 DEF IsSum
<1>6. EndOf(al, n) \in Nat /\ EndOf(al, n) <= s /\ EndOf(al, n + 1) = s + b
  BY <1>1, <1>2, <1>3 DEF EndOf
<1>7. r \in 0..2^s - 1
  <2> DEFINE low == 2^EndOf(al, n)
             u == 2^s
  <2>1. low <= u
    BY <1>3, <1>6, PowersGrow
  <2>2. u \in Nat
    BY <1>3, PowerIsANumber, Zenon
  <2>3. low \in Nat
    <3>1. EndOf(al, n) <= 16
      BY <1>3, <1>6
    <3> QED
      BY <1>6, <3>1, PowerIsANumber, Zenon
  <2>4. r \in 0..low - 1
    BY DEF Holds
  <2> HIDE DEF low, u, r
  <2>5. r \in 0..u - 1
    BY <2>1, <2>2, <2>3, <2>4
  <2> QED
    BY <2>5 DEF u
<1> HIDE DEF a, s, b, x, r
<1>8. Part(sum[n + 1], s, b) = x /\ sum[n + 1] \in 0..2^(s + b) - 1
  BY <1>3, <1>4, <1>5, <1>7, PartOnTop
<1>9. r \in Int /\ x \in Int
  <2>1. 2^s \in Nat /\ 2^b \in Nat
    BY <1>3, PowerIsANumber
  <2> QED
    BY <2>1, <1>4, <1>7
<1>10. ASSUME NEW k \in 1..n + 1
       PROVE  Part(sum[n + 1], al[k].shiftBy, al[k].bits) = ValueOf(al[k])
  <2>1. CASE k = n + 1
    BY <2>1, <1>8 DEF a, s, b, x
  <2>2. CASE k # n + 1
    <3>1. k \in 1..n
      BY <2>2
    <3>2. al[k].shiftBy \in Nat /\ al[k].bits \in Nat /\ al[k].shiftBy + al[k].bits <= s
      BY <1>1, <1>2, <3>1 DEF s, a
    <3>3. Part(r + x * 2^s, al[k].shiftBy, al[k].bits) = Part(r, al[k].shiftBy, al[k].bits)
      <4>1. PICK p, q : p = al[k].shiftBy /\ q = al[k].bits
        OBVIOUS
      <4>2. r \in Int /\ x \in Int /\ p \in Nat /\ q \in Nat /\ s \in Nat /\ p + q <= s /\ s <= 16
        BY <1>3, <1>9, <3>2, <4>1
      <4>3. Part(r + x * 2^s, p, q) = Part(r, p, q)
        BY <4>2, PartBelow, SMT
      <4> QED
        BY <4>1, <4>3
    <3>4. Part(r, al[k].shiftBy, al[k].bits) = ValueOf(al[k])
      BY <3>1 DEF Holds, r
    <3> QED
      BY <1>5, <3>3, <3>4
  <2> QED
    BY <2>1, <2>2
<1> QED
  BY <1>6, <1>8, <1>10 DEF Holds

\* getValue puts every value into its field.
LEMMA WordHolds ==
    ASSUME NEW e, EntryOK(e), ValuesOK(e)
    PROVE  /\ WordOf(e) \in 0..2^16 - 1
           /\ \A k \in 1..Len(e.allocations) : InWord(WordOf(e), e.allocations[k]) = ValueOf(e.allocations[k])
<1> DEFINE n == Len(e.allocations)
           sum == WordUpTo(e.allocations)
           T == {k \in 0..n : Holds(sum, e.allocations, k)}
<1>1. /\ n \in Nat
      /\ WordBits <= 16 /\ WordBits \in Nat /\ e.allocatedBitCounter \in 0..WordBits
      /\ \A k \in 1..n : /\ e.allocations[k] \in Allocation
                         /\ e.allocations[k].shiftBy \in Nat /\ e.allocations[k].bits \in Nat
                         /\ e.allocations[k].shiftBy + e.allocations[k].bits <= e.allocatedBitCounter
                         /\ FitsIn(e.allocations[k].maxValue, e.allocations[k].bits)
  BY EntryFacts, Bits
<1>2. \A k \in 1..n : Share(e.allocations[k]) \in Nat
  <2> SUFFICES ASSUME NEW k \in 1..n PROVE Share(e.allocations[k]) \in Nat
    OBVIOUS
  <2>1. AllocationOK(e.allocations[k])
    BY DEF ValuesOK
  <2>2. e.allocations[k].shiftBy + e.allocations[k].bits <= 16
    BY <1>1
  <2> QED
    BY <1>1, <2>1, <2>2, ValueInField
<1>3. IsSum(sum, e.allocations, n)
  BY <1>1, <1>2, WordUpToIsSum
<1> HIDE DEF sum
<1>4. 0 \in T
  <2>1. sum[0] = 0 /\ 2^0 = 1 /\ EndOf(e.allocations, 0) = 0
    BY <1>3, PowersOfTwo DEF IsSum, EndOf
  <2>2. 2^EndOf(e.allocations, 0) = 1
    BY <2>1, Zenon
  <2>3. sum[0] \in 0..2^EndOf(e.allocations, 0) - 1
    BY <2>1, <2>2
  <2>4. Holds(sum, e.allocations, 0)
    BY <2>3 DEF Holds
  <2> QED
    BY <2>4, <1>1
<1>5. ASSUME NEW k \in 0..n - 1, k \in T PROVE k + 1 \in T
  <2>1. Holds(sum, e.allocations, k)
    BY <1>5
  <2>2. Holds(sum, e.allocations, k + 1)
    BY <1>3, <2>1, NextAllocationHolds
  <2> QED
    BY <1>1, <2>2
<1>6. n \in T
  <2>1. \A k \in 0..n : k \in T
    <3> HIDE DEF T
    <3> QED
      BY <1>1, <1>4, <1>5, UpTo
  <2> QED
    BY <2>1, <1>1
<1>7. Holds(sum, e.allocations, n) /\ WordOf(e) = sum[n]
  BY <1>6 DEF WordOf, sum
<1>8. WordOf(e) \in 0..2^16 - 1
  <2> DEFINE t == EndOf(e.allocations, n)
             low == 2^t
             top == 2^16
  <2>1. t \in Nat /\ t <= 16
    BY <1>1 DEF EndOf
  <2>2. low <= top
    <3>1. 16 \in Nat /\ 16 <= 16
      OBVIOUS
    <3> QED
      BY <2>1, <3>1, PowersGrow, Zenon
  <2>3. low \in Nat /\ top \in Nat
    BY <2>1, PowerIsANumber, PowersOfTwo
  <2>4. sum[n] \in 0..low - 1
    BY <1>7 DEF Holds
  <2> HIDE DEF low, top
  <2>5. sum[n] \in 0..top - 1
    BY <2>2, <2>3, <2>4
  <2> QED
    BY <2>5, <1>7 DEF top
<1> QED
  BY <1>7, <1>8 DEF Holds, InWord, Part
-----------------------------------------------------------------------------
\* The client knows the values of an entry that is clean; words is what it knows.
Known(words, i, e) ==
    ~e.dirty =>
        \A k \in 1..Len(e.allocations) :
            e.allocations[k].value # NoValue =>
                /\ i \in DOMAIN words
                /\ InWord(words[i], e.allocations[k]) = e.allocations[k].value

EntriesHold ==
    \A i \in 1..Len(entries) : ValuesOK(entries[i]) /\ Known(client, i, entries[i])

KInv == IInv /\ EntriesHold

LEMMA AllocatedHolds ==
    ASSUME NEW e, EntryOK(e), NEW max \in Nat, NEW bits \in Nat,
           NEW words, NEW i, ValuesOK(e), Known(words, i, e)
    PROVE  ValuesOK(Allocated(e, max, bits)) /\ Known(words, i, Allocated(e, max, bits))
<1> DEFINE a == [shiftBy |-> e.allocatedBitCounter, bits |-> bits, maxValue |-> max, value |-> NoValue]
           n == Len(e.allocations)
           new == Allocated(e, max, bits)
<1>1. /\ n \in Nat /\ e.allocations \in Seq(Allocation)
      /\ new.dirty = e.dirty /\ new.allocations = Append(e.allocations, a)
  BY EntryFacts DEF Allocated
<1>2. a.value = NoValue
  OBVIOUS
<1> HIDE DEF a, new
<1>3. /\ Len(new.allocations) = n + 1
      /\ new.allocations[n + 1] = a
      /\ \A k \in 1..n : new.allocations[k] = e.allocations[k]
  BY <1>1
<1>4. \A k \in 1..n + 1 : k \in 1..n \/ k = n + 1
  BY <1>1
<1>5. ValuesOK(new)
  BY <1>2, <1>3, <1>4 DEF ValuesOK, AllocationOK
<1>6. Known(words, i, new)
  BY <1>1, <1>2, <1>3, <1>4 DEF Known
<1> QED
  BY <1>5, <1>6 DEF new

LEMMA AllocateInHolds ==
    ASSUME KInv, NEW i \in 1..Len(entries) + 1, NEW max \in Nat, NEW bits \in Nat,
           AllocateIn(i, max, bits), UNCHANGED client, EntriesOK'
    PROVE  EntriesHold'
<1> DEFINE n == IF i > Len(entries) THEN i ELSE Len(entries)
           e == EntryAt(i)
<1>1. Len(entries) \in Nat /\ Len(entries) > 0 /\ EntriesOK
  BY DEF KInv, IInv, EntriesOK
<1>2. /\ DOMAIN entries' = 1..n
      /\ \A j \in 1..n : entries'[j] = IF j = i THEN Allocated(e, max, bits) ELSE entries[j]
  BY DEF AllocateIn
<1>3. Len(entries') = n
  BY <1>1, <1>2 DEF EntriesOK
<1>4. EntryOK(e) /\ ValuesOK(e) /\ Known(client, i, e)
  <2>1. CASE i > Len(entries)
    <3>1. e = NewEntry
      BY <2>1, <1>1 DEF EntryAt
    <3>2. EntryOK(NewEntry) /\ ValuesOK(NewEntry) /\ Known(client, i, NewEntry)
      BY Bits DEF NewEntry, EntryOK, Entry, ValuesOK, Known
    <3> QED
      BY <3>1, <3>2
  <2>2. CASE i \in 1..Len(entries)
    <3>1. e = entries[i]
      BY <2>2, <1>1 DEF EntryAt
    <3> QED
      BY <2>2, <3>1, <1>1 DEF KInv, EntriesHold, EntriesOK
  <2> QED
    BY <2>1, <2>2, <1>1
<1>5. ValuesOK(Allocated(e, max, bits)) /\ Known(client, i, Allocated(e, max, bits))
  BY <1>4, AllocatedHolds
<1>6. ASSUME NEW j \in 1..n PROVE ValuesOK(entries'[j]) /\ Known(client, j, entries'[j])
  <2>1. CASE j = i
    BY <2>1, <1>2, <1>5
  <2>2. CASE j # i
    <3>1. j \in 1..Len(entries) /\ entries'[j] = entries[j]
      BY <2>2, <1>1, <1>2
    <3> QED
      BY <3>1 DEF KInv, EntriesHold
  <2> QED
    BY <2>1, <2>2
<1> QED
  BY <1>3, <1>6 DEF EntriesHold

-----------------------------------------------------------------------------
\* The value that a field has after an update is in its range again.
LEMMA SetFieldsHolds ==
    ASSUME KInv, NEW new, SetFields(new), UNCHANGED client
    PROVE  EntriesHold'
<1>1. EntriesOK /\ Len(entries) \in Nat /\ DOMAIN entries = 1..Len(entries)
  BY DEF KInv, IInv, EntriesOK
<1>2. Len(entries') = Len(entries)
  BY <1>1, SetFieldsKeepsLayout DEF LayoutKept
<1> DEFINE after(i) == [k \in DOMAIN entries[i].allocations |-> ValueAfter(<<i, k>>, new)]
           dirty(i) == entries[i].dirty \/ \E k \in DOMAIN entries[i].allocations :
                            Changes(Field(<<i, k>>).value, ValueAfter(<<i, k>>, new))
<1>3. ASSUME NEW i \in 1..Len(entries)
      PROVE  ValuesOK(entries'[i]) /\ Known(client, i, entries'[i])
  <2> DEFINE e == entries[i]
             m == Len(e.allocations)
  <2>1. EntryOK(e) /\ ValuesOK(e) /\ Known(client, i, e)
    BY <1>1 DEF EntriesOK, KInv, EntriesHold
  <2>2. entries'[i] = Revalued(e, after(i), dirty(i))
    BY <1>1 DEF SetFields
  <2>3. /\ m \in Nat /\ DOMAIN e.allocations = 1..m
        /\ \A k \in 1..m : e.allocations[k] \in Allocation
    BY <2>1, EntryFacts
  <2> DEFINE v(k) == ValueAfter(<<i, k>>, new)
             f == entries'[i]
  <2>4. /\ f.allocations = [k \in 1..m |-> [e.allocations[k] EXCEPT !.value = v(k)]]
        /\ ~f.dirty => ~e.dirty /\ \A k \in 1..m : e.allocations[k].value = v(k)
    <3>1. \A k \in 1..m : after(i)[k] = v(k)
      BY <2>3
    <3>2. f.allocations = [k \in 1..m |-> [e.allocations[k] EXCEPT !.value = after(i)[k]]] /\ f.dirty = dirty(i)
      BY <2>2, <2>3 DEF Revalued
    <3>3. \A k \in 1..m : Field(<<i, k>>) = e.allocations[k]
      BY DEF Field
    <3>4. ~dirty(i) => ~e.dirty /\ \A k \in 1..m : e.allocations[k].value = v(k)
      BY <2>3, <3>3 DEF Changes
    <3> HIDE DEF f, after, dirty, v
    <3> QED
      BY <3>1, <3>2, <3>4
  <2>5. SameLayout(e, f)
    BY <1>1, SetFieldsKeepsLayout DEF LayoutKept
  <2>6. ASSUME NEW k \in 1..m
        PROVE  /\ f.allocations[k].value = v(k)
               /\ f.allocations[k].bits = e.allocations[k].bits
               /\ f.allocations[k].shiftBy = e.allocations[k].shiftBy
               /\ f.allocations[k].maxValue = e.allocations[k].maxValue
    <3>1. f.allocations[k] = [e.allocations[k] EXCEPT !.value = v(k)]
      BY <2>4
    <3>2. e.allocations[k] \in Allocation
      BY <2>3
    <3> HIDE DEF f, v, e
    <3> QED
      BY <3>1, <3>2 DEF Allocation
  <2>7. Len(f.allocations) = m
    BY <2>5 DEF SameLayout
  <2>8. ASSUME NEW k \in 1..m PROVE v(k) = NoValue \/ v(k) \in 0..e.allocations[k].maxValue
    <3>1. Field(<<i, k>>) = e.allocations[k]
      BY DEF Field
    <3>2. AllocationOK(e.allocations[k])
      BY <2>1 DEF ValuesOK
    <3> QED
      BY <3>1, <3>2 DEF ValueAfter, AllocationOK
  <2> HIDE DEF f, v, e
  <2>9. ValuesOK(f)
    <3> SUFFICES ASSUME NEW k \in 1..m PROVE AllocationOK(f.allocations[k])
      BY <2>7 DEF ValuesOK
    <3>1. AllocationOK(e.allocations[k])
      BY <2>1 DEF ValuesOK
    <3> QED
      BY <3>1, <2>6, <2>8 DEF AllocationOK
  <2>10. Known(client, i, f)
    <3> SUFFICES ASSUME ~f.dirty, NEW k \in 1..m, v(k) # NoValue
                 PROVE  i \in DOMAIN client /\ InWord(client[i], f.allocations[k]) = v(k)
      BY <2>6, <2>7 DEF Known
    <3>1. ~e.dirty /\ e.allocations[k].value = v(k)
      BY <2>4
    <3>2. i \in DOMAIN client /\ InWord(client[i], e.allocations[k]) = v(k)
      BY <3>1, <2>1 DEF Known
    <3> QED
      BY <3>2, <2>6 DEF InWord
  <2> QED
    BY <2>9, <2>10 DEF f
<1> QED
  BY <1>2, <1>3 DEF EntriesHold

LEMMA ClearValuesHolds ==
    ASSUME KInv, ClearValues
    PROVE  EntriesHold'
<1>1. EntriesOK /\ Len(entries) \in Nat /\ DOMAIN entries = 1..Len(entries)
  BY DEF KInv, IInv, EntriesOK
<1>2. Len(entries') = Len(entries)
  BY <1>1, ClearValuesKeepsLayout DEF LayoutKept
<1>3. ASSUME NEW i \in 1..Len(entries)
      PROVE  ValuesOK(entries'[i]) /\ Known(client', i, entries'[i])
  <2> DEFINE e == entries[i]
             m == Len(e.allocations)
             f == entries'[i]
  <2>1. EntryOK(e) /\ ValuesOK(e)
    BY <1>1 DEF EntriesOK, KInv, EntriesHold
  <2>2. /\ m \in Nat /\ DOMAIN e.allocations = 1..m
        /\ \A k \in 1..m : e.allocations[k] \in Allocation
    BY <2>1, EntryFacts
  <2>3. f.allocations = [k \in 1..m |-> [e.allocations[k] EXCEPT !.value = NoValue]]
    BY <2>2, <1>1 DEF ClearValues, Revalued
  <2>4. Len(f.allocations) = m
    BY <1>1, ClearValuesKeepsLayout DEF LayoutKept, SameLayout
  <2> HIDE DEF f, e
  <2>5. \A k \in 1..m : /\ f.allocations[k].value = NoValue
                        /\ f.allocations[k].bits = e.allocations[k].bits
    BY <2>2, <2>3 DEF Allocation
  <2>6. ValuesOK(f)
    BY <2>1, <2>4, <2>5 DEF ValuesOK, AllocationOK
  <2>7. Known(client', i, f)
    BY <2>4, <2>5 DEF Known
  <2> QED
    BY <2>6, <2>7 DEF f
<1> QED
  BY <1>2, <1>3 DEF EntriesHold

\* What is sent has every value in its field.
LEMMA FlushHolds ==
    ASSUME KInv, Flush
    PROVE  EntriesHold'
<1>1. EntriesOK /\ Len(entries) \in Nat /\ DOMAIN entries = 1..Len(entries)
  BY DEF KInv, IInv, EntriesOK
<1>2. Len(entries') = Len(entries)
  BY <1>1, FlushKeepsLayout DEF LayoutKept
<1>3. PICK sent \in SUBSET DOMAIN entries :
        /\ {i \in DOMAIN entries : entries[i].dirty} \subseteq sent
        /\ client' = [i \in DOMAIN client \cup sent |->
                        IF i \in sent THEN WordOf(entries[i]) ELSE client[i]]
  <2> DEFINE dirty == {i \in DOMAIN entries : entries[i].dirty}
  <2>1. PICK gaps \in SUBSET DOMAIN entries :
            client' = [i \in DOMAIN client \cup dirty \cup gaps |->
                          IF i \in dirty \cup gaps THEN WordOf(entries[i]) ELSE client[i]]
    BY DEF Flush
  <2>2. DOMAIN client \cup dirty \cup gaps = DOMAIN client \cup (dirty \cup gaps)
    OBVIOUS
  <2>3. dirty \cup gaps \in SUBSET DOMAIN entries /\ dirty \subseteq dirty \cup gaps
    BY <2>1
  <2> HIDE DEF dirty
  <2>4. client' = [i \in DOMAIN client \cup (dirty \cup gaps) |->
                      IF i \in dirty \cup gaps THEN WordOf(entries[i]) ELSE client[i]]
    BY <2>1, <2>2
  <2> QED
    BY <2>3, <2>4 DEF dirty
<1>4. ASSUME NEW i \in 1..Len(entries)
      PROVE  ValuesOK(entries'[i]) /\ Known(client', i, entries'[i])
  <2> DEFINE e == entries[i]
             f == entries'[i]
  <2>1. EntryOK(e) /\ ValuesOK(e) /\ Known(client, i, e)
    BY <1>1 DEF EntriesOK, KInv, EntriesHold
  <2>2. f = [e EXCEPT !.dirty = FALSE] /\ e \in Entry
    BY <1>1, <2>1 DEF Flush, EntryOK
  <2>3. f.allocations = e.allocations
    <3> HIDE DEF f, e
    <3> QED
      BY <2>2 DEF Entry
  <2>4. ASSUME NEW k \in 1..Len(e.allocations), e.allocations[k].value # NoValue
        PROVE  /\ i \in DOMAIN client'
               /\ InWord(client'[i], e.allocations[k]) = e.allocations[k].value
    <3>1. CASE i \in sent
      <4>1. i \in DOMAIN client' /\ client'[i] = WordOf(e)
        BY <3>1, <1>3
      <4>2. InWord(WordOf(e), e.allocations[k]) = ValueOf(e.allocations[k])
        BY <2>1, WordHolds
      <4> QED
        BY <4>1, <4>2, <2>4 DEF ValueOf
    <3>2. CASE i \notin sent
      <4>1. ~e.dirty
        BY <3>2, <1>1, <1>3
      <4>2. i \in DOMAIN client /\ InWord(client[i], e.allocations[k]) = e.allocations[k].value
        BY <4>1, <2>1, <2>4 DEF Known
      <4>3. i \in DOMAIN client' /\ client'[i] = client[i]
        BY <3>2, <4>2, <1>3
      <4> QED
        BY <4>2, <4>3
    <3> QED
      BY <3>1, <3>2
  <2> HIDE DEF e, f
  <2>5. ValuesOK(f)
    BY <2>1, <2>3 DEF ValuesOK
  <2>6. Known(client', i, f)
    BY <2>3, <2>4 DEF Known
  <2> QED
    BY <2>5, <2>6 DEF f
<1> QED
  BY <1>2, <1>4 DEF EntriesHold
-----------------------------------------------------------------------------
\* More arithmetic, for a field that is replaced by a value.
LEMMA DivByProduct ==
    ASSUME NEW w \in Int, NEW u \in Nat \ {0}, NEW v \in Nat \ {0}
    PROVE  w \div (u * v) = (w \div u) \div v
<1> DEFINE q == w \div u
           r == w % u
           p == q \div v
           s == q % v
<1>1. q \in Int /\ r \in 0..u - 1 /\ w = q * u + r
  BY DivMod
<1>2. p \in Int /\ s \in 0..v - 1 /\ q = p * v + s
  BY <1>1, DivMod
<1> HIDE DEF q, r, s
<1> DEFINE uv == u * v
           rest == s * u + r
<1>3. uv \in Nat \ {0}
  OBVIOUS
<1>4. rest \in 0..uv - 1
  <2>1. (s + 1) * u <= v * u
    BY <1>2, ProductGrows
  <2>2. (s + 1) * u = s * u + u /\ s * u \in Nat /\ v * u = u * v
    BY <1>2
  <2> QED
    BY <1>1, <2>1, <2>2
<1> HIDE DEF p
<1>5. (p * v + s) * u = p * (u * v) + s * u
  BY <1>2
<1>6. w = p * uv + rest
  <2>1. s * u \in Int /\ p * (u * v) \in Int
    BY <1>2
  <2> QED
    BY <1>1, <1>2, <1>5, <2>1
<1> HIDE DEF uv, rest
<1>7. w \div uv = p
  BY <1>2, <1>3, <1>4, <1>6, DivModUnique
<1> QED
  BY <1>7 DEF uv, p, q

LEMMA DivBelow ==
    ASSUME NEW w \in Int, NEW u \in Nat \ {0}, NEW c \in Int
    PROVE  w < c * u <=> w \div u < c
<1> DEFINE q == w \div u
           r == w % u
<1>1. q \in Int /\ r \in 0..u - 1 /\ w = q * u + r
  BY DivMod
<1> HIDE DEF q, r
<1>2. ASSUME c <= q PROVE ~(w < c * u)
  <2>1. c * u <= q * u /\ c * u \in Int /\ q * u \in Int
    BY <1>1, <1>2, ProductGrows
  <2> QED
    BY <1>1, <2>1
<1>3. ASSUME q < c PROVE w < c * u
  <2>1. (q + 1) * u <= c * u
    BY <1>1, <1>3, ProductGrows
  <2>2. (q + 1) * u = q * u + u /\ c * u \in Int /\ q * u \in Int
    BY <1>1
  <2> QED
    BY <1>1, <2>1, <2>2
<1>4. w < c * u <=> q < c
  BY <1>1, <1>2, <1>3
<1> QED
  BY <1>4 DEF q

LEMMA DivIsNatural ==
    ASSUME NEW w \in Nat, NEW u \in Nat \ {0}
    PROVE  w \div u \in Nat
OBVIOUS

LEMMA SumOfProducts ==
    ASSUME NEW a \in Int, NEW b \in Int, NEW c \in Int
    PROVE  /\ (a + b) * c = a * c + b * c
           /\ a * (b * c) = (a * c) * b
           /\ a * b \in Int /\ a * c \in Int /\ b * c \in Int /\ (a * c) * b \in Int
           /\ (a * b) * c \in Int /\ (a + b) * c \in Int
OBVIOUS

\* The part p of a word that has hi above it and low below it.
LEMMA FieldIn ==
    ASSUME NEW u \in Nat \ {0}, NEW B \in Nat \ {0}, NEW hi \in Int, NEW p \in 0..B - 1,
           NEW low \in 0..u - 1, NEW w, w = (hi * B + p) * u + low
    PROVE  /\ w \in Int
           /\ w % u = low
           /\ w \div u = hi * B + p
           /\ (w \div u) % B = p
           /\ w \div (u * B) = hi
<1> DEFINE q == hi * B + p
<1>1. q \in Int
  BY SumOfProducts
<1>2. w = q * u + low
  OBVIOUS
<1>3. q \div B = hi /\ q % B = p
  BY <1>1, DivModUnique
<1> HIDE DEF q
<1>4. w \in Int
  BY <1>1, <1>2, SumOfProducts
<1>5. w \div u = q /\ w % u = low
  BY <1>1, <1>2, <1>4, DivModUnique
<1>6. w \div (u * B) = hi
  <2>1. w \div (u * B) = (w \div u) \div B
    BY <1>4, DivByProduct, Zenon
  <2> QED
    BY <1>3, <1>5, <2>1, Zenon
<1> QED
  BY <1>3, <1>4, <1>5, <1>6 DEF q

LEMMA Recombined ==
    ASSUME NEW u \in Int, NEW F \in Int, NEW h \in Int, NEW v \in Int, NEW low \in Int
    PROVE  (low + v * u) + h * (u * F) = (h * F + v) * u + low
<1> DEFINE y == h * F
           a == y * u
           b == v * u
<1>1. (y + v) * u = a + b /\ a \in Int /\ b \in Int /\ h * (u * F) = a
  <2>1. h * (u * F) = (h * F) * u
    BY SumOfProducts
  <2>2. y \in Int
    BY SumOfProducts
  <2> HIDE DEF y
  <2>3. (y + v) * u = y * u + v * u /\ y * u \in Int /\ v * u \in Int
    BY <2>2, SumOfProducts
  <2> QED
    BY <2>1, <2>3 DEF y
<1>2. (low + v * u) + h * (u * F) = (low + b) + a
  BY <1>1
<1> HIDE DEF y, a, b
<1>3. (low + b) + a = (y + v) * u + low
  BY <1>1
<1> QED
  BY <1>2, <1>3 DEF y

LEMMA FieldReplaced ==
    ASSUME NEW u \in Nat \ {0}, NEW F \in Nat \ {0}, NEW c \in Nat \ {0}, NEW top \in Int,
           NEW word \in Nat, NEW v \in 0..F - 1
    PROVE  LET B   == F * c
               x   == (word \div u) % B
               new == ((word % u) + v * u) + (word \div (u * F)) * (u * F)
           IN  x < F =>
                /\ new \in Nat
                /\ (new \div u) % B = v
                /\ new \div (u * B) = word \div (u * B)
                /\ new = word + (v - x) * u
                /\ word < top * (u * B) => new < top * (u * B)
<1> DEFINE B   == F * c
           low == word % u
           hi  == (word \div u) \div B
           x   == (word \div u) % B
           new == ((word % u) + v * u) + (word \div (u * F)) * (u * F)
<1>1. B \in Nat \ {0} /\ F <= B
  <2>1. F * c \in Nat \ {0}
    OBVIOUS
  <2>2. 1 * F <= c * F /\ 1 * F = F /\ c * F = F * c
    BY ProductGrows
  <2> QED
    BY <2>1, <2>2
<1>2. word \div u \in Nat
  BY DivIsNatural
<1>3. low \in 0..u - 1 /\ word = (word \div u) * u + low
  BY DivMod
<1>4. hi \in Nat /\ x \in 0..B - 1 /\ word \div u = hi * B + x
  <2> DEFINE q == word \div u
  <2>1. q \in Nat
    BY <1>2
  <2> HIDE DEF q, B
  <2>2. q \div B \in Nat /\ q % B \in 0..B - 1 /\ q = (q \div B) * B + (q % B)
    <3>1. q \in Int /\ B \in Nat \ {0}
      BY <1>1, <2>1
    <3> QED
      BY <2>1, <3>1, DivMod, DivIsNatural, Zenon
  <2> QED
    BY <2>2 DEF q
<1> SUFFICES ASSUME x < F
             PROVE  /\ new \in Nat
                    /\ (new \div u) % B = v
                    /\ new \div (u * B) = word \div (u * B)
                    /\ new = word + (v - x) * u
                    /\ word < top * (u * B) => new < top * (u * B)
  OBVIOUS
<1>5. x \in 0..F - 1
  BY <1>4
<1> HIDE DEF low, hi, x
<1>6. word = (hi * B + x) * u + low
  BY <1>3, <1>4
<1> DEFINE h == hi * c
<1>7. hi * B = h * F /\ h \in Int
  BY <1>4
<1> HIDE DEF h, B
<1>8. new = (hi * B + v) * u + low
  <2>1. word = (h * F + x) * u + low /\ v \in Int /\ low \in 0..u - 1
    BY <1>3, <1>6, <1>7
  <2>2. word \div (u * F) = h
    BY <1>5, <1>7, <2>1, FieldIn, SMT
  <2>3. word % u = low
    BY DEF low
  <2>4. (low + v * u) + h * (u * F) = (h * F + v) * u + low
    <3>1. u \in Int /\ F \in Int /\ low \in Int
      BY <2>1
    <3> QED
      BY <1>7, <2>1, <3>1, Recombined, SMT
  <2> QED
    BY <1>7, <2>2, <2>3, <2>4, Zenon
<1> HIDE DEF new
<1>9. word = (hi * B + x) * u + low
  BY <1>6
<1>10. v \in 0..B - 1 /\ x \in 0..B - 1
  BY <1>1, <1>4
<1>11. (new \div u) % B = v /\ new \div (u * B) = hi
  <2>1. hi \in Int /\ low \in 0..u - 1
    BY <1>3, <1>4
  <2> QED
    BY <1>1, <1>8, <1>10, <2>1, FieldIn, SMT
<1>12. word \div (u * B) = hi
  <2>1. hi \in Int /\ low \in 0..u - 1
    BY <1>3, <1>4
  <2> QED
    BY <1>1, <1>9, <1>10, <2>1, FieldIn, SMT
<1>13. new \in Nat
  <2>1. hi * B \in Nat
    BY <1>1, <1>4
  <2>2. hi * B + v \in Nat
    BY <2>1
  <2>3. (hi * B + v) * u \in Nat
    BY <2>2
  <2> QED
    BY <1>3, <1>8, <2>3
<1>14. new = word + (v - x) * u
  <2> DEFINE y == hi * B
  <2>1. y \in Int
    BY <1>1, <1>4
  <2> HIDE DEF y
  <2>2. y + v = (y + x) + (v - x) /\ y + x \in Int /\ v - x \in Int
    BY <2>1, <1>5
  <2>3. (y + v) * u = (y + x) * u + (v - x) * u
    BY <2>2, SumOfProducts
  <2>4. (y + v) * u \in Int /\ (y + x) * u \in Int /\ (v - x) * u \in Int
    BY <2>1, <2>2, SumOfProducts
  <2>5. new = (y + v) * u + low /\ word = (y + x) * u + low
    BY <1>8, <1>9 DEF y
  <2> DEFINE a == (y + v) * u
             b == (y + x) * u
             d == (v - x) * u
  <2>6. a = b + d /\ a \in Int /\ b \in Int /\ d \in Int /\ new = a + low /\ word = b + low
    BY <2>3, <2>4, <2>5
  <2> HIDE DEF a, b, d
  <2>7. new = word + d
    BY <1>3, <2>6
  <2> QED
    BY <2>7 DEF d
<1>15. word < top * (u * B) => new < top * (u * B)
  <2> DEFINE uB == u * B
  <2>1. uB \in Nat \ {0}
    BY <1>1
  <2>2. new \div uB = hi /\ word \div uB = hi
    BY <1>11, <1>12
  <2> HIDE DEF uB
  <2>3. word < top * uB => new < top * uB
    <3>1. new \in Int /\ word \in Int
      BY <1>13
    <3> QED
      BY <2>1, <2>2, <3>1, DivBelow, Zenon
  <2> QED
    BY <2>3 DEF uB
<1> QED
  BY <1>11, <1>12, <1>13, <1>14, <1>15
-----------------------------------------------------------------------------
\* The mask that the hub derives from the maximal value is no wider than the field.
LEMMA FieldSizeIs ==
    ASSUME NEW output, output.MaxValue \in Nat, NEW b \in Nat, b > 0, b <= 16, output.MaxValue < 2^b
    PROVE  \E m \in Nat : /\ m <= b
                          /\ Hub!FieldSize(output) = 2^m
                          /\ output.MaxValue < 2^m
<1> DEFINE P == {2^n : n \in 1..16}
           S == {m \in P : m > output.MaxValue}
           max == output.MaxValue
<1>1. \A n \in 1..16 : 2^n \in Nat
  <2> SUFFICES ASSUME NEW n \in 1..16 PROVE 2^n \in Nat
    OBVIOUS
  <2>1. n \in Nat /\ n <= 16
    OBVIOUS
  <2> QED
    BY <2>1, PowerIsANumber, Zenon
<1>2. P \in SUBSET Nat
  BY <1>1
<1> HIDE DEF P
<1>3. 2^b \in P
  <2>1. b \in 1..16
    OBVIOUS
  <2> QED
    BY <2>1, Zenon DEF P
<1>4. 2^b \in S
  <2> DEFINE v == 2^b
  <2>1. v \in P /\ v \in Nat /\ max < v
    BY <1>2, <1>3
  <2> HIDE DEF v
  <2>2. v \in S
    BY <2>1
  <2> QED
    BY <2>2 DEF v
<1>5. S \in SUBSET Nat
  BY <1>2
<1>6. Hub!FieldSize(output) = Hub!Min(S)
  BY Zenon DEF Hub!FieldSize, P
<1> HIDE DEF S
<1>7. Hub!Min(S) \in S /\ \A j \in S : Hub!Min(S) <= j
  BY <1>4, <1>5, LeastElement DEF Hub!Min
<1> DEFINE F == Hub!Min(S)
<1>8. F \in P /\ max < F /\ F <= 2^b
  BY <1>4, <1>7 DEF S
<1> HIDE DEF F
<1>9. PICK m \in 1..16 : F = 2^m
  BY <1>8, Zenon DEF P
<1>10. m <= b
  <2> SUFFICES ASSUME ~(m <= b) PROVE FALSE
    OBVIOUS
  <2>1. b + 1 <= m /\ b + 1 <= 16 /\ b \in 0..15 /\ m <= 16 /\ m \in Nat /\ b + 1 \in Nat
    OBVIOUS
  <2>2. 2^(b + 1) <= 2^m
    BY <2>1, PowersGrow, Zenon
  <2>3. 2^(b + 1) = 2 * 2^b
    BY <2>1, PowersOfTwo, Zenon
  <2>4. 2^b \in Nat \ {0}
    BY <2>1, PowersOfTwo
  <2> DEFINE v == 2^b
             w == 2^m
  <2>5. v \in Nat \ {0} /\ 2 * v <= w /\ w <= v /\ w \in Nat
    <3>1. w \in Nat
      BY <2>1, PowerIsANumber, Zenon
    <3> QED
      BY <2>2, <2>3, <2>4, <3>1, <1>8, <1>9
  <2> HIDE DEF v, w
  <2> QED
    BY <2>5
<1>11. m \in Nat
  OBVIOUS
<1> QED
  BY <1>6, <1>8, <1>9, <1>10, <1>11 DEF F

\* The words of the hub have as many bits as there are.
LEMMA HubWords == Hub!WordMax + 1 = 2^16
<1>1. Hub!WordMax + 1 = 256 * 256
  BY DEF Hub!WordMax, Hub!Base
<1> QED
  BY <1>1
\* A part is decided by what is from any lower bit on.
LEMMA PartAbove ==
    ASSUME NEW n \in Nat, NEW s \in Nat, NEW b \in Nat, n <= s, s <= 16, NEW w \in Int, NEW x \in Int,
           w \div 2^n = x \div 2^n
    PROVE  Part(w, s, b) = Part(x, s, b)
<1>1. PICK d : d = s - n
  OBVIOUS
<1>2. d \in Nat /\ n + d = s /\ n + d <= 16 /\ n <= 16 /\ d <= 16
  BY <1>1
<1>3. 2^s = 2^n * 2^d
  BY <1>2, PowersAdd
<1> DEFINE u == 2^n
           v == 2^d
<1>4. u \in Nat \ {0} /\ v \in Nat \ {0}
  BY <1>2, PowerIsANumber, Zenon
<1>5. 2^s = u * v /\ w \div u = x \div u
  BY <1>3
<1> HIDE DEF u, v
<1>6. w \div (u * v) = x \div (u * v)
  <2>1. w \div (u * v) = (w \div u) \div v /\ x \div (u * v) = (x \div u) \div v
    BY <1>4, DivByProduct, Zenon
  <2> QED
    BY <1>5, <2>1, Zenon
<1> QED
  BY <1>5, <1>6 DEF Part

\* Words that differ in the bits from s on, b of them.
DifferInField(new, word, s, b) ==
    /\ new \in Int /\ word \in Int
    /\ new \div 2^(s + b) = word \div 2^(s + b)
    /\ \E d \in Int : new = word + d * 2^s

\* The bits from p on, q of them, are none of these.
Beside(p, q, s, b) == p + q <= s \/ (s + b <= p /\ p <= 16)

\* The parts below and above a field that differs are the same.
LEMMA OthersKept ==
    ASSUME NEW s \in Nat, NEW b \in Nat, s + b <= 16, NEW new, NEW word, DifferInField(new, word, s, b),
           NEW p \in Nat, NEW q \in Nat, Beside(p, q, s, b)
    PROVE  Part(new, p, q) = Part(word, p, q)
<1>1. s <= 16 /\ s + b \in Nat
  OBVIOUS
<1>2. CASE p + q <= s
  <2>1. PICK d \in Int : new = word + d * 2^s
    BY DEF DifferInField
  <2>2. word \in Int
    BY DEF DifferInField
  <2>3. Part(word + d * 2^s, p, q) = Part(word, p, q)
    BY <1>1, <1>2, <2>2, PartBelow, SMT
  <2> QED
    BY <2>1, <2>3
<1>3. CASE s + b <= p /\ p <= 16
  <2>1. PICK n \in Nat : n = s + b
    BY <1>1
  <2>2. n <= p /\ p <= 16 /\ new \in Int /\ word \in Int /\ new \div 2^n = word \div 2^n
    BY <1>3, <2>1 DEF DifferInField
  <2> QED
    BY <2>2, PartAbove, SMT
<1> QED
  BY <1>2, <1>3 DEF Beside

\* What SetIntegerValue of the hub makes of a word, for a field that it fits.
FieldFits(s, b, max, word, v) ==
    /\ b > 0 /\ s + b <= 16
    /\ max < 2^b /\ v \in 0..max
    /\ word \in 0..2^16 - 1 /\ Part(word, s, b) <= max

SetsOnly(new, s, b, word, v) ==
    /\ Part(new, s, b) = v
    /\ \A p, q \in Nat : Beside(p, q, s, b) => Part(new, p, q) = Part(word, p, q)

LEMMA HubSetsField ==
    ASSUME NEW s \in Nat, NEW b \in Nat, NEW max \in Nat, NEW v, NEW word,
           FieldFits(s, b, max, word, v)
    PROVE  SetsOnly(Hub!WithField(word, [ShiftBy |-> s, MaxValue |-> max], v), s, b, word, v)
<1> SUFFICES ASSUME b > 0, s + b <= 16, max < 2^b, v \in 0..max,
                    word \in 0..2^16 - 1, Part(word, s, b) <= max,
                    NEW new, new = Hub!WithField(word, [ShiftBy |-> s, MaxValue |-> max], v)
             PROVE  SetsOnly(new, s, b, word, v)
  BY DEF FieldFits
<1> DEFINE output == [ShiftBy |-> s, MaxValue |-> max]
<1>1. output.ShiftBy = s /\ output.MaxValue = max
  OBVIOUS
<1> HIDE DEF output
<1>2. PICK m \in Nat : m <= b /\ Hub!FieldSize(output) = 2^m /\ max < 2^m
  <2>1. b <= 16 /\ output.MaxValue \in Nat /\ output.MaxValue < 2^b
    BY <1>1
  <2>2. \E m \in Nat : m <= b /\ Hub!FieldSize(output) = 2^m /\ output.MaxValue < 2^m
    BY <2>1, FieldSizeIs, Zenon
  <2> QED
    BY <1>1, <2>2
<1>3. PICK d, t : d = b - m /\ t = 16 - (s + b)
  OBVIOUS
<1>4. /\ d \in Nat /\ t \in Nat /\ m + d = b /\ (s + b) + t = 16 /\ m + d <= 16
      /\ s <= 16 /\ b <= 16 /\ m <= 16 /\ d <= 16 /\ t <= 16 /\ s + b \in Nat /\ (s + b) + t <= 16
  BY <1>2, <1>3
<1>5. 2^b = 2^m * 2^d
  BY <1>2, <1>4, PowersAdd
<1>6. 2^(s + b) = 2^s * 2^b
  BY PowersAdd
<1>7. 2^16 = 2^(s + b) * 2^t
  <2>1. 2^((s + b) + t) = 2^(s + b) * 2^t
    BY <1>4, PowersAdd, Zenon
  <2> QED
    BY <1>4, <2>1
<1> DEFINE u == 2^s
           F == 2^m
           c == 2^d
           B == 2^b
           top == 2^t
           W == 2^16
<1>8. u \in Nat \ {0} /\ F \in Nat \ {0} /\ c \in Nat \ {0} /\ B \in Nat \ {0} /\ top \in Nat
  BY <1>2, <1>4, PowerIsANumber, Zenon
<1>9. B = F * c /\ 2^(s + b) = u * B /\ W = (u * B) * top
  BY <1>5, <1>6, <1>7
<1>10. W \in Nat \ {0} /\ word \in 0..W - 1
  BY PowersOfTwo
<1>11. Hub!WordMax + 1 = W
  BY HubWords
<1>12. v < W
  <2>1. b \in Nat /\ 16 \in Nat /\ b <= 16 /\ 16 <= 16
    BY <1>4
  <2>2. B <= W
    BY <2>1, PowersGrow, Zenon
  <2>3. max < B
    OBVIOUS
  <2> HIDE DEF B, W
  <2> QED
    BY <1>8, <1>10, <2>2, <2>3
<1> DEFINE x == (word \div u) % B
<1>13. Part(word, s, b) = x
  BY DEF Part
<1>14. new = (((word % u) + (v % W) * u) + (word \div (u * F)) * (u * F)) % W
  BY <1>1, <1>2, <1>11 DEF Hub!WithField, output
<1>15. max < F /\ x <= max
  BY <1>2, <1>13
<1>16. Part(new, s, b) = (new \div u) % B
  BY DEF Part
<1> HIDE DEF u, F, c, B, top, W
<1> DEFINE f == ((word % u) + v * u) + (word \div (u * F)) * (u * F)
<1>17. v \in Int /\ v \in 0..F - 1 /\ word \in Nat /\ top \in Int
  BY <1>8, <1>10, <1>15
<1>18. x < F /\ x \in Int
  <2>1. word \div u \in Int
    BY <1>8, <1>17, DivMod
  <2>2. x \in Int
    BY <1>8, <2>1, DivMod
  <2> HIDE DEF x
  <2> QED
    BY <1>8, <1>15, <2>2
<1>19. /\ f \in Nat
       /\ (f \div u) % B = v
       /\ f \div (u * B) = word \div (u * B)
       /\ f = word + (v - x) * u
       /\ word < top * (u * B) => f < top * (u * B)
  <2>1. B = F * c
    BY <1>9
  <2>2. (word \div u) % (F * c) < F
    BY <2>1, <1>18, Zenon
  <2>3. /\ f \in Nat
        /\ (f \div u) % (F * c) = v
        /\ f \div (u * (F * c)) = word \div (u * (F * c))
        /\ f = word + (v - ((word \div u) % (F * c))) * u
        /\ word < top * (u * (F * c)) => f < top * (u * (F * c))
    BY <1>8, <1>17, <2>2, FieldReplaced, Zenon
  <2> HIDE DEF f
  <2> QED
    BY <2>1, <2>3, Zenon
<1>20. v % W = v
  <2>1. v = 0 * W + v /\ v \in 0..W - 1 /\ 0 \in Int
    BY <1>10, <1>12, <1>17
  <2> QED
    BY <1>10, <1>17, <2>1, DivModUnique, ZenonT(30)
<1>21. f \in 0..W - 1
  <2>1. W = top * (u * B)
    <3>1. u * B \in Nat
      BY <1>8
    <3> QED
      BY <1>8, <1>9, <3>1
  <2>2. word < W
    BY <1>10
  <2> HIDE DEF f
  <2> QED
    BY <1>10, <1>19, <2>1, <2>2
<1>22. new = f % W
  BY <1>14, <1>20
<1> HIDE DEF f, x
<1>23. f % W = f
  <2>1. f = 0 * W + f /\ f \in Int
    BY <1>10, <1>21
  <2> QED
    BY <1>10, <1>21, <2>1, DivModUnique
<1>24. /\ new \in Int
       /\ (new \div u) % B = v
       /\ new \div (u * B) = word \div (u * B)
       /\ new = word + (v - x) * u
  BY <1>19, <1>22, <1>23
<1>25. new \div 2^(s + b) = word \div 2^(s + b) /\ new = word + (v - x) * 2^s
  BY <1>9, <1>24 DEF u
<1>26. v - x \in Int /\ word \in Int /\ new \in Int
  BY <1>17, <1>18, <1>24
<1>27. DifferInField(new, word, s, b)
  <2> DEFINE e == v - x
  <2>1. e \in Int /\ new = word + e * 2^s
    BY <1>25, <1>26
  <2> HIDE DEF e
  <2> QED
    BY <1>25, <1>26, <2>1, Zenon DEF DifferInField
<1>28. \A p, q \in Nat : Beside(p, q, s, b) => Part(new, p, q) = Part(word, p, q)
  <2> SUFFICES ASSUME NEW p \in Nat, NEW q \in Nat, Beside(p, q, s, b)
               PROVE  Part(new, p, q) = Part(word, p, q)
    OBVIOUS
  <2> QED
    BY <1>27, OthersKept, SMT
<1> QED
  BY <1>16, <1>24, <1>28 DEF SetsOnly

LEMMA HubSetsOneOf ==
    ASSUME NEW e, EntryOK(e), ValuesOK(e),
           NEW j \in 1..Len(e.allocations), e.allocations[j].bits > 0,
           NEW max \in Nat, max <= e.allocations[j].maxValue,
           ValueOf(e.allocations[j]) \in 0..max, NEW v \in 0..max,
           NEW new, new = Hub!WithField(WordOf(e), [ShiftBy  |-> e.allocations[j].shiftBy,
                                                    MaxValue |-> max], v)
    PROVE  /\ InWord(new, e.allocations[j]) = v
           /\ \A k \in 1..Len(e.allocations) \ {j} :
                InWord(new, e.allocations[k]) = InWord(WordOf(e), e.allocations[k])
<1> DEFINE n == Len(e.allocations)
           a == e.allocations[j]
           s == a.shiftBy
           b == a.bits
           word == WordOf(e)
<1>1. /\ n \in Nat
      /\ WordBits <= 16 /\ WordBits \in Nat /\ e.allocatedBitCounter \in 0..WordBits
      /\ \A k \in 1..n : /\ e.allocations[k] \in Allocation
                         /\ e.allocations[k].shiftBy \in Nat /\ e.allocations[k].bits \in Nat
                         /\ e.allocations[k].shiftBy + e.allocations[k].bits <= e.allocatedBitCounter
                         /\ FitsIn(e.allocations[k].maxValue, e.allocations[k].bits)
      /\ \A i, k \in 1..n : i < k => e.allocations[i].shiftBy + e.allocations[i].bits <= e.allocations[k].shiftBy
  BY EntryFacts, Bits
<1>2. AllocationOK(a) /\ a \in Allocation
  BY <1>1 DEF ValuesOK
<1>3. s \in Nat /\ b \in Nat /\ b > 0 /\ s + b <= 16 /\ max < 2^b
  <2>1. s \in Nat /\ b \in Nat /\ s + b <= e.allocatedBitCounter /\ FitsIn(a.maxValue, b)
    BY <1>1
  <2>2. b > 0 /\ a.maxValue \in Nat
    BY <1>2 DEF Allocation
  <2>3. s + b <= 16
    <3> HIDE DEF s, b
    <3> QED
      BY <1>1, <2>1
  <2>4. max < 2^b
    <3> DEFINE limit == 2^b
    <3>1. limit \in Nat
      BY <2>1, <2>3, PowerIsANumber
    <3>2. a.maxValue < limit /\ max <= a.maxValue
      BY <2>1 DEF FitsIn
    <3> HIDE DEF limit, a
    <3>3. max < limit
      BY <2>2, <3>1, <3>2
    <3> QED
      BY <3>3 DEF limit
  <2> QED
    BY <2>1, <2>2, <2>3, <2>4
<1>4. /\ word \in 0..2^16 - 1
      /\ \A k \in 1..n : InWord(word, e.allocations[k]) = ValueOf(e.allocations[k])
  BY WordHolds
<1>5. Part(word, s, b) \in 0..max
  <2>1. Part(word, s, b) = ValueOf(a)
    BY <1>4 DEF Part, InWord
  <2> QED
    BY <2>1
<1>6. /\ Part(new, s, b) = v
      /\ \A p, q \in Nat : Beside(p, q, s, b) => Part(new, p, q) = Part(word, p, q)
  <2>1. new = Hub!WithField(word, [ShiftBy |-> s, MaxValue |-> max], v) /\ v \in 0..max
    OBVIOUS
  <2>2. Part(word, s, b) <= max /\ max \in Nat /\ max < 2^b
    BY <1>3, <1>5
  <2> HIDE DEF a, s, b, word
  <2>3. FieldFits(s, b, max, word, v)
    BY <1>3, <1>4, <2>1, <2>2, Zenon DEF FieldFits
  <2>4. SetsOnly(Hub!WithField(word, [ShiftBy |-> s, MaxValue |-> max], v), s, b, word, v)
    BY <1>3, <2>2, <2>3, HubSetsField, Zenon
  <2> QED
    BY <2>1, <2>4, Zenon DEF SetsOnly
<1>7. ASSUME NEW k \in 1..n, k # j
      PROVE  InWord(new, e.allocations[k]) = InWord(word, e.allocations[k])
  <2> DEFINE p == e.allocations[k].shiftBy
             q == e.allocations[k].bits
  <2>1. p \in Nat /\ q \in Nat
    BY <1>1
  <2>2. Beside(p, q, s, b)
    <3>1. k < j \/ j < k
      BY <1>7, <1>1
    <3>2. CASE k < j
      BY <3>2, <1>1 DEF Beside
    <3>3. CASE j < k
      <4>1. s + b <= p
        BY <3>3, <1>1
      <4>2. p + q <= e.allocatedBitCounter
        BY <1>1
      <4> HIDE DEF s, b, p, q
      <4>3. p <= 16
        BY <4>2, <1>1, <2>1
      <4> QED
        BY <4>1, <4>3 DEF Beside
    <3> QED
      BY <3>1, <3>2, <3>3 DEF Beside
  <2>3. Part(new, p, q) = Part(word, p, q)
    <3> HIDE DEF s, b, word, p, q
    <3> QED
      BY <1>6, <2>1, <2>2, Zenon
  <2> QED
    BY <2>3, Zenon DEF Part, InWord, p, q
<1>8. InWord(new, a) = v
  BY <1>6, Zenon DEF Part, InWord
<1> QED
  BY <1>7, <1>8
-----------------------------------------------------------------------------
LEMMA CharacterFitsSomewhere ==
    ASSUME EntriesOK
    PROVE  EntryForCharacter \in 1..Len(entries) + 1
<1> DEFINE n == Len(entries)
           S == {i \in n..n + 1 :
                    HasRoom(i, CharBits) /\ EntryAt(i).allocatedBitCounter \in {0, CharBits}}
<1>1. n \in Nat /\ n > 0
  BY DEF EntriesOK
<1>2. EntryAt(n + 1).allocatedBitCounter = 0
  BY <1>1 DEF EntryAt, NewEntry
<1>3. n + 1 \in S /\ S \in SUBSET Nat
  BY <1>1, <1>2, Bits DEF HasRoom
<1>4. Min(S) \in S
  <2> HIDE DEF S
  <2> QED
    BY <1>3, MinIsLeast
<1> QED
  BY <1>1, <1>4 DEF EntryForCharacter

LEMMA InitIsKInv ==
    ASSUME Init
    PROVE  KInv
<1>1. entries = <<NewEntry>>
  BY DEF Init
<1>2. ValuesOK(NewEntry) /\ Known(client, 1, NewEntry)
  BY DEF NewEntry, ValuesOK, Known
<1>3. \A i \in 1..Len(entries) : i = 1 /\ entries[i] = NewEntry
  BY <1>1
<1> QED
  BY <1>2, <1>3, InitIsIInv DEF KInv, EntriesHold

LEMMA NextKeepsKInv ==
    ASSUME KInv, [Next]_vars
    PROVE  KInv'
<1>1. IInv' /\ EntriesOK' /\ EntriesOK
  BY NextKeepsIInv DEF KInv, IInv
<1> SUFFICES EntriesHold'
  BY <1>1 DEF KInv
<1>2. ASSUME NEW max \in MaxValues, NEW skips, DefineInt(max, skips) PROVE EntriesHold'
  <2>1. BitsRequired(max) \in 0..WordBits /\ max \in Nat
    BY BitsRequiredSuffice
  <2>2. BitsRequired(max) \in Nat
    BY <2>1, Bits
  <2>3. EntryForInt(BitsRequired(max)) \in 1..Len(entries) + 1
    BY <1>1, <2>1, RoomForInt
  <2> QED
    BY <1>1, <1>2, <2>1, <2>2, <2>3, AllocateInHolds DEF DefineInt
<1>3. CharMax \in Nat /\ CharBits \in Nat
  BY MemoryMapAssumption, Bits
<1>4. ASSUME NEW length \in 1..MaxLength, DefineString(length) PROVE EntriesHold'
  BY <1>1, <1>3, <1>4, RoomForFirstCharacter, AllocateInHolds DEF DefineString
<1>5. CASE DefineCharacter
  BY <1>1, <1>3, <1>5, CharacterFitsSomewhere, AllocateInHolds DEF DefineCharacter
<1>6. CASE UNCHANGED <<entries, client>>
  BY <1>6 DEF KInv, EntriesHold
<1>7. ASSUME NEW f \in Fields, NEW v, SetInt(f, v) PROVE EntriesHold'
  BY <1>7, SetFieldsHolds DEF SetInt
<1>8. ASSUME NEW s \in Range(strings), NEW text, SetString(s, text) PROVE EntriesHold'
  BY <1>8, SetFieldsHolds DEF SetString
<1>9. CASE ClearValues
  BY <1>9, ClearValuesHolds
<1>10. CASE Flush
  BY <1>10, FlushHolds
<1>11. StartExport \/ UNCHANGED vars => UNCHANGED <<entries, client>>
  BY DEF StartExport, vars
<1> QED
  BY <1>2, <1>4, <1>5, <1>6, <1>7, <1>8, <1>9, <1>10, <1>11 DEF Next

(***************************************************************************)
(* A field that has a value in a clean word is known to the client, and    *)
(* the mask and the shift of the control reference take exactly that value *)
(* out of the word that was sent, whatever was set and cleared before.     *)
(***************************************************************************)
THEOREM CleanFieldsKnownAlways == Spec => []CleanFieldsKnown
<1>1. Init => KInv
  BY InitIsKInv
<1>2. KInv /\ [Next]_vars => KInv'
  BY NextKeepsKInv
<1>3. KInv => CleanFieldsKnown
  <2> SUFFICES ASSUME KInv, NEW f \in Fields, ~entries[f[1]].dirty, Field(f).value # NoValue
               PROVE  f[1] \in DOMAIN client /\ InWord(client[f[1]], Field(f)) = Field(f).value
    BY DEF CleanFieldsKnown
  <2>1. IsField(f)
    BY FieldsAre DEF KInv, IInv
  <2>2. Known(client, f[1], entries[f[1]])
    BY <2>1 DEF IsField, KInv, EntriesHold
  <2>3. /\ f[2] \in 1..Len(entries[f[1]].allocations)
        /\ Field(f) = entries[f[1]].allocations[f[2]]
    BY <2>1 DEF IsField, Field
  <2> QED
    BY <2>2, <2>3 DEF Known
<1> QED
  BY <1>1, <1>2, <1>3, PTL DEF Spec

-----------------------------------------------------------------------------
\* No "skiplast" switch ever shows its last position.
ShowsPublished(f) ==
    /\ IsField(f) /\ f \notin Characters
    /\ Field(f).maxValue \in Nat /\ Field(f).maxValue > 0
    /\ Field(f).value # Field(f).maxValue

SkiplastOK == \A f \in skiplast : ShowsPublished(f)

LEMMA CharactersAre ==
    ASSUME NEW f
    PROVE  f \in Characters <=>
                \E k \in DOMAIN strings : \E c \in DOMAIN strings[k] : f = strings[k][c]
BY DEF Characters, Range

LEMMA CharactersAreFields ==
    ASSUME StringsOK, NEW f \in Characters
    PROVE  IsField(f)
<1>1. PICK k \in DOMAIN strings : \E c \in DOMAIN strings[k] : f = strings[k][c]
  BY CharactersAre
<1>2. k \in 1..Len(strings) /\ strings[k] \in Range(strings) /\ strings[k] \in Seq(Nat \X Nat)
  BY DEF StringsOK, Range
<1>3. StringOK(strings[k]) /\ DOMAIN strings[k] = 1..Len(strings[k])
  BY <1>2 DEF StringsOK
<1> QED
  BY <1>1, <1>3 DEF StringOK

\* A field that is there stays as it is when another one is allocated.
LEMMA AllocatedKeepsSkiplast ==
    ASSUME \A f : IsField(f) => FieldKept(f), \A f : IsField(f) => Field(f)' = Field(f),
           NEW f, ShowsPublished(f), f \notin Characters'
    PROVE  ShowsPublished(f)'
BY DEF ShowsPublished, FieldKept

LEMMA DefineIntKeepsSkiplast ==
    ASSUME IInv, SkiplastOK, NEW max \in MaxValues, NEW skips, DefineInt(max, skips)
    PROVE  SkiplastOK'
<1> DEFINE bits == BitsRequired(max)
           i == EntryForInt(bits)
<1>1. max \in Nat /\ bits \in Nat /\ bits \in 0..WordBits /\ FitsIn(max, bits)
  BY BitsRequiredSuffice, Bits
<1>2. i \in 1..Len(entries) + 1 /\ HasRoom(i, bits) /\ AllocateIn(i, max, bits)
  BY <1>1, RoomForInt DEF IInv, DefineInt
<1>3. PICK new : new = NewAllocation(i)
  OBVIOUS
<1>4. /\ skips => max > 0
      /\ skiplast' = IF skips THEN skiplast \cup {new} ELSE skiplast
      /\ UNCHANGED strings
  BY <1>3 DEF DefineInt
<1> HIDE DEF bits, i
<1>5. /\ \A f : IsField(f) => FieldKept(f)
      /\ \A f : IsField(f) => Field(f)' = Field(f)
      /\ IsField(new)' /\ ~IsField(new)
      /\ Field(new)'.maxValue = max
      /\ Field(new)'.value = NoValue
  BY <1>1, <1>2, <1>3, AllocateInFields DEF IInv
<1>6. Characters' = Characters
  BY <1>4 DEF Characters
<1>7. ASSUME NEW f \in skiplast PROVE ShowsPublished(f)'
  <2>1. ShowsPublished(f) /\ f \notin Characters'
    BY <1>6 DEF SkiplastOK, ShowsPublished
  <2> QED
    BY <1>5, <2>1, AllocatedKeepsSkiplast
<1>8. ASSUME skips PROVE ShowsPublished(new)'
  <2>1. new \notin Characters'
    BY <1>5, <1>6, CharactersAreFields DEF IInv
  <2>2. NoValue # max
    BY <1>1, MemoryMapAssumption
  <2> QED
    BY <1>1, <1>4, <1>5, <1>8, <2>1, <2>2 DEF ShowsPublished
<1> QED
  BY <1>4, <1>7, <1>8 DEF SkiplastOK

\* The characters of strings are new fields.
LEMMA CharacterKeepsSkiplast ==
    ASSUME IInv, SkiplastOK, UNCHANGED skiplast, NEW i \in 1..Len(entries) + 1,
           HasRoom(i, CharBits), AllocateIn(i, CharMax, CharBits),
           \A f \in Characters' : f \in Characters \/ f = NewAllocation(i)
    PROVE  SkiplastOK'
<1>1. PICK new : new = NewAllocation(i)
  OBVIOUS
<1>2. CharMax \in Nat /\ CharBits \in Nat /\ FitsIn(CharMax, CharBits)
  BY MemoryMapAssumption, Bits
<1>3. /\ \A f : IsField(f) => FieldKept(f)
      /\ \A f : IsField(f) => Field(f)' = Field(f)
      /\ ~IsField(new)
  BY <1>1, <1>2, AllocateInFields DEF IInv
<1>4. ASSUME NEW f \in skiplast PROVE ShowsPublished(f)'
  <2>1. ShowsPublished(f)
    BY DEF SkiplastOK
  <2>2. f \notin Characters'
    BY <1>1, <1>3, <2>1 DEF ShowsPublished
  <2> QED
    BY <1>3, <2>1, <2>2, AllocatedKeepsSkiplast
<1> QED
  BY <1>4 DEF SkiplastOK

LEMMA DefineStringKeepsSkiplast ==
    ASSUME IInv, SkiplastOK, NEW length, DefineString(length)
    PROVE  SkiplastOK'
<1>1. /\ EntryForFirstCharacter \in 1..Len(entries) + 1
      /\ HasRoom(EntryForFirstCharacter, CharBits)
  BY RoomForFirstCharacter DEF IInv
<1>2. PICK new : new = NewAllocation(EntryForFirstCharacter)
  OBVIOUS
<1>3. /\ AllocateIn(EntryForFirstCharacter, CharMax, CharBits)
      /\ strings' = Append(strings, <<new>>) /\ UNCHANGED skiplast
  BY <1>2 DEF DefineString
<1>4. strings \in Seq(Seq(Nat \X Nat)) /\ Len(strings) \in Nat
  BY DEF IInv, StringsOK
<1>5. /\ DOMAIN strings' = 1..Len(strings) + 1
      /\ strings'[Len(strings) + 1] = <<new>>
      /\ \A k \in 1..Len(strings) : strings'[k] = strings[k]
  BY <1>3, <1>4
<1>6. ASSUME NEW f \in Characters' PROVE f \in Characters \/ f = new
  <2>1. PICK k \in DOMAIN strings' : \E c \in DOMAIN strings'[k] : f = strings'[k][c]
    BY <1>6 DEF Characters, Range
  <2>2. CASE k \in 1..Len(strings)
    <3>1. k \in DOMAIN strings /\ strings'[k] = strings[k]
      BY <1>4, <1>5, <2>2
    <3> QED
      BY <2>1, <3>1, CharactersAre
  <2>3. CASE k = Len(strings) + 1
    <3>1. strings'[k] = <<new>>
      BY <1>5, <2>3
    <3> QED
      BY <2>1, <3>1
  <2> QED
    BY <1>4, <1>5, <2>1, <2>2, <2>3
<1>7. \A f \in Characters' : f \in Characters \/ f = NewAllocation(EntryForFirstCharacter)
  BY <1>2, <1>6
<1> QED
  BY <1>1, <1>3, <1>7, CharacterKeepsSkiplast

LEMMA DefineCharacterKeepsSkiplast ==
    ASSUME IInv, SkiplastOK, DefineCharacter
    PROVE  SkiplastOK'
<1>1. /\ strings \in Seq(Seq(Nat \X Nat)) /\ Len(strings) \in Nat /\ Len(strings) > 0
      /\ charactersLeft > 0
  BY DEF IInv, StringsOK, StringOpen, DefineCharacter
<1>2. PICK s : s = strings[Len(strings)]
  OBVIOUS
<1>3. PICK new : new = NewAllocation(EntryForCharacter)
  OBVIOUS
<1>4. s \in Seq(Nat \X Nat) /\ StringOK(s)
  BY <1>1, <1>2, StringInRange DEF IInv, StringsOK
<1>5. EntryForCharacter \in 1..Len(entries) + 1 /\ HasRoom(EntryForCharacter, CharBits)
  <2>1. PICK last : last = s[Len(s)]
    OBVIOUS
  <2>2. Field(last).shiftBy \in {0, CharBits}
    BY <1>4, <2>1 DEF StringOK
  <2>3. Field(last).shiftBy + CharBits = entries[Len(entries)].allocatedBitCounter
    BY <1>1, <1>2, <2>1 DEF IInv, StringOpen, LastCharacter
  <2>4. entries[Len(entries)].allocatedBitCounter \in {CharBits, 2 * CharBits}
    BY <2>2, <2>3, Bits
  <2> QED
    BY <2>4, RoomForCharacter DEF IInv
<1>6. /\ AllocateIn(EntryForCharacter, CharMax, CharBits)
      /\ strings' = [strings EXCEPT ![Len(strings)] = Append(s, new)] /\ UNCHANGED skiplast
  BY <1>1, <1>2, <1>3 DEF DefineCharacter
<1>7. /\ DOMAIN strings' = DOMAIN strings
      /\ strings'[Len(strings)] = Append(s, new)
      /\ \A k \in DOMAIN strings : k # Len(strings) => strings'[k] = strings[k]
  BY <1>1, <1>6
<1>8. ASSUME NEW f \in Characters' PROVE f \in Characters \/ f = new
  <2>1. PICK k \in DOMAIN strings' : \E c \in DOMAIN strings'[k] : f = strings'[k][c]
    BY <1>8 DEF Characters, Range
  <2>2. CASE k # Len(strings)
    BY <1>7, <2>1, <2>2, CharactersAre
  <2>3. CASE k = Len(strings)
    <3> DEFINE w == Append(s, new)
    <3>1. PICK c \in DOMAIN w : f = w[c]
      BY <1>7, <2>1, <2>3
    <3>2. DOMAIN w = 1..Len(s) + 1 /\ w[Len(s) + 1] = new /\ \A d \in 1..Len(s) : w[d] = s[d]
      BY <1>4
    <3> HIDE DEF w
    <3>3. f = new \/ (c \in DOMAIN s /\ f = s[c])
      BY <1>4, <3>1, <3>2
    <3> QED
      BY <1>1, <1>2, <3>3, CharactersAre
  <2> QED
    BY <2>2, <2>3
<1>9. \A f \in Characters' : f \in Characters \/ f = NewAllocation(EntryForCharacter)
  BY <1>3, <1>8
<1> QED
  BY <1>5, <1>6, <1>9, CharacterKeepsSkiplast

\* What an export step does to the value of a field.
LEMMA RevaluedField ==
    ASSUME EntriesOK, NEW f, IsField(f), NEW values, NEW dirty,
           entries'[f[1]] = Revalued(entries[f[1]], values, dirty)
    PROVE  Field(f)'.value = values[f[2]] /\ Field(f)'.maxValue = Field(f).maxValue
<1> DEFINE e == entries[f[1]]
           k == f[2]
<1>1. EntryOK(e) /\ k \in 1..Len(e.allocations)
  BY DEF IsField, EntriesOK
<1>2. e.allocations[k] \in Allocation /\ DOMAIN e.allocations = 1..Len(e.allocations)
  BY <1>1, EntryFacts
<1>3. Field(f)' = [e.allocations[k] EXCEPT !.value = values[k]] /\ Field(f) = e.allocations[k]
  BY <1>1, <1>2 DEF Field, Revalued
<1> HIDE DEF e
<1> QED
  BY <1>2, <1>3 DEF Allocation

LEMMA SetFieldsSets ==
    ASSUME EntriesOK, NEW new, SetFields(new), NEW f, IsField(f)
    PROVE  /\ IsField(f)'
           /\ Field(f)'.value = ValueAfter(f, new)
           /\ Field(f)'.maxValue = Field(f).maxValue
<1> DEFINE i == f[1]
           values == [k \in DOMAIN entries[i].allocations |-> ValueAfter(<<i, k>>, new)]
           dirty == entries[i].dirty \/ \E k \in DOMAIN entries[i].allocations :
                        Changes(Field(<<i, k>>).value, ValueAfter(<<i, k>>, new))
<1>1. i \in DOMAIN entries /\ f[2] \in DOMAIN entries[i].allocations /\ f = <<i, f[2]>>
  <2>1. i \in 1..Len(entries) /\ f[2] \in 1..Len(entries[i].allocations) /\ f \in Nat \X Nat
    BY DEF IsField
  <2>2. DOMAIN entries[i].allocations = 1..Len(entries[i].allocations)
    BY <2>1, EntryFacts DEF EntriesOK
  <2> QED
    BY <2>1, <2>2 DEF EntriesOK
<1>2. entries'[i] = Revalued(entries[i], values, dirty)
  BY <1>1 DEF SetFields
<1>3. values[f[2]] = ValueAfter(f, new)
  BY <1>1
<1> HIDE DEF values, dirty
<1>4. Field(f)'.value = values[f[2]] /\ Field(f)'.maxValue = Field(f).maxValue
  BY <1>2, RevaluedField
<1>5. IsField(f)'
  BY SetFieldsKeepsLayout, LayoutKeptFields DEF FieldKept
<1> QED
  BY <1>3, <1>4, <1>5

LEMMA SetIntKeepsSkiplast ==
    ASSUME IInv, SkiplastOK, NEW f, NEW v \in Hooked \cup {NoValue}, SetInt(f, v)
    PROVE  SkiplastOK'
<1> DEFINE new == [g \in {f} |-> Shown(g, v)]
<1>1. SetFields(new) /\ UNCHANGED <<skiplast, strings>> /\ EntriesOK
  BY DEF SetInt, IInv
<1>2. Characters' = Characters
  BY <1>1 DEF Characters
<1>3. ASSUME NEW g \in skiplast PROVE ShowsPublished(g)'
  <2>1. /\ ShowsPublished(g) /\ IsField(g) /\ g \notin Characters
        /\ Field(g).maxValue \in Nat /\ Field(g).maxValue > 0 /\ Field(g).value # Field(g).maxValue
    BY DEF SkiplastOK, ShowsPublished
  <2>2. ValueAfter(g, new) # Field(g).maxValue
    <3>1. CASE g # f
      BY <2>1, <3>1 DEF ValueAfter
    <3>2. CASE g = f
      <4>1. DOMAIN new = {f} /\ new[g] = Shown(g, v)
        BY <3>2
      <4>2. CASE v = NoValue
        <5>1. Shown(g, v) = NoValue /\ NoValue \notin 0..Field(g).maxValue
          BY <4>2, MemoryMapAssumption DEF Shown
        <5> QED
          BY <2>1, <4>1, <5>1 DEF ValueAfter
      <4>3. CASE v \in Int /\ v # NoValue
        <5>1. Shown(g, v) = IF v >= Field(g).maxValue THEN 0 ELSE v
          BY <4>3 DEF Shown
        <5>2. Shown(g, v) # Field(g).maxValue
          BY <2>1, <4>3, <5>1
        <5> QED
          BY <2>1, <4>1, <5>2 DEF ValueAfter
      <4> QED
        BY <4>2, <4>3, MemoryMapAssumption
    <3> QED
      BY <3>1, <3>2
  <2> HIDE DEF new
  <2>3. /\ IsField(g)'
        /\ Field(g)'.value = ValueAfter(g, new)
        /\ Field(g)'.maxValue = Field(g).maxValue
    BY <1>1, <2>1, SetFieldsSets
  <2> QED
    BY <1>2, <2>1, <2>2, <2>3 DEF ShowsPublished
<1> QED
  BY <1>1, <1>3 DEF SkiplastOK

LEMMA SetStringKeepsSkiplast ==
    ASSUME IInv, SkiplastOK, NEW s \in Range(strings), NEW text, SetString(s, text)
    PROVE  SkiplastOK'
<1> DEFINE new == [f \in Range(s) |->
                    LET c == CHOOSE c \in DOMAIN s : s[c] = f
                    IN  IF c <= Len(text) THEN text[c] ELSE Space]
<1>1. SetFields(new) /\ UNCHANGED <<skiplast, strings>> /\ EntriesOK
  BY DEF SetString, IInv
<1>2. Characters' = Characters
  BY <1>1 DEF Characters
<1>3. DOMAIN new \subseteq Characters
  BY DEF Characters
<1> HIDE DEF new
<1>4. ASSUME NEW g \in skiplast PROVE ShowsPublished(g)'
  <2>1. ShowsPublished(g) /\ IsField(g) /\ g \notin Characters
    BY DEF SkiplastOK, ShowsPublished
  <2>2. ValueAfter(g, new) = Field(g).value
    BY <1>3, <2>1 DEF ValueAfter
  <2>3. /\ IsField(g)'
        /\ Field(g)'.value = ValueAfter(g, new)
        /\ Field(g)'.maxValue = Field(g).maxValue
    BY <1>1, <2>1, SetFieldsSets
  <2> QED
    BY <1>2, <2>1, <2>2, <2>3 DEF ShowsPublished
<1> QED
  BY <1>1, <1>4 DEF SkiplastOK

LEMMA ClearValuesKeepsSkiplast ==
    ASSUME IInv, SkiplastOK, ClearValues
    PROVE  SkiplastOK'
<1>1. UNCHANGED <<skiplast, strings>> /\ EntriesOK
  BY DEF ClearValues, IInv
<1>2. Characters' = Characters
  BY <1>1 DEF Characters
<1>3. ASSUME NEW g \in skiplast PROVE ShowsPublished(g)'
  <2> DEFINE values == [k \in DOMAIN entries[g[1]].allocations |-> NoValue]
  <2>1. ShowsPublished(g) /\ IsField(g) /\ Field(g).maxValue \in Nat
    BY DEF SkiplastOK, ShowsPublished
  <2>2. g[1] \in DOMAIN entries /\ g[2] \in DOMAIN entries[g[1]].allocations
    <3>1. g[1] \in 1..Len(entries) /\ g[2] \in 1..Len(entries[g[1]].allocations)
      BY <2>1 DEF IsField
    <3> QED
      BY <1>1, <3>1, EntryFacts DEF EntriesOK
  <2>3. entries'[g[1]] = Revalued(entries[g[1]], values, entries[g[1]].dirty)
    BY <2>2 DEF ClearValues
  <2>4. values[g[2]] = NoValue
    BY <2>2
  <2> HIDE DEF values
  <2>5. Field(g)'.value = values[g[2]] /\ Field(g)'.maxValue = Field(g).maxValue
    BY <1>1, <2>1, <2>3, RevaluedField
  <2>6. IsField(g)'
    BY <1>1, <2>1, ClearValuesKeepsLayout, LayoutKeptFields DEF FieldKept
  <2>7. NoValue # Field(g).maxValue
    BY <2>1, MemoryMapAssumption
  <2> QED
    BY <1>2, <2>1, <2>4, <2>5, <2>6, <2>7 DEF ShowsPublished
<1> QED
  BY <1>1, <1>3 DEF SkiplastOK

LEMMA FlushKeepsSkiplast ==
    ASSUME IInv, SkiplastOK, Flush
    PROVE  SkiplastOK'
<1>1. UNCHANGED <<skiplast, strings>> /\ EntriesOK
  BY DEF Flush, IInv
<1>2. Characters' = Characters
  BY <1>1 DEF Characters
<1>3. ASSUME NEW g \in skiplast PROVE ShowsPublished(g)'
  <2>1. ShowsPublished(g) /\ IsField(g)
    BY DEF SkiplastOK, ShowsPublished
  <2>2. g[1] \in 1..Len(entries) /\ g[1] \in DOMAIN entries
    BY <1>1, <2>1 DEF IsField, EntriesOK
  <2>3. entries'[g[1]] = [entries[g[1]] EXCEPT !.dirty = FALSE] /\ entries[g[1]] \in Entry
    BY <1>1, <2>2 DEF Flush, EntriesOK
  <2>4. entries'[g[1]].allocations = entries[g[1]].allocations
    BY <2>3 DEF Entry
  <2>5. Field(g)' = Field(g)
    BY <2>4 DEF Field
  <2>6. IsField(g)'
    BY <1>1, <2>1, FlushKeepsLayout, LayoutKeptFields DEF FieldKept
  <2> QED
    BY <1>2, <2>1, <2>5, <2>6 DEF ShowsPublished
<1> QED
  BY <1>1, <1>3 DEF SkiplastOK

LEMMA NextKeepsSkiplast ==
    ASSUME IInv, SkiplastOK, [Next]_vars
    PROVE  SkiplastOK'
<1>1. ASSUME NEW max \in MaxValues, NEW skips, DefineInt(max, skips) PROVE SkiplastOK'
  BY <1>1, DefineIntKeepsSkiplast
<1>2. ASSUME NEW length, DefineString(length) PROVE SkiplastOK'
  BY <1>2, DefineStringKeepsSkiplast
<1>3. CASE DefineCharacter
  BY <1>3, DefineCharacterKeepsSkiplast
<1>4. ASSUME NEW f \in Fields, NEW v \in Hooked \cup {NoValue}, SetInt(f, v) PROVE SkiplastOK'
  BY <1>4, SetIntKeepsSkiplast
<1>5. ASSUME NEW s \in Range(strings), NEW text, SetString(s, text) PROVE SkiplastOK'
  BY <1>5, SetStringKeepsSkiplast
<1>6. CASE ClearValues
  BY <1>6, ClearValuesKeepsSkiplast
<1>7. CASE Flush
  BY <1>7, FlushKeepsSkiplast
<1>8. CASE UNCHANGED <<entries, strings, skiplast>>
  BY <1>8 DEF SkiplastOK, ShowsPublished, IsField, Field, Characters
<1>9. StartExport \/ UNCHANGED vars => UNCHANGED <<entries, strings, skiplast>>
  BY DEF StartExport, vars
<1> QED
  BY <1>1, <1>2, <1>3, <1>4, <1>5, <1>6, <1>7, <1>8, <1>9 DEF Next

(***************************************************************************)
(* SetIntegerValue of the hub, which knows the shift and the published     *)
(* maximum of a field only, gives a field of any word of the map any value *)
(* up to that maximum, and leaves the other fields of the word what they   *)
(* are, also where the mask it makes of the maximum is shorter than the    *)
(* field; a field for the value 0 alone, which has no bits, is excepted.   *)
(***************************************************************************)
THEOREM HubSetsOneFieldAlways == Spec => []HubSetsOneField
<1>1. Init => KInv /\ SkiplastOK
  BY InitIsKInv DEF Init, SkiplastOK
<1>2. KInv /\ SkiplastOK /\ [Next]_vars => KInv' /\ SkiplastOK'
  BY NextKeepsKInv, NextKeepsSkiplast DEF KInv
<1>3. KInv /\ SkiplastOK => HubSetsOneField
  <2> SUFFICES ASSUME KInv, SkiplastOK, NEW f \in Fields, NEW v \in 0..MaxPublished(f),
                      Field(f).bits > 0, NEW new, new = HubSets(f, v)
               PROVE  /\ InWord(new, Field(f)) = v
                      /\ \A g \in Fields \ {f} :
                            g[1] = f[1] => InWord(new, Field(g)) = InWord(WordOf(entries[f[1]]), Field(g))
    BY DEF HubSetsOneField
  <2> DEFINE e == entries[f[1]]
             j == f[2]
             max == MaxPublished(f)
  <2>1. IsField(f) /\ EntriesOK
    BY FieldsAre DEF KInv, IInv
  <2>2. EntryOK(e) /\ ValuesOK(e)
    BY <2>1 DEF IsField, KInv, EntriesHold, EntriesOK
  <2>3. j \in 1..Len(e.allocations) /\ Field(f) = e.allocations[j] /\ f \in Nat \X Nat
    BY <2>1 DEF IsField, Field
  <2>4. AllocationOK(Field(f)) /\ Field(f).maxValue \in Nat
    BY <2>2, <2>3, EntryFacts DEF ValuesOK, Allocation
  <2>5. max \in Nat /\ max <= Field(f).maxValue /\ ValueOf(Field(f)) \in 0..max
    <3>1. CASE f \in skiplast
      <4>1. Field(f).maxValue > 0 /\ Field(f).value # Field(f).maxValue
        BY <3>1 DEF SkiplastOK, ShowsPublished
      <4>2. max = Field(f).maxValue - 1
        BY <3>1 DEF MaxPublished
      <4> HIDE DEF max
      <4> QED
        BY <2>4, <4>1, <4>2 DEF AllocationOK, ValueOf
    <3>2. CASE f \notin skiplast
      <4>1. max = Field(f).maxValue
        BY <3>2 DEF MaxPublished
      <4> HIDE DEF max
      <4> QED
        BY <2>4, <4>1 DEF AllocationOK, ValueOf
    <3> QED
      BY <3>1, <3>2
  <2>6. /\ InWord(new, e.allocations[j]) = v
        /\ \A k \in 1..Len(e.allocations) \ {j} :
              InWord(new, e.allocations[k]) = InWord(WordOf(e), e.allocations[k])
    <3>1. new = Hub!WithField(WordOf(e), [ShiftBy  |-> e.allocations[j].shiftBy, MaxValue |-> max], v)
      BY <2>3 DEF HubSets
    <3>2. /\ e.allocations[j].bits > 0 /\ max <= e.allocations[j].maxValue
          /\ ValueOf(e.allocations[j]) \in 0..max /\ v \in 0..max /\ max \in Nat
      BY <2>3, <2>5
    <3> HIDE DEF e, j, max
    <3> QED
      BY <2>2, <2>3, <3>1, <3>2, HubSetsOneOf
  <2>7. ASSUME NEW g \in Fields \ {f}, g[1] = f[1]
        PROVE  InWord(new, Field(g)) = InWord(WordOf(e), Field(g))
    <3>1. IsField(g)
      BY <2>1, FieldsAre
    <3>2. g[2] \in 1..Len(e.allocations) /\ Field(g) = e.allocations[g[2]] /\ g \in Nat \X Nat
      BY <3>1, <2>7 DEF IsField, Field
    <3>3. g[2] # j
      BY <2>3, <2>7, <3>2
    <3> QED
      BY <2>6, <3>2, <3>3
  <2> QED
    BY <2>3, <2>6, <2>7
<1> QED
  BY <1>1, <1>2, <1>3, PTL DEF Spec
=============================================================================
