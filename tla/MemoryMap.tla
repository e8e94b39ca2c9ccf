------------------------------ MODULE MemoryMap ------------------------------
(***************************************************************************)
(* BIOS.util.MemoryMap of dcs-lua/lib/Util.lua: how the values of a module *)
(* share the words of its memory map.  While the module is being defined,  *)
(* allocateInt and allocateString give each value a field of bits; from    *)
(* then on its export hook sets the value, flushData sends the words that  *)
(* have changed, and a client takes the value out of the word with the     *)
(* mask and shift that the definition has put into the control reference.  *)
(*                                                                         *)
(* A map is a sequence of entries: entries[i] is that of the i-th word.    *)
(***************************************************************************)
EXTENDS Integers, Sequences, FiniteSets, FiniteSetsExt, Functions

CONSTANTS
    WordBits,   \* bits of a word: 16 in the code, and no more than that
    CharMax,    \* maxValue of a character: 255 in the code, which needs 8 bits
    MaxValues,  \* maxValue of the integers that are defined
    MaxLength,  \* bound: of a string
    MaxFields,  \* bound: integers and characters in the map
    Hooked,     \* what hooks pass to setValue; not all of it is in range
    Texts,      \* what they pass to setValue of a string, as bytes
    Space,      \* 32 in the code
    NoValue     \* nil

CharBits == WordBits \div 2

\* A value up to max has room in so many bits.
FitsIn(max, bits) == max < 2^bits

\* A value that needs more than a word would keep allocateInt looking for ever.
ASSUME MemoryMapAssumption ==
    /\ WordBits \in 2..16 /\ WordBits = 2 * CharBits
    /\ CharMax \in Nat /\ FitsIn(CharMax, CharBits)
    /\ \A max \in MaxValues : max \in Nat /\ FitsIn(max, WordBits)
    /\ MaxLength \in Nat /\ MaxFields \in Nat
    /\ Hooked \subseteq Int /\ Space \in 0..CharMax
    /\ \A text \in Texts : text \in Seq(0..CharMax)
    /\ NoValue \notin Int

VARIABLES
    entries,         \* <<[allocatedBitCounter, allocations, dirty]>>
    strings,         \* the characters of each string: <<<<entry, allocation>>>>
    charactersLeft,  \* that the string being allocated still needs
    skiplast,        \* the integers defined with cycle = "skiplast"
    defining,        \* the module is being defined
    client           \* [words sent -> Nat], what a client knows of the map

vars == <<entries, strings, charactersLeft, skiplast, defining, client>>

NewEntry == [allocatedBitCounter |-> 0, allocations |-> <<>>, dirty |-> FALSE]

Init ==
    /\ entries = <<NewEntry>>
    /\ strings = <<>>
    /\ charactersLeft = 0
    /\ skiplast = {}
    /\ defining = TRUE
    /\ client = <<>>

-----------------------------------------------------------------------------
(***************************************************************************)
(* Definition of the module.  allocateInt takes the first entry, from the  *)
(* base address or for characters from the last entry on, that has room;   *)
(* past the last entry getEntry makes a new one.                           *)
(***************************************************************************)
BitsRequired(max) == Min({n \in 0..WordBits : FitsIn(max, n)})

EntryAt(i) == IF i <= Len(entries) THEN entries[i] ELSE NewEntry

HasRoom(i, bits) == WordBits - EntryAt(i).allocatedBitCounter >= bits

EntryForInt(bits) == Min({i \in 1..Len(entries) + 1 : HasRoom(i, bits)})

\* Faulty variant: the first character takes any byte that is free.
EntryForFirstCharacterAny == EntryForInt(CharBits)

EntryForFirstCharacter ==
    Min({i \in Len(entries)..Len(entries) + 1 : EntryAt(i).allocatedBitCounter = 0})

EntryForCharacter ==
    Min({i \in Len(entries)..Len(entries) + 1 :
            HasRoom(i, CharBits) /\ EntryAt(i).allocatedBitCounter \in {0, CharBits}})

\* Faulty variant: the counter of an entry is that of its last value only.
BitsTakenLast(e, bits) == bits

BitsTaken(e, bits) == e.allocatedBitCounter + bits

\* MemoryMapEntry:allocate.
Allocated(e, max, bits) ==
    [allocatedBitCounter |-> BitsTaken(e, bits),
     allocations |-> Append(e.allocations, [shiftBy |-> e.allocatedBitCounter, bits |-> bits,
                                            maxValue |-> max, value |-> NoValue]),
     dirty |-> e.dirty]

AllocateIn(i, max, bits) ==
    entries' = [j \in 1..(IF i > Len(entries) THEN i ELSE Len(entries)) |->
                   IF j = i THEN Allocated(EntryAt(i), max, bits) ELSE entries[j]]

NewAllocation(i) == <<i, Len(EntryAt(i).allocations) + 1>>

Fields == UNION {{i} \X DOMAIN entries[i].allocations : i \in DOMAIN entries}
Field(f) == entries[f[1]].allocations[f[2]]

\* defineTumb and defineSetCommandTumb with cycle = "skiplast" allocate for the last
\* position, which is one that they never show: the others are the published ones.
\* With a single position there would be none (and -1 is published, which the hub
\* cannot decode).
DefineInt(max, skips) ==
    /\ defining /\ charactersLeft = 0
    /\ Cardinality(Fields) < MaxFields
    /\ skips => max > 0
    /\ AllocateIn(EntryForInt(BitsRequired(max)), max, BitsRequired(max))
    /\ skiplast' = IF skips THEN skiplast \cup {NewAllocation(EntryForInt(BitsRequired(max)))}
                  ELSE skiplast
    /\ UNCHANGED <<strings, charactersLeft, defining, client>>

\* allocateString: the first character ...
DefineString(length) ==
    /\ defining /\ charactersLeft = 0
    /\ Cardinality(Fields) + length <= MaxFields
    /\ AllocateIn(EntryForFirstCharacter, CharMax, CharBits)
    /\ strings' = Append(strings, <<NewAllocation(EntryForFirstCharacter)>>)
    /\ charactersLeft' = length - 1
    /\ UNCHANGED <<skiplast, defining, client>>

\* ... and each further one.
DefineCharacter ==
    /\ charactersLeft > 0
    /\ AllocateIn(EntryForCharacter, CharMax, CharBits)
    /\ strings' = [strings EXCEPT ![Len(strings)] = Append(@, NewAllocation(EntryForCharacter))]
    /\ charactersLeft' = charactersLeft - 1
    /\ UNCHANGED <<skiplast, defining, client>>

StartExport ==
    /\ defining /\ charactersLeft = 0
    /\ defining' = FALSE
    /\ UNCHANGED <<entries, strings, charactersLeft, skiplast, client>>

-----------------------------------------------------------------------------
(***************************************************************************)
(* Export.  MemoryAllocation:setValue, for the fields new has values for:  *)
(* nil and what is out of range is ignored, a change makes the entry dirty.*)
(***************************************************************************)
\* Faulty variant: the first value an allocation gets is no change.
ChangesKnown(old, v) == old # NoValue /\ old # v

Changes(old, v) == old # v

Revalued(e, values, dirty) ==
    [allocatedBitCounter |-> e.allocatedBitCounter,
     allocations |-> [k \in DOMAIN e.allocations |-> [e.allocations[k] EXCEPT !.value = values[k]]],
     dirty |-> dirty]

ValueAfter(f, new) ==
    IF f \in DOMAIN new /\ new[f] \in 0..Field(f).maxValue THEN new[f] ELSE Field(f).value

SetFields(new) ==
    entries' = [i \in DOMAIN entries |->
        Revalued(entries[i],
                 [k \in DOMAIN entries[i].allocations |-> ValueAfter(<<i, k>>, new)],
                 entries[i].dirty \/ \E k \in DOMAIN entries[i].allocations :
                    Changes(Field(<<i, k>>).value, ValueAfter(<<i, k>>, new)))]

Characters == UNION {Range(s) : s \in Range(strings)}

\* Faulty variant: the last position itself is shown.
ShownPastLast(f, v) ==
    IF f \in skiplast /\ v # NoValue /\ v > Field(f).maxValue THEN 0 ELSE v

\* The hook of a "skiplast" switch shows the last position, and any past it, as 0.
Shown(f, v) ==
    IF f \in skiplast /\ v # NoValue /\ v >= Field(f).maxValue THEN 0 ELSE v

SetInt(f, v) ==
    /\ ~defining /\ f \notin Characters
    /\ SetFields([g \in {f} |-> Shown(g, v)])
    /\ UNCHANGED <<strings, charactersLeft, skiplast, defining, client>>

\* StringAllocation:setValue: a text that is too short is filled up with spaces, one
\* that is too long is cut.
SetString(s, text) ==
    /\ ~defining
    /\ SetFields([f \in Range(s) |->
                    LET c == CHOOSE c \in DOMAIN s : s[c] = f
                    IN  IF c <= Len(text) THEN text[c] ELSE Space])
    /\ UNCHANGED <<strings, charactersLeft, skiplast, defining, client>>

\* clearValues, when the aircraft changes: the entries stay clean or dirty.
ClearValues ==
    /\ ~defining
    /\ entries' = [i \in DOMAIN entries |->
            Revalued(entries[i], [k \in DOMAIN entries[i].allocations |-> NoValue], entries[i].dirty)]
    /\ UNCHANGED <<strings, charactersLeft, skiplast, defining, client>>

\* getValue: the sum of what its allocations add to the word.
Share(a) == IF a.value = NoValue THEN 0 ELSE a.value * 2^a.shiftBy

WordUpTo(allocations) ==
    LET sum[k \in 0..Len(allocations)] == IF k = 0 THEN 0 ELSE sum[k - 1] + Share(allocations[k])
    IN  sum

WordOf(e) == WordUpTo(e.allocations)[Len(e.allocations)]

\* flushData sends the dirty words and clean ones between them (see LuaExporter for
\* which), here any of them.
Flush ==
    /\ ~defining
    /\ LET dirty == {i \in DOMAIN entries : entries[i].dirty}
       IN  /\ dirty # {}
           /\ \E gaps \in SUBSET {i \in DOMAIN entries : \E a, b \in dirty : a < i /\ i < b} :
                client' = [i \in DOMAIN client \cup dirty \cup gaps |->
                              IF i \in dirty \cup gaps THEN WordOf(entries[i]) ELSE client[i]]
    /\ entries' = [i \in DOMAIN entries |-> [entries[i] EXCEPT !.dirty = FALSE]]
    /\ UNCHANGED <<strings, charactersLeft, skiplast, defining>>

Next ==
    \/ \E max \in MaxValues, skips \in BOOLEAN : DefineInt(max, skips)
    \/ \E length \in 1..MaxLength : DefineString(length)
    \/ DefineCharacter
    \/ StartExport
    \/ \E f \in Fields : \E v \in Hooked \cup {NoValue} : SetInt(f, v)
    \/ \E s \in Range(strings) : \E text \in Texts : SetString(s, text)
    \/ ClearValues
    \/ Flush

Spec == Init /\ [][Next]_vars

-----------------------------------------------------------------------------
(***************************************************************************)
(* No two fields of a word share a bit, each lies within the word, and     *)
(* each is wide enough for its values.                                     *)
(***************************************************************************)
FieldsApart ==
    \A f \in Fields :
        /\ Field(f).shiftBy + Field(f).bits <= WordBits
        /\ FitsIn(Field(f).maxValue, Field(f).bits)
        /\ \A g \in Fields :
            f[1] = g[1] /\ f[2] < g[2] => Field(f).shiftBy + Field(f).bits <= Field(g).shiftBy

(***************************************************************************)
(* The characters of a string are consecutive bytes from the start of a    *)
(* word on, whatever has been allocated before: a client needs no more     *)
(* than the address of the first (Util.lua:235-236).                       *)
(***************************************************************************)
ByteOf(f) == 2 * f[1] + (IF Field(f).shiftBy = 0 THEN 0 ELSE 1)

CharactersConsecutive ==
    \A s \in Range(strings) :
        /\ Field(s[1]).shiftBy = 0
        /\ \A c \in DOMAIN s : /\ Field(s[c]).shiftBy \in {0, CharBits}
                               /\ Field(s[c]).bits = CharBits
                               /\ ByteOf(s[c]) = ByteOf(s[1]) + c - 1

(***************************************************************************)
(* A field that has a value in a clean word is known to the client: mask   *)
(* and shift give exactly that value, though neighbours in the word may    *)
(* have been cleared, set or sent at other times.                          *)
(***************************************************************************)
InWord(word, a) == (word \div 2^a.shiftBy) % 2^a.bits

CleanFieldsKnown ==
    \A f \in Fields :
        ~entries[f[1]].dirty /\ Field(f).value # NoValue =>
            f[1] \in DOMAIN client /\ InWord(client[f[1]], Field(f)) = Field(f).value

(***************************************************************************)
(* A script of the hub that sets the field of a word in the panel data,    *)
(* with the mask the hub derives from the maximal value that the control   *)
(* reference publishes, changes this field and no other.  That mask may be *)
(* shorter than the field (a "skiplast" switch whose last position is a    *)
(* power of two): the bit above it is never set.  A field for the one      *)
(* value 0 has no bits, but a mask of one bit, and the hub clears with it  *)
(* a bit of the next field (kvstore.go:138).                               *)
(***************************************************************************)
Hub == INSTANCE DataBuffer

MaxPublished(f) == IF f \in skiplast THEN Field(f).maxValue - 1 ELSE Field(f).maxValue

HubSets(f, v) ==
    Hub!WithField(WordOf(entries[f[1]]),
                  [ShiftBy |-> Field(f).shiftBy, MaxValue |-> MaxPublished(f)], v)

HubSetsOneField ==
    \A f \in Fields : \A v \in 0..MaxPublished(f) :
        Field(f).bits > 0 =>
            /\ InWord(HubSets(f, v), Field(f)) = v
            /\ \A g \in Fields \ {f} :
                g[1] = f[1] =>
                    InWord(HubSets(f, v), Field(g)) = InWord(WordOf(entries[f[1]]), Field(g))
=============================================================================
