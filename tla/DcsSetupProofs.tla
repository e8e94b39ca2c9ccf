--------------------------- MODULE DcsSetupProofs ---------------------------
(***************************************************************************)
(* Proofs about DcsSetup, for any number of requests, and files of the     *)
(* user of any length: what is asked for last is what is in the files, and *)
(* the user's lines stay.                                                  *)
(***************************************************************************)
EXTENDS DcsSetup, FiniteSetTheorems, WellFoundedInduction, TLAPS

-----------------------------------------------------------------------------
(***************************************************************************)
(* What the loop over the lines keeps.                                     *)
(***************************************************************************)
\* A set of natural numbers that is not empty has a least element.
LEMMA LeastElement ==
    ASSUME NEW T \in SUBSET Nat, T # {}
    PROVE  \E i \in T : \A j \in T : i <= j
<1>1. PICK i \in T : \A j \in T : ~(<<j, i>> \in OpToRel(<, Nat))
  BY NatLessThanWellFounded, WFMin
<1>2. \A j \in T : ~(j < i)
  BY <1>1 DEF OpToRel
<1>3. ASSUME NEW j \in T PROVE i <= j
  <2>1. i \in Nat /\ j \in Nat
    OBVIOUS
  <2> QED
    BY <1>2, <2>1
<1> QED
  BY <1>3

\* Induction over the first n numbers, with a set for what holds of them.
LEMMA UpTo ==
    ASSUME NEW n \in Nat, NEW T, 0 \in T, \A i \in 0..n - 1 : i \in T => i + 1 \in T
    PROVE  \A i \in 0..n : i \in T
<1> DEFINE Rest == {i \in 0..n : i \notin T}
<1> SUFFICES ASSUME Rest # {} PROVE FALSE
  OBVIOUS
<1>1. Rest \in SUBSET Nat
  OBVIOUS
<1>2. PICK i \in Rest : \A j \in Rest : i <= j
  <2> HIDE DEF Rest
  <2> QED
    BY <1>1, LeastElement
<1>3. i \in 1..n /\ i \notin T
  BY <1>2
<1>4. i - 1 \in 0..n - 1 /\ i - 1 \notin Rest
  BY <1>2, <1>3
<1>5. i - 1 \in T
  BY <1>4
<1>6. (i - 1) + 1 \in T
  BY <1>4, <1>5
<1> QED
  BY <1>3, <1>6

\* One step of the loop.
WithLine(kept, line, lines) == IF line \in lines THEN Append(kept, line) ELSE kept

\* The values of kept over the first n lines.
IsKept(kept, file, lines, S, n) ==
    /\ kept \in [0..n -> Seq(S)]
    /\ kept[0] = <<>>
    /\ \A i \in 1..n : kept[i] = WithLine(kept[i - 1], file[i], lines)

LEMMA KeptExists ==
    ASSUME NEW S, NEW file \in Seq(S), NEW lines
    PROVE  \E kept : IsKept(kept, file, lines, S, Len(file))
<1> DEFINE T == {n \in 0..Len(file) : \E kept : IsKept(kept, file, lines, S, n)}
<1>1. Len(file) \in Nat
  OBVIOUS
<1>2. 0 \in T
  <2> DEFINE none == [i \in 0..0 |-> <<>>]
  <2>1. IsKept(none, file, lines, S, 0)
    BY DEF IsKept
  <2> QED
    BY <2>1, <1>1
<1>3. ASSUME NEW n \in 0..Len(file) - 1, n \in T PROVE n + 1 \in T
  <2>1. PICK g : IsKept(g, file, lines, S, n)
    BY <1>3
  <2> DEFINE h == [i \in 0..n + 1 |-> IF i = n + 1 THEN WithLine(g[n], file[n + 1], lines) ELSE g[i]]
  <2>2. file[n + 1] \in S
    BY <1>1
  <2>3. g \in [0..n -> Seq(S)] /\ g[0] = <<>>
        /\ \A i \in 1..n : g[i] = WithLine(g[i - 1], file[i], lines)
    BY <2>1 DEF IsKept
  <2>4. g[n] \in Seq(S)
    BY <2>3
  <2>5. WithLine(g[n], file[n + 1], lines) \in Seq(S)
    BY <2>2, <2>4 DEF WithLine
  <2>6. h \in [0..n + 1 -> Seq(S)]
    BY <2>3, <2>5
  <2>7. h[0] = <<>>
    BY <2>3
  <2>8. ASSUME NEW i \in 1..n + 1 PROVE h[i] = WithLine(h[i - 1], file[i], lines)
    <3>1. CASE i = n + 1
      <4>1. h[i] = WithLine(g[n], file[n + 1], lines) /\ h[n] = g[n]
        BY <3>1
      <4> QED
        BY <3>1, <4>1
    <3>2. CASE i # n + 1
      <4>1. i \in 1..n /\ i - 1 \in 0..n
        BY <3>2
      <4>2. h[i] = g[i] /\ h[i - 1] = g[i - 1]
        BY <4>1
      <4> QED
        BY <4>1, <4>2, <2>3
    <3> QED
      BY <3>1, <3>2
  <2>9. IsKept(h, file, lines, S, n + 1)
    BY <2>6, <2>7, <2>8 DEF IsKept
  <2> QED
    BY <2>9, <1>1
<1>4. \A i \in 0..Len(file) : i \in T
  <2> HIDE DEF T
  <2> QED
    BY <1>1, <1>2, <1>3, UpTo
<1> QED
  BY <1>1, <1>4

LEMMA KeptSteps ==
    ASSUME NEW S, NEW file \in Seq(S), NEW lines
    PROVE  IsKept(KeptUpTo(file, lines), file, lines, S, Len(file))
<1> DEFINE Body(g) == [n \in 0..Len(file) |->
                          IF n = 0 THEN <<>>
                          ELSE IF file[n] \in lines THEN Append(g[n - 1], file[n])
                          ELSE g[n - 1]]
           K == KeptUpTo(file, lines)
<1>1. PICK g : IsKept(g, file, lines, S, Len(file))
  BY KeptExists
<1>2. g = Body(g)
  <2>1. g = [n \in 0..Len(file) |-> g[n]]
    BY <1>1 DEF IsKept
  <2>2. ASSUME NEW n \in 0..Len(file) PROVE g[n] = Body(g)[n]
    <3>1. n = 0 \/ n \in 1..Len(file)
      OBVIOUS
    <3> QED
      BY <3>1, <1>1 DEF IsKept, WithLine
  <2> QED
    BY <2>1, <2>2
<1>3. K = Body(K)
  BY <1>2 DEF KeptUpTo
<1> HIDE DEF K
<1>4. DOMAIN K = 0..Len(file) /\ \A n \in 0..Len(file) : K[n] = IF n = 0 THEN <<>> ELSE WithLine(K[n - 1], file[n], lines)
  BY <1>3 DEF WithLine
<1>5. K[0] = <<>>
  BY <1>4, 0 \in 0..Len(file)
<1>6. ASSUME NEW n \in 1..Len(file) PROVE K[n] = WithLine(K[n - 1], file[n], lines)
  BY <1>4, Len(file) \in Nat
<1> DEFINE T == {n \in 0..Len(file) : K[n] \in Seq(S)}
<1>7. 0 \in T
  <2>1. 0 \in 0..Len(file) /\ <<>> \in Seq(S)
    OBVIOUS
  <2> QED
    BY <1>5, <2>1
<1>8. ASSUME NEW n \in 0..Len(file) - 1, n \in T PROVE n + 1 \in T
  <2>1. n + 1 \in 1..Len(file) /\ (n + 1) - 1 = n
    OBVIOUS
  <2>2. K[n + 1] = WithLine(K[(n + 1) - 1], file[n + 1], lines)
    BY <1>6, <2>1
  <2>3. file[n + 1] \in S /\ K[n] \in Seq(S)
    BY <1>8, <2>1
  <2>4. K[n + 1] \in Seq(S)
    BY <2>1, <2>2, <2>3 DEF WithLine
  <2> QED
    BY <2>1, <2>4
<1>9. \A n \in 0..Len(file) : K[n] \in Seq(S)
  <2>1. \A n \in 0..Len(file) : n \in T
    <3> HIDE DEF T
    <3> QED
      BY <1>7, <1>8, UpTo, Len(file) \in Nat
  <2> QED
    BY <2>1
<1>10. K \in [0..Len(file) -> Seq(S)]
  <2>1. K = [n \in 0..Len(file) |-> K[n]]
    BY <1>3
  <2> QED
    BY <2>1, <1>9
<1> QED
  BY <1>5, <1>6, <1>10 DEF IsKept, K

-----------------------------------------------------------------------------
LEMMA KeepType ==
    ASSUME NEW S, NEW file \in Seq(S), NEW lines
    PROVE  Keep(file, lines) \in Seq(S \cap lines)
<1> DEFINE K == KeptUpTo(file, lines)
           T == {n \in 0..Len(file) : K[n] \in Seq(S \cap lines)}
<1>1. IsKept(K, file, lines, S, Len(file))
  BY KeptSteps
<1> HIDE DEF K
<1>2. 0 \in T
  BY <1>1, Len(file) \in Nat DEF IsKept
<1>3. ASSUME NEW n \in 0..Len(file) - 1, n \in T PROVE n + 1 \in T
  <2>1. n + 1 \in 1..Len(file) /\ (n + 1) - 1 = n
    OBVIOUS
  <2>2. K[n + 1] = WithLine(K[(n + 1) - 1], file[n + 1], lines)
    BY <1>1, <2>1 DEF IsKept
  <2>3. file[n + 1] \in S /\ K[n] \in Seq(S \cap lines)
    BY <1>3, <2>1
  <2>4. K[n + 1] \in Seq(S \cap lines)
    BY <2>1, <2>2, <2>3 DEF WithLine
  <2> QED
    BY <2>1, <2>4
<1>4. Len(file) \in T
  <2>1. Len(file) \in 0..Len(file)
    OBVIOUS
  <2> HIDE DEF T
  <2> QED
    BY <1>2, <1>3, <2>1, UpTo, Len(file) \in Nat
<1> QED
  BY <1>4 DEF Keep, K

LEMMA KeepEmpty ==
    ASSUME NEW lines
    PROVE  Keep(<<>>, lines) = <<>>
<1>1. <<>> \in Seq({})
  OBVIOUS
<1> QED
  BY <1>1, KeptSteps DEF IsKept, Keep

\* The first n lines of two files that agree on them.
LEMMA KeptPrefix ==
    ASSUME NEW S, NEW file \in Seq(S), NEW other \in Seq(S), NEW lines,
           NEW n \in 0..Len(file), n <= Len(other), \A i \in 1..n : file[i] = other[i]
    PROVE  KeptUpTo(file, lines)[n] = KeptUpTo(other, lines)[n]
<1> DEFINE K == KeptUpTo(file, lines)
           L == KeptUpTo(other, lines)
           T == {i \in 0..n : K[i] = L[i]}
<1>1. IsKept(K, file, lines, S, Len(file)) /\ IsKept(L, other, lines, S, Len(other))
  BY KeptSteps
<1> HIDE DEF K, L
<1>2. 0 \in T
  BY <1>1 DEF IsKept
<1>3. ASSUME NEW i \in 0..n - 1, i \in T PROVE i + 1 \in T
  <2>1. i + 1 \in 1..Len(file) /\ i + 1 \in 1..Len(other) /\ i + 1 \in 1..n /\ (i + 1) - 1 = i
    OBVIOUS
  <2>2. /\ K[i + 1] = WithLine(K[(i + 1) - 1], file[i + 1], lines)
        /\ L[i + 1] = WithLine(L[(i + 1) - 1], other[i + 1], lines)
    BY <1>1, <2>1 DEF IsKept
  <2>3. K[i] = L[i] /\ file[i + 1] = other[i + 1]
    BY <1>3, <2>1
  <2> QED
    BY <2>1, <2>2, <2>3
<1>4. n \in T
  <2>1. n \in 0..n /\ n \in Nat
    OBVIOUS
  <2> HIDE DEF T
  <2> QED
    BY <1>2, <1>3, <2>1, UpTo
<1> QED
  BY <1>4 DEF K, L

LEMMA KeepAppend ==
    ASSUME NEW S, NEW file \in Seq(S), NEW line \in S, NEW lines
    PROVE  Keep(Append(file, line), lines) = WithLine(Keep(file, lines), line, lines)
<1> DEFINE more == Append(file, line)
           n == Len(file)
<1>1. /\ more \in Seq(S) /\ Len(more) = n + 1 /\ n \in Nat
      /\ more[n + 1] = line /\ \A i \in 1..n : file[i] = more[i]
  OBVIOUS
<1> HIDE DEF more
<1>2. IsKept(KeptUpTo(more, lines), more, lines, S, n + 1)
  BY <1>1, KeptSteps
<1>3. KeptUpTo(more, lines)[n + 1] = WithLine(KeptUpTo(more, lines)[(n + 1) - 1], more[n + 1], lines)
  BY <1>1, <1>2 DEF IsKept
<1>4. KeptUpTo(file, lines)[n] = KeptUpTo(more, lines)[n]
  BY <1>1, KeptPrefix
<1>5. (n + 1) - 1 = n
  BY <1>1
<1>6. Keep(more, lines) = KeptUpTo(more, lines)[n + 1] /\ Keep(file, lines) = KeptUpTo(file, lines)[n]
  BY <1>1 DEF Keep
<1> QED
  BY <1>1, <1>3, <1>4, <1>5, <1>6 DEF more

\* Keeping more first makes no difference.
LEMMA KeepKeep ==
    ASSUME NEW S, NEW file \in Seq(S), NEW more, NEW lines, lines \subseteq more
    PROVE  Keep(Keep(file, more), lines) = Keep(file, lines)
<1> DEFINE K == KeptUpTo(file, more)
           L == KeptUpTo(file, lines)
           T == {n \in 0..Len(file) : Keep(K[n], lines) = L[n]}
<1>1. IsKept(K, file, more, S, Len(file)) /\ IsKept(L, file, lines, S, Len(file))
  BY KeptSteps
<1> HIDE DEF K, L
<1>2. 0 \in T
  BY <1>1, KeepEmpty, Len(file) \in Nat DEF IsKept
<1>3. ASSUME NEW n \in 0..Len(file) - 1, n \in T PROVE n + 1 \in T
  <2> DEFINE line == file[n + 1]
  <2>1. n + 1 \in 1..Len(file) /\ n \in 0..Len(file) /\ (n + 1) - 1 = n
    OBVIOUS
  <2>2. /\ K[n + 1] = WithLine(K[(n + 1) - 1], line, more)
        /\ L[n + 1] = WithLine(L[(n + 1) - 1], line, lines)
    BY <1>1, <2>1 DEF IsKept
  <2>3. line \in S /\ K[n] \in Seq(S) /\ Keep(K[n], lines) = L[n]
    BY <1>1, <1>3, <2>1 DEF IsKept
  <2> HIDE DEF line
  <2>4. K[n + 1] = WithLine(K[n], line, more) /\ L[n + 1] = WithLine(L[n], line, lines)
    BY <2>1, <2>2
  <2>5. Keep(Append(K[n], line), lines) = WithLine(Keep(K[n], lines), line, lines)
    BY <2>3, KeepAppend
  <2>6. CASE line \in more
    <3>1. K[n + 1] = Append(K[n], line)
      BY <2>4, <2>6 DEF WithLine
    <3>2. Keep(K[n + 1], lines) = L[n + 1]
      BY <2>3, <2>4, <2>5, <3>1
    <3> QED
      BY <2>1, <3>2
  <2>7. CASE line \notin more
    <3>1. K[n + 1] = K[n] /\ L[n + 1] = L[n]
      BY <2>4, <2>7 DEF WithLine
    <3> QED
      BY <2>1, <2>3, <3>1
  <2> QED
    BY <2>6, <2>7
<1>4. Len(file) \in T
  <2>1. Len(file) \in 0..Len(file)
    OBVIOUS
  <2> HIDE DEF T
  <2> QED
    BY <1>2, <1>3, <2>1, UpTo, Len(file) \in Nat
<1> QED
  BY <1>4 DEF Keep, K, L

-----------------------------------------------------------------------------
(***************************************************************************)
(* The contents a request writes.                                          *)
(***************************************************************************)
Ours == {"setup", "marked", "old"}

LEMMA LineSets ==
    /\ UserLine \cap {"setup", "marked", "old", "long"} = {}
    /\ Line \ {"setup", "marked", "old"} = UserLine \cup {"long"}
    /\ UserLine \cup {"long"} \subseteq Line
    /\ "setup" \in Line /\ "setup" \notin UserLine \cup {"long"}
BY DcsSetupAssumption DEF Line

LEMMA ScannedType ==
    ASSUME NEW file \in Seq(Line)
    PROVE  /\ Scanned(file) \in Seq(UserLine \cup Ours)
           /\ ~Contains(file, "long") => Scanned(file) = file
<1> DEFINE long == {i \in DOMAIN file : file[i] = "long"}
<1>1. DOMAIN file = 1..Len(file) /\ Len(file) \in Nat /\ long \in SUBSET Nat
  OBVIOUS
<1>2. CASE long = {}
  <2>1. Scanned(file) = file
    BY <1>2 DEF Scanned
  <2>2. \A i \in 1..Len(file) : file[i] \in UserLine \cup Ours
    BY <1>1, <1>2 DEF Line, Ours
  <2> QED
    BY <2>1, <2>2
<1>3. CASE long # {}
  <2>1. Scanned(file) = SubSeq(file, 1, Min(long) - 1)
    BY <1>3 DEF Scanned
  <2>2. Min(long) \in long /\ \A i \in long : Min(long) <= i
    <3> HIDE DEF long
    <3> QED
      BY <1>1, <1>3, LeastElement DEF Min
  <2> DEFINE m == Min(long)
  <2>3. m \in 1..Len(file) /\ file[m] = "long" /\ \A i \in 1..m - 1 : file[i] # "long"
    <3>1. m \in 1..Len(file) /\ file[m] = "long"
      BY <1>1, <2>2
    <3>2. ASSUME NEW i \in 1..m - 1, file[i] = "long" PROVE FALSE
      <4>1. i \in 1..Len(file) /\ ~(m <= i)
        <5> HIDE DEF m
        <5> QED
          BY <1>1, <3>1
      <4>2. i \in long
        BY <1>1, <4>1, <3>2
      <4> QED
        BY <4>1, <4>2, <2>2
    <3> QED
      BY <3>1, <3>2
  <2> HIDE DEF m
  <2>4. \A i \in 1..m - 1 : file[i] \in UserLine \cup Ours
    BY <1>1, <2>3 DEF Line, Ours
  <2>5. SubSeq(file, 1, m - 1) \in Seq(UserLine \cup Ours)
    BY <2>3, <2>4
  <2>6. Contains(file, "long")
    BY <2>3 DEF Contains
  <2> QED
    BY <2>1, <2>5, <2>6 DEF m
<1> QED
  BY <1>2, <1>3

\* What SetupExportLua writes, if it is to be installed or not.
LEMMA Modified ==
    ASSUME NEW file \in Seq(Line), NEW shouldBeInstalled \in BOOLEAN
    PROVE  /\ GetModifiedExportLua(file, shouldBeInstalled, TRUE) \in Seq(Line)
           /\ ~Contains(file, "long") =>
                OwnLines(GetModifiedExportLua(file, shouldBeInstalled, TRUE)) = OwnLines(file)
           /\ \E kept \in Seq(UserLine) :
                GetModifiedExportLua(file, shouldBeInstalled, TRUE) =
                    IF shouldBeInstalled THEN Append(kept, "setup") ELSE kept
<1> DEFINE own == UserLine \cup {"long"}
           kept == Keep(Scanned(file), own)
           changed == GetModifiedExportLua(file, shouldBeInstalled, TRUE)
<1>1. Scanned(file) \in Seq(UserLine \cup Ours)
  BY ScannedType
<1>2. kept \in Seq((UserLine \cup Ours) \cap own)
  BY <1>1, KeepType
<1>3. (UserLine \cup Ours) \cap own = UserLine
  BY LineSets DEF Ours
<1>4. kept \in Seq(UserLine)
  BY <1>2, <1>3
<1>5. changed = IF shouldBeInstalled THEN Append(kept, "setup") ELSE kept
  <2>1. changed = kept \o (IF shouldBeInstalled THEN <<"setup">> ELSE <<>>)
    BY LineSets DEF GetModifiedExportLua
  <2> HIDE DEF kept, changed
  <2> QED
    BY <1>4, <2>1
<1>6. kept \in Seq(Line)
  BY <1>4, LineSets
<1>7. changed \in Seq(Line)
  <2> HIDE DEF kept, changed
  <2> QED
    BY <1>5, <1>6, LineSets
<1>8. ASSUME ~Contains(file, "long") PROVE OwnLines(changed) = OwnLines(file)
  <2>1. kept = OwnLines(file)
    BY <1>8, ScannedType DEF OwnLines
  <2>2. Keep(kept, own) = kept
    <3>1. Keep(Keep(file, own), own) = Keep(file, own)
      BY KeepKeep
    <3> QED
      BY <2>1, <3>1 DEF OwnLines
  <2>3. CASE shouldBeInstalled
    <3>1. OwnLines(changed) = Keep(Append(kept, "setup"), own)
      BY <1>5, <2>3 DEF OwnLines
    <3>2. Keep(Append(kept, "setup"), own) = WithLine(Keep(kept, own), "setup", own)
      <4> HIDE DEF kept, own
      <4> QED
        BY <1>6, LineSets, KeepAppend
    <3>3. WithLine(Keep(kept, own), "setup", own) = Keep(kept, own)
      BY LineSets DEF WithLine
    <3> QED
      BY <2>1, <2>2, <3>1, <3>2, <3>3
  <2>4. CASE ~shouldBeInstalled
    <3>1. OwnLines(changed) = Keep(kept, own)
      BY <1>5, <2>4 DEF OwnLines
    <3> QED
      BY <2>1, <2>2, <3>1
  <2> QED
    BY <2>3, <2>4
<1> QED
  BY <1>4, <1>5, <1>7, <1>8

-----------------------------------------------------------------------------
(***************************************************************************)
(* The invariant.                                                          *)
(***************************************************************************)
Steps == {"idle", "read", "create", "write", "remove hook", "create hook", "write hook"}

IType ==
    /\ exportLua \in Seq(Line)
    /\ hook \in {"none", "installed", "other"}
    /\ step \in [Request -> Steps]
    /\ install \in [Request -> BOOLEAN]
    /\ new \in [Request -> Seq(Line)]
    /\ alone \in [Request -> BOOLEAN]
    /\ lost \in BOOLEAN

\* A request that has been at work alone still is.
IAlone == \A r, q \in Request :
            alone[r] /\ step[r] # "idle" /\ step[q] # "idle" => q = r

\* What GetModifiedExportLua returns: nil, or the user's lines with or without ours.
Modifies(text, shouldBeInstalled) ==
    \/ text = <<>>
    \/ \E kept \in Seq(UserLine) :
            text = IF shouldBeInstalled THEN Append(kept, "setup") ELSE kept

\* What a request has read and not yet written.
INew == \A r \in Request :
    /\ step[r] \in {"create", "write"} => Modifies(new[r], install[r])
    /\ step[r] \in {"create", "write"} /\ alone[r] /\ ~lost =>
            OwnLines(new[r]) = userLines
    /\ step[r] = "write" /\ alone[r] => exportLua = <<>>

\* What the file is when it is as asked.
IAsked ==
    /\ asked = "installed" => \E kept \in Seq(UserLine) : exportLua = Append(kept, "setup")
    /\ asked = "removed" => exportLua \in Seq(UserLine)

Inv == IType /\ IAlone /\ INew /\ IAsked /\ UserLinesKept

LEMMA FilesType ==
    ASSUME NEW file \in Files
    PROVE  file \in Seq(Line)
BY DEF Files

LEMMA InitInv == Init => Inv
<1> SUFFICES ASSUME Init PROVE Inv
  OBVIOUS
<1>1. IType
  <2>1. exportLua \in Seq(Line)
    BY FilesType DEF Init
  <2>2. <<>> \in Seq(Line)
    OBVIOUS
  <2>3. hook \in {"none", "installed", "other"} /\ lost \in BOOLEAN
    BY DEF Init
  <2>4. step \in [Request -> Steps] /\ install \in [Request -> BOOLEAN]
        /\ alone \in [Request -> BOOLEAN] /\ new \in [Request -> Seq(Line)]
    BY <2>2 DEF Init, Steps
  <2> QED
    BY <2>1, <2>3, <2>4 DEF IType
<1>2. IAlone /\ INew /\ IAsked /\ UserLinesKept
  BY DEF Init, IAlone, INew, IAsked, UserLinesKept
<1> QED
  BY <1>1, <1>2 DEF Inv

\* A request that goes on stays alone.
LEMMA AloneGoesOn ==
    ASSUME IType, IAlone, NEW r \in Request, step[r] # "idle", NEW next \in Steps,
           GoOn(r, next), alone' = alone
    PROVE  /\ step' \in [Request -> Steps] /\ step'[r] = next
           /\ \A q \in Request \ {r} : step'[q] = step[q]
           /\ IAlone'
<1>1. /\ step' \in [Request -> Steps] /\ step'[r] = next
      /\ \A q \in Request \ {r} : step'[q] = step[q]
  BY DEF IType, GoOn
<1>2. \A q \in Request : step'[q] # "idle" => step[q] # "idle"
  BY <1>1
<1>3. IAlone'
  BY <1>2 DEF IAlone
<1> QED
  BY <1>1, <1>3

\* A step that leaves Export.lua, and what is said of it, alone.
LEMMA OtherStepKeeps ==
    ASSUME Inv, NEW r \in Request, step[r] \notin {"idle", "write"},
           NEW next \in Steps \ {"create", "write"}, GoOn(r, next),
           new' = new \/ new' = [new EXCEPT ![r] = <<>>],
           hook' \in {"none", "installed", "other"},
           UNCHANGED <<exportLua, install, alone, userLines, lost, asked>>
    PROVE  Inv'
<1>1. /\ step' \in [Request -> Steps] /\ step'[r] = next
      /\ \A q \in Request \ {r} : step'[q] = step[q]
      /\ IAlone'
  BY AloneGoesOn DEF Inv
<1>2. new' \in [Request -> Seq(Line)] /\ \A q \in Request \ {r} : new'[q] = new[q]
  <2>1. new \in [Request -> Seq(Line)] /\ <<>> \in Seq(Line)
    BY DEF Inv, IType
  <2>2. CASE new' = new
    BY <2>1, <2>2
  <2>3. CASE new' = [new EXCEPT ![r] = <<>>]
    BY <2>1, <2>3
  <2> QED
    BY <2>2, <2>3
<1>3. IType'
  BY <1>1, <1>2 DEF Inv, IType
<1>4. INew'
  BY <1>1, <1>2 DEF Inv, INew
<1>5. IAsked'
  BY DEF Inv, IAsked
<1>6. UserLinesKept'
  BY <1>1 DEF Inv, UserLinesKept, OwnLines
<1> QED
  BY <1>1, <1>3, <1>4, <1>5, <1>6 DEF Inv

LEMMA EditKeeps ==
    ASSUME Inv, NEW file \in Files, Edit(file)
    PROVE  Inv'
<1>1. /\ exportLua' = file /\ userLines' = OwnLines(file) /\ lost' = FALSE
      /\ asked' = "unknown" /\ UNCHANGED <<hook, step, install, new, alone>>
      /\ \A r \in Request : step[r] = "idle"
  BY DEF Edit, AtWork
<1>2. IType'
  BY <1>1, FilesType DEF Inv, IType
<1>3. IAlone' /\ INew' /\ IAsked'
  BY <1>1 DEF Inv, IAlone, INew, IAsked
<1>4. UserLinesKept'
  BY <1>1 DEF UserLinesKept, OwnLines
<1> QED
  BY <1>2, <1>3, <1>4 DEF Inv

LEMMA BeginKeeps ==
    ASSUME Inv, NEW r \in Request, NEW first \in {"read", "remove hook"},
           NEW shouldBeInstalled \in BOOLEAN, Begin(r, first, shouldBeInstalled)
    PROVE  Inv'
<1>1. /\ step[r] = "idle"
      /\ step' = [step EXCEPT ![r] = first]
      /\ install' = [install EXCEPT ![r] = shouldBeInstalled]
      /\ alone' = [q \in Request |-> IF q = r THEN AtWork = {} ELSE FALSE]
      /\ UNCHANGED <<exportLua, hook, new, userLines, lost, asked>>
  BY DEF Begin
<1>2. first \in Steps
  BY DEF Steps
<1>3. /\ step' \in [Request -> Steps] /\ step'[r] = first
      /\ \A q \in Request \ {r} : step'[q] = step[q]
  BY <1>1, <1>2 DEF Inv, IType
<1>4. /\ install' \in [Request -> BOOLEAN]
      /\ \A q \in Request \ {r} : install'[q] = install[q] /\ alone'[q] = FALSE
  BY <1>1 DEF Inv, IType
<1>5. alone' \in [Request -> BOOLEAN]
  <2>1. \A q \in Request : (IF q = r THEN AtWork = {} ELSE FALSE) \in BOOLEAN
    OBVIOUS
  <2> QED
    BY <1>1, <2>1
<1>6. IType'
  BY <1>1, <1>3, <1>4, <1>5 DEF Inv, IType
<1>7. IAlone'
  <2> SUFFICES ASSUME NEW p \in Request, NEW q \in Request,
                      alone'[p], step'[p] # "idle", step'[q] # "idle"
               PROVE  q = p
    BY DEF IAlone
  <2>1. p = r
    BY <1>4
  <2>2. AtWork = {}
    BY <1>1, <2>1
  <2>3. \A o \in Request : step[o] = "idle"
    BY <2>2 DEF AtWork
  <2> QED
    BY <1>3, <2>1, <2>3
<1>8. INew'
  <2> SUFFICES ASSUME NEW q \in Request, step'[q] \in {"create", "write"}
               PROVE  /\ ~alone'[q]
                      /\ Modifies(new'[q], install'[q])
    BY DEF INew
  <2>1. q # r
    BY <1>3
  <2>2. step[q] \in {"create", "write"} /\ install'[q] = install[q] /\ new'[q] = new[q] /\ ~alone'[q]
    BY <1>1, <1>3, <1>4, <2>1
  <2> QED
    BY <2>2 DEF Inv, INew
<1>9. IAsked' /\ UserLinesKept'
  BY <1>1, <1>3 DEF Inv, IAsked, UserLinesKept, OwnLines
<1> QED
  BY <1>6, <1>7, <1>8, <1>9 DEF Inv

LEMMA ReadKeeps ==
    ASSUME Inv, NEW r \in Request, Read(r)
    PROVE  Inv'
<1>1. PICK n \in 0..Len(exportLua), pathKnown \in BOOLEAN :
        /\ new' = [new EXCEPT ![r] =
                GetModifiedExportLua(SubSeq(exportLua, 1, n), install[r], pathKnown)]
        /\ lost' = (lost \/ n # Len(exportLua) \/ ~pathKnown \/ Contains(exportLua, "long"))
  BY DEF Read
<1>2. /\ step[r] = "read" /\ GoOn(r, "create")
      /\ UNCHANGED <<exportLua, hook, install, alone, userLines, asked>>
  BY DEF Read
<1> DEFINE text == SubSeq(exportLua, 1, n)
           content == GetModifiedExportLua(text, install[r], pathKnown)
           known == GetModifiedExportLua(text, install[r], TRUE)
<1>3. /\ content \in Seq(Line) /\ Modifies(content, install[r])
      /\ n = Len(exportLua) /\ pathKnown /\ ~Contains(exportLua, "long") =>
            OwnLines(content) = OwnLines(exportLua)
  <2>1. exportLua \in Seq(Line) /\ install[r] \in BOOLEAN
    BY DEF Inv, IType
  <2>2. text \in Seq(Line) /\ (n = Len(exportLua) => text = exportLua)
    BY <2>1
  <2> HIDE DEF text
  <2>3. CASE pathKnown
    <3>1. content = known
      BY <2>3
    <3>2. /\ known \in Seq(Line)
          /\ ~Contains(text, "long") => OwnLines(known) = OwnLines(text)
          /\ \E kept \in Seq(UserLine) :
                known = IF install[r] THEN Append(kept, "setup") ELSE kept
      BY <2>1, <2>2, Modified
    <3> HIDE DEF content, known
    <3>3. Modifies(content, install[r])
      BY <3>1, <3>2 DEF Modifies
    <3> QED
      BY <2>2, <3>1, <3>2, <3>3
  <2>4. CASE ~pathKnown
    <3>1. content = <<>>
      BY <2>4 DEF GetModifiedExportLua
    <3> HIDE DEF content
    <3> QED
      BY <2>4, <3>1 DEF Modifies
  <2> QED
    BY <2>3, <2>4
<1> HIDE DEF content
<1>4. /\ step' \in [Request -> Steps] /\ step'[r] = "create"
      /\ \A q \in Request \ {r} : step'[q] = step[q]
      /\ IAlone'
  <2>1. "create" \in Steps
    BY DEF Steps
  <2> QED
    BY <1>2, <2>1, AloneGoesOn DEF Inv
<1>5. /\ new' \in [Request -> Seq(Line)] /\ new'[r] = content
      /\ \A q \in Request \ {r} : new'[q] = new[q]
  BY <1>1, <1>3 DEF Inv, IType, content
<1>6. /\ lost' \in BOOLEAN
      /\ ~lost' => ~lost /\ n = Len(exportLua) /\ pathKnown /\ ~Contains(exportLua, "long")
  BY <1>1 DEF Inv, IType
<1>7. IType'
  BY <1>2, <1>4, <1>5, <1>6 DEF Inv, IType
<1>8. ASSUME alone[r], ~lost' PROVE OwnLines(content) = userLines
  <2>1. \A q \in Request : step[q] # "write"
    BY <1>2, <1>8 DEF Inv, IAlone
  <2>2. OwnLines(exportLua) = userLines
    BY <1>6, <1>8, <2>1 DEF Inv, UserLinesKept
  <2> QED
    BY <1>3, <1>6, <1>8, <2>2
<1>9. INew'
  <2> SUFFICES ASSUME NEW q \in Request
               PROVE  /\ step'[q] \in {"create", "write"} => Modifies(new'[q], install[q])
                      /\ step'[q] \in {"create", "write"} /\ alone[q] /\ ~lost' =>
                            OwnLines(new'[q]) = userLines
                      /\ step'[q] = "write" /\ alone[q] => exportLua = <<>>
    BY <1>2 DEF INew, OwnLines, Modifies
  <2>1. CASE q = r
    BY <1>3, <1>4, <1>5, <1>8, <2>1
  <2>2. CASE q # r
    BY <1>4, <1>5, <1>6, <2>2 DEF Inv, INew
  <2> QED
    BY <2>1, <2>2
<1>10. IAsked'
  BY <1>2 DEF Inv, IAsked
<1>11. UserLinesKept'
  <2> SUFFICES ASSUME ~lost', \A q \in Request : step'[q] # "write"
               PROVE  OwnLines(exportLua) = userLines
    BY <1>2 DEF UserLinesKept, OwnLines
  <2>1. \A q \in Request : step[q] # "write"
    BY <1>2, <1>4
  <2> QED
    BY <1>6, <2>1 DEF Inv, UserLinesKept
<1> QED
  BY <1>4, <1>7, <1>9, <1>10, <1>11 DEF Inv

LEMMA CreateKeeps ==
    ASSUME Inv, NEW r \in Request, Create(r)
    PROVE  Inv'
<1>1. /\ step[r] = "create" /\ exportLua' = <<>> /\ asked' = "unknown" /\ GoOn(r, "write")
      /\ UNCHANGED <<hook, install, new, alone, userLines, lost>>
  BY DEF Create
<1>2. /\ step' \in [Request -> Steps] /\ step'[r] = "write"
      /\ \A q \in Request \ {r} : step'[q] = step[q]
      /\ IAlone'
  <2>1. "write" \in Steps
    BY DEF Steps
  <2> QED
    BY <1>1, <2>1, AloneGoesOn DEF Inv
<1>3. IType'
  BY <1>1, <1>2 DEF Inv, IType
<1>4. INew'
  <2> SUFFICES ASSUME NEW q \in Request
               PROVE  /\ step'[q] \in {"create", "write"} => Modifies(new[q], install[q])
                      /\ step'[q] \in {"create", "write"} /\ alone[q] /\ ~lost =>
                            OwnLines(new[q]) = userLines
    BY <1>1 DEF INew, OwnLines, Modifies
  <2>1. step'[q] \in {"create", "write"} => step[q] \in {"create", "write"}
    BY <1>1, <1>2
  <2> QED
    BY <2>1 DEF Inv, INew
<1>5. IAsked' /\ UserLinesKept'
  BY <1>1, <1>2 DEF IAsked, UserLinesKept
<1> QED
  BY <1>2, <1>3, <1>4, <1>5 DEF Inv

LEMMA WrittenType ==
    ASSUME NEW text \in Seq(Line), NEW file \in Seq(Line), NEW n \in 0..Len(text)
    PROVE  /\ Written(SubSeq(text, 1, n), file) \in Seq(Line)
           /\ n = Len(text) /\ file = <<>> => Written(SubSeq(text, 1, n), file) = text
<1> DEFINE part == SubSeq(text, 1, n)
           rest == SubSeq(file, n + 1, Len(file))
<1>1. part \in Seq(Line) /\ Len(part) = n
  OBVIOUS
<1>2. rest \in Seq(Line)
  OBVIOUS
<1>3. Written(part, file) = part \o rest
  BY <1>1 DEF Written
<1>4. n = Len(text) => part = text
  OBVIOUS
<1>5. file = <<>> => rest = <<>>
  OBVIOUS
<1> HIDE DEF part, rest
<1>6. part \o rest \in Seq(Line) /\ (rest = <<>> => part \o rest = part)
  BY <1>1, <1>2
<1>7. /\ Written(part, file) \in Seq(Line)
      /\ n = Len(text) /\ file = <<>> => Written(part, file) = text
  BY <1>3, <1>4, <1>5, <1>6
<1> QED
  BY <1>7 DEF part

LEMMA WriteKeeps ==
    ASSUME Inv, NEW r \in Request, Write(r)
    PROVE  Inv'
<1>1. PICK n \in 0..Len(new[r]) :
            LET whole == n = Len(new[r]) /\ alone[r]
            IN  /\ exportLua' = Written(SubSeq(new[r], 1, n), exportLua)
                /\ lost' = (lost \/ ~whole)
                /\ asked' = IF ~whole \/ (install[r] /\ new[r] = <<>>) THEN "unknown"
                            ELSE IF install[r] THEN "installed" ELSE "removed"
  BY DEF Write
<1>2. /\ step[r] = "write" /\ GoOn(r, "idle") /\ new' = [new EXCEPT ![r] = <<>>]
      /\ UNCHANGED <<hook, install, alone, userLines>>
  BY DEF Write
<1> DEFINE whole == n = Len(new[r]) /\ alone[r]
<1>3. /\ exportLua' = Written(SubSeq(new[r], 1, n), exportLua)
      /\ (lost' = TRUE \/ (lost' = lost /\ whole))
      /\ (~whole \/ (install[r] /\ new[r] = <<>>) => asked' = "unknown")
      /\ (whole /\ ~(install[r] /\ new[r] = <<>>) =>
            asked' = IF install[r] THEN "installed" ELSE "removed")
  BY <1>1 DEF Inv, IType
<1>4. new[r] \in Seq(Line) /\ exportLua \in Seq(Line)
  BY DEF Inv, IType
<1>5. exportLua' \in Seq(Line) /\ (n = Len(new[r]) /\ exportLua = <<>> => exportLua' = new[r])
  BY <1>3, <1>4, WrittenType
<1>6. whole => exportLua' = new[r]
  BY <1>2, <1>5 DEF Inv, INew
<1>7. /\ step' \in [Request -> Steps] /\ step'[r] = "idle"
      /\ \A q \in Request \ {r} : step'[q] = step[q]
      /\ IAlone'
  <2>1. "idle" \in Steps
    BY DEF Steps
  <2> QED
    BY <1>2, <2>1, AloneGoesOn DEF Inv
<1>8. new' \in [Request -> Seq(Line)] /\ \A q \in Request \ {r} : new'[q] = new[q]
  <2>1. new \in [Request -> Seq(Line)] /\ <<>> \in Seq(Line)
    BY DEF Inv, IType
  <2> QED
    BY <1>2, <2>1
<1>9. lost' \in BOOLEAN
  BY <1>3 DEF Inv, IType
<1>10. IType'
  BY <1>2, <1>5, <1>7, <1>8, <1>9 DEF Inv, IType
<1>11. \A q \in Request : step'[q] # "idle" => q # r /\ ~alone[q]
  BY <1>2, <1>7 DEF Inv, IAlone
<1>12. INew'
  <2> SUFFICES ASSUME NEW q \in Request, step'[q] \in {"create", "write"}
               PROVE  /\ ~alone'[q]
                      /\ Modifies(new'[q], install'[q])
    BY DEF INew
  <2>1. q # r /\ ~alone[q]
    BY <1>11
  <2>2. step[q] \in {"create", "write"} /\ new'[q] = new[q] /\ install'[q] = install[q] /\ ~alone'[q]
    BY <1>2, <1>7, <1>8, <2>1
  <2> QED
    BY <2>2 DEF Inv, INew
<1>13. Modifies(new[r], install[r])
  BY <1>2 DEF Inv, INew
<1>14. IAsked'
  <2> SUFFICES /\ asked' = "installed" =>
                     \E k \in Seq(UserLine) : exportLua' = Append(k, "setup")
               /\ asked' = "removed" => exportLua' \in Seq(UserLine)
    BY DEF IAsked
  <2> HIDE DEF whole
  <2>1. CASE whole /\ install[r] /\ new[r] # <<>>
    BY <1>3, <1>6, <1>13, <2>1 DEF Modifies
  <2>2. CASE whole /\ ~install[r]
    <3>1. new[r] = <<>> \/ \E kept \in Seq(UserLine) : new[r] = kept
      BY <1>13, <2>2 DEF Modifies
    <3>2. <<>> \in Seq(UserLine)
      OBVIOUS
    <3>3. new[r] \in Seq(UserLine)
      BY <3>1, <3>2
    <3> QED
      BY <1>3, <1>6, <2>2, <3>3
  <2>3. CASE ~whole \/ (install[r] /\ new[r] = <<>>)
    BY <1>3, <2>3
  <2> QED
    BY <2>1, <2>2, <2>3
<1>15. UserLinesKept'
  <2> SUFFICES ASSUME ~lost' PROVE OwnLines(exportLua') = userLines
    BY <1>2 DEF UserLinesKept, OwnLines
  <2>1. ~lost /\ whole
    BY <1>3
  <2>2. OwnLines(new[r]) = userLines
    BY <1>2, <2>1 DEF Inv, INew
  <2> QED
    BY <1>6, <2>1, <2>2
<1> QED
  BY <1>7, <1>10, <1>12, <1>14, <1>15 DEF Inv

LEMMA StopKeeps ==
    ASSUME Inv, Stop
    PROVE  Inv'
<1>1. /\ step' = [r \in Request |-> "idle"] /\ new' = [r \in Request |-> <<>>]
      /\ lost' = (lost \/ \E r \in Request : step[r] = "write")
      /\ UNCHANGED <<exportLua, hook, install, alone, userLines, asked>>
  BY DEF Stop
<1>2. step' \in [Request -> Steps] /\ \A r \in Request : step'[r] = "idle"
  BY <1>1 DEF Steps
<1>3. new' \in [Request -> Seq(Line)]
  <2>1. <<>> \in Seq(Line)
    OBVIOUS
  <2> QED
    BY <1>1, <2>1
<1>4. lost' \in BOOLEAN /\ (~lost' => ~lost /\ \A r \in Request : step[r] # "write")
  BY <1>1 DEF Inv, IType
<1>5. IType'
  BY <1>1, <1>2, <1>3, <1>4 DEF Inv, IType
<1>6. IAlone' /\ INew' /\ IAsked'
  BY <1>1, <1>2 DEF Inv, IAlone, INew, IAsked
<1>7. UserLinesKept'
  BY <1>1, <1>4 DEF Inv, UserLinesKept, OwnLines
<1> QED
  BY <1>5, <1>6, <1>7 DEF Inv

LEMMA NextKeeps == Inv /\ [Next]_vars => Inv'
<1> SUFFICES ASSUME Inv, [Next]_vars PROVE Inv'
  OBVIOUS
<1>1. ASSUME NEW file \in Files, Edit(file) PROVE Inv'
  BY <1>1, EditKeeps
<1>2. ASSUME NEW r \in Request, NEW shouldBeInstalled \in BOOLEAN,
             NEW first \in {"read", "remove hook"}, Begin(r, first, shouldBeInstalled)
      PROVE  Inv'
  BY <1>2, BeginKeeps
<1>3. {"idle", "create hook", "write hook"} \subseteq Steps \ {"create", "write"}
  BY DEF Steps
<1>4. ASSUME NEW r \in Request, Fail(r) PROVE Inv'
  <2>1. /\ step[r] \notin {"idle", "write"} /\ GoOn(r, "idle") /\ new' = [new EXCEPT ![r] = <<>>]
        /\ UNCHANGED <<exportLua, hook, install, alone, userLines, lost, asked>>
    BY <1>4 DEF Fail
  <2>2. hook' \in {"none", "installed", "other"}
    BY <2>1 DEF Inv, IType
  <2> QED
    BY <1>3, <2>1, <2>2, OtherStepKeeps
<1>5. ASSUME NEW r \in Request, Read(r) \/ Create(r) \/ Write(r) PROVE Inv'
  BY <1>5, ReadKeeps, CreateKeeps, WriteKeeps
<1>6. ASSUME NEW r \in Request, RemoveHook(r) PROVE Inv'
  <2> DEFINE next == IF install[r] THEN "create hook" ELSE "idle"
  <2>1. /\ step[r] \notin {"idle", "write"} /\ GoOn(r, next)
        /\ UNCHANGED <<exportLua, install, new, alone, userLines, lost, asked>>
        /\ hook' = "none" \/ hook' = hook
    BY <1>6 DEF RemoveHook
  <2>2. hook' \in {"none", "installed", "other"} /\ next \in Steps \ {"create", "write"}
    BY <1>3, <2>1 DEF Inv, IType
  <2> HIDE DEF next
  <2> QED
    BY <2>1, <2>2, OtherStepKeeps
<1>7. ASSUME NEW r \in Request, CreateHook(r) PROVE Inv'
  <2>1. /\ step[r] \notin {"idle", "write"} /\ GoOn(r, "write hook") /\ hook' = "other"
        /\ UNCHANGED <<exportLua, install, new, alone, userLines, lost, asked>>
    BY <1>7 DEF CreateHook
  <2> QED
    BY <1>3, <2>1, OtherStepKeeps
<1>8. ASSUME NEW r \in Request, WriteHook(r) PROVE Inv'
  <2>1. /\ step[r] \notin {"idle", "write"} /\ GoOn(r, "idle") /\ hook' \in {"installed", "other"}
        /\ UNCHANGED <<exportLua, install, new, alone, userLines, lost, asked>>
    BY <1>8 DEF WriteHook
  <2> QED
    BY <1>3, <2>1, OtherStepKeeps
<1>9. CASE UNCHANGED vars
  BY <1>9 DEF vars, Inv, IType, IAlone, INew, IAsked, UserLinesKept, OwnLines
<1> QED
  BY <1>1, <1>2, <1>4, <1>5, <1>6, <1>7, <1>8, <1>9, StopKeeps DEF Next

LEMMA InvAlways == Spec => []Inv
BY InitInv, NextKeeps, PTL DEF Spec

(***************************************************************************)
(* SetupExportLua leaves the user's lines in Export.lua, in their order,   *)
(* whatever is installed and removed, for files of any length and any      *)
(* number of requests, until one goes on after an error, is cut short, or  *)
(* overlaps another (lost).                                                *)
(***************************************************************************)
THEOREM UserLinesKeptAlways == Spec => []UserLinesKept
<1>1. Inv => UserLinesKept
  BY DEF Inv
<1> QED
  BY <1>1, InvAlways, PTL

LEMMA SetupLines ==
    ASSUME IAsked
    PROVE  SetupAsAsked
<1>1. ASSUME asked = "installed"
      PROVE  /\ IsExportLuaSetup(exportLua)
             /\ Cardinality({i \in DOMAIN exportLua :
                        exportLua[i] \in {"setup", "marked", "old"}}) = 1
  <2>1. PICK kept \in Seq(UserLine) : exportLua = Append(kept, "setup")
    BY <1>1 DEF IAsked
  <2> DEFINE n == Len(exportLua)
  <2>2. n \in Nat \ {0} /\ DOMAIN exportLua = 1..n /\ exportLua[n] = "setup"
        /\ \A i \in 1..n : i # n => exportLua[i] \in UserLine
    BY <2>1
  <2>3. n = Len(exportLua)
    OBVIOUS
  <2> HIDE DEF n
  <2>4. {i \in DOMAIN exportLua : exportLua[i] \in {"setup", "marked", "old"}} = {n}
    BY <2>2, DcsSetupAssumption
  <2>5. {i \in DOMAIN exportLua : exportLua[i] = "long"} = {}
    BY <2>2, DcsSetupAssumption
  <2>6. Scanned(exportLua) = exportLua
    BY <2>5 DEF Scanned
  <2>7. Contains(exportLua, "setup")
    <3>1. n \in 1..n
      BY <2>2
    <3>2. n \in 1..Len(exportLua) /\ exportLua[n] = "setup"
      BY <2>2, <2>3, <3>1
    <3> QED
      BY <3>2 DEF Contains
  <2> QED
    BY <2>4, <2>6, <2>7, FS_Singleton DEF IsExportLuaSetup
<1>2. ASSUME asked = "removed"
      PROVE  \A i \in DOMAIN exportLua : exportLua[i] \notin {"setup", "marked", "old"}
  <2>1. exportLua \in Seq(UserLine)
    BY <1>2 DEF IAsked
  <2>2. \A i \in DOMAIN exportLua : exportLua[i] \in UserLine
    BY <2>1
  <2> QED
    BY <2>2, DcsSetupAssumption
<1> QED
  BY <1>1, <1>2 DEF SetupAsAsked

(***************************************************************************)
(* After a request that was at work alone and wrote the whole file, there  *)
(* is one setup line in Export.lua that IsExportLuaSetup finds, or none,   *)
(* whatever the file was before and has been read of it, unless what was   *)
(* to be installed was nil.                                                *)
(***************************************************************************)
THEOREM SetupAsAskedAlways == Spec => []SetupAsAsked
<1>1. Inv => SetupAsAsked
  BY SetupLines DEF Inv
<1> QED
  BY <1>1, InvAlways, PTL

(***************************************************************************)
(* installHook and uninstallHook leave the hook file as they were asked,   *)
(* for any number of requests.                                             *)
(***************************************************************************)
THEOREM HookAsAskedAlways == Spec => []HookAsAsked
<1>1. Init => HookAsAsked
  BY DEF Init, HookAsAsked
<1>2. HookAsAsked /\ [Next]_vars => HookAsAsked'
  <2> SUFFICES ASSUME HookAsAsked, [Next]_vars PROVE HookAsAsked'
    OBVIOUS
  <2>1. ASSUME NEW r \in Request, RemoveHook(r) PROVE HookAsAsked'
    BY <2>1 DEF RemoveHook, HookAsAsked
  <2>2. ASSUME NEW r \in Request, CreateHook(r) PROVE HookAsAsked'
    BY <2>2 DEF CreateHook, HookAsAsked
  <2>3. ASSUME NEW r \in Request, WriteHook(r) PROVE HookAsAsked'
    BY <2>3 DEF WriteHook, HookAsAsked
  <2>4. ASSUME UNCHANGED <<hook, hookAsked>> PROVE HookAsAsked'
    BY <2>4 DEF HookAsAsked
  <2>5. CASE \E r \in Request : RemoveHook(r) \/ CreateHook(r) \/ WriteHook(r)
    BY <2>1, <2>2, <2>3, <2>5
  <2>6. CASE ~\E r \in Request : RemoveHook(r) \/ CreateHook(r) \/ WriteHook(r)
    <3>1. UNCHANGED <<hook, hookAsked>>
      BY <2>6 DEF Next, vars, Edit, Begin, Fail, Read, Create, Write, Stop
    <3> QED
      BY <3>1, <2>4
  <2> QED
    BY <2>5, <2>6
<1> QED
  BY <1>1, <1>2, PTL DEF Spec
=============================================================================
