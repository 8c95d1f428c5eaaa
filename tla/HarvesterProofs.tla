-------------------------- MODULE HarvesterProofs --------------------------
(***************************************************************************)
(* Proofs about LogHarvester, for any limits, any number of writes that    *)
(* end anywhere, and any rotations, read errors and restarts.              *)
(*                                                                         *)
(* InOrder is not inductive: what the tailer will read next must be newer  *)
(* than all it has taken, also when the file it has open was truncated and *)
(* has grown again, so that its position means something else there.       *)
(* Ahead says so for a file that is shorter than the position as well,     *)
(* which is when tailFile starts over.                                     *)
(***************************************************************************)
EXTENDS LogHarvester, SequenceTheorems, FiniteSetTheorems, WellFoundedInduction, TLAPS

\* A piece that was delivered since the start.
Given(p) == \E k \in 1..Len(delivered) : p \in ItemsOf(delivered[k])

\* A piece that was delivered or is buffered.
Passed(p) == Given(p) \/ p \in ItemsOf(buf)

\* A line is read only while the rate allows it.
RateRoom == pc = "read" => perSecond < MaxRate

\* Files, and what was read of them, hold pieces in the order of writing.
Written ==
    /\ \A s \in {file, held, todo, buf} :
          Increasing(s) /\ \A p \in ItemsOf(s) : p <= written
    /\ \A p \in Pieces : Given(p) => p <= written

\* The tailer has taken nothing before it began, and begins with the last
\* lines.
Beginning ==
    /\ pc = "start" => delivered = <<>>
    /\ pc \in {"start", "initial"} => pos = 0 /\ buf = <<>>
    /\ pc = "initial" => \A p \in Pieces, q \in ItemsOf(todo) : Given(p) => p < q

\* What is next in the open file is newer than all that was taken from it;
\* everything in it is, when it is shorter than the position.
Ahead ==
    pc \notin {"start", "initial"} =>
        \A i \in 1..Len(Opened) : i > pos \/ Len(Opened) < pos =>
            \A p \in Pieces : Passed(p) => p < Opened[i]

\* offset counts lines that were delivered only.
OffsetBehind == offset + Len(buf) <= pos

HarvesterInv ==
    TypeOK /\ RateRoom /\ Written /\ Beginning /\ InOrder /\ Ahead /\ OffsetBehind /\ NothingSkipped

-----------------------------------------------------------------------------
(* Lines and sequences of pieces *)

\* A smallest initial part of T ends in its least element.
LEMMA LeastExists ==
    ASSUME NEW T \in SUBSET Nat, T # {}
    PROVE  \E m \in T : \A n \in T : m <= n
<1> DEFINE Part(m) == T \cap (0..m)
           Parts   == {Part(m) : m \in T}
<1>1. Parts \subseteq FiniteSubsetsOf(Nat) /\ Parts # {}
  <2>1. ASSUME NEW m \in T PROVE IsFiniteSet(Part(m)) /\ Part(m) \subseteq Nat
    <3>1. IsFiniteSet(0..m)
      BY FS_Interval
    <3> QED
      BY <3>1, FS_Subset
  <2> QED
    BY <2>1 DEF FiniteSubsetsOf
<1>2. PICK p \in Parts : \A q \in Parts : ~ (<<q, p>> \in StrictSubsetOrdering(Nat))
  <2> HIDE DEF Parts
  <2>1. IsWellFoundedOn(StrictSubsetOrdering(Nat), FiniteSubsetsOf(Nat))
    BY FS_StrictSubsetOrderingWellFounded
  <2> QED
    BY <1>1, <2>1, WFMin, Zenon
<1>3. PICK m \in T : p = Part(m)
  BY <1>2
<1>4. ASSUME NEW n \in T, n < m PROVE FALSE
  <2>1. Part(n) \subseteq Part(m) /\ m \in Part(m) /\ m \notin Part(n)
    BY <1>4
  <2>2. Part(n) \in SUBSET Nat /\ Part(m) \in SUBSET Nat /\ Part(n) \in Parts
    OBVIOUS
  <2> HIDE DEF Part
  <2>3. <<Part(n), p>> \in StrictSubsetOrdering(Nat)
    BY <1>3, <2>1, <2>2 DEF StrictSubsetOrdering
  <2> QED
    BY <1>2, <2>2, <2>3
<1> QED
  BY <1>4

\* The least element that FirstLine and LastLines choose.
LEMMA LeastChosen ==
    ASSUME NEW T \in SUBSET Nat, T # {}
    PROVE  /\ (CHOOSE i \in T : \A j \in T : i <= j) \in T
           /\ \A j \in T : (CHOOSE i \in T : \A k \in T : i <= k) <= j
<1>1. \E i \in T : \A j \in T : i <= j
  BY LeastExists
<1> QED
  BY <1>1

LEMMA GreatestExists ==
    ASSUME NEW n \in Nat, NEW T \in SUBSET (0..n), T # {}
    PROVE  \E m \in T : \A k \in T : k <= m
<1> DEFINE U == {n - k : k \in T}
<1>1. U \in SUBSET Nat /\ U # {}
  <2>1. \A k \in T : n - k \in Nat
    OBVIOUS
  <2> QED
    BY <2>1
<1>2. PICK u \in U : \A v \in U : u <= v
  <2> HIDE DEF U
  <2> QED
    BY <1>1, LeastExists
<1>3. PICK m \in T : u = n - m
  BY <1>2
<1>4. ASSUME NEW k \in T PROVE k <= m
  <2>1. n - m <= n - k
    BY <1>2, <1>3
  <2> QED
    BY <2>1
<1> QED
  BY <1>3, <1>4

\* ReadString splits what is buffered in two.
LEMMA LineSplits ==
    ASSUME NEW S, NEW s \in Seq(S)
    PROVE  \E n \in 0..Len(s) : /\ FirstLine(s) = SubSeq(s, 1, n)
                                /\ AfterLine(s) = SubSeq(s, n + 1, Len(s))
                                /\ Len(FirstLine(s)) = n
<1>0. Len(s) \in Nat
  OBVIOUS
<1>1. CASE Newlines(s) = {}
  <2>1. FirstLine(s) = s /\ SubSeq(s, 1, Len(s)) = s
    BY <1>1, SubSeqFull DEF FirstLine
  <2>2. AfterLine(s) = SubSeq(s, Len(s) + 1, Len(s)) /\ Len(s) \in 0..Len(s)
    BY <1>0, <2>1 DEF AfterLine
  <2> QED
    BY <2>1, <2>2
<1>2. CASE Newlines(s) # {}
  <2>1. Newlines(s) \in SUBSET Nat /\ Newlines(s) \subseteq 1..Len(s)
    BY DEF Newlines
  <2>2. PICK n \in 1..Len(s) : n = CHOOSE i \in Newlines(s) : \A j \in Newlines(s) : i <= j
    BY <1>2, <2>1, LeastChosen
  <2>3. FirstLine(s) = SubSeq(s, 1, n)
    BY <1>2, <2>2 DEF FirstLine
  <2>4. Len(SubSeq(s, 1, n)) = n
    BY <1>0, SubSeqProperties
  <2> QED
    BY <1>0, <2>3, <2>4 DEF AfterLine
<1> QED
  BY <1>1, <1>2

\* readLastLines returns the end of the file.
LEMMA LastLinesEnd ==
    ASSUME NEW S, NEW s \in Seq(S)
    PROVE  \E n \in 0..Len(s) : LastLines(s) = SubSeq(s, n + 1, Len(s))
<1>0. Len(s) \in Nat
  OBVIOUS
<1>1. CASE s = <<>>
  <2>1. LastLines(s) = <<>>
    BY <1>1 DEF LastLines
  <2>2. SubSeq(s, 1, Len(s)) = <<>>
    BY <1>1, SubSeqFull
  <2> QED
    BY <1>0, <2>1, <2>2
<1>2. CASE s # <<>>
  <2> DEFINE Starts == {i \in 1..Len(s) : i = 1 \/ EndsLine(s[i - 1])}
             Kept   == {i \in Starts : Cardinality({j \in Starts : j > i}) < TailLines}
             First  == CHOOSE i \in Kept : \A j \in Kept : i <= j
  <2>1. 1 \in Starts
    BY <1>0, <1>2
  <2>2. PICK m \in Starts : \A k \in Starts : k <= m
    <3>1. Starts \in SUBSET (0..Len(s)) /\ Starts # {}
      BY <2>1
    <3> HIDE DEF Starts
    <3> QED
      BY <1>0, <3>1, GreatestExists
  <2>3. {j \in Starts : j > m} = {}
    BY <2>2
  <2>4. Cardinality({j \in Starts : j > m}) = 0
    BY <2>3, FS_EmptySet
  <2>5. m \in Kept
    BY <2>4, LimitsAssumption
  <2>6. Kept \in SUBSET Nat /\ Kept \subseteq 1..Len(s) /\ Kept # {}
    <3>1. Kept \subseteq 1..Len(s)
      OBVIOUS
    <3>2. 1..Len(s) \subseteq Nat
      BY <1>0
    <3> QED
      BY <2>5, <3>1, <3>2, Zenon
  <2>7. First \in 1..Len(s)
    <3> HIDE DEF Kept
    <3> QED
      BY <2>6, LeastChosen
  <2>8. LastLines(s) = SubSeq(s, First, Len(s))
    BY <1>2 DEF LastLines
  <2> HIDE DEF First
  <2>9. First - 1 \in 0..Len(s) /\ First = (First - 1) + 1
    BY <1>0, <2>7
  <2> QED
    BY <2>8, <2>9
<1> QED
  BY <1>1, <1>2

LEMMA ItemsInSeq ==
    ASSUME NEW S, NEW s \in Seq(S)
    PROVE  ItemsOf(s) \subseteq S
BY DEF ItemsOf

\* The two parts of a sequence in order are in order, and one before the other.
LEMMA SplitInOrder ==
    ASSUME NEW s \in Seq(Pieces), NEW n \in 0..Len(s)
    PROVE  /\ SubSeq(s, 1, n) \in Seq(Pieces) /\ SubSeq(s, n + 1, Len(s)) \in Seq(Pieces)
           /\ Len(SubSeq(s, 1, n)) = n /\ Len(SubSeq(s, n + 1, Len(s))) = Len(s) - n
           /\ ItemsOf(s) = ItemsOf(SubSeq(s, 1, n)) \cup ItemsOf(SubSeq(s, n + 1, Len(s)))
           /\ Increasing(s) =>
                /\ Increasing(SubSeq(s, 1, n)) /\ Increasing(SubSeq(s, n + 1, Len(s)))
                /\ \A p \in ItemsOf(SubSeq(s, 1, n)), q \in ItemsOf(SubSeq(s, n + 1, Len(s))) : p < q
<1>0. PICK m \in Nat : m = Len(s)
  OBVIOUS
<1>1. PICK a : a = SubSeq(s, 1, n)
  OBVIOUS
<1>2. PICK b : b = SubSeq(s, n + 1, Len(s))
  OBVIOUS
<1>3. /\ a \in Seq(Pieces) /\ Len(a) = n
      /\ \A i \in 1..n : a[i] = s[i]
  <2>1. /\ SubSeq(s, 1, n) \in Seq(Pieces)
        /\ Len(SubSeq(s, 1, n)) = IF 1 <= n THEN n - 1 + 1 ELSE 0
        /\ \A i \in 1..(n - 1 + 1) : SubSeq(s, 1, n)[i] = s[1 + i - 1]
    BY <1>0, SubSeqProperties
  <2>2. n - 1 + 1 = n /\ \A i \in 1..n : 1 + i - 1 = i
    OBVIOUS
  <2> QED
    BY <1>1, <2>1, <2>2
<1>4. /\ b \in Seq(Pieces) /\ Len(b) = m - n
      /\ \A i \in 1..(m - n) : b[i] = s[n + i]
  <2>1. /\ SubSeq(s, n + 1, m) \in Seq(Pieces)
        /\ Len(SubSeq(s, n + 1, m)) = IF n + 1 <= m THEN m - (n + 1) + 1 ELSE 0
        /\ \A i \in 1..(m - (n + 1) + 1) : SubSeq(s, n + 1, m)[i] = s[(n + 1) + i - 1]
    BY <1>0, SubSeqProperties
  <2>2. m - (n + 1) + 1 = m - n /\ \A i \in 1..(m - n) : (n + 1) + i - 1 = n + i
    BY <1>0
  <2> QED
    BY <1>0, <1>2, <2>1, <2>2
<1>5. ItemsOf(s) = ItemsOf(a) \cup ItemsOf(b)
  <2>1. ASSUME NEW i \in 1..m PROVE s[i] \in ItemsOf(a) \cup ItemsOf(b)
    <3>1. CASE i <= n
      BY <1>3, <3>1 DEF ItemsOf
    <3>2. CASE i > n
      <4>1. i - n \in 1..(m - n) /\ n + (i - n) = i
        BY <1>0, <3>2
      <4> QED
        BY <1>4, <4>1 DEF ItemsOf
    <3> QED
      BY <3>1, <3>2
  <2>2. \A i \in 1..n : i \in 1..m
    BY <1>0
  <2>3. \A i \in 1..(m - n) : n + i \in 1..m
    BY <1>0
  <2>4. ItemsOf(s) \subseteq ItemsOf(a) \cup ItemsOf(b)
    BY <1>0, <2>1 DEF ItemsOf
  <2>5. ItemsOf(a) \subseteq ItemsOf(s)
    BY <1>0, <1>3, <2>2 DEF ItemsOf
  <2>6. ItemsOf(b) \subseteq ItemsOf(s)
    BY <1>0, <1>4, <2>3 DEF ItemsOf
  <2> QED
    BY <2>4, <2>5, <2>6
<1>6. ASSUME Increasing(s)
      PROVE  Increasing(a) /\ Increasing(b) /\ \A p \in ItemsOf(a), q \in ItemsOf(b) : p < q
  <2>1. \A i, j \in 1..m : i < j => s[i] < s[j]
    BY <1>0, <1>6 DEF Increasing
  <2>2. Increasing(a)
    BY <1>0, <1>3, <2>1 DEF Increasing
  <2>3. ASSUME NEW i \in 1..(m - n), NEW j \in 1..(m - n), i < j PROVE b[i] < b[j]
    <3>1. n + i \in 1..m /\ n + j \in 1..m /\ n + i < n + j
      BY <1>0, <2>3
    <3> QED
      BY <1>4, <2>1, <3>1
  <2>4. ASSUME NEW i \in 1..n, NEW j \in 1..(m - n) PROVE a[i] < b[j]
    <3>1. i \in 1..m /\ n + j \in 1..m /\ i < n + j
      BY <1>0
    <3> QED
      BY <1>3, <1>4, <2>1, <3>1
  <2>5. Increasing(b)
    BY <1>4, <2>3 DEF Increasing
  <2>6. \A p \in ItemsOf(a), q \in ItemsOf(b) : p < q
    BY <1>3, <1>4, <2>4 DEF ItemsOf
  <2> QED
    BY <2>2, <2>5, <2>6
<1> QED
  BY <1>0, <1>1, <1>2, <1>3, <1>4, <1>5, <1>6

LEMMA JoinInOrder ==
    ASSUME NEW s \in Seq(Pieces), NEW t \in Seq(Pieces)
    PROVE  /\ s \o t \in Seq(Pieces) /\ Len(s \o t) = Len(s) + Len(t)
           /\ \A i \in 1..Len(s) : (s \o t)[i] = s[i]
           /\ \A i \in (Len(s) + 1)..Len(s \o t) : (s \o t)[i] \in ItemsOf(t)
           /\ ItemsOf(s \o t) = ItemsOf(s) \cup ItemsOf(t)
           /\ Increasing(s) /\ Increasing(t) /\ (\A p \in ItemsOf(s), q \in ItemsOf(t) : p < q)
                => Increasing(s \o t)
<1>0. PICK m \in Nat, n \in Nat : m = Len(s) /\ n = Len(t)
  OBVIOUS
<1>1. PICK u : u = s \o t
  OBVIOUS
<1>2. /\ u \in Seq(Pieces) /\ Len(u) = m + n
      /\ \A i \in 1..(m + n) : u[i] = IF i <= m THEN s[i] ELSE t[i - m]
  BY <1>0, <1>1, ConcatProperties
<1>3. \A i \in 1..m : i \in 1..(m + n) /\ u[i] = s[i]
  BY <1>0, <1>2
<1>4. ASSUME NEW i \in (m + 1)..(m + n) PROVE i - m \in 1..n /\ u[i] = t[i - m]
  BY <1>0, <1>2
<1>5. \A i \in 1..n : m + i \in (m + 1)..(m + n) /\ (m + i) - m = i
  BY <1>0
<1>6. \A i \in (m + 1)..(m + n) : u[i] \in ItemsOf(t)
  BY <1>0, <1>4 DEF ItemsOf
<1>7. ItemsOf(u) = ItemsOf(s) \cup ItemsOf(t)
  <2>1. ItemsOf(s) \subseteq ItemsOf(u)
    BY <1>0, <1>2, <1>3 DEF ItemsOf
  <2>2. ASSUME NEW i \in 1..n PROVE t[i] \in ItemsOf(u)
    <3>1. m + i \in 1..(m + n) /\ u[m + i] = t[i]
      BY <1>0, <1>4, <1>5
    <3> QED
      BY <1>2, <3>1 DEF ItemsOf
  <2>3. ASSUME NEW i \in 1..(m + n) PROVE u[i] \in ItemsOf(s) \cup ItemsOf(t)
    <3>1. CASE i <= m
      BY <1>0, <1>3, <3>1 DEF ItemsOf
    <3>2. CASE i > m
      BY <1>0, <1>6, <3>2
    <3> QED
      BY <1>0, <3>1, <3>2
  <2>4. ItemsOf(t) \subseteq ItemsOf(u)
    BY <1>0, <2>2 DEF ItemsOf
  <2>5. ItemsOf(u) \subseteq ItemsOf(s) \cup ItemsOf(t)
    BY <1>2, <2>3 DEF ItemsOf
  <2> QED
    BY <2>1, <2>4, <2>5
<1>8. ASSUME Increasing(s), Increasing(t), \A p \in ItemsOf(s), q \in ItemsOf(t) : p < q
      PROVE  Increasing(u)
  <2> SUFFICES ASSUME NEW i \in 1..(m + n), NEW j \in 1..(m + n), i < j PROVE u[i] < u[j]
    BY <1>2 DEF Increasing
  <2>1. CASE j <= m
    <3>1. i \in 1..m /\ j \in 1..m
      BY <1>0, <2>1
    <3> QED
      BY <1>0, <1>3, <1>8, <3>1 DEF Increasing
  <2>2. CASE i <= m /\ j > m
    <3>1. u[i] \in ItemsOf(s)
      BY <1>0, <1>3, <2>2 DEF ItemsOf
    <3>2. u[j] \in ItemsOf(t)
      BY <1>0, <1>6, <2>2
    <3> QED
      BY <1>8, <3>1, <3>2
  <2>3. CASE i > m
    <3>1. i \in (m + 1)..(m + n) /\ j \in (m + 1)..(m + n) /\ i - m < j - m
      BY <1>0, <2>3
    <3>2. i - m \in 1..n /\ j - m \in 1..n /\ u[i] = t[i - m] /\ u[j] = t[j - m]
      BY <1>4, <3>1
    <3> QED
      BY <1>0, <1>8, <3>1, <3>2 DEF Increasing
  <2> QED
    BY <1>0, <2>1, <2>2, <2>3
<1> QED
  BY <1>0, <1>1, <1>2, <1>3, <1>6, <1>7, <1>8

\* The two parts of what is buffered.
LEMMA LineParts ==
    ASSUME NEW s \in Seq(Pieces)
    PROVE  /\ FirstLine(s) \in Seq(Pieces) /\ AfterLine(s) \in Seq(Pieces)
           /\ Len(FirstLine(s)) \in Nat /\ Len(AfterLine(s)) = Len(s) - Len(FirstLine(s))
           /\ ItemsOf(s) = ItemsOf(FirstLine(s)) \cup ItemsOf(AfterLine(s))
           /\ Increasing(s) =>
                /\ Increasing(FirstLine(s)) /\ Increasing(AfterLine(s))
                /\ \A p \in ItemsOf(FirstLine(s)), q \in ItemsOf(AfterLine(s)) : p < q
<1>1. PICK n \in 0..Len(s) : /\ FirstLine(s) = SubSeq(s, 1, n)
                             /\ AfterLine(s) = SubSeq(s, n + 1, Len(s))
                             /\ Len(FirstLine(s)) = n
  BY LineSplits
<1>2. n \in Nat /\ Len(FirstLine(s)) \in Nat
  BY <1>1
<1>3. Len(AfterLine(s)) = Len(s) - n
  BY <1>1, SplitInOrder
<1>4. ItemsOf(s) = ItemsOf(FirstLine(s)) \cup ItemsOf(AfterLine(s))
  BY <1>1, SplitInOrder
<1>5. FirstLine(s) \in Seq(Pieces) /\ AfterLine(s) \in Seq(Pieces)
  BY <1>1, SplitInOrder
<1>6. Increasing(s) =>
        /\ Increasing(FirstLine(s)) /\ Increasing(AfterLine(s))
        /\ \A p \in ItemsOf(FirstLine(s)), q \in ItemsOf(AfterLine(s)) : p < q
  <2>1. Increasing(s) =>
          /\ Increasing(SubSeq(s, 1, n)) /\ Increasing(SubSeq(s, n + 1, Len(s)))
          /\ \A p \in ItemsOf(SubSeq(s, 1, n)), q \in ItemsOf(SubSeq(s, n + 1, Len(s))) : p < q
    BY SplitInOrder, Zenon
  <2> QED
    BY <1>1, <2>1
<1>7. Len(AfterLine(s)) = Len(s) - Len(FirstLine(s))
  BY <1>1, <1>3
<1> QED
  BY <1>2, <1>4, <1>5, <1>6, <1>7

LEMMA LastLinesParts ==
    ASSUME NEW s \in Seq(Pieces)
    PROVE  /\ LastLines(s) \in Seq(Pieces) /\ ItemsOf(LastLines(s)) \subseteq ItemsOf(s)
           /\ Increasing(s) => Increasing(LastLines(s))
<1>1. PICK n \in 0..Len(s) : LastLines(s) = SubSeq(s, n + 1, Len(s))
  BY LastLinesEnd
<1> QED
  BY <1>1, SplitInOrder

LEMMA NothingInOrder == ItemsOf(<<>>) = {} /\ Increasing(<<>>) /\ <<>> \in Seq(Pieces) /\ Len(<<>>) = 0
<1>1. Len(<<>>) = 0 /\ 1..0 = {}
  OBVIOUS
<1> QED
  BY <1>1 DEF ItemsOf, Increasing

\* What one write adds.
LEMMA WritesPieces ==
    ASSUME TypeOK, NEW n \in {1, 2}, Write(n)
    PROVE  \E t \in Seq(Pieces) :
              /\ file' = file \o t /\ Increasing(t)
              /\ written' \in 0..MaxPieces
              /\ \A p \in ItemsOf(t) : written < p /\ p <= written'
<1> DEFINE t == [i \in 1..n |-> written + i]
<1>1. written \in Nat /\ written + n <= MaxPieces /\ written' = written + n /\ n \in Nat
  BY DEF Write, TypeOK
<1>2. \A i \in 1..n : written + i \in Pieces
  BY <1>1, BoundsAssumption DEF Pieces
<1>3. t \in Seq(Pieces) /\ Len(t) = n /\ \A i \in 1..n : t[i] = written + i
  BY <1>1, <1>2
<1>4. file' = file \o t
  BY DEF Write
<1> HIDE DEF t
<1>5. Increasing(t)
  BY <1>1, <1>3 DEF Increasing
<1>6. \A p \in ItemsOf(t) : written < p /\ p <= written'
  BY <1>1, <1>3 DEF ItemsOf
<1> QED
  BY <1>1, <1>3, <1>4, <1>5, <1>6, BoundsAssumption

\* What Fill takes from the open file.
LEMMA FillTakes ==
    ASSUME TypeOK, Fill
    PROVE  \E t \in Seq(Pieces) :
              /\ buf' = buf \o t /\ Len(t) = Len(Opened) - pos
              /\ ItemsOf(Opened) = ItemsOf(SubSeq(Opened, 1, pos)) \cup ItemsOf(t)
              /\ \A p \in ItemsOf(t) : \E i \in 1..Len(Opened) : i > pos /\ p = Opened[i]
              /\ \A i \in (pos + 1)..Len(Opened) : Opened[i] \in ItemsOf(t)
              /\ Increasing(Opened) => Increasing(t)
<1>0. Opened \in Seq(Pieces)
  BY DEF TypeOK, Opened
<1>1. PICK s \in Seq(Pieces) : s = Opened
  BY <1>0
<1>2. PICK n \in 0..Len(s) : n = pos
  BY <1>1 DEF Fill, TypeOK
<1>3. PICK t \in Seq(Pieces) : t = SubSeq(s, n + 1, Len(s))
  BY SplitInOrder
<1>4. /\ Len(t) = Len(s) - n /\ ItemsOf(s) = ItemsOf(SubSeq(s, 1, n)) \cup ItemsOf(t)
      /\ Increasing(s) => Increasing(t)
  BY <1>3, SplitInOrder
<1>5. PICK m \in Nat : m = Len(s)
  OBVIOUS
<1>6. \A i \in 1..(m - n) : t[i] = s[n + i]
  <2>1. \A i \in 1..(m - (n + 1) + 1) : SubSeq(s, n + 1, m)[i] = s[(n + 1) + i - 1]
    BY <1>5, SubSeqProperties
  <2>2. m - (n + 1) + 1 = m - n /\ \A i \in 1..(m - n) : (n + 1) + i - 1 = n + i
    BY <1>5
  <2> QED
    BY <1>3, <1>5, <2>1, <2>2
<1>7. ASSUME NEW p \in ItemsOf(t) PROVE \E i \in 1..m : i > n /\ p = s[i]
  <2>1. PICK i \in 1..(m - n) : p = t[i]
    BY <1>4, <1>5 DEF ItemsOf
  <2>2. n + i \in 1..m /\ n + i > n /\ p = s[n + i]
    BY <1>5, <1>6, <2>1
  <2> QED
    BY <2>2
<1>8. ASSUME NEW i \in (n + 1)..m PROVE s[i] \in ItemsOf(t)
  <2>1. i - n \in 1..(m - n) /\ n + (i - n) = i
    BY <1>5
  <2>2. t[i - n] = s[i] /\ i - n \in 1..Len(t)
    BY <1>4, <1>5, <1>6, <2>1
  <2> QED
    BY <2>2 DEF ItemsOf
<1>9. buf' = buf \o t
  BY <1>1, <1>2, <1>3 DEF Fill
<1> QED
  BY <1>1, <1>2, <1>4, <1>5, <1>7, <1>8, <1>9

LEMMA DeliverAdds ==
    ASSUME TypeOK, NEW line \in Seq(Pieces), Deliver(line)
    PROVE  /\ delivered' \in Seq(Seq(Pieces)) /\ Len(delivered) \in Nat
           /\ Len(delivered') = Len(delivered) + 1
           /\ \A i \in 1..Len(delivered) : delivered'[i] = delivered[i]
           /\ delivered'[Len(delivered) + 1] = line
           /\ \A p : Given(p)' <=> Given(p) \/ p \in ItemsOf(line)
<1>1. PICK d \in Seq(Seq(Pieces)), n \in Nat : d = delivered /\ n = Len(d)
  BY DEF TypeOK
<1>2. PICK e : e = delivered' /\ e = Append(d, line)
  BY <1>1 DEF Deliver
<1>3. /\ e \in Seq(Seq(Pieces)) /\ Len(e) = n + 1
      /\ \A i \in 1..n : e[i] = d[i]
      /\ e[n + 1] = line
  BY <1>1, <1>2
<1>4. ASSUME NEW p
      PROVE  (\E k \in 1..(n + 1) : p \in ItemsOf(e[k])) <=> (\E k \in 1..n : p \in ItemsOf(d[k])) \/ p \in ItemsOf(line)
  <2>1. \A k \in 1..(n + 1) : k \in 1..n \/ k = n + 1
    BY <1>1
  <2>2. n + 1 \in 1..(n + 1) /\ \A k \in 1..n : k \in 1..(n + 1)
    BY <1>1
  <2> QED
    BY <1>3, <2>1, <2>2
<1>5. ASSUME NEW p PROVE Given(p)' <=> Given(p) \/ p \in ItemsOf(line)
  <2>1. Given(p)' <=> \E k \in 1..(n + 1) : p \in ItemsOf(e[k])
    BY <1>2, <1>3 DEF Given, ItemsOf
  <2>2. Given(p) <=> \E k \in 1..n : p \in ItemsOf(d[k])
    BY <1>1 DEF Given
  <2> QED
    BY <1>4, <2>1, <2>2
<1> QED
  BY <1>1, <1>2, <1>3, <1>5

-----------------------------------------------------------------------------
(* Types, and the rate limit *)

LEMMA TypeStep == ASSUME TypeOK, RateRoom, [Next]_vars PROVE TypeOK' /\ RateRoom'
<1> USE DEF RateRoom
<1>0. Opened \in Seq(Pieces) /\ Len(Opened) \in Nat
  BY DEF TypeOK, Opened
<1>00. 0 \in 0..MaxRate /\ 0 < MaxRate
  BY LimitsAssumption
<1>000. \A S : <<>> \in Seq(S)
  OBVIOUS
<1>1. ASSUME NEW n \in {1, 2}, Write(n) PROVE TypeOK' /\ RateRoom'
  <2>1. PICK t \in Seq(Pieces) : file' = file \o t /\ written' \in 0..MaxPieces
    BY <1>1, WritesPieces
  <2>2. file' \in Seq(Pieces)
    BY <2>1 DEF TypeOK
  <2> QED
    BY <1>1, <2>1, <2>2 DEF Write, TypeOK, readerVars, historyVars, controlVars
<1>2. CASE Truncate \/ Rename
  <2>1. file' \in Seq(Pieces) /\ held' \in Seq(Pieces) /\ renamed' \in BOOLEAN /\ shrunk' \in BOOLEAN
    BY <1>0, <1>2, <1>000 DEF Truncate, Rename, TypeOK
  <2>2. rotations' \in 0..MaxRotations
    BY <1>2, BoundsAssumption DEF Truncate, Rename, TypeOK
  <2>3. UNCHANGED <<written, pc, readerVars, historyVars, controlVars>>
    BY <1>2 DEF Truncate, Rename
  <2> QED
    BY <2>1, <2>2, <2>3 DEF TypeOK, readerVars, historyVars, controlVars
<1>3. CASE Open
  <2>1. LastLines(file) \in Seq(Pieces)
    BY LastLinesParts DEF TypeOK
  <2> QED
    BY <1>3, <1>000, <2>1 DEF Open, TypeOK, historyVars, controlVars
<1>13. CASE OpenFails
  <2>1. faults' \in 0..MaxFaults
    BY <1>13, BoundsAssumption DEF OpenFails, TypeOK
  <2> QED
    BY <1>13, <2>1 DEF OpenFails, TypeOK, fileVars, readerVars, historyVars
<1>4. CASE InitialLine
  <2>1. FirstLine(todo) \in Seq(Pieces) /\ AfterLine(todo) \in Seq(Pieces)
    BY LineParts DEF TypeOK
  <2>2. delivered' \in Seq(Seq(Pieces))
    BY <1>4, <2>1, DeliverAdds DEF InitialLine
  <2> QED
    BY <1>4, <2>1, <2>2 DEF InitialLine, TypeOK, fileVars, controlVars
<1>5. CASE SeekEnd
  BY <1>0, <1>5 DEF SeekEnd, TypeOK, controlVars
<1>6. CASE Proceed \/ StopSeen \/ StatSame \/ Poll
  <2>1. /\ UNCHANGED <<fileVars, readerVars, historyVars, controlVars>>
        /\ pc' \in {"loop", "read", "wait", "ended"}
        /\ pc' = "read" => perSecond < MaxRate
    BY <1>6 DEF Proceed, StopSeen, StatSame, Poll
  <2> QED
    BY <2>1 DEF TypeOK, fileVars, readerVars, historyVars, controlVars
<1>14. CASE NewSecond
  BY <1>00, <1>14 DEF NewSecond, TypeOK, fileVars, historyVars, controlVars
<1>7. CASE ReadLine
  <2>1. FirstLine(buf) \in Seq(Pieces) /\ AfterLine(buf) \in Seq(Pieces) /\ Len(FirstLine(buf)) \in Nat
    BY LineParts DEF TypeOK
  <2>2. delivered' \in Seq(Seq(Pieces))
    BY <1>7, <2>1, DeliverAdds DEF ReadLine
  <2>3. perSecond' \in 0..MaxRate /\ offset' \in Nat
    BY <1>7, LimitsAssumption, <2>1 DEF ReadLine, TypeOK
  <2> QED
    BY <1>7, <2>1, <2>2, <2>3 DEF ReadLine, TypeOK, fileVars, controlVars
<1>8. CASE Fill
  <2>1. buf' \in Seq(Pieces)
    BY <1>8, FillTakes, JoinInOrder DEF TypeOK
  <2> QED
    BY <1>0, <1>8, <2>1 DEF Fill, TypeOK, fileVars, historyVars, controlVars
<1>9. CASE EndOfFile \/ ReadFails
  <2>1. ItemsOf(buf) \subseteq Pieces
    BY ItemsInSeq DEF TypeOK
  <2>2. dropped' \subseteq Pieces
    BY <1>9, <2>1 DEF EndOfFile, ReadFails, TypeOK
  <2>3. faults' \in 0..MaxFaults
    BY <1>9, BoundsAssumption DEF EndOfFile, ReadFails, TypeOK, controlVars
  <2>4. /\ buf' = <<>> /\ pc' \in {"stat", "loop"}
        /\ UNCHANGED <<fileVars, pos, offset, perSecond, todo, delivered, from, stop, restarts>>
    BY <1>9 DEF EndOfFile, ReadFails, controlVars
  <2> QED
    BY <1>000, <2>2, <2>3, <2>4 DEF TypeOK, fileVars
<1>10. CASE StatShrunk
  BY <1>10, <1>000 DEF StatShrunk, TypeOK, historyVars, controlVars
<1>11. CASE Stop
  BY <1>11 DEF Stop, TypeOK, fileVars, readerVars, historyVars
<1>15. CASE Restart
  <2>1. restarts' \in 0..MaxRestarts
    BY <1>15, BoundsAssumption DEF Restart, TypeOK
  <2> QED
    BY <1>15, <1>00, <1>000, <2>1 DEF Restart, TypeOK
<1>12. CASE UNCHANGED vars
  BY <1>12 DEF vars, fileVars, readerVars, historyVars, controlVars, TypeOK
<1> QED
  BY <1>1, <1>2, <1>3, <1>4, <1>5, <1>6, <1>7, <1>8, <1>9, <1>10, <1>11, <1>12, <1>13, <1>14, <1>15
     DEF Next, TailerStep, ReadString

LEMMA TypeInit == ASSUME Init PROVE TypeOK /\ RateRoom
<1>1. \A S : <<>> \in Seq(S)
  OBVIOUS
<1>2. /\ 0 \in 0..MaxRate /\ 0 \in 0..MaxPieces /\ 0 \in 0..MaxFaults /\ 0 \in 0..MaxRotations
      /\ 0 \in 0..MaxRestarts
  BY LimitsAssumption, BoundsAssumption
<1> QED
  BY <1>1, <1>2 DEF Init, TypeOK, RateRoom

\* Every variable keeps its type, and no more than MaxRate lines are ingested
\* in a second (log_harvester.go:166).
THEOREM TypeCorrect == Spec => []TypeOK
<1>1. Init => TypeOK /\ RateRoom
  BY TypeInit
<1>2. TypeOK /\ RateRoom /\ [Next]_vars => (TypeOK /\ RateRoom)'
  BY TypeStep
<1> QED
  BY <1>1, <1>2, PTL DEF Spec

-----------------------------------------------------------------------------
(* Order *)

\* The lines that were delivered, in order one by one and among each other.
LinesInOrder ==
    /\ \A i \in 1..Len(delivered) : Increasing(delivered[i])
    /\ \A i, j \in 1..Len(delivered) : i < j =>
          \A p \in ItemsOf(delivered[i]), q \in ItemsOf(delivered[j]) : p < q

LEMMA InOrderParts ==
    InOrder <=> LinesInOrder /\ \A p, q : Given(p) /\ q \in ItemsOf(buf) => p < q
BY DEF InOrder, LinesInOrder, Given

\* A line that is newer than what was delivered may be delivered next.
LEMMA NextLineInOrder ==
    ASSUME TypeOK, LinesInOrder, NEW line \in Seq(Pieces), Deliver(line), Increasing(line),
           \A p, q : Given(p) /\ q \in ItemsOf(line) => p < q
    PROVE  LinesInOrder'
<1>0. Len(delivered) \in Nat
  BY DEF TypeOK
<1>1. PICK n \in Nat : n = Len(delivered)
  BY <1>0
<1>d. PICK d : d = delivered
  OBVIOUS
<1>2. PICK e : e = delivered'
  OBVIOUS
<1>3. Len(e) = n + 1 /\ e[n + 1] = line /\ \A i \in 1..n : e[i] = d[i]
  BY <1>1, <1>d, <1>2, DeliverAdds
<1>4. ASSUME NEW i \in 1..(n + 1) PROVE Increasing(e[i])
  <2>1. CASE i = n + 1
    BY <1>3, <2>1
  <2>2. CASE i \in 1..n
    BY <1>1, <1>d, <1>3, <2>2 DEF LinesInOrder
  <2> QED
    BY <1>1, <2>1, <2>2
<1>5. ASSUME NEW i \in 1..(n + 1), NEW j \in 1..(n + 1), i < j,
             NEW p \in ItemsOf(e[i]), NEW q \in ItemsOf(e[j])
      PROVE  p < q
  <2>1. i \in 1..n /\ e[i] = d[i]
    BY <1>1, <1>d, <1>3, <1>5
  <2>2. CASE j = n + 1
    <3>1. Given(p) /\ q \in ItemsOf(line)
      BY <1>1, <1>d, <1>3, <1>5, <2>1, <2>2 DEF Given
    <3> QED
      BY <3>1
  <2>3. CASE j \in 1..n
    <3>1. e[j] = d[j]
      BY <1>3, <2>3
    <3>2. i \in 1..Len(delivered) /\ j \in 1..Len(delivered)
      BY <1>1, <1>d, <2>1, <2>3
    <3> QED
      BY <1>1, <1>d, <1>5, <2>1, <3>1, <3>2 DEF LinesInOrder
  <2> QED
    BY <1>1, <2>2, <2>3
<1> QED
  BY <1>2, <1>3, <1>4, <1>5 DEF LinesInOrder, Increasing, ItemsOf

-----------------------------------------------------------------------------
(* Files in the order of writing *)

Good(s) == Increasing(s) /\ \A p \in ItemsOf(s) : p <= written

LEMMA WrittenParts ==
    Written <=> /\ Good(file) /\ Good(held) /\ Good(todo) /\ Good(buf)
                /\ \A p \in Pieces : Given(p) => p <= written
BY DEF Written, Good

\* What Fill takes is newer than all that was taken.
LEMMA FillInOrder ==
    ASSUME TypeOK, Written, Ahead, Fill
    PROVE  \E t \in Seq(Pieces) :
              /\ Len(buf') = Len(buf) + (Len(Opened) - pos)
              /\ Increasing(buf') /\ ItemsOf(buf') = ItemsOf(buf) \cup ItemsOf(t)
              /\ ItemsOf(t) \subseteq ItemsOf(Opened)
              /\ \A p \in Pieces, q \in ItemsOf(t) : Passed(p) => p < q
              /\ \A i \in (pos + 1)..Len(Opened) : Opened[i] \in ItemsOf(t)
<1>1. PICK t \in Seq(Pieces) :
        /\ buf' = buf \o t /\ Len(t) = Len(Opened) - pos
        /\ ItemsOf(t) \subseteq ItemsOf(Opened)
        /\ \A p \in ItemsOf(t) : \E i \in 1..Len(Opened) : i > pos /\ p = Opened[i]
        /\ \A i \in (pos + 1)..Len(Opened) : Opened[i] \in ItemsOf(t)
        /\ Increasing(Opened) => Increasing(t)
  BY FillTakes
<1>2. Increasing(buf) /\ Increasing(t)
  BY <1>1, WrittenParts DEF Opened, Good
<1>3. \A p \in Pieces, q \in ItemsOf(t) : Passed(p) => p < q
  BY <1>1 DEF Ahead, Fill
<1>4. \A p \in ItemsOf(buf) : p \in Pieces /\ Passed(p)
  BY ItemsInSeq DEF TypeOK, Passed
<1>5. buf \in Seq(Pieces)
  BY DEF TypeOK
<1>6. Len(buf \o t) = Len(buf) + Len(t) /\ ItemsOf(buf \o t) = ItemsOf(buf) \cup ItemsOf(t)
  BY <1>5, JoinInOrder
<1>7. Increasing(buf \o t)
  BY <1>2, <1>3, <1>4, <1>5, JoinInOrder
<1> QED
  BY <1>1, <1>3, <1>6, <1>7

LEMMA WrittenStep == ASSUME TypeOK, Written, Ahead, [Next]_vars PROVE Written'
<1>0. /\ Good(file) /\ Good(held) /\ Good(todo) /\ Good(buf) /\ Good(Opened) /\ Good(<<>>)
      /\ \A p \in Pieces : Given(p) => p <= written
  BY WrittenParts, NothingInOrder DEF Opened, Good
<1>1. ASSUME NEW n \in {1, 2}, Write(n) PROVE Written'
  <2>1. PICK t \in Seq(Pieces) : /\ file' = file \o t /\ Increasing(t)
                                 /\ written' \in 0..MaxPieces
                                 /\ \A p \in ItemsOf(t) : written < p /\ p <= written'
    BY <1>1, WritesPieces
  <2>2. written \in Nat /\ written' \in Nat /\ written <= written'
    BY <1>1, BoundsAssumption DEF Write, TypeOK
  <2>3. /\ ItemsOf(file) \subseteq Pieces /\ ItemsOf(held) \subseteq Pieces /\ ItemsOf(todo) \subseteq Pieces
        /\ ItemsOf(buf) \subseteq Pieces /\ ItemsOf(t) \subseteq Pieces
    BY ItemsInSeq DEF TypeOK
  <2>4. Pieces \subseteq Nat
    BY BoundsAssumption DEF Pieces
  <2>5. ASSUME NEW p \in ItemsOf(file), NEW q \in ItemsOf(t) PROVE p < q
    <3>1. p \in Nat /\ q \in Nat /\ p <= written /\ written < q
      BY <1>0, <2>1, <2>3, <2>4 DEF Good
    <3> QED
      BY <2>2, <3>1
  <2>6. Increasing(file \o t) /\ ItemsOf(file \o t) = ItemsOf(file) \cup ItemsOf(t)
    BY <1>0, <2>1, <2>5, JoinInOrder DEF TypeOK, Good
  <2>7. \A p \in Nat : p <= written => p <= written'
    BY <2>2
  <2>8. Increasing(file') /\ \A p \in ItemsOf(file') : p <= written'
    <3>1. \A p \in ItemsOf(file) : p <= written'
      BY <1>0, <2>3, <2>4, <2>7 DEF Good
    <3> QED
      BY <2>1, <2>6, <3>1
  <2>9. UNCHANGED <<held, todo, buf, delivered>>
    BY <1>1 DEF Write, readerVars, historyVars
  <2>10. Good(held)' /\ Good(todo)' /\ Good(buf)'
    BY <1>0, <2>3, <2>4, <2>7, <2>9 DEF Good, Increasing, ItemsOf
  <2>11. \A p \in Pieces : Given(p)' => p <= written'
    BY <1>0, <2>4, <2>7, <2>9 DEF Given
  <2>12. Good(file)'
    BY <2>8 DEF Good, Increasing, ItemsOf
  <2> QED
    BY <2>10, <2>11, <2>12 DEF Written, Good
<1>2. ASSUME written' = written, Good(file'), Good(held'), Good(todo'), Good(buf'),
             \A p \in Pieces : Given(p)' => p <= written
      PROVE  Written'
  BY <1>2 DEF Written, Good, Increasing, ItemsOf
<1>3. ASSUME delivered' = delivered PROVE \A p \in Pieces : Given(p)' => p <= written
  BY <1>0, <1>3 DEF Given
<1>4. ASSUME NEW s \in Seq(Pieces), Good(s) PROVE Good(AfterLine(s)) /\ Good(LastLines(s))
  BY <1>4, LineParts, LastLinesParts DEF Good
<1>5. ASSUME NEW s \in Seq(Pieces), Good(s), Deliver(FirstLine(s))
      PROVE  \A p \in Pieces : Given(p)' => p <= written
  <2>1. FirstLine(s) \in Seq(Pieces) /\ \A p \in ItemsOf(FirstLine(s)) : p <= written
    BY <1>5, LineParts DEF Good
  <2> QED
    BY <1>0, <1>5, <2>1, DeliverAdds
<1>6. CASE Truncate \/ Rename
  BY <1>0, <1>2, <1>3, <1>6 DEF Truncate, Rename, readerVars, historyVars
<1>7. CASE Open
  <2>1. Good(todo')
    BY <1>0, <1>4, <1>7 DEF Open, TypeOK
  <2> QED
    BY <1>0, <1>2, <1>3, <1>7, <2>1 DEF Open, historyVars
<1>8. CASE InitialLine
  <2>1. Good(todo') /\ \A p \in Pieces : Given(p)' => p <= written
    BY <1>0, <1>4, <1>5, <1>8 DEF InitialLine, TypeOK
  <2> QED
    BY <1>0, <1>2, <1>8, <2>1 DEF InitialLine, fileVars
<1>9. CASE ReadLine
  <2>1. Good(buf') /\ \A p \in Pieces : Given(p)' => p <= written
    BY <1>0, <1>4, <1>5, <1>9 DEF ReadLine, TypeOK
  <2> QED
    BY <1>0, <1>2, <1>9, <2>1 DEF ReadLine, fileVars
<1>10. CASE Restart
  <2>1. \A p : ~Given(p)'
    BY <1>10 DEF Restart, Given
  <2> QED
    BY <1>0, <1>2, <1>10, <2>1 DEF Restart
<1>11. CASE Fill
  <2>1. Good(buf')
    <3>1. PICK t \in Seq(Pieces) :
            /\ Increasing(buf') /\ ItemsOf(buf') = ItemsOf(buf) \cup ItemsOf(t)
            /\ ItemsOf(t) \subseteq ItemsOf(Opened)
      BY <1>11, FillInOrder
    <3> QED
      BY <1>0, <3>1 DEF Good
  <2> QED
    BY <1>0, <1>2, <1>3, <1>11, <2>1 DEF Fill, fileVars, historyVars
<1>12. ASSUME UNCHANGED <<file, held, written, todo, delivered>>, buf' \in {buf, <<>>} PROVE Written'
  BY <1>0, <1>2, <1>3, <1>12
<1>13. CASE SeekEnd \/ EndOfFile \/ ReadFails \/ StatShrunk \/ Stop \/ OpenFails
  BY <1>12, <1>13 DEF SeekEnd, EndOfFile, ReadFails, StatShrunk, Stop, OpenFails,
                      fileVars, readerVars, historyVars
<1>14. CASE Proceed \/ NewSecond \/ StopSeen \/ StatSame \/ Poll \/ UNCHANGED vars
  BY <1>12, <1>14 DEF Proceed, NewSecond, StopSeen, StatSame, Poll, vars, fileVars, readerVars, historyVars
<1> QED
  BY <1>1, <1>6, <1>7, <1>8, <1>9, <1>10, <1>11, <1>13, <1>14 DEF Next, TailerStep, ReadString

LEMMA BeginningStep == ASSUME TypeOK, Written, Beginning, [Next]_vars PROVE Beginning'
<1>1. ASSUME UNCHANGED <<pc, pos, buf, todo, delivered>> PROVE Beginning'
  BY <1>1 DEF Beginning, Given
<1>2. ASSUME NEW n \in {1, 2}, Write(n) PROVE Beginning'
  BY <1>1, <1>2 DEF Write, readerVars, historyVars
<1>3. CASE Truncate \/ Rename \/ Stop \/ UNCHANGED vars
  BY <1>1, <1>3 DEF Truncate, Rename, Stop, vars, readerVars, historyVars
<1>4. CASE Open
  <2>1. pos' = 0 /\ buf' = <<>> /\ delivered' = <<>> /\ pc' = "initial"
    BY <1>4 DEF Open, Beginning, historyVars
  <2>2. \A p : ~Given(p)'
    BY <2>1 DEF Given
  <2> QED
    BY <2>1, <2>2 DEF Beginning
<1>5. CASE InitialLine
  <2>1. /\ FirstLine(todo) \in Seq(Pieces) /\ Deliver(FirstLine(todo))
        /\ ItemsOf(todo) = ItemsOf(FirstLine(todo)) \cup ItemsOf(AfterLine(todo))
        /\ \A p \in ItemsOf(FirstLine(todo)), q \in ItemsOf(AfterLine(todo)) : p < q
    BY <1>5, LineParts, WrittenParts DEF InitialLine, TypeOK, Good
  <2>2. \A p : Given(p)' <=> Given(p) \/ p \in ItemsOf(FirstLine(todo))
    BY <2>1, DeliverAdds
  <2>3. pc' = "initial" /\ pos' = 0 /\ buf' = <<>> /\ todo' = AfterLine(todo) /\ pc = "initial"
    BY <1>5 DEF InitialLine, Beginning
  <2>4. \A p \in Pieces, q \in ItemsOf(AfterLine(todo)) : Given(p)' => p < q
    BY <2>1, <2>2, <2>3 DEF Beginning
  <2> QED
    BY <2>3, <2>4 DEF Beginning, ItemsOf
<1>6. CASE Restart
  BY <1>6 DEF Restart, Beginning
<1>7. CASE pc' \notin {"start", "initial"}
  BY <1>7 DEF Beginning
<1>8. CASE OpenFails \/ SeekEnd \/ Proceed \/ NewSecond \/ StopSeen \/ ReadString \/ StatShrunk \/ StatSame \/ Poll
  BY <1>7, <1>8 DEF OpenFails, SeekEnd, Proceed, NewSecond, StopSeen, ReadString, ReadLine, Fill,
                    EndOfFile, ReadFails, StatShrunk, StatSame, Poll
<1> QED
  BY <1>2, <1>3, <1>4, <1>5, <1>6, <1>8 DEF Next, TailerStep

LEMMA InOrderStep == ASSUME TypeOK, Written, Beginning, InOrder, Ahead, [Next]_vars PROVE InOrder'
<1>0. LinesInOrder /\ \A p, q : Given(p) /\ q \in ItemsOf(buf) => p < q
  BY InOrderParts
<1>00. \A p : Given(p) => p \in Pieces
  BY ItemsInSeq DEF Given, TypeOK
<1>000. ItemsOf(<<>>) = {}
  BY NothingInOrder
<1>1. ASSUME LinesInOrder', \A p, q : Given(p)' /\ q \in ItemsOf(buf') => p < q PROVE InOrder'
  BY <1>1 DEF InOrder, LinesInOrder, Given, ItemsOf
<1>2. ASSUME UNCHANGED delivered, buf' \in {buf, <<>>} PROVE InOrder'
  <2>1. LinesInOrder' /\ \A p : Given(p)' <=> Given(p)
    BY <1>0, <1>2 DEF LinesInOrder, Given
  <2> QED
    BY <1>0, <1>000, <1>1, <1>2, <2>1
<1>3. ASSUME NEW n \in {1, 2}, Write(n) PROVE InOrder'
  BY <1>2, <1>3 DEF Write, readerVars, historyVars
<1>4. CASE InitialLine
  <2>1. /\ FirstLine(todo) \in Seq(Pieces) /\ Deliver(FirstLine(todo)) /\ Increasing(FirstLine(todo))
        /\ ItemsOf(FirstLine(todo)) \subseteq ItemsOf(todo)
    BY <1>4, LineParts, WrittenParts DEF InitialLine, TypeOK, Good
  <2>2. \A p, q : Given(p) /\ q \in ItemsOf(FirstLine(todo)) => p < q
    BY <1>4, <1>00, <2>1 DEF InitialLine, Beginning
  <2>3. LinesInOrder'
    BY <1>0, <2>1, <2>2, NextLineInOrder
  <2>4. buf' = <<>>
    BY <1>4 DEF InitialLine, Beginning
  <2> QED
    BY <1>000, <1>1, <2>3, <2>4
<1>5. CASE ReadLine
  <2>1. /\ FirstLine(buf) \in Seq(Pieces) /\ Deliver(FirstLine(buf)) /\ Increasing(FirstLine(buf))
        /\ ItemsOf(buf) = ItemsOf(FirstLine(buf)) \cup ItemsOf(AfterLine(buf))
        /\ \A p \in ItemsOf(FirstLine(buf)), q \in ItemsOf(AfterLine(buf)) : p < q
    BY <1>5, LineParts, WrittenParts DEF ReadLine, TypeOK, Good
  <2>2. LinesInOrder'
    BY <1>0, <2>1, NextLineInOrder
  <2>3. \A p : Given(p)' <=> Given(p) \/ p \in ItemsOf(FirstLine(buf))
    BY <2>1, DeliverAdds
  <2>4. buf' = AfterLine(buf)
    BY <1>5 DEF ReadLine
  <2> QED
    BY <1>0, <1>1, <2>1, <2>2, <2>3, <2>4
<1>6. CASE Fill
  <2>1. PICK t \in Seq(Pieces) :
          /\ ItemsOf(buf') = ItemsOf(buf) \cup ItemsOf(t)
          /\ \A p \in Pieces, q \in ItemsOf(t) : Passed(p) => p < q
    BY <1>6, FillInOrder
  <2>2. UNCHANGED delivered
    BY <1>6 DEF Fill, historyVars
  <2>3. LinesInOrder' /\ \A p : Given(p)' <=> Given(p)
    BY <1>0, <2>2 DEF LinesInOrder, Given
  <2> QED
    BY <1>0, <1>00, <1>1, <2>1, <2>3 DEF Passed
<1>7. CASE Restart
  <2>1. delivered' = <<>>
    BY <1>7 DEF Restart
  <2> QED
    BY <2>1 DEF InOrder
<1>8. CASE Truncate \/ Rename \/ Open \/ OpenFails \/ SeekEnd \/ EndOfFile \/ ReadFails \/ StatShrunk \/ Stop
  BY <1>2, <1>8 DEF Truncate, Rename, Open, OpenFails, SeekEnd, EndOfFile, ReadFails, StatShrunk, Stop,
                    readerVars, historyVars
<1>9. CASE Proceed \/ NewSecond \/ StopSeen \/ StatSame \/ Poll \/ UNCHANGED vars
  BY <1>2, <1>9 DEF Proceed, NewSecond, StopSeen, StatSame, Poll, vars, readerVars, historyVars
<1> QED
  BY <1>3, <1>4, <1>5, <1>6, <1>7, <1>8, <1>9 DEF Next, TailerStep, ReadString

-----------------------------------------------------------------------------
(* The position in the open file *)

\* A write leaves what the open file has, and adds what is new.
LEMMA OpenedGrows ==
    ASSUME TypeOK, NEW n \in {1, 2}, Write(n)
    PROVE  /\ Opened' \in Seq(Pieces) /\ Len(Opened) <= Len(Opened')
           /\ \A i \in 1..Len(Opened) : Opened'[i] = Opened[i]
           /\ \A i \in (Len(Opened) + 1)..Len(Opened') : Opened'[i] \in Nat /\ Opened'[i] > written
<1>1. PICK t \in Seq(Pieces) : file' = file \o t /\ \A p \in ItemsOf(t) : written < p
  BY WritesPieces
<1>2. renamed' = renamed /\ held' = held
  BY DEF Write
<1>3. CASE renamed
  <2>1. Opened' = Opened /\ Opened \in Seq(Pieces)
    BY <1>2, <1>3 DEF Opened, TypeOK
  <2>2. PICK m \in Nat : m = Len(Opened)
    BY <2>1
  <2> QED
    BY <2>1, <2>2
<1>4. CASE ~renamed
  <2>1. Opened = file /\ Opened' = file'
    BY <1>2, <1>4 DEF Opened
  <2>2. /\ file \o t \in Seq(Pieces) /\ Len(file \o t) = Len(file) + Len(t)
        /\ \A i \in 1..Len(file) : (file \o t)[i] = file[i]
        /\ \A i \in (Len(file) + 1)..Len(file \o t) : (file \o t)[i] \in ItemsOf(t)
    BY JoinInOrder DEF TypeOK
  <2>3. Len(file) <= Len(file \o t)
    BY <2>2 DEF TypeOK
  <2>4. ItemsOf(t) \subseteq Nat
    BY ItemsInSeq, BoundsAssumption DEF Pieces
  <2> QED
    BY <1>1, <2>1, <2>2, <2>3, <2>4
<1> QED
  BY <1>3, <1>4

LEMMA AheadStep ==
    ASSUME TypeOK, Written, Beginning, Ahead, OffsetBehind, [Next]_vars
    PROVE  Ahead'
<1>0. /\ Opened \in Seq(Pieces) /\ Len(Opened) \in Nat /\ pos \in Nat /\ written \in Nat
      /\ Pieces \subseteq Nat
  BY BoundsAssumption DEF TypeOK, Opened, Pieces
<1>1. ASSUME pos' = pos, Opened' = Opened, pc \notin {"start", "initial"}, \A p \in Pieces : Passed(p)' => Passed(p)
      PROVE  Ahead'
  BY <1>1 DEF Ahead
<1>2. CASE pc' \in {"start", "initial"}
  BY <1>2 DEF Ahead
<1>3. ASSUME NEW n \in {1, 2}, Write(n), pc' \notin {"start", "initial"} PROVE Ahead'
  <2>1. PICK m \in Nat, k \in Nat :
          /\ m = Len(Opened) /\ k = Len(Opened') /\ m <= k
          /\ \A i \in 1..m : Opened'[i] = Opened[i]
          /\ \A i \in (m + 1)..k : Opened'[i] \in Nat /\ Opened'[i] > written
    BY <1>0, <1>3, OpenedGrows
  <2>2. UNCHANGED <<pos, pc, delivered, buf>>
    BY <1>3 DEF Write, readerVars, historyVars
  <2>3. \A p \in Pieces : (Passed(p)' <=> Passed(p)) /\ (Passed(p) => p <= written)
    BY <2>2, WrittenParts DEF Passed, Given, Good
  <2>4. ASSUME NEW i \in 1..k, i > pos \/ k < pos, NEW p \in Pieces, Passed(p) PROVE p < Opened'[i]
    <3>1. CASE i <= m
      <4>1. i \in 1..m /\ (i > pos \/ m < pos)
        BY <1>0, <2>1, <2>4, <3>1
      <4>2. p < Opened[i] /\ Opened'[i] = Opened[i]
        BY <1>3, <2>1, <2>2, <2>4, <4>1 DEF Ahead
      <4> QED
        BY <4>2
    <3>2. CASE i > m
      <4>1. i \in (m + 1)..k /\ p <= written /\ p \in Nat
        BY <1>0, <2>1, <2>3, <2>4, <3>2
      <4>2. Opened'[i] \in Nat /\ Opened'[i] > written
        BY <2>1, <4>1
      <4>3. PICK o \in Nat : o = Opened'[i]
        BY <4>2
      <4>4. p < o
        BY <1>0, <4>1, <4>2, <4>3
      <4> QED
        BY <4>3, <4>4
    <3> QED
      BY <2>1, <3>1, <3>2
  <2> QED
    BY <2>1, <2>2, <2>3, <2>4 DEF Ahead
<1>4. CASE Truncate /\ pc' \notin {"start", "initial"}
  <2>1. UNCHANGED <<pos, pc, delivered, buf, renamed, held>> /\ file' = <<>>
    BY <1>4 DEF Truncate, readerVars, historyVars
  <2>2. Opened' = Opened \/ Opened' = <<>>
    BY <2>1 DEF Opened
  <2>3. \A p \in Pieces : Passed(p)' <=> Passed(p)
    BY <2>1 DEF Passed, Given
  <2> QED
    BY <1>1, <1>4, <2>1, <2>2, <2>3 DEF Ahead
<1>5. CASE Rename /\ pc' \notin {"start", "initial"}
  <2>1. UNCHANGED <<pos, pc, delivered, buf>> /\ Opened' = Opened
    BY <1>5 DEF Rename, Opened, readerVars, historyVars
  <2>2. \A p \in Pieces : Passed(p)' <=> Passed(p)
    BY <2>1 DEF Passed, Given
  <2> QED
    BY <1>1, <1>5, <2>1, <2>2
<1>6. CASE OpenFails
  <2>1. UNCHANGED <<delivered, buf>> /\ delivered = <<>> /\ buf = <<>>
    BY <1>6 DEF OpenFails, Beginning, readerVars, historyVars
  <2>2. \A p : ~Passed(p)'
    BY <2>1, NothingInOrder DEF Passed, Given
  <2> QED
    BY <2>2 DEF Ahead
<1>7. CASE SeekEnd \/ Fill
  <2>1. pos' = Len(Opened) /\ Opened' = Opened
    BY <1>7 DEF SeekEnd, Fill, Opened, fileVars
  <2> QED
    BY <1>0, <2>1 DEF Ahead
<1>8. CASE ReadLine
  <2>1. /\ FirstLine(buf) \in Seq(Pieces) /\ Deliver(FirstLine(buf)) /\ buf' = AfterLine(buf)
        /\ ItemsOf(buf) = ItemsOf(FirstLine(buf)) \cup ItemsOf(AfterLine(buf))
    BY <1>8, LineParts DEF ReadLine, TypeOK
  <2>2. \A p : Given(p)' <=> Given(p) \/ p \in ItemsOf(FirstLine(buf))
    BY <2>1, DeliverAdds
  <2>3. \A p \in Pieces : Passed(p)' => Passed(p)
    BY <2>1, <2>2 DEF Passed, ItemsOf
  <2>4. pos' = pos /\ Opened' = Opened /\ pc = "read"
    BY <1>8 DEF ReadLine, Opened, fileVars
  <2> QED
    BY <1>1, <2>3, <2>4
<1>9. CASE EndOfFile \/ ReadFails
  <2>1. UNCHANGED <<pos, delivered>> /\ Opened' = Opened /\ buf' = <<>> /\ pc = "read"
    BY <1>9 DEF EndOfFile, ReadFails, Opened, fileVars
  <2>2. \A p \in Pieces : Passed(p)' => Passed(p)
    BY <2>1, NothingInOrder DEF Passed, Given
  <2> QED
    BY <1>1, <2>1, <2>2
<1>10. CASE StatShrunk
  <2>1. UNCHANGED <<delivered>> /\ Opened' = Opened /\ buf' = <<>> /\ pc = "stat"
    BY <1>10 DEF StatShrunk, Opened, historyVars
  <2>2. \A p \in Pieces : Passed(p)' => Passed(p)
    BY <2>1, NothingInOrder DEF Passed, Given
  <2>3. Len(Opened) < pos
    <3>1. Len(Opened) < offset /\ offset \in Nat /\ Len(buf) \in Nat
      BY <1>10 DEF StatShrunk, TypeOK
    <3> QED
      BY <1>0, <3>1 DEF OffsetBehind
  <2> QED
    BY <2>1, <2>2, <2>3 DEF Ahead
<1>11. CASE Proceed \/ NewSecond \/ StopSeen \/ StatSame \/ Poll
  <2>1. UNCHANGED <<pos, delivered, buf>> /\ Opened' = Opened /\ pc \notin {"start", "initial"}
    BY <1>11 DEF Proceed, NewSecond, StopSeen, StatSame, Poll, Opened, fileVars, readerVars, historyVars
  <2>2. \A p \in Pieces : Passed(p)' => Passed(p)
    BY <2>1 DEF Passed, Given
  <2> QED
    BY <1>1, <2>1, <2>2
<1>12. CASE (Stop \/ UNCHANGED vars) /\ pc' \notin {"start", "initial"}
  <2>1. UNCHANGED <<pos, delivered, buf, pc>> /\ Opened' = Opened
    BY <1>12 DEF Stop, Opened, vars, fileVars, readerVars, historyVars
  <2>2. \A p \in Pieces : Passed(p)' => Passed(p)
    BY <2>1 DEF Passed, Given
  <2> QED
    BY <1>1, <1>12, <2>1, <2>2
<1>13. CASE Open \/ InitialLine \/ Restart
  BY <1>2, <1>13 DEF Open, InitialLine, Restart
<1> QED
  BY <1>2, <1>3, <1>4, <1>5, <1>6, <1>7, <1>8, <1>9, <1>10, <1>11, <1>12, <1>13
     DEF Next, TailerStep, ReadString

LEMMA OffsetBehindStep == ASSUME TypeOK, Written, Beginning, Ahead, OffsetBehind, [Next]_vars PROVE OffsetBehind'
<1>0. /\ pos \in Nat /\ offset \in Nat /\ Len(buf) \in Nat /\ Len(Opened) \in Nat
      /\ offset + Len(buf) <= pos /\ Len(<<>>) = 0
  BY DEF TypeOK, Opened, OffsetBehind
<1>1. ASSUME UNCHANGED <<pos, offset, buf>> PROVE OffsetBehind'
  BY <1>1 DEF OffsetBehind
<1>2. ASSUME NEW n \in {1, 2}, Write(n) PROVE OffsetBehind'
  BY <1>1, <1>2 DEF Write, readerVars
<1>3. CASE Truncate \/ Rename \/ Open \/ OpenFails \/ InitialLine \/ Stop \/ UNCHANGED vars
  BY <1>1, <1>3 DEF Truncate, Rename, Open, OpenFails, InitialLine, Stop, vars, readerVars
<1>4. CASE Proceed \/ NewSecond \/ StopSeen \/ StatSame \/ Poll
  BY <1>1, <1>4 DEF Proceed, NewSecond, StopSeen, StatSame, Poll, readerVars
<1>5. CASE SeekEnd
  <2>1. pos' = Len(Opened) /\ offset' = Len(Opened) /\ buf' = <<>>
    BY <1>5 DEF SeekEnd, Beginning
  <2> QED
    BY <1>0, <2>1 DEF OffsetBehind
<1>6. CASE ReadLine
  <2>1. Len(FirstLine(buf)) \in Nat /\ Len(AfterLine(buf)) = Len(buf) - Len(FirstLine(buf))
    BY LineParts DEF TypeOK
  <2>2. pos' = pos /\ buf' = AfterLine(buf) /\ offset' = offset + Len(FirstLine(buf))
    BY <1>6 DEF ReadLine
  <2> QED
    BY <1>0, <2>1, <2>2 DEF OffsetBehind
<1>7. CASE Fill
  <2>1. Len(buf') = Len(buf) + (Len(Opened) - pos)
    BY <1>7, FillInOrder
  <2>2. pos' = Len(Opened) /\ offset' = offset
    BY <1>7 DEF Fill
  <2> QED
    BY <1>0, <2>1, <2>2 DEF OffsetBehind
<1>8. CASE EndOfFile \/ ReadFails
  <2>1. pos' = pos /\ offset' = offset /\ buf' = <<>>
    BY <1>8 DEF EndOfFile, ReadFails
  <2> QED
    BY <1>0, <2>1 DEF OffsetBehind
<1>9. CASE StatShrunk \/ Restart
  <2>1. pos' = 0 /\ offset' = 0 /\ buf' = <<>>
    BY <1>9 DEF StatShrunk, Restart
  <2> QED
    BY <1>0, <2>1 DEF OffsetBehind
<1> QED
  BY <1>2, <1>3, <1>4, <1>5, <1>6, <1>7, <1>8, <1>9 DEF Next, TailerStep, ReadString

-----------------------------------------------------------------------------
(* Nothing is skipped *)

LEMMA TakenParts == \A p : p \in Taken <=> Given(p) \/ p \in ItemsOf(buf) \/ p \in dropped
BY DEF Taken, Given

\* NothingSkipped, but for what OffsetBehind says.
Covered ==
    Tailing /\ ~shrunk =>
        from <= pos /\ pos <= Len(Opened) /\ \A i \in (from + 1)..pos : Opened[i] \in Taken

LEMMA NothingSkippedParts == ASSUME TypeOK, OffsetBehind PROVE NothingSkipped <=> Covered
<1>1. offset <= pos - Len(buf)
  <2>1. offset \in Nat /\ pos \in Nat /\ Len(buf) \in Nat
    BY DEF TypeOK
  <2> QED
    BY <2>1 DEF OffsetBehind
<1> QED
  BY <1>1 DEF NothingSkipped, Covered

LEMMA CoveredStep == ASSUME TypeOK, Written, Ahead, Covered, [Next]_vars PROVE Covered'
<1>0. /\ Opened \in Seq(Pieces) /\ Len(Opened) \in Nat /\ pos \in Nat /\ from \in Nat
  BY DEF TypeOK, Opened
<1>t. \A p : p \in Taken' <=> Given(p)' \/ p \in ItemsOf(buf') \/ p \in dropped'
  BY DEF Taken, Given, ItemsOf
<1>1. ASSUME UNCHANGED <<from, pos>>, Opened' = Opened, Taken \subseteq Taken',
             Tailing' /\ ~shrunk' => Tailing /\ ~shrunk
      PROVE  Covered'
  BY <1>1 DEF Covered
<1>2. ASSUME UNCHANGED <<delivered, buf, dropped>> PROVE Taken' = Taken
  BY <1>2 DEF Taken
<1>3. ASSUME NEW n \in {1, 2}, Write(n) PROVE Covered'
  <2>1. PICK m \in Nat, k \in Nat : /\ m = Len(Opened) /\ k = Len(Opened') /\ m <= k
                                    /\ \A i \in 1..m : Opened'[i] = Opened[i]
    BY <1>0, <1>3, OpenedGrows
  <2>2. UNCHANGED <<pos, from, shrunk, pc>> /\ Taken' = Taken
    BY <1>2, <1>3 DEF Write, readerVars, historyVars
  <2>3. SUFFICES ASSUME Tailing, ~shrunk
                 PROVE  from <= pos /\ pos <= k /\ \A i \in (from + 1)..pos : Opened'[i] \in Taken
    BY <2>1, <2>2 DEF Covered, Tailing
  <2>4. from <= pos /\ pos <= m /\ \A i \in (from + 1)..pos : Opened[i] \in Taken
    BY <2>1, <2>3 DEF Covered
  <2>5. \A i \in (from + 1)..pos : i \in 1..m
    BY <1>0, <2>1, <2>4
  <2> QED
    BY <1>0, <2>1, <2>4, <2>5
<1>4. CASE Truncate
  <2>1. UNCHANGED <<pos, from, pc, delivered, buf, dropped>> /\ (~shrunk' => ~shrunk /\ Opened' = Opened)
    BY <1>4 DEF Truncate, Opened, readerVars, historyVars
  <2> QED
    BY <1>1, <1>2, <2>1 DEF Covered, Tailing
<1>5. CASE Rename
  <2>1. UNCHANGED <<pos, from, pc, shrunk, delivered, buf, dropped>> /\ Opened' = Opened
    BY <1>5 DEF Rename, Opened, readerVars, historyVars
  <2> QED
    BY <1>1, <1>2, <2>1 DEF Tailing
<1>6. CASE Open \/ OpenFails \/ InitialLine \/ Restart
  BY <1>6 DEF Open, OpenFails, InitialLine, Restart, Covered, Tailing
<1>7. CASE SeekEnd \/ StatShrunk
  <2>1. from' = pos' /\ pos' \in 0..Len(Opened) /\ Opened' = Opened
    BY <1>0, <1>7 DEF SeekEnd, StatShrunk, Opened
  <2>2. PICK p \in Nat : p = pos' /\ p <= Len(Opened)
    BY <1>0, <2>1
  <2>3. p <= p /\ \A i \in (p + 1)..p : FALSE
    OBVIOUS
  <2>4. from' <= pos' /\ pos' <= Len(Opened') /\ \A i \in (from' + 1)..pos' : FALSE
    BY <2>1, <2>2, <2>3
  <2> QED
    BY <2>4 DEF Covered
<1>8. CASE ReadLine
  <2>1. /\ FirstLine(buf) \in Seq(Pieces) /\ Deliver(FirstLine(buf)) /\ buf' = AfterLine(buf)
        /\ ItemsOf(buf) = ItemsOf(FirstLine(buf)) \cup ItemsOf(AfterLine(buf))
    BY <1>8, LineParts DEF ReadLine, TypeOK
  <2>2. \A p : Given(p)' <=> Given(p) \/ p \in ItemsOf(FirstLine(buf))
    BY <2>1, DeliverAdds
  <2>3. UNCHANGED <<from, pos, shrunk, dropped>> /\ Opened' = Opened /\ pc = "read"
    BY <1>8 DEF ReadLine, Opened, fileVars
  <2>4. Taken \subseteq Taken'
    BY <1>t, <2>1, <2>2, <2>3, TakenParts
  <2> QED
    BY <1>1, <2>3, <2>4 DEF Tailing
<1>9. CASE Fill
  <2>1. PICK t \in Seq(Pieces) : /\ ItemsOf(buf') = ItemsOf(buf) \cup ItemsOf(t)
                                 /\ \A i \in (pos + 1)..Len(Opened) : Opened[i] \in ItemsOf(t)
    BY <1>9, FillInOrder
  <2>2. /\ UNCHANGED <<from, shrunk, dropped, delivered, pc>> /\ Opened' = Opened
        /\ pos' = Len(Opened) /\ pos < Len(Opened)
    BY <1>9 DEF Fill, Opened, fileVars, historyVars
  <2>3. \A p : Given(p)' <=> Given(p)
    BY <2>2 DEF Given
  <2>4. Taken' = Taken \cup ItemsOf(t)
    BY <1>t, <2>1, <2>2, <2>3, TakenParts
  <2>5. SUFFICES ASSUME Tailing, ~shrunk
                 PROVE  from <= Len(Opened) /\ \A i \in (from + 1)..Len(Opened) : Opened[i] \in Taken'
    BY <1>0, <2>2 DEF Covered, Tailing
  <2>6. from <= pos /\ \A i \in (from + 1)..pos : Opened[i] \in Taken
    BY <2>5 DEF Covered
  <2>7. \A i \in (from + 1)..Len(Opened) : i \in (from + 1)..pos \/ i \in (pos + 1)..Len(Opened)
    BY <1>0
  <2> QED
    BY <1>0, <2>1, <2>2, <2>4, <2>6, <2>7
<1>10. CASE EndOfFile \/ ReadFails
  <2>1. /\ UNCHANGED <<from, pos, shrunk, delivered>> /\ Opened' = Opened /\ pc = "read"
        /\ dropped' = dropped \cup ItemsOf(buf)
    BY <1>10 DEF EndOfFile, ReadFails, Opened, fileVars
  <2>2. \A p : Given(p)' <=> Given(p)
    BY <2>1 DEF Given
  <2>3. Taken \subseteq Taken'
    BY <1>t, <2>1, <2>2, TakenParts
  <2> QED
    BY <1>1, <2>1, <2>3 DEF Tailing
<1>11. CASE Proceed \/ NewSecond \/ StopSeen \/ StatSame \/ Poll \/ Stop \/ UNCHANGED vars
  <2>1. UNCHANGED <<from, pos, shrunk, delivered, buf, dropped>> /\ Opened' = Opened
    BY <1>11 DEF Proceed, NewSecond, StopSeen, StatSame, Poll, Stop, Opened, vars, fileVars, readerVars, historyVars
  <2>2. Tailing' => Tailing
    BY <1>11 DEF Proceed, NewSecond, StopSeen, StatSame, Poll, Stop, Tailing, vars
  <2> QED
    BY <1>1, <1>2, <2>1, <2>2
<1> QED
  BY <1>3, <1>4, <1>5, <1>6, <1>7, <1>8, <1>9, <1>10, <1>11 DEF Next, TailerStep, ReadString

-----------------------------------------------------------------------------
(* The inductive invariant *)

LEMMA InvInit == ASSUME Init PROVE HarvesterInv
<1>1. TypeOK /\ RateRoom
  BY TypeInit
<1>2. /\ file = <<>> /\ held = <<>> /\ todo = <<>> /\ buf = <<>> /\ delivered = <<>>
      /\ pc = "start" /\ pos = 0 /\ offset = 0 /\ Len(<<>>) = 0
  BY DEF Init
<1>3. \A p : ~Given(p)
  BY <1>2 DEF Given
<1>4. Written
  BY <1>2, <1>3, NothingInOrder DEF Written
<1>5. InOrder
  BY <1>2 DEF InOrder
<1>6. Beginning /\ Ahead /\ OffsetBehind /\ NothingSkipped
  BY <1>2 DEF Beginning, Ahead, OffsetBehind, NothingSkipped, Tailing
<1> QED
  BY <1>1, <1>4, <1>5, <1>6 DEF HarvesterInv

LEMMA InvStep == ASSUME HarvesterInv, [Next]_vars PROVE HarvesterInv'
<1>0. TypeOK /\ RateRoom /\ Written /\ Beginning /\ InOrder /\ Ahead /\ OffsetBehind /\ NothingSkipped
  BY DEF HarvesterInv
<1>1. TypeOK' /\ RateRoom'
  BY <1>0, TypeStep
<1>2. Written' /\ Beginning' /\ InOrder'
  BY <1>0, WrittenStep, BeginningStep, InOrderStep
<1>3. Ahead' /\ OffsetBehind'
  BY <1>0, AheadStep, OffsetBehindStep
<1>4. Covered'
  BY <1>0, NothingSkippedParts, CoveredStep
<1>5. TypeOK' /\ OffsetBehind' => (NothingSkipped' <=> Covered')
  BY NothingSkippedParts, PTL
<1>6. NothingSkipped'
  BY <1>1, <1>3, <1>4, <1>5
<1> QED
  BY <1>1, <1>2, <1>3, <1>6 DEF HarvesterInv

THEOREM InvHolds == Spec => []HarvesterInv
<1>1. Init => HarvesterInv
  BY InvInit
<1>2. HarvesterInv /\ [Next]_vars => HarvesterInv'
  BY InvStep
<1> QED
  BY <1>1, <1>2, PTL DEF Spec

\* Between two starts of the process no line is delivered twice or out of
\* order, whatever is truncated, renamed, torn or not readable
\* (tailFile, log_harvester.go:130).
THEOREM InOrderHolds == Spec => []InOrder
<1>1. HarvesterInv => InOrder
  BY DEF HarvesterInv
<1> QED
  BY <1>1, InvHolds, PTL

\* Unless the open file was truncated and that is not noticed yet, all that is
\* in it, from where tailing began to the read position, was delivered, is
\* buffered, or was dropped with an unfinished line (log_harvester.go:174).
THEOREM NothingSkippedHolds == Spec => []NothingSkipped
<1>1. HarvesterInv => NothingSkipped
  BY DEF HarvesterInv
<1> QED
  BY <1>1, InvHolds, PTL
=============================================================================
