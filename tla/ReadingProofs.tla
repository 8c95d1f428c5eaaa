---------------------------- MODULE ReadingProofs ----------------------------
(***************************************************************************)
(* Proofs about what readers of the server are given: the snapshots that   *)
(* the methods of RingBuffer return, for every capacity and all values,    *)
(* the pages of the log of LogPaging, for any entries, filters, limits and *)
(* retention, and what the log explorer of Dashboard shows.  The ring and  *)
(* the table share no state; the names of the second carry Table, Paging   *)
(* or Dash where those of the first are plain.                             *)
(*                                                                         *)
(* ReadsAgree needs that the methods compute the same slots (Contents,     *)
(* Filled).  PagingMissesNothing is inductive only with where the rows are *)
(* that the client was not given yet: as far down as its offset            *)
(* (StillAhead); PagedOnce with where those are that it was given          *)
(* (GivenAreAhead).  What the explorer shows depends on the answers still  *)
(* in flight (Fits).                                                       *)
(***************************************************************************)
EXTENDS RingBuffer, LogPaging, Dashboard, SequenceTheorems, FiniteSetTheorems, TLAPS

-----------------------------------------------------------------------------
(* RingBuffer *)

\* (head + 1) % capacity for a head in range (ringbuffer.go:42): the next slot,
\* or slot 0 after the last one.
LEMMA NextSlot ==
    ASSUME NEW h \in Slots
    PROVE  (h + 1) % Capacity = IF h + 1 = Capacity THEN 0 ELSE h + 1
<1> USE CapacityAssumption DEF CapacityAssumption, Slots
<1>1. CASE h + 1 = Capacity
  BY <1>1
<1>2. CASE h + 1 # Capacity
  BY <1>2
<1> QED
  BY <1>1, <1>2

\* The slot of the i-th oldest of n snapshots, when the next one goes to h
\* (ringbuffer.go:71-78).
SlotOf(h, n, i) ==
    IF n < Capacity THEN i - 1
    ELSE IF h + i <= Capacity THEN h + i - 1 ELSE h + i - 1 - Capacity

Values == Snapshots \cup {Unset}

\* GetAll, element by element.
Contents ==
    /\ GetAll \in Seq(Values)
    /\ Len(GetAll) = size
    /\ \A i \in 1..size : GetAll[i] = data[SlotOf(head, size, i)]

-----------------------------------------------------------------------------
\* The indices used by the methods stay in range for every capacity, and a
\* buffer that is not full is filled from slot 0 up.
THEOREM TypeCorrect == RingSpec => []TypeOK
<1> USE CapacityAssumption DEF CapacityAssumption, Slots
<1>1. RingInit => TypeOK
  BY DEF RingInit, TypeOK
<1>2. TypeOK /\ [RingNext]_ringVars => TypeOK'
  <2> SUFFICES ASSUME TypeOK, [RingNext]_ringVars PROVE TypeOK'
    OBVIOUS
  <2>1. ASSUME NEW s \in Snapshots, Push(s) PROVE TypeOK'
    <3>1. head' = IF head + 1 = Capacity THEN 0 ELSE head + 1
      BY <2>1, NextSlot DEF Push, TypeOK
    <3> QED
      BY <2>1, <3>1 DEF Push, TypeOK
  <2>2. CASE Clear
    BY <2>2 DEF Clear, TypeOK
  <2>3. CASE UNCHANGED ringVars
    BY <2>3 DEF ringVars, TypeOK
  <2> QED
    BY <2>1, <2>2, <2>3 DEF RingNext
<1> QED
  BY <1>1, <1>2, PTL DEF RingSpec

-----------------------------------------------------------------------------
\* data[from:to] of a slice of values (ringbuffer.go:73, 77-78).
LEMMA SliceProperties ==
    ASSUME data \in [Slots -> Values], NEW from \in 0..Capacity, NEW to \in from..Capacity
    PROVE  /\ Slice(from, to) \in Seq(Values)
           /\ Len(Slice(from, to)) = to - from
           /\ \A i \in 1..(to - from) : Slice(from, to)[i] = data[from + i - 1]
<1> USE CapacityAssumption DEF CapacityAssumption, Slots
<1>1. to - from \in Nat
  OBVIOUS
<1>2. Slice(from, to) \in [1..(to - from) -> Values]
  BY DEF Slice
<1>3. Slice(from, to) \in Seq(Values)
  BY <1>1, <1>2, SeqDef
<1>4. Len(Slice(from, to)) = to - from
  <2>1. DOMAIN Slice(from, to) = 1..Len(Slice(from, to)) /\ Len(Slice(from, to)) \in Nat
    BY <1>3, LenProperties
  <2>2. DOMAIN Slice(from, to) = 1..(to - from)
    BY <1>2
  <2> QED
    BY <1>1, <2>1, <2>2
<1> QED
  BY <1>3, <1>4 DEF Slice

\* GetAll returns the stored snapshots, oldest first, in one chunk or two.
LEMMA ContentsHold == TypeOK => Contents
<1> USE CapacityAssumption DEF CapacityAssumption
<1> SUFFICES ASSUME TypeOK PROVE Contents
  OBVIOUS
<1>0. /\ data \in [Slots -> Values] /\ head \in 0..(Capacity - 1)
      /\ size \in 0..Capacity /\ head < Capacity
  BY DEF TypeOK, Values, Slots
<1>1. CASE size < Capacity
  <2>1. /\ Slice(0, size) \in Seq(Values) /\ Len(Slice(0, size)) = size - 0
        /\ \A i \in 1..(size - 0) : Slice(0, size)[i] = data[0 + i - 1]
    BY <1>0, SliceProperties
  <2>2. GetAll = Slice(0, size)
    BY <1>1 DEF GetAll
  <2> QED
    BY <1>0, <1>1, <2>1, <2>2 DEF Contents, SlotOf
<1>2. CASE ~(size < Capacity)
  <2>0. size = Capacity
    BY <1>0, <1>2
  <2>1. /\ Slice(head, Capacity) \in Seq(Values) /\ Len(Slice(head, Capacity)) = Capacity - head
        /\ \A i \in 1..(Capacity - head) : Slice(head, Capacity)[i] = data[head + i - 1]
    BY <1>0, SliceProperties
  <2>2. /\ Slice(0, head) \in Seq(Values) /\ Len(Slice(0, head)) = head
        /\ \A i \in 1..head : Slice(0, head)[i] = data[i - 1]
    <3>1. /\ Slice(0, head) \in Seq(Values) /\ Len(Slice(0, head)) = head - 0
          /\ \A i \in 1..(head - 0) : Slice(0, head)[i] = data[0 + i - 1]
      BY <1>0, SliceProperties
    <3> QED
      BY <1>0, <3>1
  <2>3. GetAll = Slice(head, Capacity) \o Slice(0, head)
    BY <1>2 DEF GetAll
  <2>4. /\ GetAll \in Seq(Values)
        /\ Len(GetAll) = (Capacity - head) + head
        /\ \A i \in 1..((Capacity - head) + head) :
              GetAll[i] = IF i <= Capacity - head THEN Slice(head, Capacity)[i]
                          ELSE Slice(0, head)[i - (Capacity - head)]
    BY <2>1, <2>2, <2>3, ConcatProperties
  <2>5. ASSUME NEW i \in 1..size PROVE GetAll[i] = data[SlotOf(head, size, i)]
    <3>1. CASE i <= Capacity - head
      <4>1. i \in 1..(Capacity - head) /\ i \in 1..((Capacity - head) + head)
        BY <1>0, <2>0, <3>1
      <4>2. SlotOf(head, size, i) = head + i - 1
        BY <1>0, <2>0, <3>1 DEF SlotOf
      <4>3. GetAll[i] = Slice(head, Capacity)[i]
        BY <2>4, <3>1, <4>1
      <4> QED
        BY <2>1, <4>1, <4>2, <4>3
    <3>2. CASE ~(i <= Capacity - head)
      <4>1. i - (Capacity - head) \in 1..head
        BY <1>0, <2>0, <3>2
      <4>2. GetAll[i] = data[i - (Capacity - head) - 1]
        <5>1. i \in 1..((Capacity - head) + head)
          BY <1>0, <2>0
        <5>2. GetAll[i] = Slice(0, head)[i - (Capacity - head)]
          BY <2>4, <3>2, <5>1
        <5> QED
          BY <2>2, <4>1, <5>2
      <4>3. SlotOf(head, size, i) = i - (Capacity - head) - 1
        BY <1>0, <2>0, <3>2 DEF SlotOf
      <4> QED
        BY <4>2, <4>3
    <3> QED
      BY <3>1, <3>2
  <2> QED
    BY <1>0, <2>0, <2>4, <2>5 DEF Contents
<1> QED
  BY <1>1, <1>2

-----------------------------------------------------------------------------
\* Push on the slots: the i-th oldest keeps its value, counted from one later
\* when the oldest is overwritten, and the new snapshot is the newest.
LEMMA PushContents ==
    ASSUME TypeOK, Contents, Contents', NEW s \in Snapshots, Push(s)
    PROVE  /\ size < Capacity => /\ size' = size + 1
                                 /\ \A i \in 1..size : GetAll'[i] = GetAll[i]
           /\ size = Capacity => /\ size' = size
                                 /\ \A i \in 1..(size - 1) : GetAll'[i] = GetAll[i + 1]
           /\ GetAll'[size'] = s
<1> USE CapacityAssumption DEF CapacityAssumption, Slots
<1>1. head' = IF head + 1 = Capacity THEN 0 ELSE head + 1
  BY NextSlot DEF Push, TypeOK
<1>2. /\ \A k \in Slots : data'[k] = IF k = head THEN s ELSE data[k]
      /\ size' = IF size < Capacity THEN size + 1 ELSE size
      /\ head \in Slots /\ size \in 0..Capacity
      /\ size < Capacity => head = size
  BY DEF Push, TypeOK
<1>3. \A i \in 1..size' : GetAll'[i] = data'[SlotOf(head', size', i)]
  BY DEF Contents
<1>4. \A i \in 1..size : GetAll[i] = data[SlotOf(head, size, i)]
  BY DEF Contents
<1>5. ASSUME size < Capacity
      PROVE  /\ size' = size + 1
             /\ \A i \in 1..size : GetAll'[i] = GetAll[i]
             /\ GetAll'[size'] = s
  <2>1. size' = size + 1 /\ head = size
    BY <1>2, <1>5
  <2>2. \A i \in 1..size' : SlotOf(head', size', i) = i - 1
    <3>1. CASE size + 1 < Capacity
      BY <2>1, <3>1 DEF SlotOf
    <3>2. CASE size + 1 = Capacity
      BY <1>1, <2>1, <3>2 DEF SlotOf
    <3> QED
      BY <1>2, <1>5, <3>1, <3>2
  <2>3. \A i \in 1..size : SlotOf(head, size, i) = i - 1
    BY <1>5 DEF SlotOf
  <2>4. ASSUME NEW i \in 1..size PROVE GetAll'[i] = GetAll[i]
    <3>1. i - 1 \in Slots /\ i - 1 # head /\ i \in 1..size'
      BY <1>2, <1>5, <2>1
    <3> QED
      BY <1>2, <1>3, <1>4, <2>2, <2>3, <3>1
  <2>5. GetAll'[size'] = s
    <3>1. size' \in 1..size' /\ size' - 1 = head
      BY <1>2, <2>1
    <3> QED
      BY <1>2, <1>3, <2>2, <3>1
  <2> QED
    BY <2>1, <2>4, <2>5
<1>6. ASSUME size = Capacity
      PROVE  /\ size' = size
             /\ \A i \in 1..(size - 1) : GetAll'[i] = GetAll[i + 1]
             /\ GetAll'[size'] = s
  <2>1. size' = size /\ size' = Capacity
    BY <1>2, <1>6
  <2>2. ASSUME NEW i \in 1..(size - 1) PROVE GetAll'[i] = GetAll[i + 1]
    <3>1. /\ i \in 1..size' /\ i + 1 \in 1..size
          /\ SlotOf(head', size', i) = SlotOf(head, size, i + 1)
      BY <1>1, <1>2, <1>6, <2>1 DEF SlotOf
    <3>2. SlotOf(head, size, i + 1) \in Slots /\ SlotOf(head, size, i + 1) # head
      BY <1>2, <1>6 DEF SlotOf
    <3> QED
      BY <1>2, <1>3, <1>4, <3>1, <3>2
  <2>3. GetAll'[size'] = s
    <3>1. size' \in 1..size' /\ SlotOf(head', size', size') = head
      BY <1>1, <1>2, <1>6, <2>1 DEF SlotOf
    <3> QED
      BY <1>2, <1>3, <3>1
  <2> QED
    BY <2>1, <2>2, <2>3
<1> QED
  BY <1>2, <1>5, <1>6

-----------------------------------------------------------------------------
\* The ring buffer implements the sliding window of the last Capacity
\* snapshots: no push shows a snapshot twice, drops one that should still be
\* there, or returns them out of order, wherever head stands.
THEOREM ImplementsWindow == RingSpec => WindowSpec
<1> USE CapacityAssumption DEF CapacityAssumption
<1>1. TypeOK /\ Contents /\ RingInit => Window!Init
  <2> SUFFICES ASSUME TypeOK, Contents, RingInit PROVE GetAll = <<>>
    BY DEF Window!Init
  <2>1. Len(GetAll) = 0 /\ GetAll \in Seq(Values)
    BY DEF Contents, RingInit
  <2> QED
    BY <2>1, EmptySeq
<1>2. TypeOK /\ Contents /\ Contents' /\ [RingNext]_ringVars => [Window!Next]_GetAll
  <2> SUFFICES ASSUME TypeOK, Contents, Contents', [RingNext]_ringVars PROVE [Window!Next]_GetAll
    OBVIOUS
  <2>0. GetAll \in Seq(Values) /\ GetAll' \in Seq(Values) /\ size \in 0..Capacity
        /\ Len(GetAll) = size /\ Len(GetAll') = size'
    BY DEF Contents, TypeOK
  <2>1. ASSUME NEW s \in Snapshots, Push(s) PROVE Window!Add(s)
    <3>0. s \in Values
      BY DEF Values
    <3>1. CASE size < Capacity
      <4>1. /\ Append(GetAll, s) \in Seq(Values) /\ Len(Append(GetAll, s)) = size + 1
            /\ \A i \in 1..size : Append(GetAll, s)[i] = GetAll[i]
            /\ Append(GetAll, s)[size + 1] = s
        BY <2>0, <3>0, AppendProperties
      <4>2. /\ size' = size + 1 /\ GetAll'[size + 1] = s
            /\ \A i \in 1..size : GetAll'[i] = GetAll[i]
        BY <2>1, <3>1, PushContents
      <4>3. \A i \in 1..Len(GetAll') : GetAll'[i] = Append(GetAll, s)[i]
        BY <2>0, <4>1, <4>2
      <4>4. GetAll' = Append(GetAll, s)
        BY <2>0, <4>1, <4>2, <4>3, SeqEqual
      <4> QED
        BY <2>0, <3>1, <4>4 DEF Window!Add
    <3>2. CASE size = Capacity
      <4>1. /\ Tail(GetAll) \in Seq(Values) /\ Len(Tail(GetAll)) = size - 1
            /\ \A i \in 1..(size - 1) : Tail(GetAll)[i] = GetAll[i + 1]
        <5>1. GetAll # <<>>
          BY <2>0, <3>2, EmptySeq
        <5> QED
          BY <2>0, <5>1, HeadTailProperties
      <4>2. /\ Append(Tail(GetAll), s) \in Seq(Values) /\ Len(Append(Tail(GetAll), s)) = size
            /\ \A i \in 1..(size - 1) : Append(Tail(GetAll), s)[i] = Tail(GetAll)[i]
            /\ Append(Tail(GetAll), s)[size] = s
        <5>1. (size - 1) + 1 = size
          BY <2>0
        <5> QED
          BY <3>0, <4>1, <5>1, AppendProperties
      <4>3. /\ size' = size /\ GetAll'[size] = s
            /\ \A i \in 1..(size - 1) : GetAll'[i] = GetAll[i + 1]
        BY <2>1, <3>2, PushContents
      <4>4. \A i \in 1..Len(GetAll') : GetAll'[i] = Append(Tail(GetAll), s)[i]
        BY <2>0, <4>1, <4>2, <4>3
      <4>5. GetAll' = Append(Tail(GetAll), s)
        BY <2>0, <4>2, <4>3, <4>4, SeqEqual
      <4> QED
        BY <2>0, <3>2, <4>5 DEF Window!Add
    <3> QED
      BY <2>0, <3>1, <3>2
  <2>2. CASE Clear
    <3>1. Len(GetAll') = 0
      BY <2>0, <2>2 DEF Clear
    <3>2. GetAll' = <<>>
      BY <2>0, <3>1, EmptySeq
    <3> QED
      BY <3>2 DEF Window!Next, Window!Empty
  <2>3. CASE UNCHANGED ringVars
    BY <2>3 DEF ringVars, GetAll, Slice
  <2> QED
    BY <2>1, <2>2, <2>3 DEF RingNext, Window!Next
<1> QED
  BY <1>1, <1>2, TypeCorrect, ContentsHold, PTL DEF RingSpec, WindowSpec, Window!Spec

-----------------------------------------------------------------------------
(* The reads *)

\* (head - n + capacity) % capacity and what lies beyond the last slot
\* (ringbuffer.go:57, 99).
LEMMA WrappedSlot ==
    ASSUME NEW x \in 0..(2 * Capacity - 1)
    PROVE  x % Capacity = IF x < Capacity THEN x ELSE x - Capacity
<1> USE CapacityAssumption DEF CapacityAssumption
<1>1. CASE x < Capacity
  BY <1>1
<1>2. CASE x >= Capacity
  BY <1>2
<1> QED
  BY <1>1, <1>2

\* The slots that count as stored hold snapshots.
Filled == \A k \in Slots : k < size => data[k] \in Snapshots

LEMMA FilledHolds == RingSpec => []Filled
<1> USE CapacityAssumption DEF CapacityAssumption, Slots
<1>1. RingInit => Filled
  BY DEF RingInit, Filled
<1>2. TypeOK /\ Filled /\ [RingNext]_ringVars => Filled'
  <2> SUFFICES ASSUME TypeOK, Filled, [RingNext]_ringVars PROVE Filled'
    OBVIOUS
  <2>1. ASSUME NEW s \in Snapshots, Push(s) PROVE Filled'
    <3>1. /\ \A k \in Slots : data'[k] = IF k = head THEN s ELSE data[k]
          /\ size' = IF size < Capacity THEN size + 1 ELSE size
          /\ head \in Slots /\ size \in 0..Capacity
          /\ size < Capacity => head = size
      BY <2>1 DEF Push, TypeOK
    <3>2. ASSUME NEW k \in Slots, k < size', k # head PROVE data'[k] \in Snapshots
      <4>1. k < size
        BY <3>1, <3>2
      <4> QED
        BY <3>1, <3>2, <4>1 DEF Filled
    <3> QED
      BY <3>1, <3>2 DEF Filled
  <2>2. CASE Clear
    BY <2>2 DEF Clear, Filled
  <2>3. CASE UNCHANGED ringVars
    BY <2>3 DEF ringVars, Filled
  <2> QED
    BY <2>1, <2>2, <2>3 DEF RingNext
<1> QED
  BY <1>1, <1>2, TypeCorrect, PTL DEF RingSpec

\* The last n, element by element, in one segment or in two.
LEMMA LastFromProperties ==
    ASSUME TypeOK, NEW start \in Slots, NEW n \in 1..Capacity
    PROVE  /\ LastFrom(start, n) \in Seq(Values) /\ Len(LastFrom(start, n)) = n
           /\ \A i \in 1..n : LastFrom(start, n)[i] =
                 data[IF start + i <= Capacity THEN start + i - 1 ELSE start + i - 1 - Capacity]
<1> USE CapacityAssumption DEF CapacityAssumption
<1>0. data \in [Slots -> Values] /\ start \in 0..(Capacity - 1)
  BY DEF TypeOK, Values, Slots
<1>1. CASE start + n <= Capacity
  <2>0. PICK to \in start..Capacity : to = start + n
    BY <1>0, <1>1
  <2>1. /\ Slice(start, to) \in Seq(Values) /\ Len(Slice(start, to)) = to - start
        /\ \A i \in 1..(to - start) : Slice(start, to)[i] = data[start + i - 1]
    <3>1. start \in 0..Capacity
      BY <1>0
    <3> QED
      BY <1>0, <2>0, <3>1, SliceProperties
  <2>2. to - start = n /\ \A i \in 1..n : start + i <= Capacity
    BY <1>0, <1>1, <2>0
  <2>3. LastFrom(start, n) = Slice(start, to)
    BY <1>1, <2>0 DEF LastFrom
  <2> QED
    BY <2>1, <2>2, <2>3
<1>2. CASE ~(start + n <= Capacity)
  <2>0. PICK m \in Nat, r \in Nat : m = Capacity - start /\ r = n - m /\ m + r = n /\ r <= Capacity
    BY <1>0, <1>2
  <2>1. /\ Slice(start, Capacity) \in Seq(Values) /\ Len(Slice(start, Capacity)) = m
        /\ \A i \in 1..m : Slice(start, Capacity)[i] = data[start + i - 1]
    <3>1. start \in 0..Capacity /\ Capacity \in start..Capacity
      BY <1>0
    <3> QED
      BY <1>0, <2>0, <3>1, SliceProperties
  <2>2. /\ Slice(0, r) \in Seq(Values) /\ Len(Slice(0, r)) = r
        /\ \A i \in 1..r : Slice(0, r)[i] = data[i - 1]
    <3>1. /\ Slice(0, r) \in Seq(Values) /\ Len(Slice(0, r)) = r - 0
          /\ \A i \in 1..(r - 0) : Slice(0, r)[i] = data[0 + i - 1]
      <4>1. 0 \in 0..Capacity /\ r \in 0..Capacity
        BY <2>0
      <4> QED
        BY <1>0, <4>1, SliceProperties
    <3>2. r - 0 = r /\ \A i \in 1..r : 0 + i - 1 = i - 1
      BY <2>0
    <3> QED
      BY <3>1, <3>2
  <2>3. LastFrom(start, n) = Slice(start, Capacity) \o Slice(0, r)
    BY <1>2, <2>0 DEF LastFrom
  <2>4. /\ LastFrom(start, n) \in Seq(Values) /\ Len(LastFrom(start, n)) = m + r
        /\ \A i \in 1..(m + r) : LastFrom(start, n)[i] =
              IF i <= m THEN Slice(start, Capacity)[i] ELSE Slice(0, r)[i - m]
    <3>1. PICK u \in Seq(Values), v \in Seq(Values) : u = Slice(start, Capacity) /\ v = Slice(0, r)
      BY <2>1, <2>2
    <3>2. Len(u) = m /\ Len(v) = r
      BY <2>1, <2>2, <3>1
    <3>3. /\ u \o v \in Seq(Values) /\ Len(u \o v) = Len(u) + Len(v)
          /\ \A i \in 1..(Len(u) + Len(v)) : (u \o v)[i] = IF i <= Len(u) THEN u[i] ELSE v[i - Len(u)]
      BY ConcatProperties
    <3> QED
      BY <2>3, <3>1, <3>2, <3>3
  <2>5. ASSUME NEW i \in 1..n
        PROVE  LastFrom(start, n)[i] =
                 data[IF start + i <= Capacity THEN start + i - 1 ELSE start + i - 1 - Capacity]
    <3>1. CASE i <= m
      <4>1. i \in 1..m /\ i \in 1..(m + r) /\ start + i <= Capacity
        BY <1>0, <2>0, <3>1
      <4> QED
        BY <2>1, <2>4, <3>1, <4>1
    <3>2. CASE i > m
      <4>1. i - m \in 1..r /\ i \in 1..(m + r) /\ ~(start + i <= Capacity) /\ ~(i <= m)
            /\ i - m - 1 = start + i - 1 - Capacity
        BY <1>0, <2>0, <3>2
      <4>2. LastFrom(start, n)[i] = Slice(0, r)[i - m] /\ Slice(0, r)[i - m] = data[i - m - 1]
        BY <2>2, <2>4, <4>1
      <4> QED
        BY <4>1, <4>2
    <3> QED
      BY <2>0, <3>1, <3>2
  <2> QED
    BY <2>0, <2>4, <2>5
<1> QED
  BY <1>1, <1>2

\* GetLastN returns the end of what GetAll returns, for every n.
LEMMA LastNIsEnd ==
    ASSUME TypeOK, NEW n \in Int
    PROVE  GetLastN(n) = LET m == IF n < 0 THEN 0 ELSE IF n > size THEN size ELSE n
                         IN  SubSeq(GetAll, size - m + 1, size)
<1> USE CapacityAssumption DEF CapacityAssumption
<1>0. /\ GetAll \in Seq(Values) /\ Len(GetAll) = size
      /\ \A i \in 1..size : GetAll[i] = data[SlotOf(head, size, i)]
  BY ContentsHold DEF Contents
<1>00. head \in 0..(Capacity - 1) /\ size \in 0..Capacity /\ (size < Capacity => head = size)
  BY DEF TypeOK, Slots
<1>1. CASE size = 0 \/ n <= 0
  <2>1. GetLastN(n) = <<>>
    BY <1>1 DEF GetLastN
  <2>2. (IF n < 0 THEN 0 ELSE IF n > size THEN size ELSE n) = 0
    BY <1>00, <1>1
  <2>3. SubSeq(GetAll, size - 0 + 1, size) = <<>>
    BY <1>00, SubSeqEmpty
  <2> QED
    BY <2>1, <2>2, <2>3
<1>2. CASE ~(size = 0 \/ n <= 0)
  <2>1. PICK m \in 1..size : m = IF n > size THEN size ELSE n
    BY <1>00, <1>2
  <2>2. PICK start \in Slots : /\ start = (head - m + Capacity) % Capacity
                               /\ start = IF head >= m THEN head - m ELSE head - m + Capacity
    <3>1. PICK x \in 0..(2 * Capacity - 1) : x = head - m + Capacity
      BY <1>00
    <3>2. x % Capacity = IF x < Capacity THEN x ELSE x - Capacity
      BY WrappedSlot
    <3> QED
      BY <1>00, <3>1, <3>2 DEF Slots
  <2>3. GetLastN(n) = LastFrom(start, m)
    BY <1>2, <2>1, <2>2 DEF GetLastN
  <2>4. PICK l \in Seq(Values) : l = LastFrom(start, m) /\ Len(l) = m
    BY <1>00, <2>1, LastFromProperties
  <2>5. \A i \in 1..m : l[i] =
            data[IF start + i <= Capacity THEN start + i - 1 ELSE start + i - 1 - Capacity]
    BY <1>00, <2>1, <2>4, LastFromProperties
  <2>6. PICK e : e = SubSeq(GetAll, size - m + 1, size)
    OBVIOUS
  <2>7. /\ e \in Seq(Values) /\ Len(e) = m
        /\ \A i \in 1..m : e[i] = GetAll[size - m + i]
    <3>1. /\ e \in Seq(Values)
          /\ Len(e) = IF size - m + 1 <= size THEN size - (size - m + 1) + 1 ELSE 0
          /\ \A i \in 1..(size - (size - m + 1) + 1) : e[i] = GetAll[(size - m + 1) + i - 1]
      <4>1. \A i \in (size - m + 1)..size : GetAll[i] \in Values
        BY <1>0, <1>00
      <4> QED
        BY <1>00, <2>6, <4>1, SubSeqProperties
    <3>2. size - (size - m + 1) + 1 = m /\ \A i \in 1..m : (size - m + 1) + i - 1 = size - m + i
      BY <1>00
    <3> QED
      BY <1>00, <3>1, <3>2
  <2>8. ASSUME NEW i \in 1..m PROVE l[i] = e[i]
    <3>1. size - m + i \in 1..size
      BY <1>00
    <3>2. SlotOf(head, size, size - m + i) =
             IF start + i <= Capacity THEN start + i - 1 ELSE start + i - 1 - Capacity
      <4>1. CASE size < Capacity
        BY <1>00, <2>2, <4>1 DEF SlotOf
      <4>2. CASE size = Capacity
        BY <1>00, <2>2, <4>2 DEF SlotOf
      <4> QED
        BY <1>00, <4>1, <4>2
    <3>3. e[i] = data[SlotOf(head, size, size - m + i)]
      BY <1>0, <2>7, <3>1
    <3> QED
      BY <2>5, <3>2, <3>3
  <2>9. l = e
    BY <2>4, <2>7, <2>8, SeqEqual
  <2>10. m = IF n < 0 THEN 0 ELSE IF n > size THEN size ELSE n
    BY <1>00, <1>2, <2>1
  <2> QED
    BY <2>3, <2>4, <2>6, <2>9, <2>10
<1> QED
  BY <1>1, <1>2

\* GetLatest returns the newest.
LEMMA LatestIsLast ==
    ASSUME TypeOK
    PROVE  GetLatest = IF size = 0 THEN <<Unset, FALSE>> ELSE <<GetAll[size], TRUE>>
<1> USE CapacityAssumption DEF CapacityAssumption
<1>0. head \in 0..(Capacity - 1) /\ size \in 0..Capacity /\ (size < Capacity => head = size)
  BY DEF TypeOK, Slots
<1>1. CASE size = 0
  BY <1>1 DEF GetLatest
<1>2. CASE size # 0
  <2>1. (head - 1 + Capacity) % Capacity =
           IF head - 1 + Capacity < Capacity THEN head - 1 + Capacity ELSE head - 1 + Capacity - Capacity
    BY <1>0, WrappedSlot
  <2>2. (head - 1 + Capacity) % Capacity = SlotOf(head, size, size)
    BY <1>0, <1>2, <2>1 DEF SlotOf
  <2>3. GetAll[size] = data[SlotOf(head, size, size)]
    BY <1>0, <1>2, ContentsHold DEF Contents
  <2> QED
    BY <1>2, <2>2, <2>3 DEF GetLatest
<1> QED
  BY <1>1, <1>2

\* Wherever head stands, and for every capacity: GetLastN(n) is the end of
\* GetAll, GetLatest its last element, and no slot that was never written is
\* returned (ringbuffer.go:49-112).
THEOREM ReadsAgreeHolds == RingSpec => []ReadsAgree
<1>1. TypeOK /\ Filled => ReadsAgree
  <2> SUFFICES ASSUME TypeOK, Filled PROVE ReadsAgree
    OBVIOUS
  <2> USE CapacityAssumption DEF CapacityAssumption
  <2>1. \A n \in -1..(Capacity + 1) : n \in Int
    OBVIOUS
  <2>2. /\ Len(GetAll) = size
        /\ \A i \in 1..size : GetAll[i] = data[SlotOf(head, size, i)]
        /\ head \in 0..(Capacity - 1) /\ size \in 0..Capacity
    BY ContentsHold DEF Contents, TypeOK, Slots
  <2>3. ASSUME NEW i \in 1..Len(GetAll) PROVE GetAll[i] # Unset
    <3>1. SlotOf(head, size, i) \in Slots /\ SlotOf(head, size, i) < size
      <4>1. CASE size < Capacity
        BY <2>2, <4>1 DEF SlotOf, Slots
      <4>2. CASE size = Capacity
        BY <2>2, <4>2 DEF SlotOf, Slots
      <4> QED
        BY <2>2, <4>1, <4>2
    <3>2. GetAll[i] \in Snapshots
      BY <2>2, <3>1 DEF Filled
    <3> QED
      BY <3>2, UnsetAssumption
  <2> QED
    BY <2>1, <2>3, LastNIsEnd, LatestIsLast DEF ReadsAgree
<1> QED
  BY <1>1, TypeCorrect, FilledHolds, PTL

-----------------------------------------------------------------------------
(* The order of the rows *)

\* Rows that the order tells apart.
Ordered(S) ==
    /\ IsFiniteSet(S)
    /\ \A r \in S : r.ts \in Int /\ r.id \in Int
    /\ \A r, q \in S : r.id = q.id => r = q

\* The rows of S that come before r.
Ahead(S, r) == {q \in S : Before(q, r)}

LEMMA BeforeOrders ==
    ASSUME NEW S, Ordered(S)
    PROVE  /\ \A r \in S : ~Before(r, r)
           /\ \A r, q \in S : r = q \/ Before(r, q) \/ Before(q, r)
           /\ \A r, q, p \in S : (Before(p, q) /\ Before(q, r)) => Before(p, r)
BY DEF Ordered, Before

LEMMA AheadFinite ==
    ASSUME NEW S, Ordered(S), NEW r \in S
    PROVE  /\ IsFiniteSet(Ahead(S, r)) /\ Cardinality(Ahead(S, r)) \in 0..(Cardinality(S) - 1)
<1>1. Ahead(S, r) \subseteq S \ {r}
  BY BeforeOrders DEF Ahead
<1>2. IsFiniteSet(S \ {r}) /\ Cardinality(S \ {r}) = Cardinality(S) - 1
  BY FS_RemoveElement DEF Ordered
<1>3. IsFiniteSet(Ahead(S, r)) /\ Cardinality(Ahead(S, r)) <= Cardinality(S \ {r})
  BY <1>1, <1>2, FS_Subset
<1>4. Cardinality(Ahead(S, r)) \in Nat /\ Cardinality(S) \in Nat
  BY <1>3, FS_CardinalityType DEF Ordered
<1> QED
  BY <1>2, <1>3, <1>4

\* A row that comes later has more rows ahead of it.
LEMMA AheadGrows ==
    ASSUME NEW S, Ordered(S), NEW q \in S, NEW r \in S, Before(q, r)
    PROVE  Cardinality(Ahead(S, q)) < Cardinality(Ahead(S, r))
<1>1. Ahead(S, q) \subseteq Ahead(S, r) /\ Ahead(S, q) # Ahead(S, r)
  BY BeforeOrders DEF Ahead
<1>2. /\ IsFiniteSet(Ahead(S, r))
      /\ Cardinality(Ahead(S, r)) \in Int /\ Cardinality(Ahead(S, q)) \in Int
  BY AheadFinite
<1> QED
  BY <1>1, <1>2, FS_Subset

\* Every set of rows can be put in order.
LEMMA SortedExists ==
    ASSUME NEW S, Ordered(S)
    PROVE  \E s \in [1..Cardinality(S) -> S] : \A i, j \in DOMAIN s : i < j => Before(s[i], s[j])
<1> DEFINE n == Cardinality(S)
           At == [r \in S |-> Cardinality(Ahead(S, r)) + 1]
<1>1. n \in Nat
  BY FS_CardinalityType DEF Ordered
<1>2. At \in [S -> 1..n]
  BY <1>1, AheadFinite
<1>3. \A q, r \in S : Before(q, r) => At[q] < At[r]
  <2> SUFFICES ASSUME NEW q \in S, NEW r \in S, Before(q, r) PROVE At[q] < At[r]
    OBVIOUS
  <2>1. Cardinality(Ahead(S, q)) < Cardinality(Ahead(S, r))
    BY AheadGrows
  <2>2. Cardinality(Ahead(S, q)) \in Int /\ Cardinality(Ahead(S, r)) \in Int
    BY AheadFinite
  <2> QED
    BY <2>1, <2>2
<1> HIDE DEF At, n
<1>4. At \in Injection(S, 1..n)
  <2>1. \A q, r \in S : At[q] = At[r] => q = r
    BY <1>2, <1>3, BeforeOrders
  <2> QED
    BY <1>2, <2>1 DEF Injection, IsInjective
<1>5. IsFiniteSet(1..n) /\ Cardinality(1..n) = n
  BY <1>1, FS_Interval
<1>6. At \in Surjection(S, 1..n)
  BY <1>4, <1>5, FS_Injection DEF n
<1>7. \A i \in 1..n : \E r \in S : At[r] = i
  BY <1>6 DEF Surjection
<1> DEFINE s == [i \in 1..n |-> CHOOSE r \in S : At[r] = i]
<1>8. \A i \in 1..n : s[i] \in S /\ At[s[i]] = i
  BY <1>7
<1>9. s \in [1..n -> S]
  BY <1>8
<1> HIDE DEF s
<1>10. ASSUME NEW i \in 1..n, NEW j \in 1..n, i < j PROVE Before(s[i], s[j])
  BY <1>1, <1>3, <1>8, <1>10, BeforeOrders
<1> QED
  BY <1>9, <1>10 DEF n

LEMMA SortedIs ==
    ASSUME NEW S, Ordered(S)
    PROVE  /\ Sorted(S) \in [1..Cardinality(S) -> S]
           /\ \A i, j \in 1..Cardinality(S) : i < j => Before(Sorted(S)[i], Sorted(S)[j])
<1> DEFINE Fits(s) == s \in [1..Cardinality(S) -> S] /\ \A i, j \in DOMAIN s : i < j => Before(s[i], s[j])
<1>1. \E s : Fits(s)
  BY SortedExists
<1>2. Sorted(S) = CHOOSE s \in [1..Cardinality(S) -> S] : \A i, j \in DOMAIN s : i < j => Before(s[i], s[j])
  BY DEF Sorted
<1>3. Fits(Sorted(S))
  BY <1>1, <1>2
<1> QED
  BY <1>3

\* In that order a row comes after as many rows as are ahead of it, so the row
\* with k rows ahead is the (k + 1)-th.
LEMMA SortedAt ==
    ASSUME NEW S, Ordered(S), NEW r \in S
    PROVE  /\ Cardinality(Ahead(S, r)) + 1 \in 1..Cardinality(S)
           /\ Sorted(S)[Cardinality(Ahead(S, r)) + 1] = r
<1> DEFINE n == Cardinality(S)
           s == Sorted(S)
<1>1. n \in Nat
  BY FS_CardinalityType DEF Ordered
<1>2. s \in [1..n -> S] /\ \A i, j \in 1..n : i < j => Before(s[i], s[j])
  BY SortedIs
<1> HIDE DEF s
<1>3. s \in Injection(1..n, S)
  <2>1. \A i, j \in 1..n : s[i] = s[j] => i = j
    BY <1>1, <1>2, BeforeOrders
  <2> QED
    BY <1>2, <2>1 DEF Injection, IsInjective
<1>4. IsFiniteSet(1..n) /\ Cardinality(1..n) = n
  BY <1>1, FS_Interval
<1>5. s \in Surjection(1..n, S)
  BY <1>3, <1>4, FS_Injection DEF Ordered
<1>6. PICK k \in 1..n : s[k] = r
  BY <1>5 DEF Surjection
<1>7. \A i \in 1..n : i < k <=> Before(s[i], r)
  BY <1>1, <1>2, <1>6, BeforeOrders
<1> DEFINE f == [i \in 1..(k - 1) |-> s[i]]
<1>8. f \in Injection(1..(k - 1), Ahead(S, r))
  <2>1. \A i \in 1..(k - 1) : i \in 1..n /\ s[i] \in S /\ Before(s[i], r)
    BY <1>1, <1>2, <1>7
  <2>2. f \in [1..(k - 1) -> Ahead(S, r)]
    BY <2>1 DEF Ahead
  <2>3. \A i, j \in 1..(k - 1) : f[i] = f[j] => i = j
    BY <1>3, <2>1 DEF Injection, IsInjective
  <2> QED
    BY <2>2, <2>3 DEF Injection, IsInjective
<1>9. \A q \in Ahead(S, r) : \E i \in 1..(k - 1) : f[i] = q
  <2> SUFFICES ASSUME NEW q \in S, Before(q, r) PROVE \E i \in 1..(k - 1) : s[i] = q
    BY DEF Ahead
  <2>1. PICK i \in 1..n : s[i] = q
    BY <1>5 DEF Surjection
  <2>2. i \in 1..(k - 1)
    BY <1>1, <1>7, <2>1
  <2> QED
    BY <2>1, <2>2
<1> HIDE DEF f
<1>10. ExistsBijection(1..(k - 1), Ahead(S, r))
  BY <1>8, <1>9 DEF ExistsBijection, Bijection, Injection, Surjection
<1>11. Cardinality(Ahead(S, r)) = k - 1
  BY <1>1, <1>10, FS_CountingElements
<1> QED
  BY <1>1, <1>6, <1>11 DEF s

-----------------------------------------------------------------------------
(* The table *)

\* What may be written: an entry as it was sent, or as HandleIngestLogs made it.
Logged == Entries \cup {Ingested(e) : e \in Entries}

LEMMA LoggedFields ==
    \A e \in Logged : e.level \in Texts /\ e.service \in Texts /\ e.ts \in 0..MaxTime
<1> SUFFICES ASSUME NEW e \in Logged
             PROVE  e.level \in Texts /\ e.service \in Texts /\ e.ts \in 0..MaxTime
  OBVIOUS
<1>1. \A o \in Entries : /\ o \in [level : Texts, service : Texts, message : Words, ts : 0..MaxTime]
                         /\ o.level \in Texts /\ o.service \in Texts /\ o.ts \in 0..MaxTime
  BY QueryAssumption
<1>2. ASSUME NEW o \in Entries, e = Ingested(o)
      PROVE  e.level \in Texts /\ e.service \in Texts /\ e.ts \in 0..MaxTime
  <2>1. Upper("INFO") \in Texts /\ Lower("default") \in Texts
    <3>1. \A w \in Words, u, p \in BOOLEAN : [word |-> w, upper |-> u, padded |-> p] \in Texts
      BY DEF Texts
    <3>2. "INFO" \in Words /\ "default" \in Words
      BY QueryAssumption
    <3>3. TRUE \in BOOLEAN /\ FALSE \in BOOLEAN
      BY Zenon
    <3> QED
      BY Zenon, <3>1, <3>2, <3>3 DEF Upper, Lower
  <2> DEFINE l == IF Empty(o.level) THEN Upper("INFO") ELSE o.level
             v == IF Empty(o.service) THEN Lower("default") ELSE o.service
  <2>2. l \in Texts /\ v \in Texts
    BY <1>1, <2>1
  <2>3. e = [o EXCEPT !.level = l, !.service = v]
    BY <1>1, <1>2 DEF Ingested
  <2> HIDE DEF l, v
  <2> QED
    BY <1>1, <2>2, <2>3
<1> QED
  BY <1>1, <1>2 DEF Logged

\* The steps of the table, whoever reads it.
TableNext == (\E e \in Logged : Write(e)) \/ PruneOldLogs \/ Tick

TableSpec == TableInit /\ [][TableNext]_tableVars

TableTypes ==
    /\ sent \in Seq(Logged) /\ Len(sent) <= MaxLogs
    /\ now \in 1..MaxTime
    /\ IsFiniteSet(rows)
    /\ \A r \in rows : r.id \in 1..Len(sent) /\ r.ts \in 1..MaxTime
    /\ \A r, q \in rows : r.id = q.id => r = q

\* What WriteBatch makes of an entry stays in its row.
StoredAsSent ==
    \A r \in rows : r.level = StoredLevel(sent[r.id]) /\ r.service = StoredService(sent[r.id])

TableInv == TableTypes /\ StoredAsSent

LEMMA WriteKeeps ==
    ASSUME TableInv, NEW e \in Logged, Write(e)
    PROVE  /\ TableInv'
           /\ rows' = rows \cup {RowOf(e, Len(sent) + 1)}
           /\ RowOf(e, Len(sent) + 1).id = Len(sent) + 1
           /\ Len(sent') = Len(sent) + 1
<1> DEFINE row == RowOf(e, Len(sent) + 1)
<1> USE DEF TableInv, TableTypes
<1>1. /\ row.id = Len(sent) + 1 /\ row.ts \in 1..MaxTime
      /\ row.level = StoredLevel(e) /\ row.service = StoredService(e)
  BY QueryAssumption, LoggedFields DEF RowOf
<1>2. rows' = rows \cup {row} /\ sent' = Append(sent, e) /\ now' = now /\ Len(sent) < MaxLogs
  BY DEF Write
<1> HIDE DEF row
<1>3. /\ sent' \in Seq(Logged) /\ Len(sent') = Len(sent) + 1
      /\ sent'[Len(sent) + 1] = e /\ \A i \in 1..Len(sent) : sent'[i] = sent[i]
  BY <1>2
<1>4. IsFiniteSet(rows')
  BY <1>2, FS_AddElement
<1>5. Len(sent) \in Nat /\ Len(sent') <= MaxLogs
  BY <1>2, <1>3, QueryAssumption
<1>6. TableTypes'
  <2>1. \A r \in rows' : r.id \in 1..Len(sent') /\ r.ts \in 1..MaxTime
    BY <1>1, <1>2, <1>3, <1>5
  <2>2. \A r, q \in rows' : r.id = q.id => r = q
    BY <1>1, <1>2, <1>5
  <2> QED
    BY <1>2, <1>3, <1>4, <1>5, <2>1, <2>2
<1>7. StoredAsSent'
  <2> SUFFICES ASSUME NEW r \in rows'
               PROVE  r.level = StoredLevel(sent'[r.id]) /\ r.service = StoredService(sent'[r.id])
    BY DEF StoredAsSent, StoredLevel, StoredService
  <2>1. CASE r = row
    BY <1>1, <1>3, <2>1
  <2>2. CASE r \in rows
    <3>1. sent'[r.id] = sent[r.id]
      BY <1>3, <2>2
    <3> QED
      BY <2>2, <3>1 DEF StoredAsSent
  <2> QED
    BY <1>2, <2>1, <2>2
<1> QED
  BY <1>1, <1>2, <1>3, <1>6, <1>7 DEF row

LEMMA PruneKeeps == ASSUME TableInv, PruneOldLogs PROVE TableInv'
<1> USE DEF TableInv, TableTypes
<1>1. rows' \subseteq rows /\ sent' = sent /\ now' = now
  BY DEF PruneOldLogs
<1>2. IsFiniteSet(rows')
  BY <1>1, FS_Subset
<1> QED
  BY <1>1, <1>2 DEF StoredAsSent

LEMMA TableHolds == TableSpec => []TableInv
<1>1. TableInit => TableInv
  <2> SUFFICES ASSUME TableInit PROVE TableInv
    OBVIOUS
  <2>1. sent \in Seq(Logged) /\ Len(sent) = 0 /\ now \in 1..MaxTime
    BY QueryAssumption DEF TableInit
  <2> QED
    BY <2>1, FS_EmptySet, QueryAssumption DEF TableInit, TableInv, TableTypes, StoredAsSent
<1>2. TableInv /\ [TableNext]_tableVars => TableInv'
  <2> SUFFICES ASSUME TableInv, [TableNext]_tableVars PROVE TableInv'
    OBVIOUS
  <2>1. ASSUME NEW e \in Logged, Write(e) PROVE TableInv'
    BY <2>1, WriteKeeps
  <2>2. CASE PruneOldLogs
    BY <2>2, PruneKeeps
  <2>3. CASE Tick
    BY <2>3, QueryAssumption DEF Tick, TableInv, TableTypes, StoredAsSent
  <2>4. CASE UNCHANGED tableVars
    BY <2>4 DEF tableVars, TableInv, TableTypes, StoredAsSent
  <2> QED
    BY <2>1, <2>2, <2>3, <2>4 DEF TableNext
<1> QED
  BY <1>1, <1>2, PTL DEF TableSpec

Text(w, u, p) == [word |-> w, upper |-> u, padded |-> p]

\* What strings.ToUpper and strings.TrimSpace make of a word.  (The booleans
\* are named, because SMT does not take TRUE and FALSE for values of a field.)
LEMMA Respelled ==
    ASSUME NEW w, NEW u, NEW p
    PROVE  /\ TrimSpace(Text(w, u, p)) = Text(w, u, FALSE)
           /\ ToUpper(Text(w, u, p)) = Text(w, TRUE, p)
<1>1. PICK no : no = FALSE
  BY Zenon
<1>2. PICK yes : yes = TRUE
  BY Zenon
<1>3. /\ [Text(w, u, p) EXCEPT !.padded = no] = Text(w, u, no)
      /\ [Text(w, u, p) EXCEPT !.upper = yes] = Text(w, yes, p)
  BY SMT DEF Text
<1>4. TrimSpace(Text(w, u, p)) = Text(w, u, FALSE)
  BY Zenon, <1>1, <1>3 DEF TrimSpace
<1>5. ToUpper(Text(w, u, p)) = Text(w, TRUE, p)
  BY Zenon, <1>2, <1>3 DEF ToUpper
<1> QED
  BY <1>4, <1>5

LEMMA Spellings ==
    /\ \A t \in Texts : ToUpper(TrimSpace(t)) = Upper(t.word)
    /\ \A w : ToUpper(Upper(w)) = Upper(w) /\ ToUpper(Lower(w)) = Upper(w)
    /\ \A w : Upper(w).word = w
<1>1. \A t \in Texts : t = Text(t.word, t.upper, t.padded)
  BY DEF Texts, Text
<1>2. \A w : Upper(w) = Text(w, TRUE, FALSE) /\ Lower(w) = Text(w, FALSE, FALSE)
  BY Zenon DEF Upper, Lower, Text
<1>3. \A t \in Texts : ToUpper(TrimSpace(t)) = Upper(t.word)
  <2> SUFFICES ASSUME NEW t \in Texts PROVE ToUpper(TrimSpace(t)) = Upper(t.word)
    OBVIOUS
  <2>1. PICK w : w = t.word
    OBVIOUS
  <2>2. PICK u : t = Text(w, u, t.padded)
    BY <1>1, <2>1
  <2>3. PICK p : t = Text(w, u, p)
    BY <2>2
  <2>4. TrimSpace(t) = Text(w, u, FALSE)
    BY Zenon, <2>3, Respelled
  <2>5. ToUpper(TrimSpace(t)) = Text(w, TRUE, FALSE)
    BY Zenon, <2>4, Respelled
  <2> QED
    BY Zenon, <1>2, <2>1, <2>5
<1>4. \A w : ToUpper(Upper(w)) = Upper(w) /\ ToUpper(Lower(w)) = Upper(w)
  BY Zenon, <1>2, Respelled
<1>5. \A w : Upper(w).word = w
  BY Zenon DEF Upper
<1> QED
  BY <1>3, <1>4, <1>5

\* A row is found by the level and by the service it was sent with, whatever the
\* case and the spaces around them (sqlite.go: WriteBatch, QueryLogs).
THEOREM FoundAsSentHolds == TableSpec => []FoundAsSent
<1>1. TableInv => FoundAsSent
  <2> SUFFICES ASSUME TableInv, NEW r \in rows PROVE
        LET e == sent[r.id] IN
        /\ e.level.word # "" => \A l \in {Upper(e.level.word), Lower(e.level.word)} :
                                    Selects([NoFilter EXCEPT !.level = l], r)
        /\ e.service.word # "" => Selects([NoFilter EXCEPT !.service = TrimSpace(e.service)], r)
    BY DEF FoundAsSent
  <2>1. PICK e \in Logged : e = sent[r.id]
    BY DEF TableInv, TableTypes
  <2>2. e.level \in Texts /\ e.service \in Texts
    BY LoggedFields
  <2>3. r.level = StoredLevel(e) /\ r.service = StoredService(e) /\ r.ts \in 0..MaxTime
    BY <2>1 DEF TableInv, TableTypes, StoredAsSent
  <2>4. ASSUME e.level.word # "", NEW l \in {Upper(e.level.word), Lower(e.level.word)}
        PROVE  Selects([NoFilter EXCEPT !.level = l], r)
    <3>1. r.level = Upper(e.level.word) /\ ToUpper(l) = Upper(e.level.word)
      <4>1. ToUpper(TrimSpace(e.level)) = Upper(e.level.word) /\ ToUpper(l) = Upper(e.level.word)
        BY Zenon, Spellings, <2>2, <2>4
      <4>2. ~Empty(Upper(e.level.word))
        BY Spellings, <2>4 DEF Empty
      <4> QED
        BY <2>3, <4>1, <4>2 DEF StoredLevel
    <3> QED
      BY <2>3, <3>1 DEF Selects, NoFilter, Empty, Upper, Lower
  <2>5. ASSUME e.service.word # ""
        PROVE  Selects([NoFilter EXCEPT !.service = TrimSpace(e.service)], r)
    <3>1. r.service = TrimSpace(e.service)
      BY <2>2, <2>3, <2>5 DEF StoredService, TrimSpace, Empty, Texts
    <3> QED
      BY <2>3, <3>1 DEF Selects, NoFilter, Empty, Upper, Lower
  <2> QED
    BY <2>1, <2>4, <2>5
<1> QED
  BY <1>1, TableHolds, PTL

-----------------------------------------------------------------------------
(* Pages *)

Selected(f) == {r \in rows : Selects(f, r)}

\* A page holds the rows with at least as many others ahead of them as the offset
\* says, until as many as the page is long, in order; only past the end is it empty.
LEMMA PageHolds ==
    ASSUME TableInv, NEW f, NEW limit \in Int, NEW skip \in Nat
    PROVE  LET page == QueryLogs(f, limit, skip)
               S == Selected(f)
           IN  /\ page \in Seq(S) /\ Len(page) \in Nat /\ Len(page) <= LimitOf(limit)
               /\ \A i \in 1..Len(page) : Cardinality(Ahead(S, page[i])) = skip + i - 1
               /\ \A r \in S : \/ Cardinality(Ahead(S, r)) < skip
                                \/ \E i \in DOMAIN page : page[i] = r
                                \/ Cardinality(Ahead(S, r)) >= skip + Len(page)
               /\ page = <<>> => \A r \in S : Cardinality(Ahead(S, r)) < skip
<1> DEFINE S == Selected(f)
           n == Cardinality(S)
           found == Sorted(S)
           last == skip + LimitOf(limit)
           end == IF last < n THEN last ELSE n
           page == SubSeq(found, skip + 1, end)
<1>1. Ordered(S) /\ n \in Nat
  <2>1. S \subseteq rows
    BY DEF Selected
  <2>2. IsFiniteSet(S)
    BY <2>1, FS_Subset DEF TableInv, TableTypes
  <2>3. Ordered(S)
    BY <2>1, <2>2 DEF Ordered, TableInv, TableTypes
  <2> HIDE DEF S
  <2> QED
    BY <2>2, <2>3, FS_CardinalityType
<1>2. LimitOf(limit) \in Nat \ {0}
  BY QueryAssumption DEF LimitOf
<1>3. found \in [1..n -> S] /\ Len(found) = n
  <2> HIDE DEF S
  <2>1. found \in [1..n -> S]
    BY <1>1, SortedIs
  <2> HIDE DEF found, n
  <2> QED
    BY <1>1, <2>1
<1>4. QueryLogs(f, limit, skip) = page
  <2>1. skip > 0 \/ skip = 0
    OBVIOUS
  <2>2. (IF skip > 0 THEN skip + 1 ELSE 1) = skip + 1
    BY <2>1
  <2>3. skip + 1 + LimitOf(limit) - 1 = last
    BY <1>2
  <2> QED
    BY <1>3, <2>2, <2>3 DEF QueryLogs, Selected
<1>5. \A r \in S : Cardinality(Ahead(S, r)) + 1 \in 1..n /\ found[Cardinality(Ahead(S, r)) + 1] = r
  <2> HIDE DEF S
  <2> QED
    BY <1>1, SortedAt
<1>5a. \A j \in 1..n : found[j] \in S /\ Cardinality(Ahead(S, found[j])) = j - 1
  <2> SUFFICES ASSUME NEW j \in 1..n PROVE found[j] \in S /\ Cardinality(Ahead(S, found[j])) = j - 1
    OBVIOUS
  <2> HIDE DEF S
  <2>1. found[j] \in S /\ \A i, k \in 1..n : i < k => Before(found[i], found[k])
    BY <1>1, <1>3, SortedIs
  <2>2. PICK k \in 1..n : k = Cardinality(Ahead(S, found[j])) + 1 /\ found[k] = found[j]
    BY <1>5, <2>1
  <2>3. ~Before(found[j], found[j])
    BY <1>1, <2>1, BeforeOrders
  <2> HIDE DEF n, found
  <2>4. k = j
    BY <1>1, <2>1, <2>2, <2>3
  <2>5. Cardinality(Ahead(S, found[j])) \in Int
    BY <1>1, <2>1, AheadFinite
  <2> QED
    BY <2>1, <2>2, <2>4, <2>5
<1> HIDE DEF S, n, found
<1>6. last \in Nat /\ end \in Nat /\ last > skip
  BY <1>1, <1>2
<1>7. /\ page \in Seq(S)
      /\ Len(page) = IF skip + 1 <= end THEN end - (skip + 1) + 1 ELSE 0
      /\ \A i \in 1..(end - (skip + 1) + 1) : page[i] = found[skip + 1 + i - 1]
  <2>1. \A i \in (skip + 1)..end : found[i] \in S
    BY <1>1, <1>3, <1>6
  <2> HIDE DEF last, end
  <2> QED
    BY <1>6, <2>1, SubSeqProperties
<1> HIDE DEF page
<1>8. ASSUME NEW r \in S, NEW k \in Nat, k = Cardinality(Ahead(S, r)), k >= skip
      PROVE  (\E i \in DOMAIN page : page[i] = r) \/ k >= skip + Len(page)
  <2>1. k + 1 \in 1..n /\ found[k + 1] = r
    BY <1>5, <1>8
  <2>2. CASE k < end
    <3>1. (k - skip) + 1 \in 1..(end - (skip + 1) + 1) /\ Len(page) = end - (skip + 1) + 1
      BY <1>6, <1>7, <1>8, <2>2
    <3>2. page[(k - skip) + 1] = found[k + 1]
      BY <1>6, <1>7, <1>8, <3>1
    <3>3. (k - skip) + 1 \in DOMAIN page
      BY <1>7, <3>1
    <3> QED
      BY <2>1, <3>2, <3>3
  <2>3. CASE ~(k < end)
    BY <1>6, <1>7, <1>8, <2>3
  <2> QED
    BY <2>2, <2>3
<1>9. ASSUME page = <<>>, NEW r \in S, NEW k \in Nat, k = Cardinality(Ahead(S, r)) PROVE k < skip
  <2>1. ~(skip + 1 <= end)
    BY <1>6, <1>7, <1>9
  <2>2. k < n
    BY <1>1, <1>5, <1>9
  <2> QED
    BY <1>1, <1>6, <2>1, <2>2
<1>10. \A r \in S : Cardinality(Ahead(S, r)) \in Nat
  BY <1>1, AheadFinite DEF n
<1>11. Len(page) \in Nat /\ Len(page) <= LimitOf(limit)
  BY <1>1, <1>2, <1>6, <1>7
<1>12. ASSUME NEW r \in S
       PROVE  \/ Cardinality(Ahead(S, r)) < skip
              \/ \E i \in DOMAIN page : page[i] = r
              \/ Cardinality(Ahead(S, r)) >= skip + Len(page)
  <2>1. PICK k \in Nat : k = Cardinality(Ahead(S, r))
    BY <1>10
  <2>2. CASE k >= skip
    BY <1>8, <2>1, <2>2
  <2>3. CASE ~(k >= skip)
    BY <2>1, <2>3
  <2> QED
    BY <2>2, <2>3
<1>13. page = <<>> => \A r \in S : Cardinality(Ahead(S, r)) < skip
  BY <1>9, <1>10
<1>14. ASSUME NEW i \in 1..Len(page) PROVE Cardinality(Ahead(S, page[i])) = skip + i - 1
  <2>1. skip + 1 + i - 1 \in 1..n /\ page[i] = found[skip + 1 + i - 1]
    BY <1>1, <1>6, <1>7
  <2>2. Cardinality(Ahead(S, page[i])) = (skip + 1 + i - 1) - 1
    BY <1>5a, <2>1
  <2> QED
    BY <1>6, <2>2
<1> QED
  BY <1>4, <1>7, <1>11, <1>12, <1>13, <1>14 DEF S

\* No row is on a page twice.
LEMMA PageIds ==
    ASSUME TableInv, NEW f, NEW limit \in Int, NEW skip \in Nat
    PROVE  LET page == QueryLogs(f, limit, skip)
           IN  /\ page \in Seq(Selected(f)) /\ Len(page) <= LimitOf(limit)
               /\ \A i \in 1..Len(page) : page[i] \in rows /\ page[i].id \in 1..Len(sent)
               /\ \A i, j \in 1..Len(page) : page[i].id = page[j].id => i = j
<1> DEFINE page == QueryLogs(f, limit, skip)
<1>1. /\ page \in Seq(Selected(f)) /\ Len(page) <= LimitOf(limit) /\ Len(page) \in Nat
      /\ \A i \in 1..Len(page) : Cardinality(Ahead(Selected(f), page[i])) = skip + i - 1
  BY PageHolds
<1> HIDE DEF page
<1>2. \A i \in 1..Len(page) : page[i] \in rows
  BY <1>1 DEF Selected
<1>3. \A i \in 1..Len(page) : page[i].id \in 1..Len(sent)
  BY <1>2 DEF TableInv, TableTypes
<1>4. ASSUME NEW i \in 1..Len(page), NEW j \in 1..Len(page), page[i].id = page[j].id PROVE i = j
  <2>1. page[i] = page[j]
    BY <1>2, <1>4 DEF TableInv, TableTypes
  <2>2. skip + i - 1 = skip + j - 1
    BY <1>1, <2>1
  <2> QED
    BY <1>1, <2>2
<1> QED
  BY <1>1, <1>2, <1>3, <1>4 DEF page

-----------------------------------------------------------------------------
(* The client *)

\* The rows the client's filter selects.
Found == Selected(query.filter)

\* A row that was there when the client began and that it was not given has as
\* many rows ahead of it as the client's offset, so it is on a later page.
StillAhead == \A r \in rows : (r.id \in there \ seen) =>
              (r \in Found /\ Cardinality(Ahead(Found, r)) >= offset)

PagerTypes ==
    /\ pager \in {"new", "reading", "done"}
    /\ offset \in Nat
    /\ query.limit \in Int
    /\ there \subseteq 1..Len(sent)
    /\ pager = "new" => there = {} /\ offset = 0

PagingInv == PagerTypes /\ StillAhead /\ PagingMissesNothing

\* What a step of the table may do to the rows ahead of one that stays.
LEMMA AheadKept ==
    ASSUME TableInv, TableInv', UNCHANGED query, NEW r \in rows \cap rows', r \in Found,
           \A q \in rows : Before(q, r) => q \in rows'
    PROVE  r \in Found' /\ Cardinality(Ahead(Found', r)) >= Cardinality(Ahead(Found, r))
<1>1. r \in Found' /\ Ahead(Found, r) \subseteq Ahead(Found', r)
  BY DEF Found, Selected, Ahead
<1>2. Ahead(Found', r) \subseteq rows'
  BY DEF Found, Selected, Ahead
<1>3. IsFiniteSet(rows')
  BY DEF TableInv, TableTypes
<1>4. IsFiniteSet(Ahead(Found', r))
  BY <1>2, <1>3, FS_Subset
<1>5. IsFiniteSet(Ahead(Found, r)) /\ Cardinality(Ahead(Found, r)) <= Cardinality(Ahead(Found', r))
  BY <1>1, <1>4, FS_Subset
<1>6. Cardinality(Ahead(Found, r)) \in Int /\ Cardinality(Ahead(Found', r)) \in Int
  BY <1>4, <1>5, FS_CardinalityType
<1> QED
  BY <1>1, <1>5, <1>6

\* The table may change in any way that adds no row under an old id and that
\* takes no row away from ahead of one that stays.
LEMMA TableStepKeeps ==
    ASSUME TableInv, TableInv', PagingInv, UNCHANGED pagerVars, Len(sent) <= Len(sent'),
           \A r \in rows' : r \in rows \/ r.id > Len(sent),
           \A r \in rows', q \in rows : Before(q, r) => q \in rows'
    PROVE  PagingInv'
<1>1. UNCHANGED <<pager, query, seen, offset, there, began>>
  BY DEF pagerVars
<1>2. Len(sent) \in Nat /\ Len(sent') \in Nat
  BY DEF TableInv, TableTypes
<1>3. ASSUME NEW r \in rows', r.id \in there PROVE r \in rows
  <2>1. r.id \in 1..Len(sent)
    BY <1>3 DEF PagingInv, PagerTypes
  <2> QED
    BY <1>2, <2>1
<1>4. PagerTypes'
  BY <1>1, <1>2 DEF PagingInv, PagerTypes
<1>5. StillAhead'
  <2> SUFFICES ASSUME NEW r \in rows', r.id \in there \ seen
               PROVE  r \in Found' /\ Cardinality(Ahead(Found', r)) >= offset
    BY <1>1 DEF StillAhead
  <2>1. r \in rows /\ r \in Found /\ Cardinality(Ahead(Found, r)) >= offset
    BY <1>3 DEF PagingInv, StillAhead
  <2>2. r \in Found' /\ Cardinality(Ahead(Found', r)) >= Cardinality(Ahead(Found, r))
    BY <1>1, <2>1, AheadKept
  <2>3. /\ IsFiniteSet(Ahead(Found, r)) /\ IsFiniteSet(Ahead(Found', r))
    <3>1. Ahead(Found, r) \subseteq rows /\ Ahead(Found', r) \subseteq rows'
      BY DEF Ahead, Found, Selected
    <3> QED
      BY <3>1, FS_Subset DEF TableInv, TableTypes
  <2>4. Cardinality(Ahead(Found, r)) \in Int /\ Cardinality(Ahead(Found', r)) \in Int
    BY <2>3, FS_CardinalityType
  <2> QED
    BY <2>1, <2>2, <2>4 DEF PagingInv, PagerTypes
<1>6. PagingMissesNothing'
  BY <1>1, <1>3 DEF PagingInv, PagingMissesNothing, IdsOf
<1> QED
  BY <1>4, <1>5, <1>6 DEF PagingInv

LEMMA StartKeeps ==
    ASSUME TableInv, PagingInv, NEW f \in Filters, NEW limit \in Limits, PagerStarts(f, limit)
    PROVE  PagingInv'
<1>1. /\ pager' = "reading" /\ query' = [filter |-> f, limit |-> limit] /\ offset' = 0
      /\ there' = IdsOf({r \in rows : Selects(f, r)}) /\ rows' = rows /\ sent' = sent
  BY DEF PagerStarts, PagingInv, PagerTypes, tableVars
<1>2. PagerTypes'
  BY <1>1, PagingAssumption DEF PagerTypes, PagingAssumption, IdsOf, TableInv, TableTypes
<1>3. StillAhead'
  <2> SUFFICES ASSUME NEW r \in rows, r.id \in there'
               PROVE  r \in Found' /\ Cardinality(Ahead(Found', r)) >= 0
    BY <1>1 DEF StillAhead
  <2>1. Found' = {q \in rows : Selects(f, q)}
    BY <1>1 DEF Found, Selected, Selects
  <2>2. r \in Found'
    BY <1>1, <2>1 DEF IdsOf, TableInv, TableTypes
  <2>3. IsFiniteSet(Ahead(Found', r))
    <3>1. Ahead(Found', r) \subseteq rows
      BY <2>1 DEF Ahead
    <3> QED
      BY <3>1, FS_Subset DEF TableInv, TableTypes
  <2>4. Cardinality(Ahead(Found', r)) \in Nat
    BY <2>3, FS_CardinalityType
  <2> QED
    BY <2>2, <2>4
<1> QED
  BY <1>1, <1>2, <1>3 DEF PagingInv, PagingMissesNothing

LEMMA ReadKeeps ==
    ASSUME TableInv, PagingInv, PagerReads
    PROVE  PagingInv'
<1> DEFINE page == QueryLogs(query.filter, query.limit, offset)
<1>1. /\ seen' = seen \cup IdsOf({page[i] : i \in DOMAIN page})
      /\ offset' = offset + Len(page)
      /\ pager' = IF page = <<>> THEN "done" ELSE "reading"
      /\ pager = "reading" /\ rows' = rows /\ sent' = sent /\ query' = query /\ there' = there
  BY DEF PagerReads, tableVars
<1>2. /\ Len(page) \in Nat
      /\ \A r \in Found : \/ Cardinality(Ahead(Found, r)) < offset
                           \/ \E i \in DOMAIN page : page[i] = r
                           \/ Cardinality(Ahead(Found, r)) >= offset + Len(page)
      /\ page = <<>> => \A r \in Found : Cardinality(Ahead(Found, r)) < offset
  BY PageHolds DEF Found, PagingInv, PagerTypes
<1> HIDE DEF page
<1>3. \A r \in Found : Cardinality(Ahead(Found, r)) \in Nat
  <2> SUFFICES ASSUME NEW r \in Found PROVE Cardinality(Ahead(Found, r)) \in Nat
    OBVIOUS
  <2>1. Ahead(Found, r) \subseteq rows
    BY DEF Ahead, Found, Selected
  <2>2. IsFiniteSet(Ahead(Found, r))
    BY <2>1, FS_Subset DEF TableInv, TableTypes
  <2> QED
    BY <2>2, FS_CardinalityType
<1>4. PagerTypes'
  BY <1>1, <1>2 DEF PagingInv, PagerTypes
<1>5. Found' = Found
  BY <1>1 DEF Found, Selected, Selects
<1>6. StillAhead'
  <2> SUFFICES ASSUME NEW r \in rows, r.id \in there \ seen'
               PROVE  r \in Found /\ Cardinality(Ahead(Found, r)) >= offset'
    BY <1>1, <1>5 DEF StillAhead
  <2>1. r \in Found /\ Cardinality(Ahead(Found, r)) >= offset
    BY <1>1 DEF PagingInv, StillAhead
  <2>2. ~ \E i \in DOMAIN page : page[i] = r
    BY <1>1 DEF IdsOf
  <2>3. ~ (Cardinality(Ahead(Found, r)) < offset)
    BY <1>3, <2>1 DEF PagingInv, PagerTypes
  <2> QED
    BY <1>1, <1>2, <2>1, <2>2, <2>3
<1>7. PagingMissesNothing'
  <2> SUFFICES ASSUME page = <<>>, NEW r \in rows, r.id \in there, r.id \notin seen PROVE FALSE
    BY <1>1 DEF PagingMissesNothing, IdsOf
  <2>1. r \in Found /\ Cardinality(Ahead(Found, r)) >= offset
    BY DEF PagingInv, StillAhead
  <2>2. Cardinality(Ahead(Found, r)) < offset
    BY <1>2, <2>1
  <2> QED
    BY <1>3, <2>1, <2>2 DEF PagingInv, PagerTypes
<1> QED
  BY <1>4, <1>6, <1>7 DEF PagingInv

\* Whoever pages, the table is as TableSpec says.
LEMMA PagingIsTable == PagingSpec => TableSpec
<1>1. PagingInit => TableInit
  BY DEF PagingInit
<1>2. [PagingNext]_pagingVars => [TableNext]_tableVars
  BY DEF PagingNext, pagingVars, tableVars, TableNext, PagerStarts, PagerReads, Logged
<1> QED
  BY <1>1, <1>2, PTL DEF PagingSpec, TableSpec

LEMMA PagingHolds == PagingSpec => []PagingInv
<1>1. PagingInit => PagingInv
  <2> SUFFICES ASSUME PagingInit PROVE PagingInv
    OBVIOUS
  <2>1. sent = <<>> /\ rows = {} /\ pager = "new" /\ offset = 0 /\ there = {} /\ query.limit = 0
    BY DEF PagingInit, TableInit
  <2> QED
    BY <2>1 DEF PagingInv, PagerTypes, StillAhead, PagingMissesNothing
<1>2. TableInv /\ TableInv' /\ PagingInv /\ [PagingNext]_pagingVars => PagingInv'
  <2> SUFFICES ASSUME TableInv, TableInv', PagingInv, [PagingNext]_pagingVars PROVE PagingInv'
    OBVIOUS
  <2>0. Len(sent) \in Nat
    BY DEF TableInv, TableTypes
  <2>1. ASSUME NEW e \in Logged, Write(e), UNCHANGED pagerVars PROVE PagingInv'
    <3>1. /\ rows' = rows \cup {RowOf(e, Len(sent) + 1)} /\ RowOf(e, Len(sent) + 1).id = Len(sent) + 1
          /\ Len(sent') = Len(sent) + 1
      BY <2>1, WriteKeeps
    <3>2. \A r \in rows' : r \in rows \/ r.id > Len(sent)
      BY <2>0, <3>1
    <3>3. \A r \in rows', q \in rows : Before(q, r) => q \in rows'
      BY <3>1
    <3> QED
      BY <2>0, <2>1, <3>1, <3>2, <3>3, TableStepKeeps
  <2>2. CASE PruneOldLogs /\ UNCHANGED pagerVars
    <3>1. rows' = {r \in rows : r.ts >= now - Retention} /\ sent' = sent
      BY <2>2 DEF PruneOldLogs
    <3>2. now \in Int /\ Retention \in Int /\ \A r \in rows : r.ts \in Int
      BY QueryAssumption DEF TableInv, TableTypes
    <3>3. \A r \in rows', q \in rows : Before(q, r) => q \in rows'
      BY <3>1, <3>2 DEF Before
    <3> QED
      BY <2>0, <2>2, <3>1, <3>3, TableStepKeeps
  <2>3. CASE UNCHANGED <<rows, sent>> /\ UNCHANGED pagerVars
    BY <2>0, <2>3, TableStepKeeps
  <2>4. ASSUME NEW f \in Filters, NEW limit \in Limits, PagerStarts(f, limit) PROVE PagingInv'
    BY <2>4, StartKeeps, PagingAssumption
  <2>5. CASE PagerReads
    BY <2>5, ReadKeeps
  <2> QED
    BY <2>1, <2>2, <2>3, <2>4, <2>5 DEF PagingNext, Tick, pagingVars, tableVars, Logged
<1> QED
  BY <1>1, <1>2, PagingIsTable, TableHolds, PTL DEF PagingSpec

\* A client that pages to the end, while rows are written and pruned between its
\* pages, misses no row that was there when it began and still is (HandleQueryLogs,
\* QueryLogs: ORDER BY timestamp DESC LIMIT OFFSET).
THEOREM PagingMissesNothingHolds == PagingSpec => []PagingMissesNothing
<1>1. PagingInv => PagingMissesNothing
  BY DEF PagingInv
<1> QED
  BY <1>1, PagingHolds, PTL
-----------------------------------------------------------------------------
(* No page repeats a row *)

\* As long as nothing is written, the client was given exactly the rows with
\* fewer others ahead of them than its offset, as far as they are still there.
GivenAreAhead ==
    \A r \in Found : r.id \in seen <=> Cardinality(Ahead(Found, r)) < offset

OnceInv ==
    /\ began \in 0..Len(sent)
    /\ pager = "new" => seen = {}
    /\ Len(sent) = began => /\ IsFiniteSet(seen) /\ Cardinality(seen) = offset
                            /\ GivenAreAhead

\* The rows of a page are new to the client, and as many as its offset grows by.
LEMMA ReadsOnce ==
    ASSUME TableInv, PagingInv, OnceInv, PagerReads
    PROVE  OnceInv'
<1> DEFINE page == QueryLogs(query.filter, query.limit, offset)
           ids == IdsOf({page[i] : i \in DOMAIN page})
           n == Len(page)
<1>1. /\ seen' = seen \cup ids /\ offset' = offset + n
      /\ pager' = IF page = <<>> THEN "done" ELSE "reading"
      /\ rows' = rows /\ sent' = sent /\ query' = query /\ began' = began
  BY DEF PagerReads, tableVars
<1>2. offset \in Nat /\ query.limit \in Int
  BY DEF PagingInv, PagerTypes
<1>3. /\ page \in Seq(Found) /\ n \in Nat
      /\ \A i \in 1..n : Cardinality(Ahead(Found, page[i])) = offset + i - 1
      /\ \A r \in Found : \/ Cardinality(Ahead(Found, r)) < offset
                           \/ \E i \in DOMAIN page : page[i] = r
                           \/ Cardinality(Ahead(Found, r)) >= offset + n
  BY <1>2, PageHolds DEF Found
<1>4. \A i, j \in 1..n : page[i].id = page[j].id => i = j
  BY <1>2, PageIds
<1> HIDE DEF page
<1>5. DOMAIN page = 1..n /\ \A i \in 1..n : page[i] \in Found
  BY <1>3
<1>6. ids = {page[i].id : i \in 1..n}
  BY <1>5 DEF IdsOf
<1>7. Found' = Found
  BY <1>1 DEF Found, Selected, Selects
<1> SUFFICES ASSUME Len(sent) = began
             PROVE  /\ IsFiniteSet(seen \cup ids) /\ Cardinality(seen \cup ids) = offset + n
                    /\ \A r \in Found : r.id \in seen \cup ids <=> Cardinality(Ahead(Found, r)) < offset + n
  BY <1>1, <1>7 DEF OnceInv, GivenAreAhead
<1>8. IsFiniteSet(seen) /\ Cardinality(seen) = offset
  BY DEF OnceInv
<1>9. \A r \in Found : r.id \in seen <=> Cardinality(Ahead(Found, r)) < offset
  BY DEF OnceInv, GivenAreAhead
<1>10. \A r \in Found : Cardinality(Ahead(Found, r)) \in Nat
  <2> SUFFICES ASSUME NEW r \in Found PROVE Cardinality(Ahead(Found, r)) \in Nat
    OBVIOUS
  <2>1. Ahead(Found, r) \subseteq rows
    BY DEF Ahead, Found, Selected
  <2>2. IsFiniteSet(Ahead(Found, r))
    BY <2>1, FS_Subset DEF TableInv, TableTypes
  <2> QED
    BY <2>2, FS_CardinalityType
<1> HIDE DEF n, ids
<1>11. seen \cap ids = {}
  <2> SUFFICES ASSUME NEW i \in 1..n, page[i].id \in seen PROVE FALSE
    BY <1>6
  <2>1. Cardinality(Ahead(Found, page[i])) < offset
    BY <1>5, <1>9
  <2> QED
    BY <1>2, <1>3, <2>1
<1>12. IsFiniteSet(ids) /\ Cardinality(ids) = n
  <2> DEFINE f == [i \in 1..n |-> page[i].id]
  <2>1. f \in Bijection(1..n, ids)
    <3>1. \A i, j \in 1..n : f[i] = f[j] => i = j
      BY <1>4
    <3> QED
      BY <1>6, <3>1 DEF Bijection, Injection, Surjection, IsInjective
  <2>2. ExistsBijection(1..n, ids)
    BY <2>1 DEF ExistsBijection
  <2> QED
    BY <1>3, <2>2, FS_CountingElements, FS_NatBijection
<1>13. IsFiniteSet(seen \cup ids) /\ Cardinality(seen \cup ids) = offset + n
  <2>1. /\ IsFiniteSet(seen \cup ids)
        /\ Cardinality(seen \cup ids) = Cardinality(seen) + Cardinality(ids) - Cardinality(seen \cap ids)
    BY <1>8, <1>12, FS_Union
  <2>2. Cardinality(seen \cap ids) = 0
    BY <1>11, FS_EmptySet
  <2> QED
    BY <1>2, <1>3, <1>8, <1>12, <2>1, <2>2
<1>14. ASSUME NEW r \in Found
       PROVE  r.id \in seen \cup ids <=> Cardinality(Ahead(Found, r)) < offset + n
  <2>0. PICK k \in Nat : k = Cardinality(Ahead(Found, r))
    BY <1>10
  <2>1. CASE k < offset
    BY <1>2, <1>3, <1>9, <2>0, <2>1
  <2>2. CASE r.id \in ids
    <3>1. PICK i \in 1..n : page[i].id = r.id
      BY <1>6, <2>2
    <3>2. page[i] = r
      BY <1>5, <3>1 DEF Found, Selected, TableInv, TableTypes
    <3>3. k = offset + i - 1
      BY <1>3, <2>0, <3>2
    <3> QED
      BY <1>2, <1>3, <2>0, <2>2, <3>3
  <2>3. CASE ~(k < offset) /\ r.id \notin ids
    <3>1. ~ \E i \in DOMAIN page : page[i] = r
      BY <1>5, <1>6, <2>3
    <3>2. k >= offset + n /\ r.id \notin seen
      BY <1>3, <1>9, <2>0, <2>3, <3>1
    <3> QED
      BY <1>2, <1>3, <2>0, <2>3, <3>2
  <2> QED
    BY <2>1, <2>2, <2>3
<1> QED
  BY <1>13, <1>14

\* Pruning takes no row away from ahead of one that stays.
LEMMA PruneKeepsAhead ==
    ASSUME TableInv, PruneOldLogs, UNCHANGED query, NEW r \in Found'
    PROVE  r \in Found /\ Ahead(Found', r) = Ahead(Found, r)
<1>1. rows' = {q \in rows : q.ts >= now - Retention}
  BY DEF PruneOldLogs
<1>2. now \in Int /\ Retention \in Int /\ \A q \in rows : q.ts \in Int
  BY QueryAssumption DEF TableInv, TableTypes
<1>3. Found' = {q \in rows' : Selects(query.filter, q)} /\ Found = {q \in rows : Selects(query.filter, q)}
  BY DEF Found, Selected, Selects
<1>4. r \in rows' /\ r \in rows /\ r \in Found
  BY <1>1, <1>3
<1>5. \A q \in rows : Before(q, r) => q \in rows'
  BY <1>1, <1>2, <1>4 DEF Before
<1>6. Ahead(Found', r) = Ahead(Found, r)
  BY <1>1, <1>3, <1>5 DEF Ahead
<1> QED
  BY <1>4, <1>6

\* A client is given no row twice until one is written, whatever is pruned between
\* its pages (HandleQueryLogs, QueryLogs: ORDER BY timestamp DESC LIMIT OFFSET).
THEOREM PagedOnceHolds == PagingSpec => []PagedOnce
<1>1. PagingInit => OnceInv
  <2> SUFFICES ASSUME PagingInit PROVE OnceInv
    OBVIOUS
  <2>1. sent = <<>> /\ rows = {} /\ seen = {} /\ offset = 0 /\ began = 0
    BY DEF PagingInit, TableInit
  <2> QED
    BY <2>1, FS_EmptySet DEF OnceInv, GivenAreAhead, Found, Selected
<1>2. TableInv /\ PagingInv /\ OnceInv /\ [PagingNext]_pagingVars => OnceInv'
  <2> SUFFICES ASSUME TableInv, PagingInv, OnceInv, [PagingNext]_pagingVars PROVE OnceInv'
    OBVIOUS
  <2>0. Len(sent) \in Nat
    BY DEF TableInv, TableTypes
  <2>1. ASSUME NEW e \in Logged, Write(e), UNCHANGED pagerVars PROVE OnceInv'
    <3>1. Len(sent') = Len(sent) + 1
      BY <2>1, WriteKeeps
    <3> QED
      BY <2>0, <2>1, <3>1 DEF OnceInv, pagerVars
  <2>2. CASE PruneOldLogs /\ UNCHANGED pagerVars
    <3>1. UNCHANGED <<pager, query, seen, offset, there, began>> /\ sent' = sent
      BY <2>2 DEF pagerVars, PruneOldLogs
    <3>2. \A r \in Found' : r \in Found /\ Ahead(Found', r) = Ahead(Found, r)
      BY <2>2, <3>1, PruneKeepsAhead
    <3> QED
      BY <3>1, <3>2 DEF OnceInv, GivenAreAhead
  <2>3. CASE UNCHANGED <<rows, sent>> /\ UNCHANGED pagerVars
    <3>1. UNCHANGED <<pager, query, seen, offset, there, began, rows, sent>>
      BY <2>3 DEF pagerVars
    <3>2. Found' = Found
      BY <3>1 DEF Found, Selected, Selects
    <3> QED
      BY <3>1, <3>2 DEF OnceInv, GivenAreAhead
  <2>4. ASSUME NEW f \in Filters, NEW limit \in Limits, PagerStarts(f, limit) PROVE OnceInv'
    <3>1. /\ pager' = "reading" /\ offset' = 0 /\ seen' = {} /\ began' = Len(sent) /\ sent' = sent
          /\ rows' = rows
      BY <2>4 DEF PagerStarts, OnceInv, PagingInv, PagerTypes, tableVars
    <3>2. ASSUME NEW r \in Found' PROVE Cardinality(Ahead(Found', r)) \in Nat
      <4>1. Ahead(Found', r) \subseteq rows'
        BY DEF Ahead, Found, Selected
      <4>2. IsFiniteSet(Ahead(Found', r))
        BY <3>1, <4>1, FS_Subset DEF TableInv, TableTypes
      <4> QED
        BY <4>2, FS_CardinalityType
    <3>3. \A r \in Found' : ~(Cardinality(Ahead(Found', r)) < 0)
      BY <3>2
    <3> QED
      BY <2>0, <3>1, <3>3, FS_EmptySet DEF OnceInv, GivenAreAhead
  <2>5. CASE PagerReads
    BY <2>5, ReadsOnce
  <2> QED
    BY <2>1, <2>2, <2>3, <2>4, <2>5 DEF PagingNext, Tick, pagingVars, tableVars, Logged
<1>3. OnceInv => PagedOnce
  BY DEF OnceInv, PagedOnce
<1> QED
  BY <1>1, <1>2, <1>3, PagingIsTable, TableHolds, PagingHolds, PTL DEF PagingSpec
-----------------------------------------------------------------------------
(* The log explorer *)

QueuedTypes == queued \in Seq(Logged)

LEMMA QueuedHolds == DashSpec => []QueuedTypes
<1>1. DashInit => QueuedTypes
  <2>1. DashInit => queued = <<>>
    BY DEF DashInit
  <2> QED
    BY <2>1 DEF QueuedTypes
<1>2. QueuedTypes /\ [DashNext]_dashVars => QueuedTypes'
  <2> SUFFICES ASSUME QueuedTypes, [DashNext]_dashVars PROVE QueuedTypes'
    OBVIOUS
  <2>1. ASSUME NEW e \in Entries, Ingest(e) PROVE QueuedTypes'
    <3>1. Ingested(e) \in Logged /\ queued' = Append(queued, Ingested(e))
      BY <2>1 DEF Ingest, Logged
    <3> QED
      BY <3>1 DEF QueuedTypes
  <2>2. CASE Flush
    BY <2>2 DEF Flush, QueuedTypes
  <2>3. CASE UNCHANGED queued
    BY <2>3 DEF QueuedTypes
  <2>4. QED
    BY <2>1, <2>2, <2>3 DEF DashNext, ServerStep, BrowserStep, dashVars, pageVars, inputVars,
       Answer, Poll, SelectLevel, Type, Debounced, Refresh, Render, FetchFails, PrependLiveLog, EventLost
<1> QED
  BY <1>1, <1>2, PTL DEF DashSpec

\* Whatever the browser does, the table is as TableSpec says.
LEMMA DashIsTable == DashSpec => TableSpec
<1>1. DashInit => TableInit
  BY DEF DashInit
<1>2. QueuedTypes /\ [DashNext]_dashVars => [TableNext]_tableVars
  <2> SUFFICES ASSUME QueuedTypes, [DashNext]_dashVars PROVE [TableNext]_tableVars
    OBVIOUS
  <2>1. CASE Flush
    <3>1. Head(queued) \in Logged /\ Write(Head(queued))
      BY <2>1 DEF Flush, QueuedTypes
    <3> QED
      BY <3>1 DEF TableNext
  <2>2. CASE PruneOldLogs \/ Tick
    BY <2>2 DEF TableNext
  <2>3. CASE UNCHANGED tableVars
    BY <2>3
  <2> QED
    BY <2>1, <2>2, <2>3 DEF DashNext, ServerStep, BrowserStep, dashVars, pageVars, inputVars,
       Ingest, Answer, Poll, SelectLevel, Type, Debounced, Refresh, Render, FetchFails,
       PrependLiveLog, EventLost
<1> QED
  BY <1>1, <1>2, QueuedHolds, PTL DEF DashSpec, TableSpec

\* The rows of the table that the explorer reads are found as they were sent.
THEOREM ShownAsSent == DashSpec => []FoundAsSent
BY DashIsTable, FoundAsSentHolds, PTL

LEMMA DashNumbers ==
    /\ MaxEntries \in Int /\ MaxEntries <= MaxLogs /\ MaxFaults \in Nat /\ MaxChanges \in Nat
    /\ LimitOf(ViewLimit) \in Int /\ MaxView \in Nat /\ LimitOf(ViewLimit) <= MaxView
<1>1. /\ MaxEntries \in 0..MaxLogs /\ MaxFaults \in Nat /\ MaxChanges \in Nat
      /\ ViewLimit \in Int /\ MaxView \in Nat /\ LimitOf(ViewLimit) <= MaxView
  BY Zenon, DashAssumption DEF DashAssumption
<1>2. MaxLogs \in Int /\ DefaultLimit \in Int
  BY QueryAssumption
<1> QED
  BY <1>1, <1>2 DEF LimitOf

\* Answers to the explorer's queries: ids of rows, none twice.
Answers ==
    {p \in Seq(1..Len(sent)) : /\ Len(p) <= LimitOf(ViewLimit)
                               /\ \A i, j \in 1..Len(p) : p[i] = p[j] => i = j}

\* What a fetch in flight may be.
Fits(q) ==
    \/ q = NoRequest
    \/ q.at = "sent" /\ \E l \in Levels, w \in Searches : q.filter = FilterOf(l, w)
    \/ q.at = "answered" /\ q.logs \in Answers

AcceptedSoFar == Len(sent) + Len(queued)

DashTypes ==
    /\ queued \in Seq(Logged) /\ AcceptedSoFar <= MaxEntries
    /\ events \subseteq 1..AcceptedSoFar
    /\ level \in Levels /\ search \in Searches /\ typed \in BOOLEAN
    /\ DOMAIN request = Fetches /\ \A s \in Fetches : Fits(request[s])
    /\ view \in Seq(1..AcceptedSoFar) /\ Len(view) <= MaxView
    /\ changes \in 0..MaxChanges /\ faults \in 0..MaxFaults

\* Where row n is shown.
Places(v, n) == {i \in DOMAIN v : v[i] = n}

OnceShown ==
    \A n \in 1..AcceptedSoFar : Cardinality(Places(view, n)) <= IF n \in events THEN 1 ELSE 2

DashInv == DashTypes /\ OnceShown

LEMMA PlacesFinite ==
    ASSUME NEW S, NEW v \in Seq(S), NEW n
    PROVE  IsFiniteSet(Places(v, n)) /\ Cardinality(Places(v, n)) \in Nat
<1>1. Places(v, n) \subseteq 1..Len(v) /\ Len(v) \in Nat
  BY DEF Places
<1>2. IsFiniteSet(1..Len(v))
  BY <1>1, FS_Interval
<1> QED
  BY <1>1, <1>2, FS_Subset, FS_CardinalityType

\* An answer shows a row at most once.
LEMMA AnswerShows ==
    ASSUME NEW p \in Answers, NEW n
    PROVE  Cardinality(Places(p, n)) <= 1
<1>1. \A i, j \in Places(p, n) : i = j
  BY DEF Places, Answers
<1>2. Places(p, n) = {} \/ \E i : Places(p, n) = {i}
  BY <1>1
<1>3. CASE Places(p, n) = {}
  BY <1>3, FS_EmptySet
<1>4. ASSUME NEW i, Places(p, n) = {i} PROVE Cardinality(Places(p, n)) <= 1
  <2>1. Cardinality({i}) = 1
    BY FS_Singleton
  <2> QED
    BY <1>4, <2>1
<1> QED
  BY <1>2, <1>3, <1>4

\* A row in front moves the others down one place.
LEMMA FrontShows ==
    ASSUME NEW S, NEW v \in Seq(S), NEW w \in Seq(S), Len(w) <= Len(v) + 1, NEW n,
           \A i \in 1..Len(w) : w[i] = IF i = 1 THEN n ELSE v[i - 1], NEW m
    PROVE  Cardinality(Places(w, m)) <= Cardinality(Places(v, m)) + IF m = n THEN 1 ELSE 0
<1> DEFINE W == Places(w, m)
           V == Places(v, m)
           f == [i \in W \ {1} |-> i - 1]
<1>1. /\ IsFiniteSet(W) /\ Cardinality(W) \in Nat
      /\ IsFiniteSet(V) /\ Cardinality(V) \in Nat
  BY PlacesFinite
<1>2. f \in Injection(W \ {1}, V)
  <2>1. \A i \in W \ {1} : i \in 2..Len(w) /\ w[i] = m
    BY DEF Places
  <2>2. \A i \in W \ {1} : i - 1 \in V
    BY <2>1 DEF Places
  <2>3. \A i, j \in W \ {1} : i - 1 = j - 1 => i = j
    BY <2>1
  <2> HIDE DEF V, W
  <2> QED
    BY <2>2, <2>3 DEF Injection, IsInjective
<1>3. 1 \in W => m = n
  BY DEF Places
<1> HIDE DEF W, V, f
<1>4. IsFiniteSet(W \ {1}) /\ Cardinality(W \ {1}) = IF 1 \in W THEN Cardinality(W) - 1 ELSE Cardinality(W)
  BY <1>1, FS_RemoveElement
<1>5. Cardinality(W \ {1}) <= Cardinality(V)
  BY <1>1, <1>2, FS_Injection
<1>6. Cardinality(W) <= Cardinality(V) + IF m = n THEN 1 ELSE 0
  BY <1>1, <1>3, <1>4, <1>5
<1> QED
  BY <1>6 DEF W, V

LEMMA AnswersGrow ==
    ASSUME Len(sent) \in Nat, Len(sent') \in Nat, Len(sent) <= Len(sent')
    PROVE  Answers \subseteq Answers' /\ \A q : Fits(q) => Fits(q)'
<1>1. Seq(1..Len(sent)) \subseteq Seq(1..Len(sent'))
  <2>1. 1..Len(sent) \subseteq 1..Len(sent')
    OBVIOUS
  <2> QED
    BY <2>1
<1>2. Answers \subseteq Answers'
  BY <1>1 DEF Answers, LimitOf
<1>3. ASSUME NEW q, Fits(q) PROVE Fits(q)'
  BY Zenon, <1>2, <1>3 DEF Fits, FilterOf, NoFilter, Upper, Lower, NoRequest
<1> QED
  BY <1>2, <1>3

\* What the server answers (Answer).
LEMMA AnswerFits ==
    ASSUME TableInv, NEW f
    PROVE  IdsIn(QueryLogs(f, ViewLimit, 0)) \in Answers
<1> DEFINE page == QueryLogs(f, ViewLimit, 0)
           S == Selected(f)
<1>1. /\ page \in Seq(S) /\ Len(page) <= LimitOf(ViewLimit)
      /\ \A i \in 1..Len(page) : page[i].id \in 1..Len(sent)
      /\ \A i, j \in 1..Len(page) : page[i].id = page[j].id => i = j
  BY PageIds, DashAssumption
<1> HIDE DEF page, S
<1>2. IdsIn(page) = [i \in 1..Len(page) |-> page[i].id] /\ Len(page) \in Nat
  BY <1>1 DEF IdsIn
<1>3. IdsIn(page) \in Seq(1..Len(sent)) /\ Len(IdsIn(page)) = Len(page)
  BY <1>1, <1>2
<1>4. \A i \in 1..Len(page) : IdsIn(page)[i] = page[i].id
  BY <1>2
<1> QED
  BY <1>1, <1>3, <1>4 DEF Answers, page

\* A step that changes at most one request, to one that fits.
RequestsFit == DOMAIN request = Fetches /\ \A s \in Fetches : Fits(request[s])

LEMMA FetchFits ==
    ASSUME RequestsFit, NEW s \in Fetches, NEW l \in Levels, NEW w \in Searches, FetchWith(s, l, w)
    PROVE  DOMAIN request' = Fetches /\ \A t \in Fetches : Fits(request'[t])
<1> DEFINE q == [at |-> "sent", filter |-> FilterOf(l, w)]
<1>1. q.at = "sent" /\ q.filter = FilterOf(l, w)
  OBVIOUS
<1>2. Fits(q)
  BY Zenon, <1>1 DEF Fits
<1>3. request' = [request EXCEPT ![s] = q]
  BY DEF FetchWith
<1> HIDE DEF q
<1>4. DOMAIN request' = Fetches /\ \A t \in Fetches : request'[t] = IF t = s THEN q ELSE request[t]
  BY <1>3 DEF RequestsFit
<1> QED
  BY Zenon, <1>2, <1>4 DEF RequestsFit

LEMMA FreeFits ==
    ASSUME RequestsFit, NEW s \in Fetches, request' = [request EXCEPT ![s] = NoRequest]
    PROVE  DOMAIN request' = Fetches /\ \A t \in Fetches : Fits(request'[t])
<1>1. Fits(NoRequest)
  BY Zenon DEF Fits
<1> DEFINE q == NoRequest
<1>2. request' = [request EXCEPT ![s] = q] /\ Fits(q)
  BY <1>1
<1> HIDE DEF q
<1>3. DOMAIN request' = Fetches /\ \A t \in Fetches : request'[t] = IF t = s THEN q ELSE request[t]
  BY <1>2 DEF RequestsFit
<1> QED
  BY Zenon, <1>2, <1>3 DEF RequestsFit

\* Steps that change at most the inputs and the requests.
LEMMA InputsKeep ==
    ASSUME TableInv, DashInv, UNCHANGED <<sent, queued, events, view, faults>>,
           level' \in Levels, search' \in Searches, typed' \in BOOLEAN,
           changes' \in 0..MaxChanges,
           DOMAIN request' = Fetches, \A s \in Fetches : Fits(request'[s])
    PROVE  DashInv'
<1>1. AcceptedSoFar' = AcceptedSoFar
  BY DEF AcceptedSoFar
<1>2. Len(sent) \in Nat
  BY DEF TableInv, TableTypes
<1>3. \A q : Fits(q) => Fits(q)'
  BY <1>2, AnswersGrow
<1>4. \A s \in Fetches : Fits(request[s])'
  BY Zenon, <1>3
<1>5. DashTypes'
  BY <1>1, <1>4 DEF DashInv, DashTypes
<1>6. OnceShown'
  BY <1>1 DEF DashInv, OnceShown
<1> QED
  BY <1>5, <1>6 DEF DashInv

LEMMA IngestKeeps ==
    ASSUME TableInv, DashInv, NEW e \in Entries, Ingest(e)
    PROVE  DashInv'
<1>1. /\ Len(Accepted) < MaxEntries /\ queued' = Append(queued, Ingested(e))
      /\ events' = events \cup {Len(Accepted) + 1}
      /\ UNCHANGED <<sent, level, search, typed, changes, request, view, faults>>
  BY DEF Ingest, tableVars, pageVars, inputVars
<1>0. /\ queued \in Seq(Logged) /\ events \subseteq 1..AcceptedSoFar
      /\ view \in Seq(1..AcceptedSoFar)
  BY DEF DashInv, DashTypes
<1>2. Len(sent) \in Nat /\ Len(queued) \in Nat /\ Len(Accepted) = AcceptedSoFar
  BY <1>0 DEF TableInv, TableTypes, Accepted, AcceptedSoFar
<1>3. queued' \in Seq(Logged) /\ Len(queued') = Len(queued) + 1
  <2>1. Ingested(e) \in Logged
    BY DEF Logged
  <2> QED
    BY <1>0, <1>1, <2>1
<1>4. AcceptedSoFar' = AcceptedSoFar + 1 /\ AcceptedSoFar \in Nat
  BY <1>1, <1>2, <1>3 DEF AcceptedSoFar
<1>5. 1..AcceptedSoFar \subseteq 1..AcceptedSoFar' /\ AcceptedSoFar' \in 1..AcceptedSoFar'
  BY <1>4
<1>6. AcceptedSoFar' <= MaxEntries
  BY <1>1, <1>2, <1>4, DashNumbers
<1>7. events' \subseteq 1..AcceptedSoFar' /\ view' \in Seq(1..AcceptedSoFar')
  BY <1>0, <1>1, <1>2, <1>4, <1>5
<1>8. DashTypes'
  <2>1. \A q : Fits(q) => Fits(q)'
    BY <1>1, <1>2, AnswersGrow
  <2>2. \A s \in Fetches : Fits(request[s])'
    BY Zenon, <1>1, <2>1 DEF DashInv, DashTypes
  <2> QED
    BY <1>1, <1>3, <1>6, <1>7, <2>2 DEF DashInv, DashTypes
<1>9. OnceShown'
  <2> SUFFICES ASSUME NEW n \in 1..AcceptedSoFar'
               PROVE  Cardinality(Places(view, n)) <= IF n \in events' THEN 1 ELSE 2
    BY <1>1 DEF OnceShown
  <2>1. CASE n \in 1..AcceptedSoFar
    <3>1. n \in events' <=> n \in events
      BY <1>1, <1>2, <1>4, <2>1
    <3> QED
      BY <2>1, <3>1 DEF DashInv, OnceShown
  <2>2. CASE n \notin 1..AcceptedSoFar
    <3>1. \A i \in DOMAIN view : view[i] \in 1..AcceptedSoFar
      BY <1>0, LenProperties, ElementOfSeq
    <3>2. Places(view, n) = {}
      BY <2>2, <3>1 DEF Places
    <3> QED
      BY <3>2, FS_EmptySet
  <2> QED
    BY <2>1, <2>2
<1> QED
  BY <1>8, <1>9 DEF DashInv

LEMMA FlushKeeps ==
    ASSUME TableInv, DashInv, Flush
    PROVE  DashInv'
<1>1. /\ queued # <<>> /\ Write(Head(queued)) /\ queued' = Tail(queued)
      /\ UNCHANGED <<events, level, search, typed, changes, request, view, faults>>
  BY DEF Flush, pageVars, inputVars
<1>2. Len(sent) \in Nat /\ Len(queued) \in Nat \ {0} /\ Head(queued) \in Logged
  BY <1>1 DEF TableInv, TableTypes, DashInv, DashTypes
<1>3. queued' \in Seq(Logged) /\ Len(queued') = Len(queued) - 1
  BY <1>1, <1>2 DEF DashInv, DashTypes
<1>4. Len(sent') = Len(sent) + 1
  BY <1>1, <1>2, WriteKeeps
<1>5. AcceptedSoFar' = AcceptedSoFar
  BY <1>2, <1>3, <1>4 DEF AcceptedSoFar
<1>6. \A q : Fits(q) => Fits(q)'
  BY <1>2, <1>4, AnswersGrow
<1>7. \A s \in Fetches : Fits(request[s])'
  BY Zenon, <1>1, <1>6 DEF DashInv, DashTypes
<1>8. DashTypes'
  BY <1>1, <1>3, <1>5, <1>7 DEF DashInv, DashTypes
<1>9. OnceShown'
  BY <1>1, <1>5 DEF DashInv, OnceShown
<1> QED
  BY <1>8, <1>9 DEF DashInv

\* The answer to a fetch, when the server has made it and when the browser renders it.
LEMMA AnswerKeeps ==
    ASSUME TableInv, DashInv, NEW s \in Fetches, Answer(s)
    PROVE  DashInv'
<1> DEFINE logs == IdsIn(QueryLogs(request[s].filter, ViewLimit, 0))
           q == [at |-> "answered", logs |-> logs]
<1>1. logs \in Answers
  BY AnswerFits
<1>2. UNCHANGED <<sent, queued, events, view, faults, level, search, typed, changes>>
  BY DEF Answer, tableVars, inputVars
<1>3. request' = [request EXCEPT ![s] = q]
  BY DEF Answer
<1>4. q.at = "answered" /\ q.logs = logs
  OBVIOUS
<1> HIDE DEF logs
<1>5. Fits(q)
  BY Zenon, <1>1, <1>4 DEF Fits
<1> HIDE DEF q
<1>6. DOMAIN request' = Fetches /\ \A t \in Fetches : request'[t] = IF t = s THEN q ELSE request[t]
  BY <1>3 DEF DashInv, DashTypes
<1>7. \A t \in Fetches : Fits(request'[t])
  BY Zenon, <1>5, <1>6 DEF DashInv, DashTypes
<1>8. level' \in Levels /\ search' \in Searches /\ typed' \in BOOLEAN /\ changes' \in 0..MaxChanges
  BY <1>2 DEF DashInv, DashTypes
<1> QED
  BY <1>2, <1>6, <1>7, <1>8, InputsKeep

LEMMA RenderKeeps ==
    ASSUME TableInv, DashInv, NEW s \in Fetches, Render(s)
    PROVE  DashInv'
<1>1. /\ request[s].at = "answered" /\ view' = request[s].logs
      /\ request' = [request EXCEPT ![s] = NoRequest]
      /\ UNCHANGED <<sent, queued, events, faults, level, search, typed, changes>>
  BY DEF Render, tableVars, inputVars
<1>2. Len(sent) \in Nat /\ queued \in Seq(Logged) /\ RequestsFit
  BY DEF TableInv, TableTypes, DashInv, DashTypes, RequestsFit
<1>3. view' \in Answers
  <2>1. Fits(request[s])
    BY <1>2 DEF RequestsFit
  <2>2. request[s] # NoRequest
    BY <1>1 DEF NoRequest
  <2> QED
    BY <1>1, <2>1, <2>2 DEF Fits
<1>4. AcceptedSoFar' = AcceptedSoFar /\ AcceptedSoFar \in Nat /\ Len(sent) <= AcceptedSoFar
  BY <1>1, <1>2 DEF AcceptedSoFar
<1>5. view' \in Seq(1..AcceptedSoFar') /\ Len(view') <= MaxView
  <2>1. view' \in Seq(1..Len(sent)) /\ Len(view') <= LimitOf(ViewLimit)
    BY <1>3 DEF Answers
  <2>2. 1..Len(sent) \subseteq 1..AcceptedSoFar'
    BY <1>2, <1>4
  <2>3. LimitOf(ViewLimit) \in Int /\ MaxView \in Int /\ LimitOf(ViewLimit) <= MaxView
    BY DashNumbers
  <2>4. Len(view') \in Nat
    BY <2>1, LenProperties
  <2>5. view' \in Seq(1..AcceptedSoFar')
    BY <2>1, <2>2, SeqMonotonic
  <2> QED
    BY <2>1, <2>3, <2>4, <2>5
<1>6. DOMAIN request' = Fetches /\ \A t \in Fetches : Fits(request'[t])
  BY <1>1, <1>2, FreeFits
<1>7. DashTypes'
  <2>1. \A q : Fits(q) => Fits(q)'
    BY <1>1, <1>2, AnswersGrow
  <2>2. \A t \in Fetches : Fits(request[t])'
    BY Zenon, <1>6, <2>1
  <2> QED
    BY <1>1, <1>4, <1>5, <1>6, <2>2 DEF DashInv, DashTypes
<1>8. OnceShown'
  <2> SUFFICES ASSUME NEW n \in 1..AcceptedSoFar
               PROVE  Cardinality(Places(view', n)) <= IF n \in events THEN 1 ELSE 2
    BY <1>1, <1>4 DEF OnceShown, Places
  <2>1. PICK w \in Answers : w = view'
    BY <1>3
  <2>2. Cardinality(Places(w, n)) <= 1 /\ Cardinality(Places(w, n)) \in Nat
    BY AnswerShows, PlacesFinite DEF Answers
  <2> QED
    BY <2>1, <2>2
<1> QED
  BY <1>7, <1>8 DEF DashInv

\* A fetch that fails frees its place.
LEMMA FailKeeps ==
    ASSUME TableInv, DashInv, NEW s \in Fetches, FetchFails(s)
    PROVE  DashInv'
<1>1. /\ faults < MaxFaults /\ faults' = faults + 1
      /\ request' = [request EXCEPT ![s] = NoRequest]
      /\ UNCHANGED <<sent, queued, events, view, level, search, typed, changes>>
  BY DEF FetchFails, tableVars, inputVars
<1>2. Len(sent) \in Nat /\ RequestsFit /\ AcceptedSoFar' = AcceptedSoFar
  BY <1>1 DEF TableInv, TableTypes, DashInv, DashTypes, RequestsFit, AcceptedSoFar
<1>3. DOMAIN request' = Fetches /\ \A t \in Fetches : Fits(request'[t])
  BY <1>1, <1>2, FreeFits
<1>4. faults' \in 0..MaxFaults
  BY <1>1, DashNumbers DEF DashInv, DashTypes
<1>5. DashTypes'
  <2>1. \A q : Fits(q) => Fits(q)'
    BY <1>1, <1>2, AnswersGrow
  <2>2. \A t \in Fetches : Fits(request[t])'
    BY Zenon, <1>3, <2>1
  <2> QED
    BY <1>1, <1>2, <1>3, <1>4, <2>2 DEF DashInv, DashTypes
<1>6. OnceShown'
  BY <1>1, <1>2 DEF DashInv, OnceShown
<1> QED
  BY <1>5, <1>6 DEF DashInv

\* An event that arrives puts its row in front, or not; one that is lost does nothing.
LEMMA EventKeeps ==
    ASSUME TableInv, DashInv, NEW n \in events, PrependLiveLog(n) \/ EventLost(n)
    PROVE  DashInv'
<1> DEFINE rowsNow == <<n>> \o view
           k == IF Len(rowsNow) > MaxView THEN MaxView ELSE Len(rowsNow)
           front == SubSeq(rowsNow, 1, k)
<1>1. /\ events' = events \ {n} /\ (view' = front \/ view' = view)
      /\ UNCHANGED <<sent, queued, request, faults, level, search, typed, changes>>
  BY DEF PrependLiveLog, EventLost, tableVars, pageVars, inputVars
<1>2. /\ events \subseteq 1..AcceptedSoFar /\ view \in Seq(1..AcceptedSoFar) /\ Len(view) <= MaxView
      /\ n \in 1..AcceptedSoFar
  BY DEF DashInv, DashTypes
<1>3. Len(sent) \in Nat /\ AcceptedSoFar' = AcceptedSoFar /\ MaxView \in Nat
  BY <1>1, DashNumbers DEF TableInv, TableTypes, AcceptedSoFar
<1>4. /\ front \in Seq(1..AcceptedSoFar) /\ Len(front) <= MaxView /\ Len(front) <= Len(view) + 1
      /\ \A i \in 1..Len(front) : front[i] = IF i = 1 THEN n ELSE view[i - 1]
  <2>1. /\ rowsNow \in Seq(1..AcceptedSoFar) /\ Len(rowsNow) = Len(view) + 1
        /\ \A i \in 1..Len(rowsNow) : rowsNow[i] = IF i = 1 THEN n ELSE view[i - 1]
    BY <1>2
  <2>2. k \in 0..Len(rowsNow) /\ k <= MaxView
    BY <1>2, <1>3, <2>1
  <2> HIDE DEF rowsNow, k
  <2>3. /\ front \in Seq(1..AcceptedSoFar) /\ Len(front) = k
        /\ \A i \in 1..k : front[i] = rowsNow[i]
    <3>0. Len(rowsNow) \in Nat /\ DOMAIN rowsNow = 1..Len(rowsNow)
      BY <2>1, LenProperties
    <3>1. \A i \in 1..k : rowsNow[i] \in 1..AcceptedSoFar
      <4> SUFFICES ASSUME NEW i \in 1..k PROVE rowsNow[i] \in 1..AcceptedSoFar
        OBVIOUS
      <4>1. i \in 1..Len(rowsNow)
        BY <2>2, <3>0
      <4> QED
        BY <2>1, <4>1, ElementOfSeq
    <3> QED
      BY <2>2, <3>1, SubSeqProperties
  <2> QED
    BY <1>2, <2>1, <2>2, <2>3
<1> HIDE DEF rowsNow, k, front
<1>5. view' \in Seq(1..AcceptedSoFar') /\ Len(view') <= MaxView /\ events' \subseteq 1..AcceptedSoFar'
  BY <1>1, <1>2, <1>3, <1>4
<1>6. DashTypes'
  <2>1. \A q : Fits(q) => Fits(q)'
    BY <1>1, <1>3, AnswersGrow
  <2>2. \A t \in Fetches : Fits(request[t])'
    BY Zenon, <1>1, <2>1 DEF DashInv, DashTypes
  <2> QED
    BY <1>1, <1>3, <1>5, <2>2 DEF DashInv, DashTypes
<1>7. OnceShown'
  <2> SUFFICES ASSUME NEW m \in 1..AcceptedSoFar
               PROVE  Cardinality(Places(view', m)) <= IF m \in events' THEN 1 ELSE 2
    BY <1>3 DEF OnceShown, Places
  <2>1. /\ Cardinality(Places(view, m)) <= IF m \in events THEN 1 ELSE 2
        /\ Cardinality(Places(view, m)) \in Nat /\ Cardinality(Places(front, m)) \in Nat
    BY <1>2, <1>4, PlacesFinite DEF DashInv, OnceShown
  <2>2. Cardinality(Places(front, m)) <= Cardinality(Places(view, m)) + IF m = n THEN 1 ELSE 0
    BY <1>2, <1>4, FrontShows
  <2>3. m \in events' <=> m \in events /\ m # n
    BY <1>1
  <2>4. n \in events
    OBVIOUS
  <2>5. CASE view' = front
    <3>1. Cardinality(Places(view', m)) = Cardinality(Places(front, m))
      BY <2>5
    <3>2. CASE m = n
      BY <2>1, <2>2, <2>3, <2>4, <3>1, <3>2
    <3>3. CASE m # n
      BY <2>1, <2>2, <2>3, <3>1, <3>3
    <3> QED
      BY <3>2, <3>3
  <2>6. CASE view' = view
    BY <2>1, <2>3, <2>6
  <2> QED
    BY <1>1, <2>5, <2>6
<1> QED
  BY <1>6, <1>7 DEF DashInv

LEMMA DashHolds == DashSpec => []DashInv
<1>1. TableInv /\ DashInit => DashInv
  <2> SUFFICES ASSUME TableInv, DashInit PROVE DashInv
    OBVIOUS
  <2>1. /\ sent = <<>> /\ queued = <<>> /\ events = {} /\ view = <<>>
        /\ level = "" /\ search = "" /\ typed = FALSE /\ changes = 0 /\ faults = 0
    BY DEF DashInit, TableInit
  <2>2. AcceptedSoFar = 0 /\ queued \in Seq(Logged) /\ view \in Seq(1..AcceptedSoFar) /\ Len(view) = 0
    <3>1. sent = <<>> /\ queued = <<>> /\ view = <<>>
      BY Zenon, <2>1
    <3> QED
      BY <3>1 DEF AcceptedSoFar
  <2>3. DOMAIN request = Fetches /\ \A s \in Fetches : Fits(request[s])
    <3> DEFINE q == [at |-> "sent", filter |-> FilterOf("", "")]
    <3>1. PICK first \in Fetches : request = [s \in Fetches |-> IF s = first THEN q ELSE NoRequest]
      BY Zenon DEF DashInit
    <3>2. q.at = "sent" /\ q.filter = FilterOf("", "")
      OBVIOUS
    <3>3. Fits(q) /\ Fits(NoRequest)
      BY Zenon, <3>2, DashAssumption DEF Fits, DashAssumption
    <3> HIDE DEF q
    <3> QED
      BY Zenon, <3>1, <3>3
  <2>4. DashTypes
    <3>1. level \in Levels /\ search \in Searches /\ typed \in BOOLEAN
      BY Zenon, <2>1, DashAssumption DEF DashAssumption
    <3>2. 0 <= MaxEntries /\ 0 <= MaxView /\ 0 \in 0..MaxChanges /\ 0 \in 0..MaxFaults
      <4>1. MaxEntries \in 0..MaxLogs
        BY Zenon, DashAssumption DEF DashAssumption
      <4> QED
        BY <4>1, DashNumbers, QueryAssumption
    <3> QED
      BY <2>1, <2>2, <2>3, <3>1, <3>2 DEF DashTypes
  <2>5. OnceShown
    BY <2>2 DEF OnceShown
  <2> QED
    BY <2>4, <2>5 DEF DashInv
<1>2. TableInv /\ DashInv /\ [DashNext]_dashVars => DashInv'
  <2> SUFFICES ASSUME TableInv, DashInv, [DashNext]_dashVars PROVE DashInv'
    OBVIOUS
  <2>0. /\ level \in Levels /\ search \in Searches /\ typed \in BOOLEAN
        /\ changes \in 0..MaxChanges /\ RequestsFit
    BY DEF DashInv, DashTypes, RequestsFit
  <2>1. changes < MaxChanges => changes + 1 \in 0..MaxChanges
    BY <2>0, DashNumbers
  <2>2. ASSUME NEW e \in Entries, Ingest(e) PROVE DashInv'
    BY <2>2, IngestKeeps
  <2>3. CASE Flush
    BY <2>3, FlushKeeps
  <2>4. ASSUME NEW s \in Fetches, Answer(s) \/ Render(s) \/ FetchFails(s) PROVE DashInv'
    BY <2>4, AnswerKeeps, RenderKeeps, FailKeeps
  <2>5. ASSUME NEW s \in Fetches, NEW l \in Levels, NEW w \in Searches, FetchWith(s, l, w),
               UNCHANGED <<sent, queued, events, view, faults>>,
               level' = l, search' = w, typed' \in BOOLEAN, changes' \in 0..MaxChanges
        PROVE  DashInv'
    <3>1. DOMAIN request' = Fetches /\ \A t \in Fetches : Fits(request'[t])
      BY <2>0, <2>5, FetchFits
    <3> QED
      BY <2>5, <3>1, InputsKeep
  <2>6. CASE Poll
    BY <2>0, <2>5, <2>6 DEF Poll, tableVars, inputVars
  <2>7. ASSUME NEW l \in Levels, SelectLevel(l) PROVE DashInv'
    BY <2>0, <2>1, <2>5, <2>7 DEF SelectLevel, tableVars
  <2>8. CASE Debounced
    BY <2>0, <2>5, <2>8 DEF Debounced, tableVars
  <2>9. CASE Refresh
    BY <2>0, <2>1, <2>5, <2>9 DEF Refresh, tableVars
  <2>10. ASSUME UNCHANGED <<sent, queued, events, view, faults, request, level>>,
                search' \in Searches, typed' \in BOOLEAN, changes' \in 0..MaxChanges
         PROVE  DashInv'
    <3>1. DOMAIN request' = Fetches /\ \A t \in Fetches : Fits(request'[t])
      BY Zenon, <2>0, <2>10 DEF RequestsFit
    <3> QED
      BY <2>0, <2>10, <3>1, InputsKeep
  <2>11. ASSUME NEW w \in Searches, Type(w) PROVE DashInv'
    BY <2>1, <2>10, <2>11 DEF Type, tableVars
  <2>12. CASE (PruneOldLogs \/ Tick) /\ UNCHANGED <<queued, events, pageVars>>
    BY <2>0, <2>10, <2>12 DEF PruneOldLogs, Tick, pageVars, inputVars
  <2>13. ASSUME NEW n \in events, PrependLiveLog(n) \/ EventLost(n) PROVE DashInv'
    BY <2>13, EventKeeps
  <2>14. CASE UNCHANGED dashVars
    BY <2>0, <2>10, <2>14 DEF dashVars, tableVars, pageVars, inputVars
  <2> QED
    BY <2>2, <2>3, <2>4, <2>6, <2>7, <2>8, <2>9, <2>11, <2>12, <2>13, <2>14
    DEF DashNext, ServerStep, BrowserStep
<1>3. DashInit => TableInit
  BY DEF DashInit
<1> QED
  BY <1>1, <1>2, <1>3, DashIsTable, TableHolds, PTL DEF DashSpec

\* The types of the explorer and of the table it reads: a request in flight carries
\* a filter the inputs can give or an answer of at most the limit, and the view never
\* holds more rows than the explorer keeps, all of them accepted (app.js: fetchLogs,
\* renderLogs, prependLiveLog).
THEOREM DashTypesHold == DashSpec => []DashTypeOK
<1>1. TableInv /\ DashInv => DashTypeOK
  <2> SUFFICES ASSUME TableInv, DashInv PROVE DashTypeOK
    OBVIOUS
  <2>1. TableTypeOK
    BY DEF TableInv, TableTypes, TableTypeOK
  <2>2. /\ sent \in Seq(Logged) /\ queued \in Seq(Logged) /\ AcceptedSoFar <= MaxEntries
    BY DEF TableInv, TableTypes, DashInv, DashTypes
  <2>3. Accepted \in Seq(Logged) /\ Len(Accepted) = AcceptedSoFar
    BY <2>2 DEF Accepted, AcceptedSoFar
  <2>4. Len(Accepted) <= MaxLogs
    BY <2>2, <2>3, DashNumbers, QueryAssumption DEF AcceptedSoFar
  <2>5. \A i \in DOMAIN Accepted : Accepted[i] \in Logged
    BY <2>3, LenProperties, ElementOfSeq
  <2>6. ASSUME NEW s \in Fetches
        PROVE  \/ request[s] = NoRequest
               \/ request[s].at = "sent"
                  /\ \E l \in Levels, w \in Searches : request[s].filter = FilterOf(l, w)
               \/ request[s].at = "answered"
                  /\ Len(request[s].logs) <= LimitOf(ViewLimit)
                  /\ \A i \in DOMAIN request[s].logs : request[s].logs[i] \in 1..Len(sent)
    <3>1. Fits(request[s])
      BY DEF DashInv, DashTypes
    <3>2. ASSUME NEW p \in Answers
          PROVE  Len(p) <= LimitOf(ViewLimit) /\ \A i \in DOMAIN p : p[i] \in 1..Len(sent)
      BY LenProperties, ElementOfSeq DEF Answers
    <3> QED
      BY Zenon, <3>1, <3>2 DEF Fits
  <2>7. /\ events \subseteq 1..Len(Accepted) /\ Len(view) <= MaxView
        /\ \A i \in DOMAIN view : view[i] \in 1..Len(Accepted)
    <3>1. view \in Seq(1..Len(Accepted)) /\ events \subseteq 1..Len(Accepted) /\ Len(view) <= MaxView
      BY <2>3 DEF DashInv, DashTypes
    <3> QED
      BY <3>1, LenProperties, ElementOfSeq
  <2>8. /\ level \in Levels /\ search \in Searches /\ typed \in BOOLEAN
        /\ changes \in 0..MaxChanges /\ faults \in 0..MaxFaults
    BY DEF DashInv, DashTypes
  <2> QED
    BY Zenon, <2>1, <2>4, <2>5, <2>6, <2>7, <2>8 DEF DashTypeOK, Logged
<1> QED
  BY <1>1, DashIsTable, TableHolds, DashHolds, PTL

\* The explorer shows a row twice at most, and once until its own event arrived
\* (app.js: renderLogs replaces the rows, prependLiveLog puts one in front).
THEOREM LiveOnceHolds == DashSpec => []LiveOnce
<1>1. TableInv /\ DashInv => LiveOnce
  <2> SUFFICES ASSUME TableInv, DashInv PROVE LiveOnce
    OBVIOUS
  <2>1. Len(Accepted) = AcceptedSoFar
    BY DEF TableInv, TableTypes, DashInv, DashTypes, Accepted, AcceptedSoFar
  <2> QED
    BY Zenon, <2>1 DEF LiveOnce, DashInv, OnceShown, Places
<1> QED
  BY <1>1, DashIsTable, TableHolds, DashHolds, PTL
=============================================================================
