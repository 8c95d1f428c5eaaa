----------------------------- MODULE RingBuffer -----------------------------
(***************************************************************************)
(* RingBuffer (internal/storage/ringbuffer.go): the last hour of metric    *)
(* snapshots.  Every method runs under the lock, so each is one step or,   *)
(* when it only reads, an operator.                                        *)
(***************************************************************************)
EXTENDS Integers, Sequences

CONSTANTS
    Snapshots,  \* the values pushed
    Capacity,   \* length of the underlying slice
    Unset       \* the zero value the slice is made with

ASSUME CapacityAssumption == Capacity \in Nat \ {0}

\* A snapshot that was taken has a timestamp.
ASSUME UnsetAssumption == Unset \notin Snapshots

VARIABLES
    data,  \* the slice
    head,  \* where the next snapshot goes
    size   \* how many are stored

ringVars == <<data, head, size>>

Slots == 0..(Capacity - 1)

\* data[from:to]
Slice(from, to) == [i \in 1..(to - from) |-> data[from + i - 1]]

-----------------------------------------------------------------------------
RingInit ==
    /\ data = [i \in Slots |-> Unset]
    /\ head = 0
    /\ size = 0

\* Variant of Push: size counts pushes, not slots.
PushCountingOn(s) ==
    /\ data' = [data EXCEPT ![head] = s]
    /\ head' = (head + 1) % Capacity
    /\ size' = IF size <= Capacity THEN size + 1 ELSE size

Push(s) ==
    /\ data' = [data EXCEPT ![head] = s]
    /\ head' = (head + 1) % Capacity
    /\ size' = IF size < Capacity THEN size + 1 ELSE size

\* Variant of Clear: the write position is kept.
ClearSize ==
    /\ size' = 0
    /\ UNCHANGED <<data, head>>

\* The old snapshots stay in the slice.
Clear ==
    /\ head' = 0
    /\ size' = 0
    /\ UNCHANGED data

RingNext == Clear \/ \E s \in Snapshots : Push(s)

RingSpec == RingInit /\ [][RingNext]_ringVars

-----------------------------------------------------------------------------
(* The reads *)

GetAll ==
    IF size < Capacity THEN Slice(0, size)
    ELSE Slice(head, Capacity) \o Slice(0, head)

\* A snapshot and TRUE, or FALSE when there is none yet.
GetLatest ==
    IF size = 0 THEN <<Unset, FALSE>>
    ELSE <<data[(head - 1 + Capacity) % Capacity], TRUE>>

\* The last n <= size of them, from slot start on, in one segment or two.
LastFrom(start, n) ==
    IF start + n <= Capacity THEN Slice(start, start + n)
    ELSE Slice(start, Capacity) \o Slice(0, n - (Capacity - start))

\* Variant of GetLastN: n is capped at the capacity, not at the size.
GetLastNUncapped(n) ==
    IF size = 0 \/ n <= 0 THEN <<>>
    ELSE LET m == IF n > Capacity THEN Capacity ELSE n
         IN  LastFrom((head - m + Capacity) % Capacity, m)

GetLastN(n) ==
    IF size = 0 \/ n <= 0 THEN <<>>
    ELSE LET m == IF n > size THEN size ELSE n
         IN  LastFrom((head - m + Capacity) % Capacity, m)

-----------------------------------------------------------------------------
(* Properties *)

\* Type invariant; until the buffer is full it is filled from slot 0 up, which
\* is what lets GetAll start there (ringbuffer.go:71-73).
TypeOK ==
    /\ data \in [Slots -> Snapshots \cup {Unset}]
    /\ head \in Slots
    /\ size \in 0..Capacity
    /\ size < Capacity => head = size

\* The three reads agree, also across the wrap and after Clear, for requests
\* of nothing, of more than is stored and of more than fits: GetLastN(n) is the
\* end of GetAll, GetLatest its last element, and no slot that was never
\* written is returned.
ReadsAgree ==
    /\ \A n \in -1..(Capacity + 1) :
          GetLastN(n) = LET m == IF n < 0 THEN 0 ELSE IF n > size THEN size ELSE n
                        IN  SubSeq(GetAll, size - m + 1, size)
    /\ GetLatest = IF size = 0 THEN <<Unset, FALSE>> ELSE <<GetAll[size], TRUE>>
    /\ \A i \in 1..Len(GetAll) : GetAll[i] # Unset

\* What GetAll returns changes as the abstract window does.
Window == INSTANCE MetricsWindow WITH window <- GetAll

WindowSpec == Window!Spec
=============================================================================
