------------------------ MODULE RateCollectorProofs -------------------------
(***************************************************************************)
(* Proofs about RateCollector, for any devices, any layout of partitions,   *)
(* any word size and any traffic.                                          *)
(***************************************************************************)
EXTENDS RateCollector, FiniteSetTheorems, WellFoundedInduction, TLAPS

\* What the proofs need of the types: both readings are maps from known names
\* to counters.
TypeInv ==
    /\ proc \in [DOMAIN proc -> Ticks] /\ DOMAIN proc \subseteq Devices
    /\ last \in [DOMAIN last -> Ticks] /\ DOMAIN last \subseteq Devices
    /\ now \in Nat /\ readAt \in Nat /\ lastTime \in Nat
    /\ fresh \in BOOLEAN
    /\ moved \in [Devices -> Nat]
    /\ restarted \subseteq Devices

\* A counter that ran on since the previous reading is ahead by what was moved;
\* one that wrapped or restarted holds no more than what was moved since.
Account(d) ==
    IF d \in restarted THEN proc[d] <= moved[d] ELSE proc[d] = last[d] + moved[d]

Accounts == ~fresh => \A d \in DOMAIN last \cap DOMAIN proc : Account(d)

\* The time of the previous reading is remembered with it.
TimeKept == ~fresh => lastTime = readAt

Inv == TypeInv /\ Accounts /\ TimeKept

-----------------------------------------------------------------------------
\* The steps of the kernel and the clock leave what Collect remembers alone
\* and keep the accounts.
LEMMA TransferKeeps ==
    ASSUME DevicesAssumption, Inv, NEW d \in Devices, NEW n \in Nat, Transfer(d, n)
    PROVE  Inv'
<1> USE DEF DevicesAssumption, Ticks
<1>1. Path(d) \subseteq Devices /\ Path(d) \subseteq DOMAIN proc
  BY DEF Path, Transfer
<1>2. TypeInv'
  <2>1. proc' \in [DOMAIN proc -> Ticks] /\ DOMAIN proc' = DOMAIN proc
    BY <1>1 DEF Inv, TypeInv, Transfer
  <2>2. moved' \in [Devices -> Nat] /\ restarted' \subseteq Devices
    BY <1>1 DEF Inv, TypeInv, Transfer
  <2> QED
    BY <2>1, <2>2 DEF Inv, TypeInv, Transfer
<1>3. Accounts'
  <2> SUFFICES ASSUME ~fresh, NEW e \in DOMAIN last \cap DOMAIN proc
               PROVE  Account(e)'
    BY DEF Accounts, Transfer
  <2>1. Account(e) /\ e \in Devices /\ proc[e] \in Ticks /\ moved[e] \in Nat /\ last[e] \in Ticks
    BY DEF Inv, Accounts, TypeInv
  <2>2. CASE e \notin Path(d)
    BY <2>1, <2>2 DEF Transfer, Account
  <2>3. CASE e \in Path(d) /\ proc[e] + n < Word
    <3>1. /\ proc'[e] = proc[e] + n /\ moved'[e] = moved[e] + n /\ last' = last
          /\ e \in restarted' <=> e \in restarted
      BY <2>1, <2>3 DEF Transfer
    <3> QED
      BY <2>1, <3>1 DEF Account
  <2>4. CASE e \in Path(d) /\ ~(proc[e] + n < Word)
    <3>1. proc'[e] = proc[e] + n - Word /\ moved'[e] = moved[e] + n /\ e \in restarted'
      BY <2>1, <2>4 DEF Transfer
    <3> QED
      BY <2>1, <3>1 DEF Account
  <2> QED
    BY <2>2, <2>3, <2>4
<1> QED
  BY <1>2, <1>3 DEF Inv, TimeKept, Transfer

LEMMA UnplugKeeps ==
    ASSUME DevicesAssumption, Inv, NEW d \in Devices, Unplug(d)
    PROVE  Inv'
<1> USE DEF DevicesAssumption, Inv
<1>1. DOMAIN proc' = DOMAIN proc \ Guests(d) /\ \A e \in DOMAIN proc' : proc'[e] = proc[e]
  BY DEF Unplug
<1>2. TypeInv'
  BY <1>1 DEF TypeInv, Unplug, Guests
<1>3. Accounts'
  BY <1>1 DEF Accounts, Account, Unplug
<1> QED
  BY <1>2, <1>3 DEF TimeKept, Unplug

LEMMA PlugKeeps ==
    ASSUME DevicesAssumption, Inv, NEW d \in Devices, Plug(d)
    PROVE  Inv'
<1> USE DEF DevicesAssumption, Inv
<1>1. /\ DOMAIN proc' = DOMAIN proc \cup Guests(d)
      /\ \A e \in DOMAIN proc' : proc'[e] = IF e \in Guests(d) THEN 0 ELSE proc[e]
  BY DEF Plug
<1>2. TypeInv'
  BY <1>1 DEF TypeInv, Plug, Guests, Ticks
<1>3. Accounts'
  <2> SUFFICES ASSUME ~fresh, NEW e \in DOMAIN last \cap DOMAIN proc'
               PROVE  Account(e)'
    BY DEF Accounts, Plug
  <2>1. CASE e \in Guests(d)
    BY <2>1, <1>1 DEF Account, Plug, TypeInv, Guests
  <2>2. CASE e \notin Guests(d)
    BY <2>2, <1>1 DEF Accounts, Account, Plug
  <2> QED
    BY <2>1, <2>2
<1> QED
  BY <1>2, <1>3 DEF TimeKept, Plug

\* A reading opens new accounts.
LEMMA CollectKeeps ==
    ASSUME DevicesAssumption, Inv, Collect
    PROVE  Inv'
<1> USE DEF DevicesAssumption, Inv, Collect
<1>1. TypeInv'
  BY DEF TypeInv
<1>2. Accounts'
  BY DEF Accounts, Account, TypeInv, Ticks
<1> QED
  BY <1>1, <1>2 DEF TimeKept

LEMMA Invariance == ASSUME DevicesAssumption PROVE Spec => []Inv
<1>1. Init => Inv
  <2> SUFFICES ASSUME Init PROVE Inv
    OBVIOUS
  <2>1. proc \in [DOMAIN proc -> Ticks] /\ DOMAIN proc \subseteq Devices
    BY DEF Init, Readings
  <2>2. last \in [DOMAIN last -> Ticks] /\ DOMAIN last \subseteq Devices
    BY DEF Init
  <2> QED
    BY <2>1, <2>2 DEF Init, Inv, TypeInv, Accounts, TimeKept
<1>2. Inv /\ [Next]_vars => Inv'
  <2> SUFFICES ASSUME Inv, [Next]_vars PROVE Inv'
    OBVIOUS
  <2>1. ASSUME NEW d \in Devices, NEW n \in Nat, Transfer(d, n) PROVE Inv'
    BY <2>1, DevicesAssumption, TransferKeeps
  <2>2. ASSUME NEW d \in Devices, Unplug(d) PROVE Inv'
    BY <2>2, DevicesAssumption, UnplugKeeps
  <2>3. ASSUME NEW d \in Devices, Plug(d) PROVE Inv'
    BY <2>3, DevicesAssumption, PlugKeeps
  <2>4. CASE Collect
    BY <2>4, DevicesAssumption, CollectKeeps
  <2>5. CASE CollectFails
    BY <2>5 DEF CollectFails, procVars, Inv, TypeInv, Accounts, Account, TimeKept
  <2>6. CASE Tick
    BY <2>6 DEF Tick, procVars, Inv, TypeInv, Accounts, Account, TimeKept
  <2>7. CASE UNCHANGED vars
    BY <2>7 DEF vars, procVars, Inv, TypeInv, Accounts, Account, TimeKept
  <2> QED
    BY <2>1, <2>2, <2>3, <2>4, <2>5, <2>6, <2>7 DEF Next
<1> QED
  BY <1>1, <1>2, PTL DEF Spec

-----------------------------------------------------------------------------
\* What one reading shows (CalculateDiskStats, disk.go:127-144), from the
\* accounts it closes.
LEMMA Shown ==
    ASSUME DevicesAssumption, Inv, Collect
    PROVE  NoSpike' /\ Exact'
<1> USE DEF DevicesAssumption, Inv
<1>1. truth' = [moved |-> moved, restarted |-> restarted, elapsed |-> now - readAt,
                known |-> IF fresh THEN {} ELSE DOMAIN last]
  BY DEF Collect, Truth
<1>2. CASE fresh
  <2>1. shown'.rates = [d \in DOMAIN proc |-> 0]
    BY <1>2 DEF Collect, Baseline, Stats
  <2> QED
    BY <2>1, <1>1, <1>2 DEF NoSpike, Exact, TypeInv
<1>3. CASE ~fresh
  <2>1. /\ shown'.rates = [d \in DOMAIN proc |-> Delta(last, proc, d)]
        /\ shown'.seconds = Seconds(now - lastTime)
    BY <1>3 DEF Collect, CalculateStats, Stats
  <2>2. ASSUME NEW d \in DOMAIN proc
        PROVE  /\ Delta(last, proc, d) <= moved[d]
               /\ d \in DOMAIN last /\ d \notin restarted => Delta(last, proc, d) = moved[d]
    <3>1. proc[d] \in Ticks /\ moved[d] \in Nat
      BY DEF TypeInv
    <3>2. CASE d \notin DOMAIN last
      BY <3>1, <3>2 DEF Delta
    <3>3. CASE d \in DOMAIN last
      <4>1. last[d] \in Ticks /\ Account(d)
        BY <1>3, <3>3 DEF TypeInv, Accounts
      <4> QED
        BY <3>1, <3>3, <4>1 DEF Delta, Account, Ticks
    <3> QED
      BY <3>2, <3>3
  <2>3. Seconds(now - lastTime) = Seconds(now - readAt)
    BY <1>3 DEF TimeKept
  <2> QED
    BY <2>1, <2>2, <2>3, <1>1, <1>3 DEF NoSpike, Exact
<1> QED
  BY <1>2, <1>3

LEMMA NothingShown ==
    ASSUME shown = NoStats
    PROVE  NoSpike /\ Exact
<1>1. DOMAIN shown.rates = {}
  BY DEF NoStats
<1> QED
  BY <1>1 DEF NoSpike, Exact

\* Whatever devices come, go, wrap or restart, and whatever readings fail: a
\* rate never claims more than was transferred, and it shows all of it, over
\* the time that passed, for a device whose counter ran on.
THEOREM RatesTrue == ASSUME DevicesAssumption PROVE Spec => [](NoSpike /\ Exact)
<1>1. Init => NoSpike /\ Exact
  BY NothingShown DEF Init
<1>2. Inv /\ NoSpike /\ Exact /\ [Next]_vars => (NoSpike /\ Exact)'
  <2> SUFFICES ASSUME Inv, NoSpike, Exact, [Next]_vars PROVE (NoSpike /\ Exact)'
    OBVIOUS
  <2>1. CASE Collect
    BY <2>1, DevicesAssumption, Shown
  <2>2. CASE CollectFails
    <3>1. shown' = NoStats
      BY <2>2 DEF CollectFails
    <3> QED
      BY <3>1 DEF NoSpike, Exact, NoStats
  <2>3. CASE UNCHANGED <<shown, truth>>
    BY <2>3 DEF NoSpike, Exact
  <2> QED
    BY <2>1, <2>2, <2>3 DEF Next, Transfer, Unplug, Plug, Tick, vars
<1> QED
  BY <1>1, <1>2, Invariance, PTL DEF Spec

-----------------------------------------------------------------------------
(* The sums of CalculateDiskStats.  What SumOver computes is shown from the   *)
(* definition of the fold.  Where a proof would be by induction, it takes a   *)
(* minimal counterexample among the subsets of a finite set: the induction    *)
(* theorems of the library are about operators, which the provers here cannot *)
(* instantiate.                                                               *)

\* A set of subsets of a finite set has a minimal element.
LEMMA MinimalSubset ==
    ASSUME NEW U, IsFiniteSet(U), NEW T \in SUBSET SUBSET U, T # {}
    PROVE  \E x \in T : \A y \in T : y \subseteq x => y = x
<1>1. FiniteSubsetsOf(U) = SUBSET U
  BY FS_FiniteSubsetsOfFinite
<1>2. IsWellFoundedOn(StrictSubsetOrdering(U), SUBSET U)
  BY <1>1, FS_StrictSubsetOrderingWellFounded
<1>3. \E x \in T : \A y \in T : ~ (<<y, x>> \in StrictSubsetOrdering(U))
  BY <1>2, WFMin
<1>4. PICK x \in T : \A y \in T : ~ (<<y, x>> \in StrictSubsetOrdering(U))
  BY <1>3
<1>5. ASSUME NEW y \in T, y \subseteq x PROVE y = x
  <2>1. <<y, x>> \in (SUBSET U) \X (SUBSET U)
    BY <1>4
  <2> QED
    BY <1>4, <1>5, <2>1 DEF StrictSubsetOrdering
<1> QED
  BY <1>4, <1>5

\* The element that the sum of s takes first.
First(s) == CHOOSE x \in s : TRUE

\* g is the function that the sum of f over S defines by recursion.
Sums(f, g, S) ==
    g = [s \in SUBSET S |-> IF s = {} THEN 0 ELSE f[First(s)] + g[s \ {First(s)}]]

LEMMA FirstIn == ASSUME NEW s, s # {} PROVE First(s) \in s
BY DEF First

LEMMA SumIs == ASSUME NEW f, NEW S PROVE SumOver(f, S) = (CHOOSE g : Sums(f, g, S))[S]
BY DEF SumOver, MapThenSumSet, MapThenFoldSet, Sums, First

\* The recursion has at most one solution ...
LEMMA SumsUnique ==
    ASSUME NEW f, NEW S, IsFiniteSet(S), NEW U \in SUBSET S, NEW g, NEW h, Sums(f, g, S), Sums(f, h, U)
    PROVE  \A s \in SUBSET U : g[s] = h[s]
<1> DEFINE T == {s \in SUBSET U : g[s] # h[s]}
<1>1. SUFFICES ASSUME T # {} PROVE FALSE
  OBVIOUS
<1>2. T \in SUBSET SUBSET S
  OBVIOUS
<1>3. PICK s \in T : \A y \in T : y \subseteq s => y = s
  <2> HIDE DEF T
  <2> QED
    BY <1>1, <1>2, MinimalSubset
<1>4. /\ g[s] = IF s = {} THEN 0 ELSE f[First(s)] + g[s \ {First(s)}]
      /\ h[s] = IF s = {} THEN 0 ELSE f[First(s)] + h[s \ {First(s)}]
  BY <1>2 DEF Sums
<1>5. s # {} => g[s \ {First(s)}] = h[s \ {First(s)}]
  BY <1>3, FirstIn
<1> QED
  BY <1>4, <1>5

\* ... and has one.
LEMMA SumsExist ==
    ASSUME NEW f, NEW S, IsFiniteSet(S)
    PROVE  \A t \in SUBSET S : \E g : Sums(f, g, t)
<1> DEFINE T == {t \in SUBSET S : ~ \E g : Sums(f, g, t)}
<1>1. SUFFICES ASSUME T # {} PROVE FALSE
  OBVIOUS
<1>2. PICK t \in T : \A y \in T : y \subseteq t => y = t
  <2> HIDE DEF T
  <2>1. T \in SUBSET SUBSET S
    BY DEF T
  <2> QED
    BY <1>1, <2>1, MinimalSubset
<1> DEFINE G(r) == CHOOSE g : Sums(f, g, r)
           V(r) == G(r)[r]
           g == [s \in SUBSET t |-> IF s = {} THEN 0 ELSE f[First(s)] + V(s \ {First(s)})]
<1>3. ASSUME NEW r \in SUBSET t, r # t PROVE Sums(f, G(r), r) /\ IsFiniteSet(r)
  <2>1. \E h : Sums(f, h, r)
    BY <1>2, <1>3
  <2> QED
    BY <2>1, FS_Subset
<1>4. ASSUME NEW r \in SUBSET t, r # t PROVE g[r] = V(r)
  <2>1. V(r) = IF r = {} THEN 0 ELSE f[First(r)] + G(r)[r \ {First(r)}]
    <3>1. \A h : Sums(f, h, r) => h[r] = IF r = {} THEN 0 ELSE f[First(r)] + h[r \ {First(r)}]
      BY DEF Sums
    <3>2. Sums(f, G(r), r)
      BY <1>3, <1>4
    <3> HIDE DEF G
    <3> QED
      BY <3>1, <3>2
  <2>2. ASSUME r # {} PROVE G(r)[r \ {First(r)}] = V(r \ {First(r)})
    <3> DEFINE q == r \ {First(r)}
    <3>1. q \in SUBSET t /\ q # t /\ q \in SUBSET r
      BY <1>4
    <3>2. Sums(f, G(r), r) /\ IsFiniteSet(r) /\ Sums(f, G(q), q)
      BY <1>3, <1>4, <3>1
    <3> HIDE DEF q, G
    <3>3. \A s \in SUBSET q : G(r)[s] = G(q)[s]
      BY <3>1, <3>2, SumsUnique
    <3> QED
      BY <3>3 DEF q
  <2> HIDE DEF V
  <2> QED
    BY <2>1, <2>2
<1>5. ASSUME NEW s \in SUBSET t, s # {} PROVE g[s \ {First(s)}] = V(s \ {First(s)})
  <2>1. s \ {First(s)} \in SUBSET t /\ s \ {First(s)} # t
    BY <1>5, FirstIn
  <2> HIDE DEF g, V
  <2> QED
    BY <1>4, <2>1
<1>6. Sums(f, g, t)
  <2> HIDE DEF V
  <2>1. \A s \in SUBSET t : (IF s = {} THEN 0 ELSE f[First(s)] + V(s \ {First(s)}))
                              = (IF s = {} THEN 0 ELSE f[First(s)] + g[s \ {First(s)}])
    <3> HIDE DEF g
    <3> QED
      BY <1>5
  <2> QED
    BY <2>1 DEF Sums
<1> QED
  BY <1>2, <1>6

\* What the fold computes: an element, and the sum of the others.
LEMMA SumStep ==
    ASSUME NEW f, NEW S, IsFiniteSet(S)
    PROVE  /\ SumOver(f, {}) = 0
           /\ S # {} => SumOver(f, S) = f[First(S)] + SumOver(f, S \ {First(S)})
<1> DEFINE G(r) == CHOOSE g : Sums(f, g, r)
<1>1. \A r \in SUBSET S : Sums(f, G(r), r)
  BY SumsExist
<1>2. \A r \in SUBSET S : SumOver(f, r) = G(r)[r]
  BY SumIs
<1> HIDE DEF G
<1>3. \A r \in SUBSET S : G(r)[r] = IF r = {} THEN 0 ELSE f[First(r)] + G(r)[r \ {First(r)}]
  BY <1>1 DEF Sums
<1>4. ASSUME S # {} PROVE G(S)[S \ {First(S)}] = G(S \ {First(S)})[S \ {First(S)}]
  BY <1>1, SumsUnique
<1> QED
  BY <1>2, <1>3, <1>4

\* A sum does not depend on the order: any element may be taken first.
LEMMA SumTake ==
    ASSUME NEW f, NEW S, IsFiniteSet(S), \A x \in S : f[x] \in Nat
    PROVE  SumOver(f, S) \in Nat /\ \A x \in S : SumOver(f, S) = f[x] + SumOver(f, S \ {x})
<1> DEFINE Fine(s) == SumOver(f, s) \in Nat /\ \A x \in s : SumOver(f, s) = f[x] + SumOver(f, s \ {x})
           T == {s \in SUBSET S : ~Fine(s)}
<1>1. SUFFICES ASSUME T # {} PROVE FALSE
  OBVIOUS
<1>2. PICK s \in T : \A y \in T : y \subseteq s => y = s
  <2>1. T \in SUBSET SUBSET S
    OBVIOUS
  <2> HIDE DEF T
  <2> QED
    BY <1>1, <2>1, MinimalSubset
<1>3. IsFiniteSet(s) /\ s \subseteq S
  BY <1>2, FS_Subset
<1>4. ASSUME NEW x \in s PROVE Fine(s \ {x})
  BY <1>2
<1> HIDE DEF T
<1>5. CASE s = {}
  <2>1. SumOver(f, s) = 0
    BY <1>3, <1>5, SumStep
  <2>2. Fine(s)
    BY <1>5, <2>1
  <2> QED
    BY <1>2, <2>2 DEF T
<1>6. CASE s # {}
  <2>1. PICK y \in s : SumOver(f, s) = f[y] + SumOver(f, s \ {y})
    BY <1>3, <1>6, SumStep, FirstIn
  <2>2. f[y] \in Nat /\ SumOver(f, s \ {y}) \in Nat
    BY <1>3, <1>4
  <2>3. ASSUME NEW x \in s, x # y PROVE SumOver(f, s) = f[x] + SumOver(f, s \ {x})
    <3> DEFINE r == (s \ {y}) \ {x}
    <3>1. r = (s \ {x}) \ {y}
      OBVIOUS
    <3>2. SumOver(f, s \ {y}) = f[x] + SumOver(f, r)
      BY <1>4, <2>3
    <3>3. SumOver(f, s \ {x}) = f[y] + SumOver(f, r)
      BY <1>4, <2>3, <3>1
    <3>4. SumOver(f, r) \in Nat
      <4>1. r \in SUBSET S /\ r # s /\ r \subseteq s
        BY <1>3
      <4>2. Fine(r)
        <5> HIDE DEF Fine, r
        <5> QED
          BY <1>2, <4>1 DEF T
      <4> HIDE DEF r
      <4> QED
        BY <4>2
    <3>5. f[x] \in Nat
      BY <1>3
    <3> HIDE DEF r
    <3> QED
      BY <2>1, <2>2, <3>2, <3>3, <3>4, <3>5
  <2>4. \A x \in s : SumOver(f, s) = f[x] + SumOver(f, s \ {x})
    BY <2>1, <2>3
  <2>5. SumOver(f, s) \in Nat
    BY <2>1, <2>2
  <2>6. Fine(s)
    BY <2>4, <2>5
  <2> QED
    BY <1>2, <2>6 DEF T
<1> QED
  BY <1>5, <1>6

\* A sum over fewer and smaller numbers is no larger.
LEMMA SumMonotone ==
    ASSUME NEW f, NEW h, NEW W, IsFiniteSet(W), NEW S \in SUBSET W,
           \A x \in W : h[x] \in Nat, \A x \in S : f[x] \in Nat /\ f[x] <= h[x]
    PROVE  SumOver(f, S) <= SumOver(h, W)
<1> DEFINE T == {w \in SUBSET W : ~(SumOver(f, S \cap w) <= SumOver(h, w))}
<1>1. SUFFICES ASSUME T # {} PROVE FALSE
  <2>1. T = {} => SumOver(f, S \cap W) <= SumOver(h, W)
    OBVIOUS
  <2>2. S \cap W = S
    OBVIOUS
  <2> QED
    BY <2>1, <2>2
<1>2. PICK w \in T : \A y \in T : y \subseteq w => y = w
  <2>1. T \in SUBSET SUBSET W
    OBVIOUS
  <2> HIDE DEF T
  <2> QED
    BY <1>1, <2>1, MinimalSubset
<1>3. \A u \in SUBSET w : IsFiniteSet(u) /\ IsFiniteSet(S \cap u)
  BY <1>2, FS_Subset
<1>4. ASSUME NEW u \in SUBSET w
      PROVE  SumOver(h, u) \in Nat /\ \A x \in u : SumOver(h, u) = h[x] + SumOver(h, u \ {x})
  <2>1. IsFiniteSet(u) /\ \A x \in u : h[x] \in Nat
    BY <1>2, <1>3
  <2> QED
    BY <2>1, SumTake
<1>5. ASSUME NEW u \in SUBSET w
      PROVE  /\ SumOver(f, S \cap u) \in Nat
             /\ \A x \in S \cap u : SumOver(f, S \cap u) = f[x] + SumOver(f, (S \cap u) \ {x})
  <2>1. IsFiniteSet(S \cap u) /\ \A x \in S \cap u : f[x] \in Nat
    BY <1>3
  <2> QED
    BY <2>1, SumTake
<1>6. CASE w = {}
  <2>1. S \cap w = {}
    BY <1>6
  <2>2. SumOver(f, {}) = 0 /\ SumOver(h, {}) = 0
    BY SumStep, FS_EmptySet
  <2> QED
    BY <1>2, <1>6, <2>1, <2>2
<1>7. CASE w # {}
  <2>1. PICK x \in w : TRUE
    BY <1>7
  <2>2. SumOver(f, S \cap (w \ {x})) <= SumOver(h, w \ {x})
    BY <1>2
  <2>3. SumOver(h, w) = h[x] + SumOver(h, w \ {x}) /\ h[x] \in Nat
    BY <1>2, <1>4
  <2>4. SumOver(f, S \cap (w \ {x})) \in Nat /\ SumOver(h, w \ {x}) \in Nat
    BY <1>4, <1>5
  <2>5. CASE x \in S
    <3>1. S \cap (w \ {x}) = (S \cap w) \ {x}
      OBVIOUS
    <3>2. SumOver(f, S \cap w) = f[x] + SumOver(f, S \cap (w \ {x})) /\ f[x] \in Nat /\ f[x] <= h[x]
      BY <1>5, <2>5, <3>1
    <3>3. SumOver(f, S \cap w) <= SumOver(h, w)
      BY <2>2, <2>3, <2>4, <3>2
    <3> QED
      BY <1>2, <3>3
  <2>6. CASE x \notin S
    <3>1. S \cap (w \ {x}) = S \cap w
      BY <2>6
    <3>2. SumOver(f, S \cap w) <= SumOver(h, w)
      BY <2>2, <2>3, <2>4, <3>1
    <3> QED
      BY <1>2, <3>2
  <2> QED
    BY <2>5, <2>6
<1> QED
  BY <1>6, <1>7

-----------------------------------------------------------------------------
(* The total *)

\* isPrimaryDisk (disk.go:167) accepts no partition.
OnlyWhole == \A d \in Counted : Host[d] = d

Totals ==
    /\ DOMAIN shown.rates \subseteq Devices
    /\ \A d \in DOMAIN shown.rates : shown.rates[d] \in Nat
    /\ shown.total = Total(shown.rates)
    /\ truth.moved \in [Devices -> Nat]

LEMMA NoTotal == Total(<<>>) = 0
<1>1. DOMAIN <<>> \cap Counted = {}
  OBVIOUS
<1>2. SumOver(<<>>, {}) = 0
  BY SumStep, FS_EmptySet
<1> QED
  BY <1>1, <1>2 DEF Total

LEMMA TotalsHold == ASSUME DevicesAssumption PROVE Spec => []Totals
<1>1. Init => Totals
  BY NoTotal DEF Init, Totals, NoStats
<1>2. Inv /\ Totals /\ [Next]_vars => Totals'
  <2> SUFFICES ASSUME Inv, Totals, [Next]_vars PROVE Totals'
    OBVIOUS
  <2>1. CASE Collect
    <3>1. truth'.moved = moved
      BY <2>1 DEF Collect, Truth
    <3>2. PICK rates : /\ \E n : shown' = Stats(rates, n)
                       /\ DOMAIN rates = DOMAIN proc
                       /\ \A d \in DOMAIN proc : rates[d] = 0 \/ rates[d] = Delta(last, proc, d)
      BY <2>1 DEF Collect, Baseline, CalculateStats
    <3>3. shown'.rates = rates /\ shown'.total = Total(rates)
      BY <3>2 DEF Stats
    <3>4. \A d \in DOMAIN proc : Delta(last, proc, d) \in Nat
      BY DEF Delta, Inv, TypeInv, Ticks
    <3> QED
      BY <3>1, <3>2, <3>3, <3>4 DEF Totals, Inv, TypeInv
  <2>2. CASE CollectFails
    <3>1. shown' = NoStats /\ truth' = truth
      BY <2>2 DEF CollectFails
    <3> QED
      BY <3>1, NoTotal DEF Totals, NoStats
  <2>3. CASE UNCHANGED <<shown, truth>>
    BY <2>3 DEF Totals
  <2> QED
    BY <2>1, <2>2, <2>3 DEF Next, Transfer, Unplug, Plug, Tick, vars
<1> QED
  BY <1>1, <1>2, Invariance, PTL DEF Spec

\* The total of the disks never exceeds what the whole devices transferred,
\* whatever lies on them and is listed beside them: "avoid double counting both
\* whole disk and partition" (disk.go:146).
THEOREM CountedOnceHolds == ASSUME DevicesAssumption, OnlyWhole PROVE Spec => []CountedOnce
<1>1. Totals /\ NoSpike => CountedOnce
  <2> SUFFICES ASSUME Totals, NoSpike PROVE CountedOnce
    OBVIOUS
  <2> DEFINE S == DOMAIN shown.rates \cap Counted
             W == {d \in Devices : Host[d] = d}
             f == shown.rates
             h == truth.moved
  <2>1. IsFiniteSet(W)
    BY DevicesAssumption, FS_Subset DEF DevicesAssumption
  <2>2. S \in SUBSET W /\ \A x \in W : h[x] \in Nat
    BY DevicesAssumption DEF OnlyWhole, DevicesAssumption, Totals
  <2>3. \A x \in S : f[x] \in Nat /\ f[x] <= h[x]
    BY DEF Totals, NoSpike
  <2>4. shown.total = SumOver(f, S)
    BY DEF Totals, Total
  <2> HIDE DEF S, W, f, h
  <2>5. SumOver(f, S) <= SumOver(h, W)
    BY <2>1, <2>2, <2>3, SumMonotone
  <2> QED
    BY <2>4, <2>5 DEF CountedOnce, W, h
<1> QED
  BY <1>1, TotalsHold, RatesTrue, DevicesAssumption, PTL

\* The totals have all that was transferred on the counted devices whose
\* counters ran on, and no more than all counted devices transferred
\* (CalculateDiskStats, disk.go:148, CalculateNetStats, net.go:127).
THEOREM TotalExactHolds == ASSUME DevicesAssumption PROVE Spec => []TotalExact
<1>1. Totals /\ NoSpike /\ Exact => TotalExact
  <2> SUFFICES ASSUME Totals, NoSpike, Exact PROVE TotalExact
    OBVIOUS
  <2> DEFINE S == DOMAIN shown.rates \cap Counted
             R == (S \cap truth.known) \ truth.restarted
             f == shown.rates
             h == truth.moved
  <2>1. IsFiniteSet(S)
    BY DevicesAssumption, FS_Subset DEF DevicesAssumption
  <2>2. R \in SUBSET S /\ S \in SUBSET S
    OBVIOUS
  <2>3. \A x \in S : f[x] \in Nat /\ h[x] \in Nat /\ f[x] <= h[x]
    BY DevicesAssumption DEF DevicesAssumption, Totals, NoSpike
  <2>4. \A x \in R : h[x] \in Nat /\ h[x] <= f[x]
    BY <2>3 DEF Exact
  <2>5. shown.total = SumOver(f, S)
    BY DEF Totals, Total
  <2> HIDE DEF S, R, f, h
  <2>6. SumOver(f, S) <= SumOver(h, S)
    BY <2>1, <2>2, <2>3, SumMonotone
  <2>7. SumOver(h, R) <= SumOver(f, S)
    BY <2>1, <2>2, <2>3, <2>4, SumMonotone
  <2> QED
    BY <2>5, <2>6, <2>7 DEF TotalExact, S, R, h
<1> QED
  BY <1>1, TotalsHold, RatesTrue, DevicesAssumption, PTL
=============================================================================
