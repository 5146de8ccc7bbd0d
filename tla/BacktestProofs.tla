---------------------------- MODULE BacktestProofs ----------------------------
(***************************************************************************)
(* Proofs about fees and backtests, for any fee, quantum, horizon, history *)
(* and order of imports.                                                   *)
(***************************************************************************)
EXTENDS Backtest, FiniteSetTheorems, TLAPS

-----------------------------------------------------------------------------
(* Prices.  Everything about them comes down to what a quotient is.        *)

LEMMA QuotientType ==
  ASSUME NEW a \in Int, NEW d \in Nat \ {0}
  PROVE  a \div d \in Int
  BY SMT

LEMMA QuotientCovers ==
  ASSUME NEW a \in Int, NEW d \in Nat \ {0}, NEW n \in Int
  PROVE  n <= a \div d <=> n * d <= a
  BY SMT

LEMMA QuantumFacts ==
  /\ Quantum \in Nat \ {0} /\ FeeDen \in Nat \ {0} /\ Kept \in Nat \ {0}
  /\ FeeDen * Quantum \in Nat \ {0} /\ Kept * Quantum \in Nat \ {0}
<1>1. /\ Quantum \in Nat \ {0} /\ FeeDen \in Nat \ {0} /\ Kept \in Nat \ {0}
  BY FeesAssumption DEF Kept
<1>2. \A m, n \in Nat \ {0} : m * n \in Nat \ {0}
  OBVIOUS
<1> QED
  BY <1>1, <1>2

(* The price of n quanta. *)
Grid(n) == n * Quantum

LEMMA GridOrder ==
  ASSUME NEW m \in Int, NEW n \in Int
  PROVE  /\ Grid(m) \in Int
         /\ m <= n <=> Grid(m) <= Grid(n)
<1>1. Quantum \in Nat \ {0}
  BY QuantumFacts
<1> QED
  BY <1>1, SMT DEF Grid

(* What the quanta are that cover an amount. *)
Quanta(amount) == (amount + Quantum - 1) \div Quantum

LEMMA QuantaCover ==
  ASSUME NEW amount \in Int, NEW n \in Int
  PROVE  /\ Quanta(amount) \in Int
         /\ Quanta(amount) <= n <=> amount <= Grid(n)
<1>1. Quantum \in Nat \ {0}
  BY QuantumFacts
<1>2. Quanta(amount) \in Int
  BY <1>1, QuotientType DEF Quanta
<1>3. n + 1 <= Quanta(amount) <=> (n + 1) * Quantum <= amount + Quantum - 1
  BY <1>1, QuotientCovers DEF Quanta
<1>4. (n + 1) * Quantum = n * Quantum + Quantum
  BY <1>1, SMT
<1>5. n * Quantum \in Int
  BY <1>1
<1> QED
  BY <1>1, <1>2, <1>3, <1>4, <1>5, SMT DEF Grid

(* Proceeds cover an amount exactly when what is kept of the price covers  *)
(* the amount rounded up: both sides are rounded to the same grid.         *)
LEMMA ProceedsCover ==
  ASSUME NEW price \in Nat, NEW buy \in Int
  PROVE  /\ SaleProceeds(price) \in Int
         /\ SaleProceeds(price) >= buy
              <=> Quanta(buy) * (FeeDen * Quantum) <= price * Kept
<1> DEFINE k == (price * Kept) \div (FeeDen * Quantum)
<1>1. k \in Int /\ price * Kept \in Int
  BY QuantumFacts, QuotientType
<1>2. SaleProceeds(price) = Grid(k)
  BY <1>1, QuantumFacts, SMT DEF SaleProceeds, FloorToQuantum, Grid
<1>3. Quanta(buy) \in Int /\ (Quanta(buy) <= k <=> buy <= Grid(k))
  BY <1>1, QuantaCover
<1>4. Quanta(buy) <= k <=> Quanta(buy) * (FeeDen * Quantum) <= price * Kept
  BY <1>1, <1>3, QuantumFacts, QuotientCovers
<1>5. Grid(k) \in Int
  BY <1>1, GridOrder
<1> HIDE DEF k
<1> QED
  BY <1>2, <1>3, <1>4, <1>5

(* A higher price never yields less. *)
THEOREM ProceedsGrow ==
  ASSUME NEW p \in Nat, NEW q \in Nat, p <= q
  PROVE  SaleProceeds(p) <= SaleProceeds(q)
<1> DEFINE b == SaleProceeds(p)
<1>1. b \in Int /\ SaleProceeds(q) \in Int
  BY ProceedsCover
<1>2. Quanta(b) * (FeeDen * Quantum) <= p * Kept
  BY <1>1, ProceedsCover
<1>3. p * Kept <= q * Kept
  BY QuantumFacts, SMT
<1>4. Quanta(b) * (FeeDen * Quantum) \in Int /\ p * Kept \in Int /\ q * Kept \in Int
  BY <1>1, QuantaCover, QuantumFacts
<1>5. Quanta(b) * (FeeDen * Quantum) <= q * Kept
  BY <1>2, <1>3, <1>4
<1> QED
  BY <1>1, <1>5, ProceedsCover

(* The price from which the search sets out. *)
First(buy) == CeilToQuantum(CeilToQuantum(buy, 1) * FeeDen, Kept)

(* It is on the grid, and it is where the kept part begins to cover. *)
LEMMA FirstCovers ==
  ASSUME NEW buy \in Nat \ {0}
  PROVE  \E n \in Nat \ {0} :
           /\ First(buy) = Grid(n)
           /\ \A m \in Int : n <= m <=> Quanta(buy) * (FeeDen * Quantum) <= Grid(m) * Kept
<1> DEFINE need == Quanta(buy) * (FeeDen * Quantum)
           d    == Kept * Quantum
           n    == (need + d - 1) \div d
<1>1. /\ Quantum \in Nat \ {0} /\ FeeDen \in Nat \ {0} /\ Kept \in Nat \ {0}
      /\ FeeDen * Quantum \in Nat \ {0} /\ d \in Nat \ {0}
  BY QuantumFacts
<1>2. Quanta(buy) \in Int /\ Grid(0) = 0 /\ 0 * Quantum = 0
  BY <1>1, QuantaCover DEF Grid
<1>3. Quanta(buy) \in Nat \ {0}
  BY <1>2, QuantaCover
<1>4. need \in Nat \ {0}
  <2>1. \A i, j \in Nat \ {0} : i * j \in Nat \ {0}
    OBVIOUS
  <2> QED
    BY <1>1, <1>3, <2>1
<1>5. n \in Int
  BY <1>1, <1>4, QuotientType
<1>6. First(buy) = Grid(n)
  <2>1. CeilToQuantum(buy, 1) = Grid(Quanta(buy))
    BY <1>1, <1>3, SMT DEF CeilToQuantum, Quanta, Grid
  <2>2. Grid(Quanta(buy)) * FeeDen = need
    BY <1>1, <1>3, SMT DEF Grid
  <2>3. CeilToQuantum(need, Kept) = Quantum * n
    BY DEF CeilToQuantum
  <2>4. Quantum * n = Grid(n)
    BY <1>1, <1>5 DEF Grid
  <2> HIDE DEF n, need
  <2> QED
    BY <2>1, <2>2, <2>3, <2>4 DEF First
<1>7. ASSUME NEW m \in Int
      PROVE  n <= m <=> need <= Grid(m) * Kept
  <2>1. m + 1 <= n <=> (m + 1) * d <= need + d - 1
    <3> HIDE DEF need, d
    <3>1. m + 1 \in Int /\ need + d - 1 \in Int
      BY <1>1, <1>4
    <3> QED
      BY <1>1, <3>1, QuotientCovers
  <2>2. (m + 1) * d = m * d + d /\ m * d \in Int
    BY <1>1, SMT
  <2>3. m * d = Grid(m) * Kept
    BY <1>1, SMT DEF Grid
  <2> HIDE DEF n, need, d
  <2> QED
    BY <1>1, <1>4, <1>5, <2>1, <2>2, <2>3, SMT
<1>8. n \in Nat \ {0}
  <2>1. 0 * Kept = 0
    BY <1>1
  <2>2. ~ (n <= 0)
    BY <1>2, <1>4, <1>7, <2>1
  <2> QED
    BY <1>5, <2>2
<1> HIDE DEF n, need, d
<1> QED
  BY <1>6, <1>7, <1>8 DEF need

(* The loop that looks for a lower price never finds one. *)
LEMMA NothingLower ==
  ASSUME NEW buy \in Nat \ {0}
  PROVE  BreakEvenSellPrice(buy) = First(buy)
<1>1. PICK n \in Nat \ {0} :
        /\ First(buy) = Grid(n)
        /\ \A m \in Int : n <= m <=> Quanta(buy) * (FeeDen * Quantum) <= Grid(m) * Kept
  BY FirstCovers
<1>2. First(buy) - Quantum = Grid(n - 1) /\ Grid(n - 1) \in Nat
  BY <1>1, QuantumFacts, SMT DEF Grid
<1>3. ~ (SaleProceeds(First(buy) - Quantum) >= buy)
  <2>1. ~ (n <= n - 1) /\ n - 1 \in Int
    OBVIOUS
  <2> QED
    BY <1>1, <1>2, <2>1, ProceedsCover
<1>4. Lowered(First(buy), buy) = First(buy)
  BY <1>3 DEF Lowered
<1> QED
  BY <1>4 DEF BreakEvenSellPrice, First

(* The break-even price is the smallest price of the market whose proceeds *)
(* cover what was paid, for every fee below 1, every quantum and every     *)
(* amount, and no bid a quantum or more below it does                      *)
(* (fees.py:91-114, "the smallest valid listed price").                    *)
THEOREM BreakEvenIsLeast ==
  ASSUME NEW buy \in Nat \ {0}
  PROVE  /\ \E n \in Nat \ {0} : BreakEvenSellPrice(buy) = Grid(n)
         /\ SaleProceeds(BreakEvenSellPrice(buy)) >= buy
         /\ \A p \in Nat : SaleProceeds(p) >= buy => p > BreakEvenSellPrice(buy) - Quantum
         /\ \A m \in Nat : SaleProceeds(Grid(m)) >= buy => BreakEvenSellPrice(buy) <= Grid(m)
<1>1. PICK n \in Nat \ {0} :
        /\ First(buy) = Grid(n)
        /\ \A m \in Int : n <= m <=> Quanta(buy) * (FeeDen * Quantum) <= Grid(m) * Kept
  BY FirstCovers
<1>2. BreakEvenSellPrice(buy) = Grid(n) /\ n \in Int
  BY <1>1, NothingLower
<1>3. \A m \in Nat : Grid(m) \in Nat
  BY QuantumFacts DEF Grid
<1>4. \A m \in Nat : SaleProceeds(Grid(m)) >= buy <=> n <= m
  BY <1>1, <1>3, ProceedsCover
<1>5. \A m \in Nat : SaleProceeds(Grid(m)) >= buy => Grid(n) <= Grid(m)
  BY <1>4, GridOrder
<1>6. SaleProceeds(Grid(n)) >= buy
  BY <1>4
<1>7. ASSUME NEW p \in Nat, SaleProceeds(p) >= buy, ~ (p > Grid(n) - Quantum)
      PROVE  FALSE
  <2>1. Grid(n) - Quantum = Grid(n - 1) /\ n - 1 \in Nat /\ Quantum \in Nat /\ Grid(n) \in Int
    BY QuantumFacts, <1>3, SMT DEF Grid
  <2>2. p <= Grid(n - 1)
    BY <1>3, <1>7, <2>1
  <2>3. SaleProceeds(p) <= SaleProceeds(Grid(n - 1))
    BY <1>3, <2>1, <2>2, ProceedsGrow
  <2>4. SaleProceeds(Grid(n - 1)) >= buy
    <3>1. SaleProceeds(p) \in Int /\ SaleProceeds(Grid(n - 1)) \in Int
      BY <1>3, <2>1, ProceedsCover
    <3> QED
      BY <1>7, <2>3, <3>1
  <2> QED
    BY <1>4, <2>1, <2>4
<1> QED
  BY <1>1, <1>2, <1>5, <1>6, <1>7

-----------------------------------------------------------------------------
(* Order.  The latest price, the best bid and the median are choices that  *)
(* exist, because a history is finite.                                     *)

(* A set of naturals with an element has a least one. *)
LEMMA LeastNatural ==
  ASSUME NEW N, N \subseteq Nat, N # {}
  PROVE  \E m \in N : \A n \in N : m <= n
<1>1. PICK m \in N : \A n \in N : <<n, m>> \notin OpToRel(<, Nat)
  BY WFMin, NatLessThanWellFounded, Zenon
<1>2. m \in N /\ \A n \in N : ~ (n < m)
  <2>1. ASSUME NEW n \in N, n < m
        PROVE  FALSE
    <3>1. <<n, m>> \in OpToRel(<, Nat)
      BY <2>1, Zenon DEF OpToRel
    <3> QED
      BY <1>1, <3>1, Zenon
  <2> QED
    BY <1>1, <2>1, Zenon
<1>3. \A n \in N : m \in Nat /\ n \in Nat
  BY <1>2
<1> QED
  BY <1>2, <1>3

(* Among finitely many integers there is a least and a greatest one. *)
LEMMA ExtremesExist ==
  ASSUME NEW S \in SUBSET Int, S # {}, IsFiniteSet(S)
  PROVE  /\ \E x \in S : \A y \in S : x <= y
         /\ \E x \in S : \A y \in S : y <= x
<1> DEFINE below(x) == {y \in S : y < x}
           above(x) == {y \in S : y > x}
<1>1. \A x \in S : IsFiniteSet(below(x)) /\ Cardinality(below(x)) \in Nat
                   /\ IsFiniteSet(above(x)) /\ Cardinality(above(x)) \in Nat
  <2> TAKE x \in S
  <2>1. below(x) \in SUBSET S /\ above(x) \in SUBSET S
    OBVIOUS
  <2> HIDE DEF below, above
  <2> QED
    BY <2>1, FS_Subset, FS_CardinalityType
<1>2. \E x \in S : \A y \in S : x <= y
  <2> DEFINE N == {Cardinality(below(x)) : x \in S}
  <2>1. N \subseteq Nat /\ N # {}
    BY <1>1
  <2>2. PICK m \in N : \A n \in N : m <= n
    <3> HIDE DEF N
    <3> QED
      BY <2>1, LeastNatural
  <2>3. PICK x \in S : m = Cardinality(below(x))
    OBVIOUS
  <2>4. ASSUME NEW y \in S, ~ (x <= y)
        PROVE  FALSE
    <3>1. below(y) \in SUBSET below(x) /\ below(y) # below(x)
      <4>1. y \in below(x) /\ y \notin below(y)
        BY <2>4
      <4>2. \A z \in below(y) : z \in below(x)
        BY <2>4
      <4> HIDE DEF below
      <4> QED
        BY <4>1, <4>2
    <3>2. Cardinality(below(y)) \in N
      OBVIOUS
    <3> HIDE DEF below, N
    <3>3. Cardinality(below(y)) <= Cardinality(below(x)) /\ Cardinality(below(y)) # Cardinality(below(x))
      BY <1>1, <3>1, FS_Subset
    <3>4. Cardinality(below(x)) <= Cardinality(below(y))
      BY <2>2, <2>3, <3>2
    <3>5. Cardinality(below(x)) \in Nat /\ Cardinality(below(y)) \in Nat
      BY <1>1
    <3> QED
      BY <3>3, <3>4, <3>5
  <2> QED
    BY <2>4
<1>3. \E x \in S : \A y \in S : y <= x
  <2> DEFINE N == {Cardinality(above(x)) : x \in S}
  <2>1. N \subseteq Nat /\ N # {}
    BY <1>1
  <2>2. PICK m \in N : \A n \in N : m <= n
    <3> HIDE DEF N
    <3> QED
      BY <2>1, LeastNatural
  <2>3. PICK x \in S : m = Cardinality(above(x))
    OBVIOUS
  <2>4. ASSUME NEW y \in S, ~ (y <= x)
        PROVE  FALSE
    <3>1. above(y) \in SUBSET above(x) /\ above(y) # above(x)
      <4>1. y \in above(x) /\ y \notin above(y)
        BY <2>4
      <4>2. \A z \in above(y) : z \in above(x)
        BY <2>4
      <4> HIDE DEF above
      <4> QED
        BY <4>1, <4>2
    <3>2. Cardinality(above(y)) \in N
      OBVIOUS
    <3> HIDE DEF above, N
    <3>3. Cardinality(above(y)) <= Cardinality(above(x)) /\ Cardinality(above(y)) # Cardinality(above(x))
      BY <1>1, <3>1, FS_Subset
    <3>4. Cardinality(above(x)) <= Cardinality(above(y))
      BY <2>2, <2>3, <3>2
    <3>5. Cardinality(above(x)) \in Nat /\ Cardinality(above(y)) \in Nat
      BY <1>1
    <3> QED
      BY <3>3, <3>4, <3>5
  <2> QED
    BY <2>4
<1> QED
  BY <1>2, <1>3

LEMMA LeastIs ==
  ASSUME NEW S \in SUBSET Int, IsFiniteSet(S), S # {}
  PROVE  /\ Least(S) \in S /\ \A y \in S : Least(S) <= y
         /\ Latest(S) \in S /\ \A y \in S : y <= Latest(S)
BY ExtremesExist DEF Least, Latest

(* There is a value at every place of a window's, hence a median. *)
LEMMA RankedExists ==
  ASSUME NEW window, NEW part, NEW times, IsFiniteSet(times),
         \A t \in times : window[t][part] \in Int,
         NEW k \in 1 .. Cardinality(times)
  PROVE  Ranked(window, part, times, k) \in {window[t][part] : t \in times}
<1> DEFINE values == {window[t][part] : t \in times}
           upto(x) == {t \in times : window[t][part] <= x}
           under(x) == {t \in times : window[t][part] < x}
           good == {x \in values : k <= Cardinality(upto(x))}
<1>1. values \in SUBSET Int /\ IsFiniteSet(values) /\ values # {}
  <2>1. IsFiniteSet(values)
    <3>1. values = {window[t][part] : t \in times}
      OBVIOUS
    <3> DEFINE f == [t \in times |-> window[t][part]]
    <3>2. f \in Surjection(times, values)
      BY DEF Surjection
    <3> HIDE DEF f, values
    <3> QED
      BY <3>2, FS_Surjection
  <2>2. times # {}
    BY FS_EmptySet
  <2> QED
    BY <2>1, <2>2
<1>2. \A x \in Int : /\ IsFiniteSet(upto(x)) /\ Cardinality(upto(x)) \in Nat
                     /\ IsFiniteSet(under(x)) /\ Cardinality(under(x)) \in Nat
  <2> TAKE x \in Int
  <2>1. upto(x) \in SUBSET times /\ under(x) \in SUBSET times
    OBVIOUS
  <2> HIDE DEF upto, under
  <2> QED
    BY <2>1, FS_Subset, FS_CardinalityType
<1>3. good # {}
  <2> DEFINE top == Latest(values)
  <2>1. top \in values /\ \A y \in values : y <= top
    <3> HIDE DEF values
    <3> QED
      BY <1>1, LeastIs
  <2> HIDE DEF top
  <2>2. upto(top) = times
    BY <2>1
  <2>3. k <= Cardinality(upto(top))
    <3> HIDE DEF upto
    <3>1. Cardinality(times) \in Nat
      BY FS_CardinalityType
    <3> QED
      BY <2>2, <3>1
  <2> QED
    BY <2>1, <2>3
<1>4. good \in SUBSET Int /\ IsFiniteSet(good)
  <2>1. good \in SUBSET values
    OBVIOUS
  <2> HIDE DEF good, values
  <2> QED
    BY <1>1, <2>1, FS_Subset
<1> DEFINE x == Least(good)
<1>5. x \in good /\ \A y \in good : x <= y
  <2> HIDE DEF good
  <2> QED
    BY <1>3, <1>4, LeastIs
<1> HIDE DEF x
<1>6. Cardinality(under(x)) < k
  <2> SUFFICES ASSUME ~ (Cardinality(under(x)) < k) PROVE FALSE
    OBVIOUS
  <2>1. x \in Int /\ Cardinality(under(x)) \in Nat /\ k <= Cardinality(under(x)) /\ IsFiniteSet(under(x))
    <3>1. x \in Int
      BY <1>4, <1>5
    <3> HIDE DEF under
    <3>2. Cardinality(under(x)) \in Nat /\ IsFiniteSet(under(x))
      BY <1>2, <3>1
    <3>3. Cardinality(times) \in Nat
      BY FS_CardinalityType
    <3> QED
      BY <3>1, <3>2, <3>3
  <2>2. under(x) # {}
    <3> HIDE DEF under
    <3> QED
      BY <2>1, FS_EmptySet
  <2> DEFINE lower == {window[t][part] : t \in under(x)}
  <2>3. lower \in SUBSET values /\ lower # {}
    BY <2>2
  <2>4. lower \in SUBSET Int /\ IsFiniteSet(lower)
    <3> HIDE DEF lower, values
    <3> QED
      BY <1>1, <2>3, FS_Subset
  <2> DEFINE y == Latest(lower)
  <2>5. y \in lower /\ \A z \in lower : z <= y
    <3> HIDE DEF lower
    <3> QED
      BY <2>3, <2>4, LeastIs
  <2> HIDE DEF y
  <2>6. y \in values /\ y < x
    BY <2>5
  <2>7. under(x) = upto(y)
    <3>1. y \in Int
      BY <2>4, <2>5
    <3>2. \A t \in times : window[t][part] < x <=> window[t][part] <= y
      <4> TAKE t \in times
      <4>1. window[t][part] < x => window[t][part] \in lower
        OBVIOUS
      <4> HIDE DEF lower
      <4> QED
        BY <2>1, <2>5, <2>6, <3>1, <4>1
    <3> QED
      BY <3>2
  <2>8. y \in good
    <3> HIDE DEF under, upto, values
    <3> QED
      BY <2>1, <2>6, <2>7
  <2>9. x <= y /\ y \in Int
    <3> HIDE DEF good, lower
    <3> QED
      BY <1>5, <2>4, <2>5, <2>8
  <2> QED
    BY <2>1, <2>6, <2>9
<1>7. x \in values /\ k <= Cardinality(upto(x))
  BY <1>5
<1> QED
  BY <1>6, <1>7 DEF Ranked

-----------------------------------------------------------------------------
(* Backtests.  A report says what the history was when it was read.        *)

IInv ==
  /\ TypeOK
  /\ IsFiniteSet(DOMAIN snapshots) /\ IsFiniteSet(DOMAIN read)
  /\ report # None => report = RunBacktest(Loaded(read))

LEMMA InitEstablishes == Init => IInv
  BY FS_EmptySet DEF Init, IInv, TypeOK

LEMMA StepPreserves == IInv /\ [Next]_vars => IInv'
<1> SUFFICES ASSUME IInv, [Next]_vars PROVE IInv'
  OBVIOUS
<1>1. ASSUME NEW t \in Times, NEW o \in Observations, Import(t, o)
      PROVE  IInv'
  <2>1. /\ DOMAIN snapshots' = DOMAIN snapshots \cup {t} /\ t \notin DOMAIN snapshots
        /\ \A u \in DOMAIN snapshots' : snapshots'[u] = IF u = t THEN o ELSE snapshots[u]
    BY <1>1 DEF Import
  <2>2. read' = read /\ report' = report
    BY <1>1 DEF Import
  <2>3. TypeOK'
    BY <2>1, <2>2 DEF IInv, TypeOK
  <2>4. IsFiniteSet(DOMAIN snapshots')
    BY <2>1, FS_AddElement DEF IInv
  <2> QED
    BY <2>2, <2>3, <2>4 DEF IInv, RunBacktest, Loaded
<1>2. ASSUME Backtest
      PROVE  IInv'
  BY <1>2 DEF Backtest, IInv, TypeOK
<1>3. ASSUME UNCHANGED vars
      PROVE  IInv'
  BY <1>3 DEF vars, IInv, TypeOK
<1> QED
  BY <1>1, <1>2, <1>3 DEF Next

LEMMA Invariant == Spec => []IInv
  BY InitEstablishes, StepPreserves, PTL DEF Spec

(* The snapshots are those of the imports, and a backtest reads them as    *)
(* they are.                                                               *)
THEOREM BacktestTypes == Spec => []TypeOK
<1>1. IInv => TypeOK
  BY DEF IInv
<1> QED
  BY <1>1, Invariant, PTL

(* A window within a window is cut from the history itself. *)
LEMMA WindowOfWindow ==
  ASSUME NEW history, DOMAIN history \subseteq Int,
         NEW low \in Int, NEW from \in Int, NEW to \in Int, NEW high \in Int,
         low <= from, to <= high
  PROVE  Window(Window(history, low, high), from, to) = Window(history, from, to)
<1> DEFINE outer == Window(history, low, high)
<1>1. /\ DOMAIN outer = {t \in DOMAIN history : low <= t /\ t <= high}
      /\ \A t \in DOMAIN outer : outer[t] = history[t]
  BY DEF Window
<1> HIDE DEF outer
<1>2. {t \in DOMAIN outer : from <= t /\ t <= to}
        = {t \in DOMAIN history : from <= t /\ t <= to}
  BY <1>1
<1> QED
  BY <1>1, <1>2 DEF Window, outer

(* Windows that differ in no row are equal. *)
LEMMA WindowsEqual ==
  ASSUME NEW before, NEW after, NEW from, NEW to,
         DOMAIN before \subseteq DOMAIN after,
         \A t \in DOMAIN before : before[t] = after[t],
         \A t \in DOMAIN after \ DOMAIN before : ~ (from <= t /\ t <= to)
  PROVE  Window(before, from, to) = Window(after, from, to)
<1>1. {t \in DOMAIN before : from <= t /\ t <= to}
        = {t \in DOMAIN after : from <= t /\ t <= to}
  OBVIOUS
<1> QED
  BY <1>1 DEF Window

LEMMA CutoffBounds ==
  ASSUME NEW c \in Cutoffs
  PROVE  /\ c \in Int /\ Start <= c /\ c <= End
         /\ Horizon \in Nat /\ Forward \in Nat
         /\ c - Horizon \in Int /\ c + Forward \in Int /\ c + 1 \in Int
         /\ Start - Horizon \in Int /\ End + Forward \in Int
         /\ Start - Horizon <= c - Horizon /\ c <= End + Forward
         /\ Start - Horizon <= c + 1 /\ c + Forward <= End + Forward
  BY BacktestAssumption, RuleBasedAssumption DEF Cutoffs

(* What a case looks at, without the rows that were loaded. *)
LEMMA CaseWindows ==
  ASSUME NEW history, DOMAIN history \subseteq Int, NEW c \in Cutoffs
  PROVE  /\ Lookback(Loaded(history), c) = Window(history, c - Horizon, c)
         /\ Future(Loaded(history), c) = Window(history, c + 1, c + Forward)
<1>1. Lookback(Loaded(history), c) = Window(history, c - Horizon, c)
  BY CutoffBounds, WindowOfWindow DEF Lookback, Loaded
<1>2. Future(Loaded(history), c) = Window(history, c + 1, c + Forward)
  <2> DEFINE low == Start - Horizon  high == End + Forward
             from == c + 1           to == c + Forward
  <2>1. low \in Int /\ high \in Int /\ from \in Int /\ to \in Int /\ low <= from /\ to <= high
    BY CutoffBounds
  <2> HIDE DEF low, high, from, to
  <2>2. Window(Window(history, low, high), from, to) = Window(history, from, to)
    BY <2>1, WindowOfWindow
  <2> QED
    BY <2>2 DEF Future, Loaded, low, high, from, to
<1> QED
  BY <1>1, <1>2

LEMMA ReadTimes == IInv => DOMAIN read \subseteq Int
  BY BacktestAssumption DEF IInv, TypeOK

(* A case of a report, from the history that was read. *)
LEMMA ReportedCase ==
  ASSUME IInv, report # None, NEW c \in Cutoffs
  PROVE  /\ report[c] = Case(Loaded(read), c)
         /\ report[c].analysis = AnalyzeItem(read, c)
<1>1. report[c] = Case(Loaded(read), c)
  BY DEF IInv, RunBacktest
<1>2. Case(Loaded(read), c).analysis = Analyze(Lookback(Loaded(read), c), c)
  BY DEF Case
<1>3. Lookback(Loaded(read), c) = Window(read, c - Horizon, c)
  BY ReadTimes, CaseWindows
<1> QED
  BY <1>1, <1>2, <1>3 DEF AnalyzeItem

(* Backtest and analysis agree at every cutoff of every period, for every  *)
(* horizon: the backtest loads all that its lookbacks need.                *)
THEOREM AnalysesMatch == Spec => []CasesMatchAnalysis
<1>1. IInv => CasesMatchAnalysis
  BY ReportedCase DEF CasesMatchAnalysis
<1> QED
  BY <1>1, Invariant, PTL

(* A backtest after imports, case by case: only rows that arrived within   *)
(* a window can change what is cut from it.                                *)
LEMMA StepReads ==
  ASSUME IInv, [Next]_vars, report # None, report' # None
  PROVE  /\ DOMAIN read \subseteq DOMAIN read'
         /\ DOMAIN read' \subseteq Int
         /\ \A t \in DOMAIN read : read'[t] = read[t]
         /\ IInv'
<1>1. IInv'
  BY StepPreserves
<1>2. DOMAIN read' \subseteq Int
  BY <1>1, BacktestAssumption DEF IInv, TypeOK
<1>3. read' = read \/ read' = snapshots
  BY DEF Next, Import, Backtest, vars
<1> QED
  BY <1>1, <1>2, <1>3 DEF IInv, TypeOK

LEMMA NextAnalysis ==
  ASSUME IInv, [Next]_vars, report # None, report' # None, NEW c \in Cutoffs
  PROVE  report'[c] = Case(Loaded(read'), c) /\ report'[c].analysis = AnalyzeItem(read', c)
<1>1. IInv' /\ DOMAIN read' \subseteq Int
  BY StepReads
<1>2. report'[c] = Case(Loaded(read'), c)
  BY <1>1 DEF IInv, RunBacktest
<1>3. Case(Loaded(read'), c).analysis = Analyze(Lookback(Loaded(read'), c), c)
  BY DEF Case
<1>4. Lookback(Loaded(read'), c) = Window(read', c - Horizon, c)
  BY <1>1, CaseWindows
<1> QED
  BY <1>2, <1>3, <1>4 DEF AnalyzeItem

(* No backtest looks ahead: nothing that is imported for a time after a    *)
(* cutoff changes what the strategy says there.                            *)
THEOREM BacktestLooksBack == Spec => NoLookAhead
<1> DEFINE A == \A c \in Cutoffs :
                  report # None /\ report' # None /\ (\A t \in Arrived : t > c)
                    => report'[c].analysis = report[c].analysis
<1>1. IInv /\ [Next]_vars => A
  <2> SUFFICES ASSUME IInv, [Next]_vars, NEW c \in Cutoffs,
                      report # None, report' # None, \A t \in Arrived : t > c
               PROVE  report'[c].analysis = report[c].analysis
    OBVIOUS
  <2>1. \A t \in DOMAIN read' \ DOMAIN read : ~ (c - Horizon <= t /\ t <= c)
    BY StepReads, CutoffBounds DEF Arrived
  <2>2. Window(read, c - Horizon, c) = Window(read', c - Horizon, c)
    BY <2>1, StepReads, WindowsEqual
  <2> QED
    BY <2>2, ReportedCase, NextAnalysis DEF AnalyzeItem
<1>2. []IInv /\ [][Next]_vars => [][A]_vars
  BY <1>1, PTL
<1> QED
  BY <1>2, Invariant DEF Spec, NoLookAhead

(* The status of a case whose windows stay as they are can only become     *)
(* evaluated: loading more rows never takes a complete window back.        *)
LEMMA EvaluatedStays ==
  ASSUME NEW before, NEW after, NEW c \in Cutoffs,
         DOMAIN before \subseteq DOMAIN after,
         Lookback(before, c) = Lookback(after, c),
         Future(before, c) = Future(after, c),
         Case(before, c).status = "evaluated"
  PROVE  Case(after, c) = Case(before, c)
<1> DEFINE analysis == Analyze(Lookback(after, c), c)
<1>1. CaseStatus(before, c, analysis) = "evaluated"
  BY DEF Case
<1> HIDE DEF analysis
<1>2. /\ analysis.status = "ok"
      /\ RequireComplete => Complete(before, c)
      /\ DOMAIN Future(before, c) # {}
  BY <1>1 DEF CaseStatus
<1>3. RequireComplete => Complete(after, c)
  BY <1>2 DEF Complete
<1>4. CaseStatus(after, c, analysis) = "evaluated"
  BY <1>2, <1>3 DEF CaseStatus
<1> QED
  BY <1>1, <1>4 DEF Case, analysis

(* What counts as evaluated is settled: it changes only with a snapshot    *)
(* that is filled in between its lookback and the end of its window.       *)
THEOREM EvaluatedCasesSettle == Spec => EvaluatedIsSettled
<1> DEFINE A == \A c \in Cutoffs :
                  /\ report # None /\ report' # None
                  /\ report[c].status = "evaluated"
                  /\ \A t \in Arrived : t < c - Horizon \/ t > c + Forward
                  => report'[c] = report[c]
<1>1. IInv /\ [Next]_vars => A
  <2> SUFFICES ASSUME IInv, [Next]_vars, NEW c \in Cutoffs,
                      report # None, report' # None, report[c].status = "evaluated",
                      \A t \in Arrived : t < c - Horizon \/ t > c + Forward
               PROVE  report'[c] = report[c]
    OBVIOUS
  <2>1. /\ DOMAIN read \subseteq DOMAIN read' /\ DOMAIN read' \subseteq Int
        /\ \A t \in DOMAIN read : read'[t] = read[t]
    BY StepReads
  <2>2. /\ \A t \in DOMAIN read' \ DOMAIN read : ~ (c - Horizon <= t /\ t <= c)
        /\ \A t \in DOMAIN read' \ DOMAIN read : ~ (c + 1 <= t /\ t <= c + Forward)
    BY <2>1, CutoffBounds DEF Arrived
  <2>3. Window(read, c - Horizon, c) = Window(read', c - Horizon, c)
    BY <2>1, <2>2, WindowsEqual
  <2>4. Window(read, c + 1, c + Forward) = Window(read', c + 1, c + Forward)
    BY <2>1, <2>2, WindowsEqual
  <2>5. /\ Lookback(Loaded(read), c) = Lookback(Loaded(read'), c)
        /\ Future(Loaded(read), c) = Future(Loaded(read'), c)
    BY <2>1, <2>3, <2>4, CaseWindows
  <2>6. DOMAIN Loaded(read) \subseteq DOMAIN Loaded(read')
    BY <2>1 DEF Loaded, Window
  <2> QED
    BY <2>5, <2>6, EvaluatedStays, ReportedCase, NextAnalysis
<1>2. []IInv /\ [][Next]_vars => [][A]_vars
  BY <1>1, PTL
<1> QED
  BY <1>2, Invariant DEF Spec, EvaluatedIsSettled

-----------------------------------------------------------------------------
(* What a case says of break-even.                                         *)

(* What imports bring, up to some time. *)
History(rows) ==
  /\ DOMAIN rows \subseteq Int
  /\ IsFiniteSet(DOMAIN rows)
  /\ \A t \in DOMAIN rows : rows[t] \in Observation

Listed == 1 .. MaximumListing

LEMMA WindowIsHistory ==
  ASSUME NEW rows, History(rows), NEW from, NEW to
  PROVE  History(Window(rows, from, to))
<1>1. DOMAIN Window(rows, from, to) \in SUBSET DOMAIN rows
  BY DEF Window
<1>2. IsFiniteSet(DOMAIN Window(rows, from, to))
  BY <1>1, FS_Subset DEF History
<1>3. \A t \in DOMAIN Window(rows, from, to) : Window(rows, from, to)[t] = rows[t]
  BY DEF Window
<1> QED
  BY <1>1, <1>2, <1>3 DEF History

(* The latest price of a side is one of its legal prices. *)
LEMMA LegalPrices ==
  ASSUME NEW rows, History(rows), NEW side
  PROVE  /\ Legal(rows, side) \in SUBSET Int /\ IsFiniteSet(Legal(rows, side))
         /\ \A t \in Legal(rows, side) : rows[t][side] \in Listed
         /\ Legal(rows, side) = {} => LatestPrice(rows, side) = None
         /\ Legal(rows, side) # {} =>
              \E t \in Legal(rows, side) : LatestPrice(rows, side) = rows[t][side]
<1>1. Legal(rows, side) \in SUBSET DOMAIN rows
  BY DEF Legal
<1>2. Legal(rows, side) \in SUBSET Int /\ IsFiniteSet(Legal(rows, side))
  BY <1>1, FS_Subset DEF History
<1>3. \A t \in Legal(rows, side) : rows[t][side] \in Listed
  BY DEF Legal, IsValidMarketPrice, Listed
<1>4. Legal(rows, side) # {} => Latest(Legal(rows, side)) \in Legal(rows, side)
  BY <1>2, LeastIs
<1> QED
  BY <1>2, <1>3, <1>4 DEF LatestPrice

LEMMA LatestListed ==
  ASSUME NEW rows, History(rows), NEW side
  PROVE  LatestPrice(rows, side) \in Listed \cup {None}
<1>1. CASE Legal(rows, side) = {}
  BY <1>1, LegalPrices
<1>2. CASE Legal(rows, side) # {}
  BY <1>2, LegalPrices
<1> QED
  BY <1>1, <1>2

(* The reference price is a number of quanta: a median exists. *)
LEMMA ReferenceOnGrid ==
  ASSUME NEW rows, History(rows)
  PROVE  \/ ReferenceSellPrice(rows) = None
         \/ \E n \in Nat : ReferenceSellPrice(rows) = Grid(n) /\ Grid(n) \in Listed
<1> DEFINE bids == Legal(rows, "bid")
           n == Cardinality(bids)
           twice == TwiceMedian(rows, "bid", bids)
           price == FloorToQuantum(twice, 2)
           k == twice \div (2 * Quantum)
<1>1. SUFFICES ASSUME bids # {}, IsValidMarketPrice(price),
                      ReferenceSellPrice(rows) = price
               PROVE  \E m \in Nat : price = Grid(m) /\ Grid(m) \in Listed
  BY DEF ReferenceSellPrice
<1>2. IsFiniteSet(bids) /\ \A t \in bids : rows[t].bid \in Int
  BY LegalPrices DEF Listed
<1>3. n \in Nat \ {0}
  <2> HIDE DEF bids
  <2>1. n \in Nat /\ (n = 0 <=> bids = {})
    BY <1>2, FS_CardinalityType, FS_EmptySet
  <2> QED
    BY <1>1, <2>1
<1>4. (n + 1) \div 2 \in 1 .. n /\ (n \div 2) + 1 \in 1 .. n
  <2> HIDE DEF n
  <2> QED
    BY <1>3
<1>5. \A i \in 1 .. n : Ranked(rows, "bid", bids, i) \in Int
  <2> SUFFICES ASSUME NEW i \in 1 .. n PROVE Ranked(rows, "bid", bids, i) \in Int
    OBVIOUS
  <2> HIDE DEF bids
  <2>1. Ranked(rows, "bid", bids, i) \in {rows[t]["bid"] : t \in bids}
    BY <1>2, RankedExists
  <2> QED
    BY <1>2, <2>1
<1>6. twice \in Int
  <2> HIDE DEF bids
  <2> QED
    BY <1>4, <1>5 DEF TwiceMedian
<1> HIDE DEF twice, bids, n
<1>7. k \in Int
  <2>1. 2 * Quantum \in Nat \ {0}
    BY QuantumFacts
  <2> QED
    BY <1>6, <2>1, QuotientType
<1>8. price = Grid(k)
  <2> HIDE DEF k
  <2>1. price = Quantum * k
    BY DEF FloorToQuantum, k
  <2> QED
    BY <1>7, <2>1, QuantumFacts DEF Grid
<1>9. Grid(k) \in Listed
  BY <1>1, <1>8 DEF IsValidMarketPrice, Listed
<1>10. k \in Nat
  <2> HIDE DEF k
  <2>1. Grid(0) = 0 /\ Grid(k) > 0
    BY <1>9, QuantumFacts DEF Grid, Listed
  <2>2. ~ (k <= 0)
    BY <1>7, <2>1, GridOrder
  <2> QED
    BY <1>7, <2>2
<1> QED
  BY <1>8, <1>9, <1>10

(* Among the prices of the grid, those from the break-even price on pay;   *)
(* the highest price that is listed is one of them.                        *)
LEMMA GridPays ==
  ASSUME NEW ask \in Nat \ {0}, NEW n \in Nat
  PROVE  SaleProceeds(Grid(n)) >= ask <=> BreakEvenSellPrice(ask) <= Grid(n)
<1>1. PICK m \in Nat \ {0} : BreakEvenSellPrice(ask) = Grid(m)
  BY BreakEvenIsLeast
<1>2. Grid(n) \in Nat /\ Grid(m) \in Nat
  BY QuantumFacts DEF Grid
<1>3. SaleProceeds(Grid(n)) >= ask => BreakEvenSellPrice(ask) <= Grid(n)
  BY BreakEvenIsLeast
<1>4. ASSUME Grid(m) <= Grid(n) PROVE SaleProceeds(Grid(n)) >= ask
  <2>1. SaleProceeds(Grid(m)) <= SaleProceeds(Grid(n))
    BY <1>2, <1>4, ProceedsGrow
  <2>2. SaleProceeds(Grid(m)) >= ask
    BY <1>1, BreakEvenIsLeast
  <2>3. SaleProceeds(Grid(m)) \in Int /\ SaleProceeds(Grid(n)) \in Int
    BY <1>2, ProceedsCover
  <2> QED
    BY <2>1, <2>2, <2>3
<1> QED
  BY <1>1, <1>3, <1>4

LEMMA TopOnGrid == \E n \in Nat : MaximumListing = Grid(n)
<1> DEFINE n == MaximumListing \div Quantum
<1>1. Quantum \in Nat \ {0} /\ MaximumListing \in Nat /\ MaximumListing % Quantum = 0
  BY FeesAssumption
<1>2. n \in Nat
  BY <1>1
<1>3. MaximumListing = n * Quantum
  BY <1>1
<1> QED
  BY <1>2, <1>3 DEF Grid

(* When nothing listed pays, no bid does. *)
LEMMA NothingPays ==
  ASSUME NEW ask \in Nat \ {0}, NEW bid \in Listed, SaleProceeds(bid) >= ask
  PROVE  BreakEvenSellPrice(ask) <= MaximumListing
<1>1. PICK n \in Nat : MaximumListing = Grid(n)
  BY TopOnGrid
<1>2. bid \in Nat /\ MaximumListing \in Nat /\ bid <= MaximumListing
  BY FeesAssumption DEF Listed
<1>3. SaleProceeds(bid) <= SaleProceeds(MaximumListing)
  BY <1>2, ProceedsGrow
<1>4. SaleProceeds(bid) \in Int /\ SaleProceeds(MaximumListing) \in Int
  BY <1>2, ProceedsCover
<1>5. SaleProceeds(Grid(n)) >= ask
  BY <1>1, <1>3, <1>4
<1> QED
  BY <1>1, <1>5, GridPays

(* What the strategy says of prices, whatever else it says. *)
LEMMA AnalysisPrices ==
  ASSUME NEW rows, History(rows), NEW asOf
  PROVE  LET a == Analyze(rows, asOf)
         IN  /\ a.ask \in Listed \cup {None} /\ a.bid \in Listed \cup {None}
             /\ a.reference = None
                  \/ \E n \in Nat : a.reference = Grid(n) /\ Grid(n) \in Listed
             /\ a.ask = None => a.reachable = None /\ a.breakEven = None
             /\ a.ask # None =>
                  IF BreakEvenSellPrice(a.ask) <= MaximumListing
                  THEN a.reachable = TRUE /\ a.breakEven = BreakEvenSellPrice(a.ask)
                  ELSE a.reachable = FALSE /\ a.breakEven = None
             /\ a.netProfit = IF a.ask # None /\ a.reference # None
                              THEN NetProfit(a.ask, a.reference) ELSE None
<1> DEFINE a == Analyze(rows, asOf)
<1>1. /\ a.ask = LatestPrice(rows, "ask") /\ a.bid = LatestPrice(rows, "bid")
      /\ a.reference = ReferenceSellPrice(rows)
  BY DEF Analyze
<1>2. /\ a.reachable = IF a.ask = None THEN None
                       ELSE a.ask # None /\ BreakEvenSellPrice(a.ask) <= MaximumListing
      /\ a.breakEven = IF a.ask # None /\ BreakEvenSellPrice(a.ask) <= MaximumListing
                       THEN BreakEvenSellPrice(a.ask) ELSE None
      /\ a.netProfit = IF a.ask # None /\ a.reference # None
                       THEN NetProfit(a.ask, a.reference) ELSE None
  BY DEF Analyze
<1> HIDE DEF a
<1>5. a.ask = None => a.reachable = None /\ a.breakEven = None
  BY <1>2
<1>6. ASSUME a.ask # None
      PROVE  IF BreakEvenSellPrice(a.ask) <= MaximumListing
             THEN a.reachable = TRUE /\ a.breakEven = BreakEvenSellPrice(a.ask)
             ELSE a.reachable = FALSE /\ a.breakEven = None
  <2>1. CASE BreakEvenSellPrice(a.ask) <= MaximumListing
    BY <1>2, <1>6, <2>1
  <2>2. CASE ~ (BreakEvenSellPrice(a.ask) <= MaximumListing)
    BY <1>2, <1>6, <2>2
  <2> QED
    BY <2>1, <2>2
<1>3. a.ask \in Listed \cup {None} /\ a.bid \in Listed \cup {None}
  BY <1>1, LatestListed
<1>4. a.reference = None \/ \E n \in Nat : a.reference = Grid(n) /\ Grid(n) \in Listed
  BY <1>1, ReferenceOnGrid
<1> QED
  BY <1>2, <1>3, <1>4, <1>5, <1>6, Zenon DEF a

(* Without an ask or a bid the status is not ok. *)
LEMMA OkIsPriced ==
  ASSUME NEW rows, NEW asOf, Analyze(rows, asOf).status = "ok"
  PROVE  Analyze(rows, asOf).ask # None
<1> DEFINE ask == LatestPrice(rows, "ask")
           reasons == Reasons(rows, asOf, ask, LatestPrice(rows, "bid"))
<1>1. Analyze(rows, asOf).status = Status(reasons) /\ Analyze(rows, asOf).ask = ask
  BY DEF Analyze
<1>2. ask = None => "no_current_ask" \in reasons
  BY DEF Reasons
<1> HIDE DEF ask, reasons
<1>3. "no_current_ask" \in reasons => Status(reasons) # "ok"
  BY DEF Status
<1> QED
  BY <1>1, <1>2, <1>3

LEMMA HighestBid ==
  ASSUME NEW rows, History(rows), Legal(rows, "bid") # {}
  PROVE  LET bids == {rows[t].bid : t \in Legal(rows, "bid")}
         IN  Latest(bids) \in bids /\ \A p \in bids : p <= Latest(bids)
<1> DEFINE legal == Legal(rows, "bid")
           bids == {rows[t].bid : t \in legal}
           f == [t \in legal |-> rows[t].bid]
<1>1. IsFiniteSet(legal) /\ \A t \in legal : rows[t].bid \in Int
  BY LegalPrices DEF Listed
<1>2. f \in Surjection(legal, bids)
  <2> HIDE DEF legal
  <2> QED
    BY DEF Surjection
<1>3. bids \in SUBSET Int /\ bids # {}
  <2> HIDE DEF legal
  <2> QED
    BY <1>1 DEF legal
<1> HIDE DEF f, bids, legal
<1>4. IsFiniteSet(bids)
  BY <1>1, <1>2, FS_Surjection
<1>5. Latest(bids) \in bids /\ \A p \in bids : p <= Latest(bids)
  BY <1>3, <1>4, LeastIs
<1> QED
  BY <1>5 DEF bids, legal

(* What the evaluation of a case says of prices. *)
LEMMA EvaluationPrices ==
  ASSUME NEW a, NEW c, NEW future, History(future)
  PROVE  LET e == Evaluation(a, c, future)
             legal == Legal(future, "bid")
         IN  /\ e.terminal = None <=> legal = {}
             /\ e.maximum = None <=> legal = {}
             /\ legal # {} =>
                  /\ e.maximum \in {future[t].bid : t \in legal}
                  /\ e.terminal \in {future[t].bid : t \in legal}
                  /\ \A t \in legal : future[t].bid <= e.maximum
             /\ \A t \in legal : future[t].bid \in Listed
             /\ e.terminalProfit = Earned(a, e.terminal)
             /\ e.maximumProfit = Earned(a, e.maximum)
             /\ e.reference = ReferenceReach(a, c, future)
             /\ e.breakEven = BreakEvenReach(a, c, future)
<1> DEFINE e == Evaluation(a, c, future)
           legal == Legal(future, "bid")
           bids == {future[t].bid : t \in legal}
<1>1. /\ e.terminal = LatestPrice(future, "bid")
      /\ e.maximum = IF legal = {} THEN None ELSE Latest(bids)
      /\ e.terminalProfit = Earned(a, e.terminal)
      /\ e.maximumProfit = Earned(a, e.maximum)
      /\ e.reference = ReferenceReach(a, c, future)
      /\ e.breakEven = BreakEvenReach(a, c, future)
  BY DEF Evaluation
<1>2. \A t \in legal : future[t].bid \in Listed
  BY LegalPrices
<1>3. None \notin Listed
  BY RuleBasedAssumption DEF Listed
<1>4. /\ legal = {} => e.terminal = None
      /\ legal # {} => \E t \in legal : e.terminal = future[t].bid
  <2> HIDE DEF e
  <2> QED
    BY <1>1, LegalPrices
<1>5. legal # {} => Latest(bids) \in bids /\ \A p \in bids : p <= Latest(bids)
  BY HighestBid
<1> HIDE DEF e, legal
<1>6. legal # {} => e.maximum \in bids /\ \A t \in legal : future[t].bid <= e.maximum
  BY <1>1, <1>5
<1>7. legal # {} => e.maximum # None /\ e.terminal # None
  BY <1>2, <1>3, <1>4, <1>6
<1>8. legal = {} => e.maximum = None
  BY <1>1
<1> QED
  BY <1>1, <1>2, <1>4, <1>6, <1>7, <1>8 DEF e, legal

(* Break-even is reached when some bid of the case pays. *)
LEMMA BreakEvenReached ==
  ASSUME NEW a, NEW c, NEW future, a.ask # None
  PROVE  LET reached == BreakEvenReach(a, c, future).reached
         IN  /\ reached \in BOOLEAN
             /\ reached <=> \/ a.bid # None /\ SaleProceeds(a.bid) >= a.ask
                            \/ \E t \in Legal(future, "bid") :
                                 SaleProceeds(future[t].bid) >= a.ask
<1> DEFINE atOnce == a.bid # None /\ SaleProceeds(a.bid) >= a.ask
           hits == {t \in Legal(future, "bid") : SaleProceeds(future[t].bid) >= a.ask}
<1>1. BreakEvenReach(a, c, future) = Reach(atOnce, hits, c)
  BY DEF BreakEvenReach
<1>2. Reach(atOnce, hits, c).reached = (atOnce \/ hits # {})
  <2> HIDE DEF atOnce, hits
  <2>1. CASE atOnce
    BY <2>1 DEF Reach
  <2>2. CASE ~ atOnce /\ hits # {}
    BY <2>2 DEF Reach
  <2>3. CASE ~ atOnce /\ hits = {}
    BY <2>3 DEF Reach
  <2> QED
    BY <2>1, <2>2, <2>3
<1>3. hits # {} <=> \E t \in Legal(future, "bid") : SaleProceeds(future[t].bid) >= a.ask
  OBVIOUS
<1> QED
  BY <1>1, <1>2, <1>3

(* The same of the reference price. *)
LEMMA ReferenceReached ==
  ASSUME NEW a, NEW c, NEW future, a.reference # None
  PROVE  LET reached == ReferenceReach(a, c, future).reached
         IN  /\ reached \in BOOLEAN
             /\ reached <=> \/ a.bid # None /\ a.bid >= a.reference
                            \/ \E t \in Legal(future, "bid") : future[t].bid >= a.reference
<1> DEFINE atOnce == a.bid # None /\ a.bid >= a.reference
           hits == {t \in Legal(future, "bid") : future[t].bid >= a.reference}
<1>1. ReferenceReach(a, c, future) = Reach(atOnce, hits, c)
  BY DEF ReferenceReach
<1>2. Reach(atOnce, hits, c).reached = (atOnce \/ hits # {})
  <2> HIDE DEF atOnce, hits
  <2>1. CASE atOnce
    BY <2>1 DEF Reach
  <2>2. CASE ~ atOnce /\ hits # {}
    BY <2>2 DEF Reach
  <2>3. CASE ~ atOnce /\ hits = {}
    BY <2>3 DEF Reach
  <2> QED
    BY <2>1, <2>2, <2>3
<1>3. hits # {} <=> \E t \in Legal(future, "bid") : future[t].bid >= a.reference
  OBVIOUS
<1> QED
  BY <1>1, <1>2, <1>3

(* A case of a report, cut from a history. *)
LEMMA ReportedPrices ==
  ASSUME IInv, report # None, NEW c \in Cutoffs
  PROVE  \E rows, future :
           /\ History(rows) /\ History(future)
           /\ report[c].analysis = Analyze(rows, c)
           /\ report[c].evaluation = Evaluation(report[c].analysis, c, future)
           /\ report[c].status = "evaluated" => report[c].analysis.status = "ok"
<1> DEFINE all == Loaded(read)
           rows == Lookback(all, c)
           future == Future(all, c)
<1>1. History(read)
  BY ReadTimes, BacktestAssumption DEF History, IInv, TypeOK
<1>2. History(all)
  BY <1>1, WindowIsHistory DEF Loaded
<1>3. History(rows) /\ History(future)
  <2> HIDE DEF all
  <2> QED
    BY <1>2, WindowIsHistory DEF Lookback, Future
<1> HIDE DEF all
<1>4. report[c] = Case(all, c)
  BY ReportedCase DEF all
<1>5. /\ Case(all, c).analysis = Analyze(rows, c)
      /\ Case(all, c).evaluation = Evaluation(Case(all, c).analysis, c, future)
      /\ Case(all, c).status = CaseStatus(all, c, Case(all, c).analysis)
  BY DEF Case
<1>6. Case(all, c).status = "evaluated" => Case(all, c).analysis.status = "ok"
  <2> DEFINE a == Case(all, c).analysis
  <2>1. CaseStatus(all, c, a) = "evaluated" => a.status = "ok"
    <3> HIDE DEF a
    <3> QED
      BY DEF CaseStatus
  <2> QED
    BY <1>5, <2>1
<1> HIDE DEF rows, future
<1> QED
  BY <1>3, <1>4, <1>5, <1>6

(* The best bid of a case is one of its bids, and none is above it. *)
LEMMA BestOfCase ==
  ASSUME NEW bid \in Listed \cup {None}, NEW maximum \in Listed \cup {None}
  PROVE  LET bids == {0} \cup ({bid, maximum} \ {None})
         IN  Latest(bids) \in bids /\ \A p \in bids : p \in Nat /\ p <= Latest(bids)
<1> DEFINE bids == {0} \cup ({bid, maximum} \ {None})
<1>1. bids \in SUBSET Int /\ bids # {} /\ \A p \in bids : p \in Nat
  BY DEF Listed
<1>2. IsFiniteSet(bids)
  <2>1. IsFiniteSet({0, bid, maximum})
    <3>1. IsFiniteSet({0})
      BY FS_Singleton
    <3>2. IsFiniteSet({0} \cup {bid})
      BY <3>1, FS_AddElement
    <3>3. IsFiniteSet(({0} \cup {bid}) \cup {maximum})
      BY <3>2, FS_AddElement
    <3>4. ({0} \cup {bid}) \cup {maximum} = {0, bid, maximum}
      OBVIOUS
    <3> QED
      BY <3>3, <3>4
  <2>2. bids \in SUBSET {0, bid, maximum}
    OBVIOUS
  <2> HIDE DEF bids
  <2> QED
    BY <2>1, <2>2, FS_Subset
<1> HIDE DEF bids
<1>3. Latest(bids) \in bids /\ \A p \in bids : p <= Latest(bids)
  BY <1>1, <1>2, LeastIs
<1> QED
  BY <1>1, <1>3 DEF bids

(* The break-even price and the break-even that is looked for agree, for   *)
(* every fee, quantum and history, and prices between two quanta.          *)
THEOREM BreakEvensAgree == Spec => []BreakEvenAgrees
<1>1. IInv => BreakEvenAgrees
  <2> SUFFICES ASSUME IInv, report # None, NEW c \in Cutoffs
               PROVE  LET case    == report[c]
                          reached == case.evaluation.breakEven.reached
                      IN  CASE case.analysis.reachable = None -> reached = None
                            [] case.analysis.reachable = FALSE -> reached = FALSE
                            [] case.analysis.reachable = TRUE ->
                                 /\ BestBid(case) >= case.analysis.breakEven => reached
                                 /\ reached => BestBid(case) > case.analysis.breakEven - Quantum
    BY DEF BreakEvenAgrees
  <2> DEFINE a == report[c].analysis
             e == report[c].evaluation
             reached == e.breakEven.reached
             price == BreakEvenSellPrice(a.ask)
             best == BestBid(report[c])
  <2>1. PICK rows, future : /\ History(rows) /\ History(future)
                            /\ a = Analyze(rows, c)
                            /\ e = Evaluation(a, c, future)
    BY ReportedPrices
  <2> DEFINE legal == Legal(future, "bid")
  <2> HIDE DEF a, e
  <2>2. /\ a.ask \in Listed \cup {None} /\ a.bid \in Listed \cup {None}
        /\ a.ask = None => a.reachable = None
        /\ a.ask # None =>
             IF price <= MaximumListing
             THEN a.reachable = TRUE /\ a.breakEven = price
             ELSE a.reachable = FALSE
    BY <2>1, AnalysisPrices
  <2>3. /\ e.maximum = None <=> legal = {}
        /\ legal # {} => /\ e.maximum \in {future[t].bid : t \in legal}
                         /\ \A t \in legal : future[t].bid <= e.maximum
        /\ \A t \in legal : future[t].bid \in Listed
        /\ e.breakEven = BreakEvenReach(a, c, future)
    BY <2>1, EvaluationPrices
  <2> HIDE DEF legal
  <2>4. \A x \in Listed : x \in Nat \ {0} /\ x # None /\ x \in Int
    BY RuleBasedAssumption DEF Listed
  <2>5. e.maximum \in Listed \cup {None}
    BY <2>3
  <2>6. best = Latest({0} \cup ({a.bid, e.maximum} \ {None}))
    BY DEF BestBid, a, e
  <2>7. /\ best \in {0} \cup ({a.bid, e.maximum} \ {None})
        /\ \A p \in {0} \cup ({a.bid, e.maximum} \ {None}) : p \in Nat /\ p <= best
    BY <2>2, <2>5, <2>6, BestOfCase
  <2> HIDE DEF best
  <2>8. CASE a.ask = None
    <3>1. a.reachable = None
      BY <2>2, <2>8
    <3>2. reached = None
      BY <2>3, <2>8 DEF BreakEvenReach, Unknown
    <3> QED
      BY <3>1, <3>2, RuleBasedAssumption DEF a, e
  <2>9. CASE a.ask # None
    <3>1. a.ask \in Nat \ {0}
      BY <2>2, <2>4, <2>9
    <3>2. /\ reached \in BOOLEAN
          /\ reached <=> \/ a.bid # None /\ SaleProceeds(a.bid) >= a.ask
                         \/ \E t \in legal : SaleProceeds(future[t].bid) >= a.ask
      BY <2>3, <2>9, BreakEvenReached DEF legal
    <3> HIDE DEF reached
    <3>3. reached => \E p \in Listed : SaleProceeds(p) >= a.ask /\ p <= best
      <4>1. CASE a.bid # None /\ SaleProceeds(a.bid) >= a.ask
        BY <2>2, <2>7, <4>1
      <4>2. ASSUME NEW t \in legal, SaleProceeds(future[t].bid) >= a.ask
            PROVE  \E p \in Listed : SaleProceeds(p) >= a.ask /\ p <= best
        <5>1. e.maximum # None /\ future[t].bid <= e.maximum /\ future[t].bid \in Listed
          BY <2>3
        <5>2. e.maximum <= best /\ e.maximum \in Nat
          BY <2>7, <5>1
        <5>3. best \in Nat
          BY <2>7
        <5>4. future[t].bid <= best
          BY <2>4, <5>1, <5>2, <5>3
        <5> QED
          BY <4>2, <5>1, <5>4
      <4> QED
        BY <3>2, <4>1, <4>2
    <3>4. CASE ~ (price <= MaximumListing)
      <4>1. a.reachable = FALSE
        BY <2>2, <2>9, <3>4
      <4>2. \A p \in Listed : ~ (SaleProceeds(p) >= a.ask)
        BY <3>1, <3>4, NothingPays
      <4>3. reached = FALSE
        BY <3>2, <3>3, <4>2
      <4> QED
        BY <4>1, <4>3, RuleBasedAssumption DEF a, reached, e
    <3>5. CASE price <= MaximumListing
      <4>1. a.reachable = TRUE /\ a.breakEven = price
        BY <2>2, <2>9, <3>5
      <4>2. price \in Nat \ {0} /\ SaleProceeds(price) >= a.ask
            /\ \A p \in Nat : SaleProceeds(p) >= a.ask => p > price - Quantum
        <5>1. \A n \in Nat \ {0} : Grid(n) \in Nat \ {0}
          BY QuantumFacts DEF Grid
        <5> QED
          BY <3>1, <5>1, BreakEvenIsLeast
      <4> HIDE DEF price
      <4>3. ASSUME best >= price
            PROVE  reached
        <5>1. best \in Nat /\ best # 0 /\ price <= best
          BY <2>7, <4>2, <4>3
        <5>2. best \in {a.bid, e.maximum} \ {None}
          BY <2>7, <5>1
        <5>3. SaleProceeds(price) <= SaleProceeds(best)
          BY <4>2, <5>1, ProceedsGrow
        <5>4. SaleProceeds(best) >= a.ask
          <6>1. SaleProceeds(price) \in Int /\ SaleProceeds(best) \in Int
            BY <4>2, <5>1, ProceedsCover
          <6> QED
            BY <3>1, <4>2, <5>3, <6>1
        <5>5. best = e.maximum /\ e.maximum # None => \E t \in legal : future[t].bid = best
          BY <2>3
        <5> QED
          BY <3>2, <5>2, <5>4, <5>5
      <4>4. ASSUME reached
            PROVE  best > price - Quantum
        <5>1. PICK p \in Listed : SaleProceeds(p) >= a.ask /\ p <= best
          BY <3>3, <4>4
        <5>2. p > price - Quantum /\ p \in Nat
          BY <2>4, <4>2, <5>1
        <5>3. best \in Nat /\ Quantum \in Nat
          BY <2>7, QuantumFacts
        <5> QED
          BY <4>2, <5>1, <5>2, <5>3
      <4> QED
        BY <4>1, <4>3, <4>4, RuleBasedAssumption DEF a, e, reached, best
    <3> QED
      BY <3>4, <3>5
  <2> QED
    BY <2>8, <2>9
<1> QED
  BY <1>1, Invariant, PTL

(* The reference price pays exactly when it is not below break-even. *)
LEMMA ReferencePays ==
  ASSUME NEW rows, History(rows), NEW asOf, Analyze(rows, asOf).netProfit # None
  PROVE  LET a == Analyze(rows, asOf)
         IN  /\ a.ask \in Listed /\ a.reference \in Listed
             /\ a.netProfit >= 0 <=> SaleProceeds(a.reference) >= a.ask
             /\ a.netProfit >= 0 <=> a.breakEven # None /\ a.reference >= a.breakEven
<1> DEFINE a == Analyze(rows, asOf)
           price == BreakEvenSellPrice(a.ask)
<1>1. a.netProfit # None
  OBVIOUS
<1> HIDE DEF a
<1>2. /\ a.ask \in Listed \cup {None}
      /\ a.reference = None \/ \E n \in Nat : a.reference = Grid(n) /\ Grid(n) \in Listed
      /\ a.ask # None =>
           IF price <= MaximumListing THEN a.breakEven = price ELSE a.breakEven = None
      /\ a.netProfit = IF a.ask # None /\ a.reference # None
                       THEN NetProfit(a.ask, a.reference) ELSE None
  BY AnalysisPrices DEF a
<1>3. /\ a.ask # None /\ a.reference # None
      /\ a.netProfit = SaleProceeds(a.reference) - a.ask
  BY <1>1, <1>2 DEF NetProfit
<1>4. PICK n \in Nat : a.reference = Grid(n) /\ Grid(n) \in Listed
  BY <1>2, <1>3
<1>5. a.ask \in Nat \ {0} /\ a.ask \in Listed
  BY <1>2, <1>3 DEF Listed
<1>6. Grid(n) \in Nat /\ Grid(n) <= MaximumListing /\ MaximumListing \in Nat
  BY <1>4, FeesAssumption DEF Listed
<1>7. a.netProfit >= 0 <=> SaleProceeds(Grid(n)) >= a.ask
  <2>1. SaleProceeds(Grid(n)) \in Int
    BY <1>6, ProceedsCover
  <2> QED
    BY <1>3, <1>4, <1>5, <2>1
<1>8. SaleProceeds(Grid(n)) >= a.ask <=> price <= Grid(n)
  BY <1>5, GridPays
<1>9. price \in Nat /\ price # None
  <2>1. \A m \in Nat \ {0} : Grid(m) \in Nat
    BY QuantumFacts DEF Grid
  <2>2. price \in Nat
    BY <1>5, <2>1, BreakEvenIsLeast
  <2> QED
    BY <2>2, RuleBasedAssumption
<1> HIDE DEF price
<1>10. price <= Grid(n) <=> a.breakEven # None /\ a.reference >= a.breakEven
  BY <1>2, <1>3, <1>4, <1>6, <1>9
<1> QED
  BY <1>4, <1>5, <1>7, <1>8, <1>10 DEF a

(* A case that ends without a loss could have broken even, and so could    *)
(* one whose reference price pays and is reached.                          *)
LEMMA ProfitsOfCase ==
  ASSUME NEW rows, History(rows), NEW future, History(future), NEW asOf, NEW c
  PROVE  LET a == Analyze(rows, asOf)
             e == Evaluation(a, c, future)
         IN  /\ e.terminalProfit # None =>
                   /\ e.terminalProfit <= e.maximumProfit
                   /\ e.terminalProfit >= 0 => e.breakEven.reached
                   /\ e.maximumProfit >= 0 => e.breakEven.reached
             /\ a.ask # None /\ e.terminal # None =>
                   e.terminalProfit \in Int
             /\ a.reference # None /\ e.reference.reached /\ a.ask # None
                  /\ a.netProfit >= 0 => e.breakEven.reached
<1> DEFINE a == Analyze(rows, asOf)
           e == Evaluation(a, c, future)
           legal == Legal(future, "bid")
<1>1. /\ a.ask \in Listed \cup {None} /\ a.bid \in Listed \cup {None}
      /\ a.reference = None
           \/ \E n \in Nat : a.reference = Grid(n) /\ Grid(n) \in Listed
      /\ a.netProfit = IF a.ask # None /\ a.reference # None
                       THEN NetProfit(a.ask, a.reference) ELSE None
  BY AnalysisPrices
<1> HIDE DEF a
<1>2. /\ e.terminal = None <=> legal = {}
      /\ e.maximum = None <=> legal = {}
      /\ legal # {} =>
           /\ e.maximum \in {future[t].bid : t \in legal}
           /\ e.terminal \in {future[t].bid : t \in legal}
           /\ \A t \in legal : future[t].bid <= e.maximum
      /\ \A t \in legal : future[t].bid \in Listed
      /\ e.terminalProfit = Earned(a, e.terminal)
      /\ e.maximumProfit = Earned(a, e.maximum)
      /\ e.reference = ReferenceReach(a, c, future)
      /\ e.breakEven = BreakEvenReach(a, c, future)
  BY EvaluationPrices
<1>3. \A x \in Listed : x \in Nat \ {0} /\ x \in Int /\ x # None
  BY RuleBasedAssumption DEF Listed
<1>4. \A p \in Listed : SaleProceeds(p) \in Int
  BY <1>3, ProceedsCover
<1>5. a.ask # None =>
        (e.breakEven.reached <=> \/ a.bid # None /\ SaleProceeds(a.bid) >= a.ask
                                 \/ \E t \in legal : SaleProceeds(future[t].bid) >= a.ask)
  BY <1>2, BreakEvenReached
<1>6. a.reference # None =>
        (e.reference.reached <=> \/ a.bid # None /\ a.bid >= a.reference
                                 \/ \E t \in legal : future[t].bid >= a.reference)
  BY <1>2, ReferenceReached
<1> HIDE DEF e, legal
<1>7. ASSUME a.ask # None, e.terminal # None
      PROVE  /\ e.terminalProfit = SaleProceeds(e.terminal) - a.ask
             /\ e.maximumProfit = SaleProceeds(e.maximum) - a.ask
             /\ e.terminal \in Listed /\ e.maximum \in Listed /\ e.terminal <= e.maximum
             /\ \E t \in legal : e.terminal = future[t].bid
             /\ \E t \in legal : e.maximum = future[t].bid
  BY <1>2, <1>7 DEF Earned, NetProfit
<1>8. ASSUME a.ask # None, e.terminal # None
      PROVE  /\ e.terminalProfit \in Int
             /\ e.terminalProfit <= e.maximumProfit
             /\ e.terminalProfit >= 0 => e.breakEven.reached
             /\ e.maximumProfit >= 0 => e.breakEven.reached
  <2>1. SaleProceeds(e.terminal) <= SaleProceeds(e.maximum)
    BY <1>3, <1>7, <1>8, ProceedsGrow
  <2>2. /\ SaleProceeds(e.terminal) \in Int /\ SaleProceeds(e.maximum) \in Int
        /\ a.ask \in Int
    BY <1>1, <1>3, <1>4, <1>7, <1>8
  <2>3. /\ e.terminalProfit \in Int
        /\ e.terminalProfit <= e.maximumProfit
        /\ e.terminalProfit >= 0 => SaleProceeds(e.terminal) >= a.ask
        /\ e.maximumProfit >= 0 => SaleProceeds(e.maximum) >= a.ask
    BY <1>7, <1>8, <2>1, <2>2
  <2> QED
    BY <1>5, <1>7, <1>8, <2>3
<1>9. e.terminalProfit # None => a.ask # None /\ e.terminal # None
  BY <1>2 DEF Earned
<1>10. ASSUME a.reference # None, e.reference.reached, a.ask # None, a.netProfit >= 0
       PROVE  e.breakEven.reached
  <2>1. a.reference \in Listed /\ a.ask \in Listed
    BY <1>1, <1>10
  <2>2. SaleProceeds(a.reference) >= a.ask
    <3>1. a.netProfit = SaleProceeds(a.reference) - a.ask
      BY <1>1, <1>10 DEF NetProfit
    <3> QED
      BY <1>3, <1>4, <1>10, <2>1, <3>1
  <2>3. ASSUME NEW p \in Listed, p >= a.reference
        PROVE  SaleProceeds(p) >= a.ask
    <3>1. a.reference \in Nat /\ p \in Nat /\ a.reference <= p
      BY <1>3, <2>1, <2>3
    <3>2. SaleProceeds(a.reference) <= SaleProceeds(p)
      BY <3>1, ProceedsGrow
    <3> QED
      BY <1>3, <1>4, <2>1, <2>2, <3>2
  <2>4. CASE a.bid # None /\ a.bid >= a.reference
    BY <1>1, <1>5, <1>10, <2>3, <2>4
  <2>5. CASE \E t \in legal : future[t].bid >= a.reference
    BY <1>2, <1>5, <1>10, <2>3, <2>5
  <2> QED
    BY <1>6, <1>10, <2>4, <2>5
<1> QED
  BY <1>8, <1>9, <1>10 DEF a, e

(* Profits agree with break-even, case by case, and so do the counts that  *)
(* the summary's rates are made of.                                        *)
THEOREM ProfitsAgreeAlways == Spec => []ProfitsAgree
<1>1. IInv => ProfitsAgree
  <2> SUFFICES ASSUME IInv, report # None PROVE ProfitsAgree
    BY DEF ProfitsAgree
  <2> DEFINE A(c) == report[c].analysis
             E(c) == report[c].evaluation
  <2>1. ASSUME NEW c \in Cutoffs
        PROVE  /\ A(c).netProfit # None =>
                    (A(c).netProfit >= 0
                       <=> A(c).breakEven # None /\ A(c).reference >= A(c).breakEven)
               /\ E(c).terminalProfit # None =>
                    /\ E(c).terminalProfit <= E(c).maximumProfit
                    /\ E(c).terminalProfit >= 0 => E(c).breakEven.reached
                    /\ E(c).maximumProfit >= 0 => E(c).breakEven.reached
               /\ A(c).ask # None /\ E(c).terminal # None => E(c).terminalProfit \in Int
               /\ A(c).reference # None /\ E(c).reference.reached /\ A(c).ask # None
                    /\ A(c).netProfit >= 0 => E(c).breakEven.reached
               /\ report[c].status = "evaluated" => A(c).status = "ok" /\ A(c).ask # None
    <3>1. PICK rows, future : /\ History(rows) /\ History(future)
                              /\ A(c) = Analyze(rows, c)
                              /\ E(c) = Evaluation(A(c), c, future)
                              /\ report[c].status = "evaluated" => A(c).status = "ok"
      BY ReportedPrices
    <3> HIDE DEF A, E
    <3>2. A(c).netProfit # None =>
            (A(c).netProfit >= 0
               <=> A(c).breakEven # None /\ A(c).reference >= A(c).breakEven)
      BY <3>1, ReferencePays
    <3>3. A(c).status = "ok" => A(c).ask # None
      BY <3>1, OkIsPriced
    <3>4. /\ E(c).terminalProfit # None =>
               /\ E(c).terminalProfit <= E(c).maximumProfit
               /\ E(c).terminalProfit >= 0 => E(c).breakEven.reached
               /\ E(c).maximumProfit >= 0 => E(c).breakEven.reached
          /\ A(c).ask # None /\ E(c).terminal # None => E(c).terminalProfit \in Int
          /\ A(c).reference # None /\ E(c).reference.reached /\ A(c).ask # None
               /\ A(c).netProfit >= 0 => E(c).breakEven.reached
      BY <3>1, ProfitsOfCase
    <3> QED
      BY <3>1, <3>2, <3>3, <3>4
  <2> DEFINE formal     == {c \in Cutoffs : report[c].status = "evaluated"}
             priced     == {c \in formal : A(c).reference # None}
             entered    == {c \in formal : A(c).ask # None}
             terminated == {c \in entered : E(c).terminal # None}
             s          == Summary(report)
  <2>2. /\ s.ok = {c \in Cutoffs : A(c).status = "ok"}
        /\ s.evaluated = formal
        /\ s.referenceReached = {c \in priced : E(c).reference.reached}
        /\ s.breakEvenEvaluable = entered
        /\ s.breakEvenReached = {c \in entered : E(c).breakEven.reached}
        /\ s.positiveReturn = {c \in terminated : E(c).terminalProfit > 0}
    BY DEF Summary
  <2> HIDE DEF s, A, E
  <2>3. entered = formal /\ formal \subseteq {c \in Cutoffs : A(c).status = "ok"}
    BY <2>1
  <2>4. ASSUME NEW c \in terminated, E(c).terminalProfit > 0
        PROVE  E(c).breakEven.reached
    <3>1. E(c).terminalProfit \in Int /\ c \in Cutoffs
      BY <2>1
    <3>2. E(c).terminalProfit # None /\ E(c).terminalProfit >= 0
      BY <2>4, <3>1, RuleBasedAssumption
    <3> QED
      BY <2>1, <3>1, <3>2
  <2>5. ASSUME NEW c \in priced, E(c).reference.reached, A(c).netProfit >= 0
        PROVE  c \in entered /\ E(c).breakEven.reached
    BY <2>1, <2>3, <2>5
  <2>6. s.positiveReturn \subseteq s.breakEvenReached
    BY <2>2, <2>4
  <2>7. \A c \in s.referenceReached : A(c).netProfit >= 0 => c \in s.breakEvenReached
    BY <2>2, <2>5
  <2>8. s.breakEvenEvaluable = s.evaluated /\ s.evaluated \subseteq s.ok
    BY <2>2, <2>3
  <2> HIDE DEF formal, priced, entered, terminated
  <2> QED
    BY <2>1, <2>6, <2>7, <2>8 DEF ProfitsAgree, A, E, s
<1> QED
  BY <1>1, Invariant, PTL
===============================================================================
