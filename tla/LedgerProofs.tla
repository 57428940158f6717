---------------------------- MODULE LedgerProofs ----------------------------
(***************************************************************************)
(* Theorems about Ledger: what every method does to the two tables.        *)
(***************************************************************************)
EXTENDS Ledger, FiniteSetTheorems, TLAPS

-----------------------------------------------------------------------------
(***************************************************************************)
(* Induction.  A bounded set of naturals has a greatest element: without   *)
(* one, adding one would map the finite set of the numbers below an        *)
(* element of T to itself without ever giving zero.  A set that has zero   *)
(* and every successor is then all of Nat, and this, said of sets and not  *)
(* of predicates, is what the lemmas about sums rest on.                   *)
(***************************************************************************)
LEMMA Greatest ==
  ASSUME NEW K \in Nat, NEW T \in SUBSET (0 .. K), T # {}
  PROVE  \E x \in T : \A y \in T : y <= x
<1> SUFFICES ASSUME \A x \in T : \E y \in T : y > x PROVE FALSE
  OBVIOUS
<1> DEFINE D == {x \in 0 .. K : \E y \in T : y > x}
           f == [x \in D |-> x + 1]
<1>1. IsFiniteSet(0 .. K)
  BY FS_Interval
<1>2. IsFiniteSet(D)
  BY <1>1, FS_Subset
<1>3. 0 \in D
  <2>1. PICK y \in T : TRUE
    OBVIOUS
  <2>2. PICK z \in T : z > y
    BY <2>1
  <2>3. z \in 0 .. K /\ y \in 0 .. K
    OBVIOUS
  <2>4. z > 0 /\ 0 \in 0 .. K
    BY <2>2, <2>3
  <2> QED BY <2>4
<1>4. f \in [D -> D \ {0}]
  OBVIOUS
<1>5. /\ IsFiniteSet(D \ {0})
      /\ Cardinality(D \ {0}) = Cardinality(D) - 1
  BY <1>2, <1>3, FS_RemoveElement
<1>6. Cardinality(D) \in Nat
  BY <1>2, FS_CardinalityType
<1>7. Cardinality(D \ {0}) < Cardinality(D)
  BY <1>5, <1>6
<1> HIDE DEF f
<1>8. \E x, y \in D : x # y /\ f[x] = f[y]
  BY <1>2, <1>4, <1>5, <1>7, FS_PigeonHole
<1> QED BY <1>8 DEF f

\* Counting from zero reaches every natural.
LEMMA NaturalSteps ==
  ASSUME NEW T \in SUBSET Nat, 0 \in T, \A n \in T : n + 1 \in T
  PROVE  \A n \in Nat : n \in T
<1> SUFFICES ASSUME NEW K \in Nat, K \notin T PROVE FALSE
  OBVIOUS
<1> DEFINE L == {x \in 0 .. K : x \in T}
<1>1. L \in SUBSET (0 .. K) /\ 0 \in L
  OBVIOUS
<1>2. PICK x \in L : \A y \in L : y <= x
  <2> HIDE DEF L
  <2> QED BY <1>1, Greatest
<1>3. x \in Nat /\ x <= K /\ x # K
  OBVIOUS
<1>4. x + 1 \in L
  BY <1>3
<1> QED BY <1>2, <1>3, <1>4

\* A family of subsets of a finite set that has every set whose parts with one
\* element less it has, the empty one to begin with, has them all.
LEMMA SubsetSteps ==
  ASSUME NEW S, IsFiniteSet(S), NEW C \in SUBSET SUBSET S,
         \A T \in SUBSET S : (\A x \in T : T \ {x} \in C) => T \in C
  PROVE  \A T \in SUBSET S : T \in C
<1> DEFINE N == {n \in Nat : \A T \in SUBSET S : Cardinality(T) <= n => T \in C}
<1>1. \A T \in SUBSET S : /\ IsFiniteSet(T) /\ Cardinality(T) \in Nat
                         /\ \A x \in T : Cardinality(T \ {x}) = Cardinality(T) - 1
  BY FS_Subset, FS_CardinalityType, FS_RemoveElement
<1>2. 0 \in N
  <2>1. \A T \in SUBSET S : Cardinality(T) <= 0 => T = {}
    BY <1>1, FS_EmptySet
  <2> QED BY <2>1
<1>3. ASSUME NEW n \in N PROVE n + 1 \in N
  <2>1. SUFFICES ASSUME NEW T \in SUBSET S, Cardinality(T) <= n + 1 PROVE T \in C
    OBVIOUS
  <2>2. ASSUME NEW x \in T PROVE T \ {x} \in C
    <3>1. T \ {x} \in SUBSET S /\ Cardinality(T \ {x}) <= n
      BY <1>1, <2>1
    <3> QED BY <3>1
  <2> QED BY <2>2
<1>4. \A n \in Nat : n \in N
  <2> HIDE DEF N
  <2>1. N \in SUBSET Nat
    BY DEF N
  <2> QED BY <1>2, <1>3, <2>1, NaturalSteps
<1>5. ASSUME NEW T \in SUBSET S PROVE T \in C
  <2>1. Cardinality(T) \in N
    BY <1>1, <1>4
  <2> QED BY <1>1, <2>1
<1> QED BY <1>5

-----------------------------------------------------------------------------
(***************************************************************************)
(* Sums.  SumFunctionOnSet folds + over a finite set, one element after    *)
(* the other; Body is one turn of its recursion.  Such a function exists   *)
(* (PartExists), there is one only (PartUnique), and the order in which    *)
(* the elements are taken makes no difference (SumAny).                    *)
(***************************************************************************)
Pick(s) == CHOOSE x \in s : TRUE
Body(f, g, S) == [s \in SUBSET S |-> IF s = {} THEN 0 ELSE f[Pick(s)] + g[s \ {Pick(s)}]]

LEMMA SumDef ==
  ASSUME NEW f, NEW S
  PROVE  SumFunctionOnSet(f, S) = (CHOOSE g : g = Body(f, g, S))[S]
BY DEF SumFunctionOnSet, FoldFunctionOnSet, MapThenFoldSet, Body, Pick

LEMMA Picked == ASSUME NEW s, s # {} PROVE Pick(s) \in s
BY DEF Pick

Adds(f, S) == \A x \in S : f[x] \in Int

LEMMA PartExists ==
  ASSUME NEW S, IsFiniteSet(S), NEW f, Adds(f, S)
  PROVE  \E g \in [SUBSET S -> Int] : g = Body(f, g, S)
<1> DEFINE Right(g, n) == \A s \in SUBSET S : Cardinality(s) <= n => g[s] = Body(f, g, S)[s]
           N == {n \in Nat : \E g \in [SUBSET S -> Int] : Right(g, n)}
<1>1. \A s \in SUBSET S : IsFiniteSet(s) /\ Cardinality(s) \in Nat
  BY FS_Subset, FS_CardinalityType
<1>2. \A s \in SUBSET S : s # {} =>
         /\ Pick(s) \in s
         /\ s \ {Pick(s)} \in SUBSET S
         /\ Cardinality(s \ {Pick(s)}) = Cardinality(s) - 1
  BY <1>1, Picked, FS_RemoveElement
<1>3. \A g \in [SUBSET S -> Int] : Body(f, g, S) \in [SUBSET S -> Int]
  <2> SUFFICES ASSUME NEW g \in [SUBSET S -> Int], NEW s \in SUBSET S, s # {}
               PROVE  f[Pick(s)] + g[s \ {Pick(s)}] \in Int
    BY DEF Body
  <2>1. f[Pick(s)] \in Int /\ g[s \ {Pick(s)}] \in Int
    BY <1>2 DEF Adds
  <2> QED BY <2>1
<1>4. 0 \in N
  <2> DEFINE g == [s \in SUBSET S |-> 0]
  <2>1. ASSUME NEW s \in SUBSET S, Cardinality(s) <= 0
        PROVE  s = {}
    BY <1>1, <2>1, FS_EmptySet
  <2>2. Right(g, 0)
    BY <2>1 DEF Body
  <2>3. g \in [SUBSET S -> Int]
    OBVIOUS
  <2> QED BY <2>2, <2>3
<1>5. ASSUME NEW n \in N PROVE n + 1 \in N
  <2>1. PICK g \in [SUBSET S -> Int] : Right(g, n)
    OBVIOUS
  <2> DEFINE h == Body(f, g, S)
  <2>2. h \in [SUBSET S -> Int]
    BY <1>3
  <2>3. ASSUME NEW s \in SUBSET S, Cardinality(s) <= n + 1 PROVE h[s] = Body(f, h, S)[s]
    <3>1. CASE s = {}
      BY <3>1 DEF Body
    <3>2. CASE s # {}
      <4>1. s \ {Pick(s)} \in SUBSET S /\ Cardinality(s \ {Pick(s)}) <= n
        BY <1>1, <1>2, <2>3, <3>2
      <4>2. g[s \ {Pick(s)}] = h[s \ {Pick(s)}]
        BY <2>1, <4>1
      <4>3. h[s] = f[Pick(s)] + g[s \ {Pick(s)}]
        BY <3>2 DEF Body
      <4>4. Body(f, h, S)[s] = f[Pick(s)] + h[s \ {Pick(s)}]
        BY <3>2 DEF Body
      <4> QED BY <4>2, <4>3, <4>4
    <3> QED BY <3>1, <3>2
  <2> QED BY <2>2, <2>3
<1>6. Cardinality(S) \in N
  <2>1. Cardinality(S) \in Nat
    BY FS_CardinalityType
  <2> HIDE DEF N
  <2>2. N \in SUBSET Nat
    BY DEF N
  <2> QED BY <1>4, <1>5, <2>1, <2>2, NaturalSteps
<1>7. PICK g \in [SUBSET S -> Int] : Right(g, Cardinality(S))
  BY <1>6
<1>8. ASSUME NEW s \in SUBSET S PROVE g[s] = Body(f, g, S)[s]
  BY <1>7, FS_Subset
<1>9. Body(f, g, S) \in [SUBSET S -> Int]
  BY <1>3
<1>10. g = Body(f, g, S)
  BY <1>8, <1>9
<1> QED BY <1>10

LEMMA PartUnique ==
  ASSUME NEW S, IsFiniteSet(S), NEW f, NEW T \in SUBSET S,
         NEW g, g = Body(f, g, S), NEW h, h = Body(f, h, T)
  PROVE  \A s \in SUBSET T : g[s] = h[s]
<1> DEFINE C == {s \in SUBSET T : g[s] = h[s]}
<1>1. ASSUME NEW s \in SUBSET T, \A x \in s : s \ {x} \in C PROVE s \in C
  <2>1. g[s] = Body(f, g, S)[s] /\ h[s] = Body(f, h, T)[s]
    OBVIOUS
  <2>2. /\ g[s] = IF s = {} THEN 0 ELSE f[Pick(s)] + g[s \ {Pick(s)}]
        /\ h[s] = IF s = {} THEN 0 ELSE f[Pick(s)] + h[s \ {Pick(s)}]
    BY <2>1 DEF Body
  <2>3. s # {} => s \ {Pick(s)} \in C
    BY <1>1, Picked
  <2> QED BY <2>2, <2>3
<1>2. IsFiniteSet(T) /\ C \in SUBSET SUBSET T
  BY FS_Subset
<1>3. \A s \in SUBSET T : s \in C
  <2> HIDE DEF C
  <2> QED BY <1>1, <1>2, SubsetSteps
<1> QED BY <1>3

\* g gives the sum of f over every part of S.
Part(f, g, S) ==
  /\ g \in [SUBSET S -> Int]
  /\ \A T \in SUBSET S : g[T] = IF T = {} THEN 0 ELSE f[Pick(T)] + g[T \ {Pick(T)}]
  /\ \A T \in SUBSET S : SumFunctionOnSet(f, T) = g[T]

LEMMA SumPart ==
  ASSUME NEW S, IsFiniteSet(S), NEW f, Adds(f, S)
  PROVE  \E g : Part(f, g, S)
<1>1. PICK g \in [SUBSET S -> Int] : g = Body(f, g, S)
  BY PartExists
<1>2. ASSUME NEW T \in SUBSET S PROVE SumFunctionOnSet(f, T) = g[T]
  <2>1. IsFiniteSet(T) /\ Adds(f, T)
    BY FS_Subset DEF Adds
  <2>2. PICK k \in [SUBSET T -> Int] : k = Body(f, k, T)
    BY <2>1, PartExists
  <2> DEFINE h == CHOOSE k_1 : k_1 = Body(f, k_1, T)
  <2>3. h = Body(f, h, T)
    BY <2>2
  <2>4. SumFunctionOnSet(f, T) = h[T]
    BY SumDef
  <2> HIDE DEF h
  <2>5. g[T] = h[T]
    BY <1>1, <2>3, PartUnique
  <2> QED BY <2>4, <2>5
<1>3. ASSUME NEW T \in SUBSET S
      PROVE  g[T] = IF T = {} THEN 0 ELSE f[Pick(T)] + g[T \ {Pick(T)}]
  <2>1. g[T] = Body(f, g, S)[T]
    BY <1>1
  <2> QED BY <2>1 DEF Body
<1> QED BY <1>1, <1>2, <1>3 DEF Part

\* The sum over no index.
LEMMA SumEmpty == ASSUME NEW f PROVE SumFunctionOnSet(f, {}) = 0
<1>1. IsFiniteSet({}) /\ Adds(f, {})
  BY FS_EmptySet DEF Adds
<1>2. PICK g : Part(f, g, {})
  BY <1>1, SumPart
<1> QED BY <1>2 DEF Part

\* The sum of integers is one.
LEMMA SumInt ==
  ASSUME NEW S, IsFiniteSet(S), NEW f, Adds(f, S)
  PROVE  SumFunctionOnSet(f, S) \in Int
<1>1. PICK g : Part(f, g, S)
  BY SumPart
<1>2. SumFunctionOnSet(f, S) = g[S] /\ g[S] \in Int
  BY <1>1 DEF Part
<1> QED BY <1>2

\* The element the fold takes first.
LEMMA SumPick ==
  ASSUME NEW S, IsFiniteSet(S), NEW f, Adds(f, S), S # {}
  PROVE  SumFunctionOnSet(f, S) = f[Pick(S)] + SumFunctionOnSet(f, S \ {Pick(S)})
<1>1. PICK g : Part(f, g, S)
  BY SumPart
<1> QED BY <1>1 DEF Part

\* Whichever index is taken out first.
LEMMA SumAny ==
  ASSUME NEW S, IsFiniteSet(S), NEW f, Adds(f, S)
  PROVE  \A x \in S : SumFunctionOnSet(f, S) = f[x] + SumFunctionOnSet(f, S \ {x})
<1> DEFINE Sum(T) == SumFunctionOnSet(f, T)
           C == {T \in SUBSET S : \A x \in T : Sum(T) = f[x] + Sum(T \ {x})}
<1>1. \A T \in SUBSET S : IsFiniteSet(T) /\ Adds(f, T) /\ Sum(T) \in Int
  BY FS_Subset, SumInt DEF Adds
<1>2. ASSUME NEW T \in SUBSET S, \A x \in T : T \ {x} \in C PROVE T \in C
  <2> SUFFICES ASSUME NEW x \in T PROVE Sum(T) = f[x] + Sum(T \ {x})
    OBVIOUS
  <2> DEFINE p == Pick(T)
  <2>1. p \in T /\ Sum(T) = f[p] + Sum(T \ {p})
    BY <1>1, SumPick, Picked
  <2> HIDE DEF p
  <2>2. CASE p # x
    <3>1. /\ Sum(T \ {p}) = f[x] + Sum((T \ {p}) \ {x})
          /\ Sum(T \ {x}) = f[p] + Sum((T \ {x}) \ {p})
      <4>1. x \in T \ {p} /\ p \in T \ {x} /\ T \ {p} \in C /\ T \ {x} \in C
        BY <1>2, <2>1, <2>2
      <4> QED BY <4>1
    <3>2. (T \ {p}) \ {x} = (T \ {x}) \ {p}
      OBVIOUS
    <3>3. f[x] \in Int /\ f[p] \in Int /\ Sum((T \ {p}) \ {x}) \in Int
      BY <1>1, <2>1 DEF Adds
    <3> HIDE DEF Sum
    <3>4. /\ Sum(T) = f[p] + (f[x] + Sum((T \ {p}) \ {x}))
          /\ Sum(T \ {x}) = f[p] + Sum((T \ {p}) \ {x})
      BY <2>1, <3>1, <3>2
    <3> QED BY <3>3, <3>4
  <2> QED BY <2>1, <2>2
<1>3. S \in C
  <2> HIDE DEF C
  <2>1. C \in SUBSET SUBSET S
    BY DEF C
  <2> QED BY <1>2, <2>1, SubsetSteps
<1> QED BY <1>3

\* Functions that agree have one sum.
LEMMA SumSame ==
  ASSUME NEW S, IsFiniteSet(S), NEW f, Adds(f, S), NEW g, \A x \in S : g[x] = f[x]
  PROVE  SumFunctionOnSet(g, S) = SumFunctionOnSet(f, S)
<1> DEFINE C == {T \in SUBSET S : SumFunctionOnSet(g, T) = SumFunctionOnSet(f, T)}
<1>1. \A T \in SUBSET S : IsFiniteSet(T) /\ Adds(f, T) /\ Adds(g, T)
  BY FS_Subset DEF Adds
<1>2. ASSUME NEW T \in SUBSET S, \A x \in T : T \ {x} \in C PROVE T \in C
  <2>1. \A x \in T : /\ SumFunctionOnSet(g, T) = g[x] + SumFunctionOnSet(g, T \ {x})
                    /\ SumFunctionOnSet(f, T) = f[x] + SumFunctionOnSet(f, T \ {x})
    BY <1>1, SumAny
  <2> QED BY <1>2, <2>1, SumEmpty
<1>3. S \in C
  <2> HIDE DEF C
  <2>1. C \in SUBSET SUBSET S
    BY DEF C
  <2> QED BY <1>2, <2>1, SubsetSteps
<1> QED BY <1>3

\* A new value at one index changes the sum by as much.
LEMMA SumChange ==
  ASSUME NEW S, IsFiniteSet(S), NEW f, Adds(f, S), NEW x \in S,
         NEW g, g[x] \in Int, \A y \in S \ {x} : g[y] = f[y]
  PROVE  /\ Adds(g, S)
         /\ SumFunctionOnSet(g, S) = SumFunctionOnSet(f, S) + (g[x] - f[x])
<1>1. Adds(g, S)
  BY DEF Adds
<1>2. IsFiniteSet(S \ {x}) /\ Adds(f, S \ {x})
  BY FS_Subset DEF Adds
<1>3. SumFunctionOnSet(g, S \ {x}) = SumFunctionOnSet(f, S \ {x})
  BY <1>2, SumSame
<1>4. /\ SumFunctionOnSet(g, S) = g[x] + SumFunctionOnSet(g, S \ {x})
      /\ SumFunctionOnSet(f, S) = f[x] + SumFunctionOnSet(f, S \ {x})
  BY <1>1, SumAny
<1>5. SumFunctionOnSet(f, S \ {x}) \in Int /\ f[x] \in Int
  BY <1>2, SumInt DEF Adds
<1> QED BY <1>1, <1>3, <1>4, <1>5

\* A function that is nowhere greater has no greater sum.
LEMMA SumMonotone ==
  ASSUME NEW S, IsFiniteSet(S), NEW f, Adds(f, S), NEW g, Adds(g, S), \A x \in S : f[x] <= g[x]
  PROVE  SumFunctionOnSet(f, S) <= SumFunctionOnSet(g, S)
<1> DEFINE F(T) == SumFunctionOnSet(f, T)
           G(T) == SumFunctionOnSet(g, T)
           C == {T \in SUBSET S : F(T) <= G(T)}
<1>1. \A T \in SUBSET S : /\ IsFiniteSet(T) /\ Adds(f, T) /\ Adds(g, T)
                         /\ F(T) \in Int /\ G(T) \in Int
  BY FS_Subset, SumInt DEF Adds
<1>2. ASSUME NEW T \in SUBSET S, \A x \in T : T \ {x} \in C PROVE T \in C
  <2>1. CASE T = {}
    <3>1. F({}) = 0 /\ G({}) = 0
      BY SumEmpty
    <3> QED BY <2>1, <3>1
  <2>2. ASSUME NEW x \in T PROVE F(T) <= G(T)
    <3>1. F(T) = f[x] + F(T \ {x}) /\ G(T) = g[x] + G(T \ {x})
      BY <1>1, SumAny
    <3>2. F(T \ {x}) <= G(T \ {x}) /\ F(T \ {x}) \in Int /\ G(T \ {x}) \in Int
      BY <1>1, <1>2
    <3>3. f[x] \in Int /\ g[x] \in Int /\ f[x] <= g[x]
      BY DEF Adds
    <3> HIDE DEF F, G
    <3> QED BY <3>1, <3>2, <3>3
  <2> QED BY <2>1, <2>2
<1>3. S \in C
  <2> HIDE DEF C
  <2>1. C \in SUBSET SUBSET S
    BY DEF C
  <2> QED BY <1>2, <2>1, SubsetSteps
<1> QED BY <1>3

\* Nothing adds up to nothing.
LEMMA SumZero ==
  ASSUME NEW S, IsFiniteSet(S), NEW f, \A x \in S : f[x] = 0
  PROVE  SumFunctionOnSet(f, S) = 0
<1> DEFINE C == {T \in SUBSET S : SumFunctionOnSet(f, T) = 0}
<1>1. ASSUME NEW T \in SUBSET S, \A x \in T : T \ {x} \in C PROVE T \in C
  <2>1. IsFiniteSet(T) /\ Adds(f, T)
    BY FS_Subset DEF Adds
  <2>2. \A x \in T : SumFunctionOnSet(f, T) = f[x] + SumFunctionOnSet(f, T \ {x})
    BY <2>1, SumAny
  <2>3. ASSUME NEW x \in T PROVE SumFunctionOnSet(f, T) = 0
    <3>1. SumFunctionOnSet(f, T \ {x}) = 0
      BY <1>1
    <3>2. f[x] = 0
      OBVIOUS
    <3>3. SumFunctionOnSet(f, T) = 0 + 0
      BY <2>2, <3>1, <3>2
    <3> QED BY <3>3
  <2>4. CASE T = {}
    BY <2>4, SumEmpty
  <2>5. CASE T # {}
    BY <2>3, <2>5
  <2> QED BY <2>4, <2>5
<1>2. S \in C
  <2> HIDE DEF C
  <2>1. C \in SUBSET SUBSET S
    BY DEF C
  <2> QED BY <1>1, <2>1, SubsetSteps
<1> QED BY <1>2

-----------------------------------------------------------------------------
USE LedgerAssumption

\* Whole and rounded rupiah are numbers too.
LEMMA WholeRupiah ==
  ASSUME NEW n \in Nat
  PROVE  Whole(n) \in Nat /\ Rounded(n) \in Nat
<1>1. ASSUME NEW m \in Nat PROVE (m \div OneRupiah) * OneRupiah \in Nat
  <2>1. m \div OneRupiah \in Nat
    OBVIOUS
  <2> QED BY <2>1
<1>2. n + OneRupiah \div 2 \in Nat
  OBVIOUS
<1> QED BY <1>1, <1>2 DEF Whole, Rounded

LEMMA SumsOfRupiah == Amounts \subseteq Nat /\ Charges \subseteq Nat /\ Payable \subseteq Nat
  BY WholeRupiah DEF Charges, Payable

LEMMA InsertFacts ==
  ASSUME LedgerTypeOK, RowsFit, NEW id \in TxIds, NEW row \in Row, Insert(id, row),
         row.type \in {"withdraw_fiat", "crypto_withdrawal"} => row.source \in Wallets
  PROVE  /\ txn' \in [TxIds -> Row \cup {NoRow}]
         /\ Kept
         /\ RowsFit'
<1>1. \A k \in TxIds : txn'[k] = IF k = id THEN row ELSE txn[k]
  BY DEF LedgerTypeOK, Insert
<1> QED BY <1>1 DEF LedgerTypeOK, Insert, Kept, Exists, RowsFit, IsType

\* An update that leaves type, source and asset of a row alone.
LEMMA UpdateFacts ==
  ASSUME LedgerTypeOK, RowsFit, NEW id \in TxIds, Exists(id), NEW row \in Row,
         row.type = txn[id].type, row.source = txn[id].source, row.asset = txn[id].asset,
         txn' = [txn EXCEPT ![id] = row]
  PROVE  /\ txn' \in [TxIds -> Row \cup {NoRow}]
         /\ Kept
         /\ RowsFit'
<1>1. \A k \in TxIds : txn'[k] = IF k = id THEN row ELSE txn[k]
  BY DEF LedgerTypeOK
<1> QED BY <1>1 DEF LedgerTypeOK, Kept, Exists, RowsFit, IsType

LEMMA SetStatusFacts ==
  ASSUME LedgerTypeOK, RowsFit, NEW id \in TxIds, Exists(id), NEW status \in Statuses,
         SetStatus(id, status)
  PROVE  /\ txn' \in [TxIds -> Row \cup {NoRow}]
         /\ Kept
         /\ RowsFit'
<1> DEFINE row == [txn[id] EXCEPT !.status = status]
<1>1. txn[id] \in Row
  BY DEF LedgerTypeOK, Exists
<1>2. row \in Row /\ row.type = txn[id].type /\ row.source = txn[id].source
      /\ row.asset = txn[id].asset
  BY <1>1 DEF Row
<1>3. txn' = [txn EXCEPT ![id] = row]
  BY DEF SetStatus
<1> HIDE DEF row
<1> QED BY <1>2, <1>3, UpdateFacts

\* UpdateCryptoWithdrawTx stores the hash with the status.
LEMMA StoreHashFacts ==
  ASSUME LedgerTypeOK, RowsFit, NEW id \in TxIds, NEW h \in Hashes,
         UpdateCryptoWithdrawTx(id, h)
  PROVE  /\ txn' \in [TxIds -> Row \cup {NoRow}]
         /\ Kept
         /\ RowsFit'
<1> DEFINE row == [txn[id] EXCEPT !.status = "success", !.hash = h]
<1>1. Exists(id) /\ txn[id] \in Row
  BY DEF LedgerTypeOK, Exists, UpdateCryptoWithdrawTx
<1>2. row \in Row /\ row.type = txn[id].type /\ row.source = txn[id].source
      /\ row.asset = txn[id].asset
  BY <1>1 DEF Row, Statuses
<1>3. txn' = [txn EXCEPT ![id] = row]
  BY <1>1 DEF UpdateCryptoWithdrawTx, LedgerTypeOK
<1> HIDE DEF row
<1> QED BY <1>1, <1>2, <1>3, UpdateFacts

\* What an insert and a new status do to the rows, one by one.
LEMMA RowInserted ==
  ASSUME LedgerTypeOK, NEW id \in TxIds, NEW row \in Row, Insert(id, row)
  PROVE  /\ ~ Exists(id) /\ txn'[id] = row /\ row # NoRow
         /\ \A k \in TxIds \ {id} : txn'[k] = txn[k]
  BY DEF LedgerTypeOK, Insert

LEMMA StatusSet ==
  ASSUME LedgerTypeOK, NEW id \in TxIds, Exists(id), NEW status \in Statuses, SetStatus(id, status)
  PROVE  /\ txn'[id] # NoRow /\ txn'[id].status = status
         /\ txn'[id].type = txn[id].type /\ txn'[id].source = txn[id].source
         /\ txn'[id].destination = txn[id].destination
         /\ txn'[id].asset = txn[id].asset /\ txn'[id].amount = txn[id].amount
         /\ txn'[id].hash = txn[id].hash
         /\ \A k \in TxIds \ {id} : txn'[k] = txn[k]
<1>1. txn[id] \in Row
  BY DEF LedgerTypeOK, Exists
<1>2. txn'[id] = [txn[id] EXCEPT !.status = status]
  BY DEF LedgerTypeOK, SetStatus
<1>3. txn'[id] \in Row
  BY <1>1, <1>2 DEF Row
<1> QED
  BY <1>1, <1>2, <1>3 DEF LedgerTypeOK, SetStatus, Row

LEMMA CreditFacts ==
  ASSUME LedgerTypeOK, NonNegative, NEW w, NEW a, NEW n \in Nat, Credit(w, a, n)
  PROVE  balance' \in [Accounts -> Int] /\ NonNegative'
<1> DEFINE acct == <<w, a>>
<1>1. balance' = [balance EXCEPT ![acct] = @ + n]
  BY DEF Credit
<1> HIDE DEF acct
<1>2. \A b \in Accounts : balance'[b] = IF b = acct THEN balance[b] + n ELSE balance[b]
  BY <1>1 DEF LedgerTypeOK
<1>3. balance' \in [Accounts -> Int]
  <2>1. \A b \in Accounts : balance'[b] \in Int
    BY <1>2 DEF LedgerTypeOK
  <2>2. balance' = [b \in Accounts |-> balance'[b]]
    BY <1>1 DEF LedgerTypeOK
  <2> QED BY <2>1, <2>2
<1> QED BY <1>2, <1>3 DEF LedgerTypeOK, NonNegative

LEMMA DebitFacts ==
  ASSUME LedgerTypeOK, NonNegative, NEW w, NEW a, NEW n \in Nat, Debit(w, a, n),
         balance[<<w, a>>] >= n
  PROVE  balance' \in [Accounts -> Int] /\ NonNegative'
<1> DEFINE acct == <<w, a>>
<1>1. balance' = [balance EXCEPT ![acct] = @ - n]
  BY DEF Debit
<1> HIDE DEF acct
<1>2. \A b \in Accounts : balance'[b] = IF b = acct THEN balance[b] - n ELSE balance[b]
  BY <1>1 DEF LedgerTypeOK
<1>3. balance' \in [Accounts -> Int]
  <2>1. \A b \in Accounts : balance'[b] \in Int
    BY <1>2 DEF LedgerTypeOK
  <2>2. balance' = [b \in Accounts |-> balance'[b]]
    BY <1>1 DEF LedgerTypeOK
  <2> QED BY <2>1, <2>2
<1> QED BY <1>2, <1>3 DEF LedgerTypeOK, NonNegative, acct

\* A transfer or a swap: one account is debited what it holds at least.
LEMMA MoveFacts ==
  ASSUME LedgerTypeOK, NonNegative, NEW from, NEW to, from # to,
         NEW n \in Nat, NEW m \in Nat, balance[from] >= n,
         balance' = [balance EXCEPT ![from] = @ - n, ![to] = @ + m]
  PROVE  balance' \in [Accounts -> Int] /\ NonNegative'
<1>1. \A b \in Accounts : balance'[b] = IF b = from THEN balance[b] - n
                                       ELSE IF b = to THEN balance[b] + m ELSE balance[b]
  BY DEF LedgerTypeOK
<1>2. balance' \in [Accounts -> Int]
  <2>1. \A b \in Accounts : balance'[b] \in Int
    BY <1>1 DEF LedgerTypeOK
  <2>2. balance' = [b \in Accounts |-> balance'[b]]
    BY DEF LedgerTypeOK
  <2> QED BY <2>1, <2>2
<1> QED BY <1>1, <1>2 DEF LedgerTypeOK, NonNegative

\* The tables are well formed, and no account is overdrawn.
LedgerInv == LedgerTypeOK /\ RowsFit /\ NonNegative

-----------------------------------------------------------------------------
(***************************************************************************)
(* One step per method.                                                    *)
(***************************************************************************)
\* Any of the methods, with any amounts: the flows call them with those of a
\* request, and with those they have rounded, converted or read from a row.
AnyCall(id) ==
  \/ \E w \in Wallets, n \in Nat :
       \/ CreatePendingTopUpTx(id, w, n)
       \/ ExecuteWithdrawFiatTx(id, w, n)
  \/ \E w \in Wallets \cup {Nil}, n \in Nat : SettleTopUpTx(id, w, n)
  \/ \E w \in Wallets, a \in Assets, n \in Nat :
       \/ ExecuteTopUpTx(id, w, a, n)
       \/ CreatePendingCryptoWithdrawTx(id, w, a, n)
       \/ \E h \in Hashes : CreditCryptoDeposit(id, w, a, n, h)
       \/ \E r \in Wallets \ {w} : ExecuteTransferTx(id, w, r, a, n)
       \/ \E to \in Assets \ {a}, m \in Nat : ExecuteSwapTx(id, w, a, to, n, m)
  \/ \E status \in Statuses : UpdateTransactionStatus(id, status)
  \/ \E h \in Hashes : UpdateCryptoWithdrawTx(id, h)
  \/ RejectWithdrawTx(id)

AnyNext == \E id \in TxIds : AnyCall(id)

LEMMA NextIsAny == LedgerNext => AnyNext
  BY SumsOfRupiah DEF LedgerNext, AnyNext, AnyCall

LEMMA AnyStep ==
  ASSUME LedgerInv, AnyNext
  PROVE  LedgerInv' /\ Kept
<1> USE DEF LedgerInv
<1>1. SUFFICES (balance' \in [Accounts -> Int] /\ NonNegative')
               /\ (txn' \in [TxIds -> Row \cup {NoRow}] /\ Kept /\ RowsFit')
  BY DEF LedgerTypeOK
<1>2. PICK id \in TxIds : AnyCall(id)
  BY DEF AnyNext
<1>3. ASSUME NEW w \in Wallets, NEW n \in Nat, CreatePendingTopUpTx(id, w, n)
      PROVE  /\ balance' \in [Accounts -> Int] /\ NonNegative'
             /\ txn' \in [TxIds -> Row \cup {NoRow}] /\ Kept /\ RowsFit'
  <2> DEFINE row == [Entry("topup", Nil, w, IDR, n, "pending") EXCEPT !.orderID = "snap"]
  <2>1. row \in Row /\ row.type = "topup"
    BY DEF Entry, Row, Types, Statuses, OrderIDs
  <2> HIDE DEF row
  <2>2. Insert(id, row) /\ UNCHANGED balance
    BY <1>3 DEF CreatePendingTopUpTx, row
  <2> QED BY <2>1, <2>2, InsertFacts DEF LedgerTypeOK, NonNegative
<1>4. ASSUME NEW w \in Wallets, NEW n \in Nat, ExecuteWithdrawFiatTx(id, w, n)
      PROVE  /\ balance' \in [Accounts -> Int] /\ NonNegative'
             /\ txn' \in [TxIds -> Row \cup {NoRow}] /\ Kept /\ RowsFit'
  <2> DEFINE e == Entry("withdraw_fiat", w, Nil, IDR, n, "pending")
             row == [e EXCEPT !.fee = Fee]
  <2>1. e \in Row /\ e.type = "withdraw_fiat" /\ e.source = w
    BY DEF Entry, Row, Types, Statuses, OrderIDs
  <2>2. row \in Row /\ row.type = "withdraw_fiat" /\ row.source = w
    <3> HIDE DEF e
    <3> QED BY <2>1 DEF Row
  <2>3. Insert(id, row) /\ Debit(w, IDR, n + Fee) /\ balance[<<w, IDR>>] >= n + Fee
    BY <1>4 DEF ExecuteWithdrawFiatTx
  <2> HIDE DEF row
  <2>4. n + Fee \in Nat
    OBVIOUS
  <2> QED BY <2>2, <2>3, <2>4, InsertFacts, DebitFacts
<1>5. ASSUME NEW w, NEW n \in Nat, SettleTopUpTx(id, w, n)
      PROVE  /\ balance' \in [Accounts -> Int] /\ NonNegative'
             /\ txn' \in [TxIds -> Row \cup {NoRow}] /\ Kept /\ RowsFit'
  BY <1>5, SetStatusFacts, CreditFacts DEF SettleTopUpTx, Statuses
<1>6. ASSUME NEW w \in Wallets, NEW a \in Assets, NEW n \in Nat, ExecuteTopUpTx(id, w, a, n)
      PROVE  /\ balance' \in [Accounts -> Int] /\ NonNegative'
             /\ txn' \in [TxIds -> Row \cup {NoRow}] /\ Kept /\ RowsFit'
  <2> DEFINE row == Entry("topup", Nil, w, a, n, "success")
  <2>1. row \in Row /\ row.type = "topup"
    BY DEF Entry, Row, Types, Statuses, OrderIDs
  <2> HIDE DEF row
  <2>2. Insert(id, row) /\ Credit(w, a, n)
    BY <1>6 DEF ExecuteTopUpTx, row
  <2> QED BY <2>1, <2>2, InsertFacts, CreditFacts
<1>7. ASSUME NEW w \in Wallets, NEW a \in Assets, NEW n \in Nat,
             CreatePendingCryptoWithdrawTx(id, w, a, n)
      PROVE  /\ balance' \in [Accounts -> Int] /\ NonNegative'
             /\ txn' \in [TxIds -> Row \cup {NoRow}] /\ Kept /\ RowsFit'
  <2> DEFINE row == Entry("crypto_withdrawal", w, Nil, a, n, "pending")
  <2>1. row \in Row /\ row.type = "crypto_withdrawal" /\ row.source = w
    BY DEF Entry, Row, Types, Statuses, OrderIDs
  <2> HIDE DEF row
  <2>2. Insert(id, row) /\ Debit(w, a, n) /\ balance[<<w, a>>] >= n
    BY <1>7 DEF CreatePendingCryptoWithdrawTx, row
  <2> QED BY <2>1, <2>2, InsertFacts, DebitFacts
<1>8. ASSUME NEW w \in Wallets, NEW a \in Assets, NEW n \in Nat, NEW h \in Hashes,
             CreditCryptoDeposit(id, w, a, n, h)
      PROVE  /\ balance' \in [Accounts -> Int] /\ NonNegative'
             /\ txn' \in [TxIds -> Row \cup {NoRow}] /\ Kept /\ RowsFit'
  <2> DEFINE e == Entry("crypto_deposit", Nil, w, a, n, "success")
             row == [e EXCEPT !.hash = h]
  <2>1. e \in Row /\ e.type = "crypto_deposit"
    BY DEF Entry, Row, Types, Statuses, OrderIDs
  <2>2. row \in Row /\ row.type = "crypto_deposit"
    <3> HIDE DEF e
    <3> QED BY <2>1 DEF Row
  <2>3. Insert(id, row) /\ Credit(w, a, n)
    BY <1>8 DEF CreditCryptoDeposit
  <2> HIDE DEF row
  <2> QED BY <2>2, <2>3, InsertFacts, CreditFacts
<1>9. ASSUME NEW w \in Wallets, NEW a \in Assets, NEW n \in Nat, NEW r \in Wallets \ {w},
             ExecuteTransferTx(id, w, r, a, n)
      PROVE  /\ balance' \in [Accounts -> Int] /\ NonNegative'
             /\ txn' \in [TxIds -> Row \cup {NoRow}] /\ Kept /\ RowsFit'
  <2> DEFINE row == Entry("transfer_fiat", w, r, a, n, "success")
  <2>1. row \in Row /\ row.type = "transfer_fiat"
    BY DEF Entry, Row, Types, Statuses, OrderIDs
  <2> HIDE DEF row
  <2>2. Insert(id, row)
    BY <1>9 DEF ExecuteTransferTx, row
  <2>3. balance' \in [Accounts -> Int] /\ NonNegative'
    <3>1. <<w, a>> # <<r, a>>
      OBVIOUS
    <3> QED BY <1>9, <3>1, MoveFacts DEF ExecuteTransferTx
  <2> QED BY <2>1, <2>2, <2>3, InsertFacts
<1>10. ASSUME NEW w \in Wallets, NEW a \in Assets, NEW n \in Nat, NEW to \in Assets \ {a},
              NEW m \in Nat, ExecuteSwapTx(id, w, a, to, n, m)
       PROVE  /\ balance' \in [Accounts -> Int] /\ NonNegative'
              /\ txn' \in [TxIds -> Row \cup {NoRow}] /\ Kept /\ RowsFit'
  <2> DEFINE e == Entry("swap", w, Nil, a, n, "success")
             row == [e EXCEPT !.toAsset = to, !.toAmount = m]
  <2>1. e \in Row /\ e.type = "swap"
    BY DEF Entry, Row, Types, Statuses, OrderIDs
  <2>2. row \in Row /\ row.type = "swap"
    <3> HIDE DEF e
    <3> QED BY <2>1 DEF Row
  <2>3. Insert(id, row)
    BY <1>10 DEF ExecuteSwapTx
  <2>4. balance' \in [Accounts -> Int] /\ NonNegative'
    <3>1. <<w, a>> # <<w, to>>
      OBVIOUS
    <3> QED BY <1>10, <3>1, MoveFacts DEF ExecuteSwapTx
  <2> HIDE DEF row
  <2> QED BY <2>2, <2>3, <2>4, InsertFacts
<1>11. ASSUME NEW status \in Statuses, UpdateTransactionStatus(id, status)
       PROVE  /\ balance' \in [Accounts -> Int] /\ NonNegative'
              /\ txn' \in [TxIds -> Row \cup {NoRow}] /\ Kept /\ RowsFit'
  BY <1>11, SetStatusFacts DEF UpdateTransactionStatus, LedgerTypeOK, NonNegative
<1>12. ASSUME NEW h \in Hashes, UpdateCryptoWithdrawTx(id, h)
       PROVE  /\ balance' \in [Accounts -> Int] /\ NonNegative'
              /\ txn' \in [TxIds -> Row \cup {NoRow}] /\ Kept /\ RowsFit'
  <2>1. UNCHANGED balance
    BY <1>12 DEF UpdateCryptoWithdrawTx
  <2> QED BY <1>12, <2>1, StoreHashFacts DEF LedgerTypeOK, NonNegative
<1>13. ASSUME RejectWithdrawTx(id)
       PROVE  /\ balance' \in [Accounts -> Int] /\ NonNegative'
              /\ txn' \in [TxIds -> Row \cup {NoRow}] /\ Kept /\ RowsFit'
  <2>1. Exists(id) /\ SetStatus(id, "failed")
        /\ Credit(txn[id].source, txn[id].asset, Refund(txn[id]))
    BY <1>13 DEF RejectWithdrawTx
  <2>2. txn[id] \in Row
    BY <2>1 DEF LedgerTypeOK, Exists
  <2>3. Refund(txn[id]) \in Nat
    BY <2>2 DEF Refund, Row
  <2> QED BY <2>1, <2>3, SetStatusFacts, CreditFacts DEF Statuses
<1> QED BY <1>2, <1>3, <1>4, <1>5, <1>6, <1>7, <1>8, <1>9, <1>10, <1>11, <1>12, <1>13
   DEF AnyCall

LEMMA LedgerStep ==
  ASSUME LedgerInv, LedgerNext
  PROVE  LedgerInv' /\ Kept
  BY NextIsAny, AnyStep

LEMMA LedgerStarts == LedgerInit => LedgerInv
  BY DEF LedgerInit, LedgerInv, LedgerTypeOK, RowsFit, NonNegative, IsType, Exists

\* Whatever is called in whatever order, the tables stay well formed and no
\* account is overdrawn.
THEOREM LedgerSafe == LedgerSpec => []LedgerInv
<1>1. LedgerInit => LedgerInv
  BY LedgerStarts
<1>2. LedgerInv /\ [LedgerNext]_ledgerVars => LedgerInv'
  <2>1. LedgerInv /\ LedgerNext => LedgerInv'
    BY LedgerStep
  <2>2. LedgerInv /\ UNCHANGED ledgerVars => LedgerInv'
    BY DEF LedgerInv, LedgerTypeOK, RowsFit, NonNegative, IsType, Exists, ledgerVars
  <2> QED BY <2>1, <2>2
<1> QED BY <1>1, <1>2, PTL DEF LedgerSpec

-----------------------------------------------------------------------------
(***************************************************************************)
(* A blockchain hash is stored once.                                       *)
(***************************************************************************)
LEMMA AnyHashStep ==
  ASSUME LedgerTypeOK, HashOnce, AnyNext
  PROVE  HashOnce'
<1>1. ASSUME NEW id \in TxIds, NEW row, Insert(id, row), row.hash = NoHash
      PROVE  HashOnce'
  BY <1>1 DEF Insert, HashOnce, LedgerTypeOK, Exists
<1>2. ASSUME NEW id \in TxIds, NEW row, Insert(id, row), HashUnused(row.hash)
      PROVE  HashOnce'
  BY <1>2 DEF Insert, HashUnused, HashOnce, LedgerTypeOK, Exists
<1>3. ASSUME NEW id \in TxIds, NEW s \in Statuses, Exists(id), SetStatus(id, s)
      PROVE  HashOnce'
  <2> DEFINE row == [txn[id] EXCEPT !.status = s]
  <2>1. txn[id] \in Row
    BY <1>3 DEF LedgerTypeOK, Exists
  <2>2. row \in Row /\ row.hash = txn[id].hash
    BY <2>1 DEF Row
  <2>3. txn' = [txn EXCEPT ![id] = row]
    BY <1>3 DEF SetStatus
  <2> HIDE DEF row
  <2>4. \A i \in TxIds : /\ Exists(i)' <=> Exists(i)
                         /\ Exists(i) => txn'[i].hash = txn[i].hash
    BY <1>3, <2>2, <2>3 DEF LedgerTypeOK, Exists
  <2> QED BY <2>4 DEF HashOnce
<1>4. PICK id \in TxIds : AnyCall(id)
  BY DEF AnyNext
<1>5. ASSUME NEW w, NEW a, NEW n, NEW m, NEW to,
             \/ CreatePendingTopUpTx(id, w, n)
             \/ ExecuteWithdrawFiatTx(id, w, n)
             \/ ExecuteTopUpTx(id, w, a, n)
             \/ CreatePendingCryptoWithdrawTx(id, w, a, n)
             \/ ExecuteTransferTx(id, w, to, a, n)
             \/ ExecuteSwapTx(id, w, a, to, n, m)
      PROVE  HashOnce'
  <2> DEFINE e == Entry("withdraw_fiat", w, Nil, IDR, n, "pending")
             f == Entry("swap", w, Nil, a, n, "success")
             g == Entry("topup", Nil, w, IDR, n, "pending")
  <2>1. [e EXCEPT !.fee = Fee].hash = NoHash
    BY DEF Entry
  <2>2. [f EXCEPT !.toAsset = to, !.toAmount = m].hash = NoHash
    BY DEF Entry
  <2>3. \A type, source, destination, asset, amount, status :
          Entry(type, source, destination, asset, amount, status).hash = NoHash
    BY DEF Entry
  <2>4. CASE ExecuteWithdrawFiatTx(id, w, n)
    BY <1>1, <2>1, <2>4 DEF ExecuteWithdrawFiatTx
  <2>5. CASE ExecuteSwapTx(id, w, a, to, n, m)
    BY <1>1, <2>2, <2>5 DEF ExecuteSwapTx
  <2>6. CASE \/ ExecuteTopUpTx(id, w, a, n)
             \/ CreatePendingCryptoWithdrawTx(id, w, a, n)
             \/ ExecuteTransferTx(id, w, to, a, n)
    BY <1>1, <2>3, <2>6 DEF ExecuteTopUpTx, CreatePendingCryptoWithdrawTx, ExecuteTransferTx
  <2>7. [g EXCEPT !.orderID = "snap"].hash = NoHash
    BY DEF Entry
  <2>8. CASE CreatePendingTopUpTx(id, w, n)
    BY <1>1, <2>7, <2>8 DEF CreatePendingTopUpTx
  <2> QED BY <1>5, <2>4, <2>5, <2>6, <2>8
<1>6. ASSUME NEW w, NEW a, NEW n, NEW h, CreditCryptoDeposit(id, w, a, n, h)
      PROVE  HashOnce'
  <2>1. PICK row : Insert(id, row) /\ HashUnused(row.hash)
    BY <1>6 DEF CreditCryptoDeposit, Entry
  <2> QED BY <1>2, <2>1
<1>7. ASSUME NEW w, NEW n, SettleTopUpTx(id, w, n) PROVE HashOnce'
  BY <1>3, <1>7 DEF SettleTopUpTx, Statuses
<1>8. ASSUME NEW s \in Statuses, UpdateTransactionStatus(id, s) PROVE HashOnce'
  BY <1>3, <1>8 DEF UpdateTransactionStatus
<1>9. ASSUME RejectWithdrawTx(id) PROVE HashOnce'
  BY <1>3, <1>9 DEF RejectWithdrawTx, Statuses
<1>10. ASSUME NEW h \in Hashes, UpdateCryptoWithdrawTx(id, h) PROVE HashOnce'
  <2>1. Exists(id) /\ txn[id] \in Row /\ HashUnused(h)
    BY <1>10 DEF UpdateCryptoWithdrawTx, LedgerTypeOK, Exists
  <2>2. \A i \in TxIds : i # id => txn'[i] = txn[i]
    BY <1>10 DEF UpdateCryptoWithdrawTx, LedgerTypeOK
  <2>3. txn'[id].hash = h
    BY <1>10, <2>1 DEF UpdateCryptoWithdrawTx, LedgerTypeOK, Row
  <2> QED BY <2>1, <2>2, <2>3 DEF HashOnce, HashUnused, Exists
<1> QED BY <1>4, <1>5, <1>6, <1>7, <1>8, <1>9, <1>10 DEF AnyCall

LEMMA HashStep ==
  ASSUME LedgerTypeOK, HashOnce, LedgerNext
  PROVE  HashOnce'
  BY NextIsAny, AnyHashStep

\* The unique index on tx_hash keeps every blockchain transaction to one row,
\* deposits and withdrawals together.
THEOREM LedgerHashOnce == LedgerSpec => []HashOnce
<1>1. LedgerInit => HashOnce
  BY DEF LedgerInit, HashOnce, Exists
<1>2. LedgerTypeOK /\ HashOnce /\ [LedgerNext]_ledgerVars => HashOnce'
  <2>1. LedgerTypeOK /\ HashOnce /\ LedgerNext => HashOnce'
    BY HashStep
  <2>2. HashOnce /\ UNCHANGED ledgerVars => HashOnce'
    BY DEF HashOnce, Exists, ledgerVars
  <2> QED BY <2>1, <2>2
<1>3. LedgerInv => LedgerTypeOK
  BY DEF LedgerInv
<1> QED BY <1>1, <1>2, <1>3, LedgerSafe, PTL DEF LedgerSpec

-----------------------------------------------------------------------------
(***************************************************************************)
(* The books balance.  The repository writes whatever status it is told to *)
(* write, so Journal is not a property of every sequence of calls: it      *)
(* holds for orderly ones, where nobody overwrites the outcome of a row.   *)
(***************************************************************************)
\* A row comes in, with an amount out of these, or of those if it is paid out
\* to a bank.
Opened(id, Sums, Paid) ==
  \/ \E w \in Wallets, n \in Sums : CreatePendingTopUpTx(id, w, n)
  \/ \E w \in Wallets, n \in Paid : ExecuteWithdrawFiatTx(id, w, n)
  \/ \E w \in Wallets, a \in Assets, n \in Sums :
       \/ ExecuteTopUpTx(id, w, a, n)
       \/ CreatePendingCryptoWithdrawTx(id, w, a, n)
       \/ \E h \in Hashes : CreditCryptoDeposit(id, w, a, n, h)
       \/ \E r \in Wallets \ {w} : ExecuteTransferTx(id, w, r, a, n)
       \/ \E to \in Assets \ {a}, m \in Sums : ExecuteSwapTx(id, w, a, to, n, m)

\* A top-up is decided while it is pending, and credited with the whole rupiah
\* Midtrans was asked to charge; a withdrawal that was refunded stays so.
Decided(id) ==
  \/ /\ IsType(id, "topup") /\ txn[id].status = "pending"
     /\ \/ SettleTopUpTx(id, txn[id].destination, Whole(txn[id].amount))
        \/ UpdateTransactionStatus(id, "failed")
  \/ /\ IsType(id, "withdraw_fiat") /\ txn[id].status # "failed"
     /\ \E status \in {"pending", "success"} : UpdateTransactionStatus(id, status)
  \/ /\ IsType(id, "crypto_withdrawal") /\ txn[id].status # "failed"
     /\ \E h \in Hashes : UpdateCryptoWithdrawTx(id, h)
  \/ /\ IsType(id, "withdraw_fiat") \/ IsType(id, "crypto_withdrawal")
     /\ RejectWithdrawTx(id)

OrderlyNext == \E id \in TxIds : Opened(id, Nat, Nat) \/ Decided(id)

OrderlySpec == LedgerInit /\ [][OrderlyNext]_ledgerVars

LEMMA OpenedWithAmounts ==
  ASSUME NEW id \in TxIds, Opened(id, Amounts, Payable)
  PROVE  Opened(id, Nat, Nat)
  BY SumsOfRupiah DEF Opened

LEMMA OpeningIsNext == (\E id \in TxIds : Opened(id, Amounts, Payable)) => LedgerNext
  BY SumsOfRupiah DEF Opened, LedgerNext

LEMMA OrderlyIsAny == LedgerTypeOK /\ OrderlyNext => AnyNext
<1> SUFFICES ASSUME LedgerTypeOK, NEW id \in TxIds, Opened(id, Nat, Nat) \/ Decided(id)
             PROVE  AnyCall(id)
  BY DEF OrderlyNext, AnyNext
<1>1. CASE Opened(id, Nat, Nat)
  BY <1>1 DEF Opened, AnyCall
<1>2. CASE Decided(id)
  <2>1. txn[id].destination \in Wallets \cup {Nil} /\ Whole(txn[id].amount) \in Nat
    BY <1>2, WholeRupiah DEF Decided, IsType, Exists, LedgerTypeOK, Row
  <2> QED BY <1>2, <2>1 DEF Decided, AnyCall, Statuses
<1> QED BY <1>1, <1>2

\* Which of a row's two sides are wallets, and what a pending top-up is in.
Sides ==
  \A id \in TxIds : Exists(id) =>
    /\ txn[id].type = "topup" => /\ txn[id].source = Nil
                                 /\ txn[id].status = "pending" =>
                                      txn[id].asset = IDR /\ txn[id].orderID = "snap"
    /\ txn[id].type \in {"withdraw_fiat", "crypto_withdrawal"} => txn[id].destination = Nil

LEMMA ReceivedNat == ASSUME NEW row \in Row PROVE Received(row) \in Nat
  BY WholeRupiah DEF Received, Row

LEMMA EffectInt == ASSUME NEW row \in Row, NEW a PROVE Effect(row, a) \in Int
  BY ReceivedNat DEF Effect, Row

LEMMA EffectsAdd == ASSUME LedgerTypeOK, NEW a PROVE Adds(Effects(a), TxIds)
  BY EffectInt DEF LedgerTypeOK, Adds, Effects, Exists

\* Changing the effect of one row and the balances by as much.
LEMMA JournalMoves ==
  ASSUME LedgerTypeOK, LedgerTypeOK', Journal, NEW id \in TxIds,
         \A k \in TxIds \ {id} : txn'[k] = txn[k],
         \A a \in Accounts : balance'[a] = balance[a] + (Effects(a)'[id] - Effects(a)[id])
  PROVE  Journal'
<1> SUFFICES ASSUME NEW a \in Accounts
             PROVE  balance'[a] = Opening[a] + SumFunctionOnSet(Effects(a)', TxIds)
  BY DEF Journal
<1> DEFINE f == Effects(a)
           g == Effects(a)'
<1>1. Adds(f, TxIds) /\ Adds(g, TxIds)
  BY EffectsAdd, EffectInt DEF LedgerTypeOK, Adds, Effects, Exists
<1>2. \A k \in TxIds \ {id} : g[k] = f[k]
  BY DEF Effects, Exists
<1>3. f[id] \in Int /\ g[id] \in Int
  BY <1>1 DEF Adds
<1>4. balance[a] = Opening[a] + SumFunctionOnSet(f, TxIds)
  BY DEF Journal
<1>5. balance'[a] = balance[a] + (g[id] - f[id])
  OBVIOUS
<1> HIDE DEF f, g
<1>6. SumFunctionOnSet(g, TxIds) = SumFunctionOnSet(f, TxIds) + (g[id] - f[id])
  BY <1>1, <1>2, <1>3, SumChange
<1>7. SumFunctionOnSet(f, TxIds) \in Int /\ Opening[a] \in Int
  BY <1>1, SumInt
<1>8. balance'[a] = Opening[a] + SumFunctionOnSet(g, TxIds)
  BY <1>3, <1>4, <1>5, <1>6, <1>7
<1> QED BY <1>8 DEF g

LEMMA JournalInsert ==
  ASSUME LedgerTypeOK, LedgerTypeOK', Journal, NEW id \in TxIds, NEW row \in Row,
         Insert(id, row),
         \A a \in Accounts : balance'[a] = balance[a] + Effect(row, a)
  PROVE  Journal'
<1>1. /\ ~ Exists(id) /\ txn'[id] = row /\ row # NoRow
      /\ \A k \in TxIds \ {id} : txn'[k] = txn[k]
  BY RowInserted
<1>2. ASSUME NEW a \in Accounts
      PROVE  balance'[a] = balance[a] + (Effects(a)'[id] - Effects(a)[id])
  <2>1. Effects(a)[id] = 0 /\ Effects(a)'[id] = Effect(row, a)
    BY <1>1 DEF Effects, Exists
  <2>2. Effect(row, a) \in Int
    BY EffectInt
  <2> QED BY <2>1, <2>2
<1> QED BY <1>1, <1>2, JournalMoves

LEMMA JournalUpdate ==
  ASSUME LedgerTypeOK, LedgerTypeOK', Journal, NEW id \in TxIds, Exists(id), NEW row \in Row,
         txn'[id] = row, \A k \in TxIds \ {id} : txn'[k] = txn[k],
         \A a \in Accounts : balance'[a] = balance[a] + (Effect(row, a) - Effect(txn[id], a))
  PROVE  Journal'
<1>1. ASSUME NEW a \in Accounts
      PROVE  balance'[a] = balance[a] + (Effects(a)'[id] - Effects(a)[id])
  <2>1. Effects(a)[id] = Effect(txn[id], a) /\ Effects(a)'[id] = Effect(row, a)
    BY DEF Effects, Exists
  <2> QED BY <2>1
<1> QED BY <1>1, JournalMoves

LEMMA BalanceCredited ==
  ASSUME LedgerTypeOK, NEW w, NEW a, NEW n, Credit(w, a, n), NEW b \in Accounts
  PROVE  balance'[b] = IF b = <<w, a>> THEN balance[b] + n ELSE balance[b]
<1> DEFINE acct == <<w, a>>
<1>1. balance' = [balance EXCEPT ![acct] = @ + n]
  BY DEF Credit
<1> HIDE DEF acct
<1>2. balance'[b] = IF b = acct THEN balance[b] + n ELSE balance[b]
  BY <1>1 DEF LedgerTypeOK
<1> QED BY <1>2 DEF acct

LEMMA BalanceDebited ==
  ASSUME LedgerTypeOK, NEW w, NEW a, NEW n, Debit(w, a, n), NEW b \in Accounts
  PROVE  balance'[b] = IF b = <<w, a>> THEN balance[b] - n ELSE balance[b]
<1> DEFINE acct == <<w, a>>
<1>1. balance' = [balance EXCEPT ![acct] = @ - n]
  BY DEF Debit
<1> HIDE DEF acct
<1>2. balance'[b] = IF b = acct THEN balance[b] - n ELSE balance[b]
  BY <1>1 DEF LedgerTypeOK
<1> QED BY <1>2 DEF acct

\* No account is a null wallet's.
LEMMA NilHasNone == ASSUME NEW asset, NEW a \in Accounts PROVE a # <<Nil, asset>>
  BY DEF Accounts, Wallets, Nil

\* What comes in from outside, and what goes out.
LEMMA IncomingEffect ==
  ASSUME NEW row \in Row, row.source = Nil, NEW a \in Accounts
  PROVE  Effect(row, a) =
           IF a = <<row.destination, row.asset>> /\ row.status = "success" THEN Received(row) ELSE 0
<1>1. a # <<row.source, row.asset>> /\ a # <<row.source, row.toAsset>>
  BY NilHasNone
<1>2. Received(row) \in Int
  BY ReceivedNat
<1> QED BY <1>1, <1>2 DEF Effect

LEMMA OutgoingEffect ==
  ASSUME NEW row \in Row, row.destination = Nil, row.type # "swap", NEW a \in Accounts
  PROVE  Effect(row, a) =
           IF a = <<row.source, row.asset>> /\ row.status # "failed"
           THEN - (row.amount + row.fee) ELSE 0
<1>1. a # <<row.destination, row.asset>>
  BY NilHasNone
<1>2. - (row.amount + row.fee) \in Int
  BY DEF Row
<1> QED BY <1>1, <1>2 DEF Effect

\* A new row says what the method did to the balances.
LEMMA OpenedBalances ==
  ASSUME LedgerInv, LedgerInv', Sides, NEW id \in TxIds, Opened(id, Nat, Nat)
  PROVE  (Journal => Journal') /\ Sides'
<1> USE DEF LedgerInv
<1>1. ASSUME NEW row \in Row, Insert(id, row),
             row.type = "topup" =>
               /\ row.source = Nil
               /\ row.status = "pending" => row.asset = IDR /\ row.orderID = "snap",
             row.type \in {"withdraw_fiat", "crypto_withdrawal"} => row.destination = Nil
      PROVE  Sides'
  <2>1. txn'[id] = row /\ \A k \in TxIds \ {id} : txn'[k] = txn[k]
    BY <1>1, RowInserted
  <2> QED BY <1>1, <2>1 DEF Sides, Exists
<1>2. ASSUME NEW w \in Wallets, NEW n \in Nat, CreatePendingTopUpTx(id, w, n)
      PROVE  (Journal => Journal') /\ Sides'
  <2> DEFINE row == [Entry("topup", Nil, w, IDR, n, "pending") EXCEPT !.orderID = "snap"]
  <2>1. /\ row \in Row /\ row.type = "topup" /\ row.source = Nil /\ row.asset = IDR
        /\ row.orderID = "snap"
    BY DEF Entry, Row, Types, Statuses, OrderIDs
  <2>2. \A a \in Accounts : Effect(row, a) = 0
    BY <2>1, IncomingEffect DEF Entry
  <2>3. Insert(id, row) /\ UNCHANGED balance
    BY <1>2 DEF CreatePendingTopUpTx
  <2> HIDE DEF row
  <2>4. \A a \in Accounts : balance'[a] = balance[a] + Effect(row, a)
    BY <2>2, <2>3 DEF LedgerTypeOK
  <2> QED BY <1>1, <2>1, <2>3, <2>4, JournalInsert
<1>3. ASSUME NEW w \in Wallets, NEW n \in Nat, ExecuteWithdrawFiatTx(id, w, n)
      PROVE  (Journal => Journal') /\ Sides'
  <2> DEFINE e == Entry("withdraw_fiat", w, Nil, IDR, n, "pending")
             row == [e EXCEPT !.fee = Fee]
  <2>1. e \in Row
    BY DEF Entry, Row, Types, Statuses, OrderIDs
  <2>2. row \in Row
    <3> HIDE DEF e
    <3> QED BY <2>1 DEF Row
  <2>3. /\ row.type = "withdraw_fiat" /\ row.source = w /\ row.destination = Nil /\ row.asset = IDR
        /\ row.amount = n /\ row.fee = Fee /\ row.status = "pending"
    BY DEF Entry
  <2>4. Insert(id, row) /\ Debit(w, IDR, n + Fee)
    BY <1>3 DEF ExecuteWithdrawFiatTx
  <2> HIDE DEF row
  <2>5. ASSUME NEW a \in Accounts PROVE balance'[a] = balance[a] + Effect(row, a)
    <3>1. Effect(row, a) = IF a = <<w, IDR>> THEN - (n + Fee) ELSE 0
      BY <2>2, <2>3, OutgoingEffect
    <3>2. balance'[a] = IF a = <<w, IDR>> THEN balance[a] - (n + Fee) ELSE balance[a]
      BY <2>4, BalanceDebited
    <3>3. balance[a] \in Int /\ n \in Int /\ Fee \in Int
      BY DEF LedgerTypeOK
    <3> QED BY <3>1, <3>2, <3>3
  <2> QED BY <1>1, <2>2, <2>3, <2>4, <2>5, JournalInsert
<1>4. ASSUME NEW w \in Wallets, NEW a \in Assets, NEW n \in Nat, ExecuteTopUpTx(id, w, a, n)
      PROVE  (Journal => Journal') /\ Sides'
  <2> DEFINE row == Entry("topup", Nil, w, a, n, "success")
  <2>1. row \in Row
    BY DEF Entry, Row, Types, Statuses, OrderIDs
  <2>2. /\ row.type = "topup" /\ row.source = Nil /\ row.destination = w /\ row.asset = a
        /\ row.status = "success" /\ Received(row) = n
    BY DEF Entry, Received
  <2>3. Insert(id, row) /\ Credit(w, a, n)
    BY <1>4 DEF ExecuteTopUpTx
  <2> HIDE DEF row
  <2>4. ASSUME NEW b \in Accounts PROVE balance'[b] = balance[b] + Effect(row, b)
    <3>1. Effect(row, b) = IF b = <<w, a>> THEN n ELSE 0
      BY <2>1, <2>2, IncomingEffect
    <3> QED BY <2>3, <3>1, BalanceCredited DEF LedgerTypeOK
  <2> QED BY <1>1, <2>1, <2>2, <2>3, <2>4, JournalInsert
<1>5. ASSUME NEW w \in Wallets, NEW a \in Assets, NEW n \in Nat,
             CreatePendingCryptoWithdrawTx(id, w, a, n)
      PROVE  (Journal => Journal') /\ Sides'
  <2> DEFINE row == Entry("crypto_withdrawal", w, Nil, a, n, "pending")
  <2>1. row \in Row
    BY DEF Entry, Row, Types, Statuses, OrderIDs
  <2>2. /\ row.type = "crypto_withdrawal" /\ row.source = w /\ row.destination = Nil
        /\ row.asset = a /\ row.amount = n /\ row.fee = 0 /\ row.status = "pending"
    BY DEF Entry
  <2>3. Insert(id, row) /\ Debit(w, a, n)
    BY <1>5 DEF CreatePendingCryptoWithdrawTx
  <2> HIDE DEF row
  <2>4. ASSUME NEW b \in Accounts PROVE balance'[b] = balance[b] + Effect(row, b)
    <3>1. Effect(row, b) = IF b = <<w, a>> THEN - n ELSE 0
      BY <2>1, <2>2, OutgoingEffect
    <3> QED BY <2>3, <3>1, BalanceDebited DEF LedgerTypeOK
  <2> QED BY <1>1, <2>1, <2>2, <2>3, <2>4, JournalInsert
<1>6. ASSUME NEW w \in Wallets, NEW a \in Assets, NEW n \in Nat, NEW h \in Hashes,
             CreditCryptoDeposit(id, w, a, n, h)
      PROVE  (Journal => Journal') /\ Sides'
  <2> DEFINE e == Entry("crypto_deposit", Nil, w, a, n, "success")
             row == [e EXCEPT !.hash = h]
  <2>1. e \in Row
    BY DEF Entry, Row, Types, Statuses, OrderIDs
  <2>2. row \in Row
    <3> HIDE DEF e
    <3> QED BY <2>1 DEF Row
  <2>3. /\ row.type = "crypto_deposit" /\ row.source = Nil /\ row.destination = w /\ row.asset = a
        /\ row.status = "success" /\ Received(row) = n
    BY DEF Entry, Received
  <2>4. Insert(id, row) /\ Credit(w, a, n)
    BY <1>6 DEF CreditCryptoDeposit
  <2> HIDE DEF row
  <2>5. ASSUME NEW b \in Accounts PROVE balance'[b] = balance[b] + Effect(row, b)
    <3>1. Effect(row, b) = IF b = <<w, a>> THEN n ELSE 0
      BY <2>2, <2>3, IncomingEffect
    <3> QED BY <2>4, <3>1, BalanceCredited DEF LedgerTypeOK
  <2> QED BY <1>1, <2>2, <2>3, <2>4, <2>5, JournalInsert
<1>7. ASSUME NEW w \in Wallets, NEW a \in Assets, NEW n \in Nat, NEW r \in Wallets \ {w},
             ExecuteTransferTx(id, w, r, a, n)
      PROVE  (Journal => Journal') /\ Sides'
  <2> DEFINE row == Entry("transfer_fiat", w, r, a, n, "success")
             from == <<w, a>>
             to == <<r, a>>
  <2>1. row \in Row
    BY DEF Entry, Row, Types, Statuses, OrderIDs
  <2>2. /\ row.type = "transfer_fiat" /\ row.source = w /\ row.destination = r /\ row.asset = a
        /\ row.amount = n /\ row.fee = 0 /\ row.status = "success" /\ Received(row) = n
    BY DEF Entry, Received
  <2>3. Insert(id, row) /\ balance' = [balance EXCEPT ![from] = @ - n, ![to] = @ + n]
    BY <1>7 DEF ExecuteTransferTx
  <2>4. from # to /\ from = <<row.source, row.asset>> /\ to = <<row.destination, row.asset>>
    BY <2>2
  <2> HIDE DEF row, from, to
  <2>5. ASSUME NEW b \in Accounts PROVE balance'[b] = balance[b] + Effect(row, b)
    <3>1. Effect(row, b) = (IF b = from THEN - (n + 0) ELSE 0) + (IF b = to THEN n ELSE 0) + 0
      BY <2>2, <2>4 DEF Effect
    <3>2. balance'[b] = IF b = from THEN balance[b] - n
                        ELSE IF b = to THEN balance[b] + n ELSE balance[b]
      BY <2>3, <2>4 DEF LedgerTypeOK
    <3>3. balance[b] \in Int /\ n \in Int
      BY DEF LedgerTypeOK
    <3> QED BY <2>4, <3>1, <3>2, <3>3
  <2> QED BY <1>1, <2>1, <2>2, <2>3, <2>5, JournalInsert
<1>8. ASSUME NEW w \in Wallets, NEW a \in Assets, NEW n \in Nat, NEW c \in Assets \ {a},
             NEW m \in Nat, ExecuteSwapTx(id, w, a, c, n, m)
      PROVE  (Journal => Journal') /\ Sides'
  <2> DEFINE e == Entry("swap", w, Nil, a, n, "success")
             row == [e EXCEPT !.toAsset = c, !.toAmount = m]
             from == <<w, a>>
             to == <<w, c>>
  <2>1. e \in Row
    BY DEF Entry, Row, Types, Statuses, OrderIDs
  <2>2. row \in Row
    <3> HIDE DEF e
    <3> QED BY <2>1 DEF Row
  <2>3. /\ row.type = "swap" /\ row.source = w /\ row.destination = Nil /\ row.asset = a
        /\ row.amount = n /\ row.fee = 0 /\ row.status = "success"
        /\ row.toAsset = c /\ row.toAmount = m
    BY DEF Entry
  <2>4. Insert(id, row) /\ balance' = [balance EXCEPT ![from] = @ - n, ![to] = @ + m]
    BY <1>8 DEF ExecuteSwapTx
  <2>5. from # to /\ from = <<row.source, row.asset>> /\ to = <<row.source, row.toAsset>>
    BY <2>3
  <2> HIDE DEF row, from, to
  <2>6. ASSUME NEW b \in Accounts PROVE balance'[b] = balance[b] + Effect(row, b)
    <3>0. b # <<row.destination, row.asset>>
      BY <2>3, NilHasNone
    <3>1. Effect(row, b) = (IF b = from THEN - (n + 0) ELSE 0) + 0 + (IF b = to THEN m ELSE 0)
      BY <2>3, <2>5, <3>0 DEF Effect
    <3>2. balance'[b] = IF b = from THEN balance[b] - n
                        ELSE IF b = to THEN balance[b] + m ELSE balance[b]
      BY <2>4, <2>5 DEF LedgerTypeOK
    <3>3. balance[b] \in Int /\ n \in Int /\ m \in Int
      BY DEF LedgerTypeOK
    <3> QED BY <2>5, <3>1, <3>2, <3>3
  <2> QED BY <1>1, <2>2, <2>3, <2>4, <2>6, JournalInsert
<1> QED BY <1>2, <1>3, <1>4, <1>5, <1>6, <1>7, <1>8 DEF Opened

\* A new status, and perhaps a new hash.
LEMMA RowDecided ==
  ASSUME LedgerTypeOK, Sides, NEW id \in TxIds, Exists(id), NEW s \in Statuses,
         \/ SetStatus(id, s)
         \/ \E h \in Hashes : txn' = [txn EXCEPT ![id].status = s, ![id].hash = h],
         txn[id].type = "topup" => s # "pending" \/ txn[id].status = "pending"
  PROVE  /\ txn'[id] \in Row /\ txn'[id].status = s
         /\ txn'[id].type = txn[id].type
         /\ txn'[id].source = txn[id].source /\ txn'[id].destination = txn[id].destination
         /\ txn'[id].asset = txn[id].asset /\ txn'[id].amount = txn[id].amount
         /\ txn'[id].fee = txn[id].fee /\ txn'[id].orderID = txn[id].orderID
         /\ \A k \in TxIds \ {id} : txn'[k] = txn[k]
         /\ Sides'
<1> DEFINE row == txn[id]
<1>1. row \in Row
  BY DEF LedgerTypeOK, Exists
<1>2. PICK new \in Row : /\ txn' = [txn EXCEPT ![id] = new] /\ new.status = s
                         /\ new.type = row.type /\ new.source = row.source
                         /\ new.destination = row.destination /\ new.asset = row.asset
                         /\ new.amount = row.amount /\ new.fee = row.fee
                         /\ new.orderID = row.orderID
  <2>1. CASE SetStatus(id, s)
    <3> DEFINE new == [row EXCEPT !.status = s]
    <3>1. txn' = [txn EXCEPT ![id] = new]
      BY <2>1 DEF SetStatus
    <3>2. /\ new \in Row /\ new.status = s /\ new.type = row.type /\ new.source = row.source
          /\ new.destination = row.destination /\ new.asset = row.asset
          /\ new.amount = row.amount /\ new.fee = row.fee /\ new.orderID = row.orderID
      <4> HIDE DEF row
      <4> QED BY <1>1 DEF Row
    <3> HIDE DEF new
    <3> QED BY <3>1, <3>2
  <2>2. ASSUME NEW h \in Hashes, txn' = [txn EXCEPT ![id].status = s, ![id].hash = h]
        PROVE  \E new \in Row : /\ txn' = [txn EXCEPT ![id] = new] /\ new.status = s
                                /\ new.type = row.type /\ new.source = row.source
                                /\ new.destination = row.destination /\ new.asset = row.asset
                                /\ new.amount = row.amount /\ new.fee = row.fee
                                /\ new.orderID = row.orderID
    <3> DEFINE new == [row EXCEPT !.status = s, !.hash = h]
    <3>1. txn' = [txn EXCEPT ![id] = new]
      BY <2>2 DEF LedgerTypeOK
    <3>2. /\ new \in Row /\ new.status = s /\ new.type = row.type /\ new.source = row.source
          /\ new.destination = row.destination /\ new.asset = row.asset
          /\ new.amount = row.amount /\ new.fee = row.fee /\ new.orderID = row.orderID
      <4> HIDE DEF row
      <4> QED BY <1>1 DEF Row
    <3> HIDE DEF new
    <3> QED BY <3>1, <3>2
  <2> QED BY <2>1, <2>2
<1>3. txn'[id] = new /\ \A k \in TxIds \ {id} : txn'[k] = txn[k]
  BY <1>2 DEF LedgerTypeOK
<1>4. Sides'
  BY <1>2, <1>3 DEF Sides, Exists
<1> QED BY <1>2, <1>3, <1>4

\* A decision changes a row by what it pays.
LEMMA DecidedBalances ==
  ASSUME LedgerInv, LedgerInv', Sides, NEW id \in TxIds, Decided(id)
  PROVE  (Journal => Journal') /\ Sides'
<1> USE DEF LedgerInv
<1> DEFINE row == txn[id]
<1>1. Exists(id) /\ row \in Row
  BY DEF Decided, IsType, LedgerTypeOK, Exists
<1>2. CASE IsType(id, "topup") /\ row.status = "pending"
           /\ SettleTopUpTx(id, row.destination, Whole(row.amount))
  <2>1. SetStatus(id, "success") /\ Credit(row.destination, IDR, Whole(row.amount))
    BY <1>2 DEF SettleTopUpTx
  <2>2. /\ txn'[id] \in Row /\ txn'[id].status = "success"
        /\ txn'[id].source = row.source /\ txn'[id].destination = row.destination
        /\ txn'[id].asset = row.asset /\ txn'[id].amount = row.amount
        /\ txn'[id].orderID = row.orderID
        /\ \A k \in TxIds \ {id} : txn'[k] = txn[k]
        /\ Sides'
    BY <1>1, <2>1, RowDecided DEF Statuses
  <2>3. row.source = Nil /\ row.asset = IDR /\ row.orderID = "snap"
    BY <1>1, <1>2 DEF Sides, IsType
  <2>4. ASSUME NEW a \in Accounts
        PROVE  balance'[a] = balance[a] + (Effect(txn'[id], a) - Effect(row, a))
    <3>1. Effect(row, a) = 0
      BY <1>1, <1>2, <2>3, IncomingEffect
    <3>2. Received(txn'[id]) = Whole(row.amount)
      BY <2>2, <2>3 DEF Received
    <3>3. Effect(txn'[id], a) = IF a = <<row.destination, IDR>> THEN Whole(row.amount) ELSE 0
      BY <2>2, <2>3, <3>2, IncomingEffect
    <3>4. balance'[a] = IF a = <<row.destination, IDR>> THEN balance[a] + Whole(row.amount)
                        ELSE balance[a]
      BY <2>1, BalanceCredited
    <3>5. Whole(row.amount) \in Int /\ balance[a] \in Int
      BY <1>1, WholeRupiah DEF Row, LedgerTypeOK
    <3> QED BY <3>1, <3>3, <3>4, <3>5
  <2> QED BY <1>1, <2>2, <2>4, JournalUpdate
<1>3. CASE IsType(id, "topup") /\ row.status = "pending" /\ UpdateTransactionStatus(id, "failed")
  <2>1. SetStatus(id, "failed") /\ UNCHANGED balance
    BY <1>3 DEF UpdateTransactionStatus
  <2>2. /\ txn'[id] \in Row /\ txn'[id].status = "failed"
        /\ txn'[id].source = row.source
        /\ \A k \in TxIds \ {id} : txn'[k] = txn[k]
        /\ Sides'
    BY <1>1, <2>1, RowDecided DEF Statuses
  <2>3. row.source = Nil
    BY <1>1, <1>3 DEF Sides, IsType
  <2>4. ASSUME NEW a \in Accounts
        PROVE  balance'[a] = balance[a] + (Effect(txn'[id], a) - Effect(row, a))
    <3>1. Effect(row, a) = 0
      BY <1>1, <1>3, <2>3, IncomingEffect
    <3>2. Effect(txn'[id], a) = 0
      BY <2>2, <2>3, IncomingEffect
    <3> QED BY <2>1, <3>1, <3>2 DEF LedgerTypeOK
  <2> QED BY <1>1, <2>2, <2>4, JournalUpdate
<1>4. ASSUME NEW s \in {"pending", "success"}, row.status # "failed",
             IsType(id, "withdraw_fiat") \/ IsType(id, "crypto_withdrawal"),
             \/ UpdateTransactionStatus(id, s)
             \/ s = "success" /\ \E h \in Hashes : UpdateCryptoWithdrawTx(id, h)
      PROVE  (Journal => Journal') /\ Sides'
  <2>1. /\ UNCHANGED balance
        /\ \/ SetStatus(id, s)
           \/ \E h \in Hashes : txn' = [txn EXCEPT ![id].status = s, ![id].hash = h]
    BY <1>4 DEF UpdateTransactionStatus, UpdateCryptoWithdrawTx
  <2>2. row.destination = Nil /\ row.type # "topup" /\ row.type # "swap"
    BY <1>1, <1>4 DEF Sides, IsType
  <2>3. s \in Statuses
    BY DEF Statuses
  <2>4. /\ txn'[id] \in Row /\ txn'[id].status = s
        /\ txn'[id].type = row.type
        /\ txn'[id].source = row.source /\ txn'[id].destination = row.destination
        /\ txn'[id].asset = row.asset /\ txn'[id].amount = row.amount /\ txn'[id].fee = row.fee
        /\ \A k \in TxIds \ {id} : txn'[k] = txn[k]
        /\ Sides'
    BY <1>1, <2>1, <2>2, <2>3, RowDecided
  <2>5. ASSUME NEW a \in Accounts
        PROVE  balance'[a] = balance[a] + (Effect(txn'[id], a) - Effect(row, a))
    <3>1. Effect(row, a) = IF a = <<row.source, row.asset>> THEN - (row.amount + row.fee) ELSE 0
      BY <1>1, <1>4, <2>2, OutgoingEffect
    <3>2. Effect(txn'[id], a) = IF a = <<row.source, row.asset>> THEN - (row.amount + row.fee) ELSE 0
      BY <1>4, <2>2, <2>4, OutgoingEffect
    <3>3. Effect(row, a) \in Int
      BY <1>1, EffectInt
    <3> QED BY <2>1, <3>1, <3>2, <3>3 DEF LedgerTypeOK
  <2> QED BY <1>1, <2>4, <2>5, JournalUpdate
<1>5. CASE /\ IsType(id, "withdraw_fiat") \/ IsType(id, "crypto_withdrawal")
           /\ RejectWithdrawTx(id)
  <2>1. /\ SetStatus(id, "failed") /\ Credit(row.source, row.asset, row.amount + row.fee)
        /\ row.status = "pending"
    BY <1>5 DEF RejectWithdrawTx, Refund
  <2>2. row.destination = Nil /\ row.type # "topup" /\ row.type # "swap"
    BY <1>1, <1>5 DEF Sides, IsType
  <2>3. /\ txn'[id] \in Row /\ txn'[id].status = "failed"
        /\ txn'[id].type = row.type /\ txn'[id].destination = row.destination
        /\ \A k \in TxIds \ {id} : txn'[k] = txn[k]
        /\ Sides'
    BY <1>1, <2>1, <2>2, RowDecided DEF Statuses
  <2>4. ASSUME NEW a \in Accounts
        PROVE  balance'[a] = balance[a] + (Effect(txn'[id], a) - Effect(row, a))
    <3>1. Effect(row, a) = IF a = <<row.source, row.asset>> THEN - (row.amount + row.fee) ELSE 0
      BY <1>1, <2>1, <2>2, OutgoingEffect
    <3>2. Effect(txn'[id], a) = 0
      BY <2>2, <2>3, OutgoingEffect
    <3>3. balance'[a] = IF a = <<row.source, row.asset>> THEN balance[a] + (row.amount + row.fee)
                        ELSE balance[a]
      BY <2>1, BalanceCredited
    <3>4. row.amount \in Int /\ row.fee \in Int /\ balance[a] \in Int
      BY <1>1 DEF Row, LedgerTypeOK
    <3> QED BY <3>1, <3>2, <3>3, <3>4
  <2> QED BY <1>1, <2>3, <2>4, JournalUpdate
<1> QED BY <1>2, <1>3, <1>4, <1>5 DEF Decided

OrderlyInv == LedgerInv /\ Sides /\ Journal

LEMMA OrderlyStarts == LedgerInit => OrderlyInv
<1> SUFFICES ASSUME LedgerInit PROVE Sides /\ Journal
  BY LedgerStarts DEF OrderlyInv
<1>1. Sides
  BY DEF LedgerInit, Sides, Exists
<1>2. ASSUME NEW a \in Accounts PROVE balance[a] = Opening[a] + SumFunctionOnSet(Effects(a), TxIds)
  <2>1. \A id \in TxIds : Effects(a)[id] = 0
    BY DEF LedgerInit, Effects, Exists
  <2>2. SumFunctionOnSet(Effects(a), TxIds) = 0
    BY <2>1, SumZero
  <2>3. Opening[a] \in Int /\ balance[a] = Opening[a]
    BY DEF LedgerInit
  <2> QED BY <2>2, <2>3
<1> QED BY <1>1, <1>2 DEF Journal

LEMMA OrderlyStep ==
  ASSUME OrderlyInv, [OrderlyNext]_ledgerVars
  PROVE  OrderlyInv'
<1>1. CASE OrderlyNext
  <2>1. LedgerInv'
    BY <1>1, OrderlyIsAny, AnyStep DEF OrderlyInv, LedgerInv
  <2> QED BY <1>1, <2>1, OpenedBalances, DecidedBalances DEF OrderlyInv, OrderlyNext
<1>2. CASE UNCHANGED ledgerVars
  <2>1. \A a : Effects(a)' = Effects(a)
    BY <1>2 DEF ledgerVars, Effects, Exists
  <2>2. Sides' /\ Journal'
    BY <1>2, <2>1 DEF ledgerVars, OrderlyInv, Sides, Journal, Exists
  <2>3. LedgerInv'
    BY <1>2 DEF OrderlyInv, LedgerInv, LedgerTypeOK, RowsFit, NonNegative, IsType, Exists, ledgerVars
  <2> QED BY <2>2, <2>3 DEF OrderlyInv
<1> QED BY <1>1, <1>2

\* As long as nobody overwrites an outcome, every balance is its opening and
\* the effects of the rows, whichever methods run and in whatever order.
THEOREM OrderlyBooksBalance == OrderlySpec => []Journal
<1>1. LedgerInit => OrderlyInv
  BY OrderlyStarts
<1>2. OrderlyInv /\ [OrderlyNext]_ledgerVars => OrderlyInv'
  BY OrderlyStep
<1>3. OrderlyInv => Journal
  BY DEF OrderlyInv
<1> QED BY <1>1, <1>2, <1>3, PTL DEF OrderlySpec

\* An orderly ledger is sound and stores a blockchain hash once.
THEOREM OrderlySafe == OrderlySpec => []LedgerInv /\ []HashOnce
<1> DEFINE I == OrderlyInv /\ HashOnce
<1>1. LedgerInit => I
  BY OrderlyStarts DEF LedgerInit, HashOnce, Exists
<1>2. I /\ [OrderlyNext]_ledgerVars => I'
  <2>1. I /\ OrderlyNext => HashOnce'
    BY OrderlyIsAny, AnyHashStep DEF OrderlyInv, LedgerInv
  <2>2. HashOnce /\ UNCHANGED ledgerVars => HashOnce'
    BY DEF HashOnce, Exists, ledgerVars
  <2> QED BY <2>1, <2>2, OrderlyStep
<1>3. I => LedgerInv /\ HashOnce
  BY DEF OrderlyInv
<1> QED BY <1>1, <1>2, <1>3, PTL DEF OrderlySpec
====
