------------------------- MODULE ProcessParts_proofs -------------------------
(***************************************************************************)
(* Two parts of MCProcesses, for any number of calls, processes and         *)
(* readers: the HTTP requests of a turn stay within their budget, send a    *)
(* change once and keep the user's headers where they belong; the output of *)
(* the managed processes is trimmed from the front only, and no reader      *)
(* misses a character without being told.                                   *)
(***************************************************************************)
EXTENDS MCProcesses, FiniteSetsExt, FiniteSetTheorems, SequenceTheorems,
    WellFoundedInduction, TLAPS

-----------------------------------------------------------------------------
(* Sums over a finite set.                                                  *)

Total(W, S) == MapThenSumSet(LAMBDA x : W[x], S)

Pick(s) == CHOOSE x \in s : TRUE
Iter(W, S) == CHOOSE iter : iter = [s \in SUBSET S |-> IF s = {} THEN 0 ELSE W[Pick(s)] + iter[s \ {Pick(s)}]]

LEMMA TotalIter == ASSUME NEW W, NEW S PROVE Total(W, S) = Iter(W, S)[S]
  BY DEF Total, MapThenSumSet, MapThenFoldSet, Iter, Pick

LEMMA PickIn == ASSUME NEW s, s # {} PROVE Pick(s) \in s
  BY Zenon DEF Pick

IsIter(W, T, g) == g = [s \in T |-> IF s = {} THEN 0 ELSE W[Pick(s)] + g[s \ {Pick(s)}]]
UpTo(S, n) == {s \in SUBSET S : Cardinality(s) <= n}

LEMMA IterGrows ==
    ASSUME NEW W, NEW S, IsFiniteSet(S), NEW n \in Nat, NEW g, IsIter(W, UpTo(S, n), g)
    PROVE  \E h : IsIter(W, UpTo(S, n + 1), h)
<1> DEFINE h == [s \in UpTo(S, n + 1) |-> IF s = {} THEN 0 ELSE W[Pick(s)] + g[s \ {Pick(s)}]]
<1>1. \A s \in UpTo(S, n) : s \in UpTo(S, n + 1) /\ h[s] = g[s]
  <2> TAKE s \in UpTo(S, n)
  <2>1. s \in UpTo(S, n + 1)
    BY FS_CardinalityType, FS_Subset DEF UpTo
  <2>2. g[s] = IF s = {} THEN 0 ELSE W[Pick(s)] + g[s \ {Pick(s)}]
    BY DEF IsIter
  <2> QED
    BY <2>1, <2>2
<1>2. \A s \in UpTo(S, n + 1) : s # {} => s \ {Pick(s)} \in UpTo(S, n)
  <2> TAKE s \in UpTo(S, n + 1)
  <2> HAVE s # {}
  <2>1. s \in SUBSET S /\ IsFiniteSet(s) /\ Cardinality(s) <= n + 1 /\ Cardinality(s) \in Nat
    BY FS_Subset, FS_CardinalityType DEF UpTo
  <2>2. Cardinality(s \ {Pick(s)}) = Cardinality(s) - 1
    BY <2>1, PickIn, FS_RemoveElement
  <2> QED
    BY <2>1, <2>2 DEF UpTo
<1>3. h = [s \in UpTo(S, n + 1) |-> IF s = {} THEN 0 ELSE W[Pick(s)] + h[s \ {Pick(s)}]]
  <2>1. \A s \in UpTo(S, n + 1) : s # {} => h[s \ {Pick(s)}] = g[s \ {Pick(s)}]
    BY <1>1, <1>2
  <2> HIDE DEF h
  <2>2. h = [s \in UpTo(S, n + 1) |-> IF s = {} THEN 0 ELSE W[Pick(s)] + g[s \ {Pick(s)}]]
    BY DEF h
  <2> QED
    BY <2>1, <2>2
<1> QED
  BY <1>3 DEF IsIter

LEMMA LeastNumber ==
    ASSUME NEW Bad, Bad \subseteq Nat, Bad # {}
    PROVE  \E n \in Bad : \A m \in Nat : m < n => m \notin Bad
<1>1. PICK n \in Bad : \A m \in Bad : ~(<<m, n>> \in OpToRel(<, Nat))
  BY NatLessThanWellFounded, WFMin
<1> QED
  BY <1>1 DEF OpToRel

LEMMA IterExists ==
    ASSUME NEW W, NEW S, IsFiniteSet(S)
    PROVE  \A n \in Nat : \E g : IsIter(W, UpTo(S, n), g)
<1> DEFINE Bad == {n \in Nat : ~ \E g : IsIter(W, UpTo(S, n), g)}
<1> SUFFICES Bad = {}
  OBVIOUS
<1> SUFFICES ASSUME Bad # {} PROVE FALSE
  OBVIOUS
<1>1. Bad \subseteq Nat
  OBVIOUS
<1>2. PICK n \in Bad : \A m \in Nat : m < n => m \notin Bad
  <2> HIDE DEF Bad
  <2> QED
    BY <1>1, LeastNumber
<1>3. CASE n = 0
  <2>1. \A s \in UpTo(S, 0) : s = {}
    BY FS_Subset, FS_CardinalityType, FS_EmptySet DEF UpTo
  <2>2. IsIter(W, UpTo(S, 0), [s \in UpTo(S, 0) |-> 0])
    BY <2>1 DEF IsIter
  <2> QED
    BY <1>2, <1>3, <2>2
<1>4. CASE n # 0
  <2>1. n - 1 \in Nat /\ n - 1 < n
    BY <1>4
  <2>2. PICK g : IsIter(W, UpTo(S, n - 1), g)
    BY <1>2, <2>1
  <2>3. \E h : IsIter(W, UpTo(S, n - 1 + 1), h)
    <3> HIDE DEF Bad
    <3> QED
      BY <2>1, <2>2, IterGrows
  <2>4. n - 1 + 1 = n
    BY <2>1
  <2> QED
    BY <2>3, <2>4
<1> QED
  BY <1>3, <1>4

LEMMA IterEquation ==
    ASSUME NEW W, NEW S, IsFiniteSet(S), NEW s \in SUBSET S
    PROVE  /\ s = {} => Iter(W, S)[s] = 0
           /\ s # {} => Iter(W, S)[s] = W[Pick(s)] + Iter(W, S)[s \ {Pick(s)}]
<1>1. Cardinality(S) \in Nat
  BY FS_CardinalityType
<1>2. UpTo(S, Cardinality(S)) = SUBSET S
  BY FS_Subset DEF UpTo
<1>3. \E g : IsIter(W, SUBSET S, g)
  <2>1. \A n \in Nat : \E g : IsIter(W, UpTo(S, n), g)
    BY IterExists
  <2>2. \E g : IsIter(W, UpTo(S, Cardinality(S)), g)
    BY <1>1, <2>1
  <2> QED
    BY <1>2, <2>2
<1>4. IsIter(W, SUBSET S, Iter(W, S))
  BY <1>3 DEF IsIter, Iter
<1>5. Iter(W, S) = [t \in SUBSET S |-> IF t = {} THEN 0 ELSE W[Pick(t)] + Iter(W, S)[t \ {Pick(t)}]]
  BY <1>4 DEF IsIter
<1> HIDE DEF Iter
<1> QED
  BY <1>5

LEMMA IterSame ==
    ASSUME NEW W, NEW V, NEW S, IsFiniteSet(S), NEW R, R \subseteq S, \A x \in R : W[x] = V[x]
    PROVE  Iter(W, S)[R] = Iter(V, R)[R]
<1> DEFINE Bad == {n \in Nat : \E s \in SUBSET R : Cardinality(s) = n /\ Iter(W, S)[s] # Iter(V, R)[s]}
<1>0. IsFiniteSet(R)
  BY FS_Subset
<1>1. Bad = {}
  <2> SUFFICES ASSUME Bad # {} PROVE FALSE
    OBVIOUS
  <2>1. Bad \subseteq Nat
    OBVIOUS
  <2>2. PICK n \in Bad : \A m \in Nat : m < n => m \notin Bad
    <3> HIDE DEF Bad
    <3> QED
      BY <2>1, LeastNumber
  <2>3. PICK s \in SUBSET R : Cardinality(s) = n /\ Iter(W, S)[s] # Iter(V, R)[s]
    OBVIOUS
  <2>4. /\ s = {} => Iter(W, S)[s] = 0
        /\ s # {} => Iter(W, S)[s] = W[Pick(s)] + Iter(W, S)[s \ {Pick(s)}]
    <3>1. s \in SUBSET S
      OBVIOUS
    <3> QED
      BY ONLY <3>1, IsFiniteSet(S), IterEquation
  <2>a. /\ s = {} => Iter(V, R)[s] = 0
        /\ s # {} => Iter(V, R)[s] = V[Pick(s)] + Iter(V, R)[s \ {Pick(s)}]
    BY <1>0, IterEquation
  <2>5. s # {}
    BY <2>3, <2>4, <2>a
  <2>6. Pick(s) \in s
    BY <2>5, PickIn
  <2>7. Cardinality(s) \in Nat /\ Cardinality(s \ {Pick(s)}) = Cardinality(s) - 1
    BY <1>0, <2>6, FS_Subset, FS_RemoveElement, FS_CardinalityType
  <2>8. Cardinality(s \ {Pick(s)}) \in Nat
    BY <1>0, FS_Subset, FS_CardinalityType
  <2>9. Iter(W, S)[s \ {Pick(s)}] = Iter(V, R)[s \ {Pick(s)}]
    BY <2>2, <2>3, <2>7, <2>8
  <2> QED
    BY <2>3, <2>4, <2>a, <2>5, <2>6, <2>9
<1>2. Cardinality(R) \in Nat
  BY <1>0, FS_CardinalityType
<1> QED
  BY <1>1, <1>2

-----------------------------------------------------------------------------

LEMMA TotalOfNone == ASSUME NEW W PROVE Total(W, {}) = 0
  BY TotalIter, IterEquation, FS_EmptySet

LEMMA TotalStep ==
    ASSUME NEW W, NEW S, IsFiniteSet(S), S # {}
    PROVE  Total(W, S) = W[Pick(S)] + Total(W, S \ {Pick(S)})
<1> DEFINE R == S \ {Pick(S)}
<1>1. Iter(W, S)[S] = W[Pick(S)] + Iter(W, S)[R]
  BY IterEquation
<1>2. Iter(W, S)[R] = Iter(W, R)[R]
  BY IterSame
<1> QED
  BY <1>1, <1>2, TotalIter

LEMMA TotalSame ==
    ASSUME NEW W, NEW V, NEW S, IsFiniteSet(S), \A x \in S : W[x] = V[x]
    PROVE  Total(W, S) = Total(V, S)
  BY IterSame, TotalIter

LEMMA TotalOfZeros ==
    ASSUME NEW W, NEW S, IsFiniteSet(S), \A x \in S : W[x] = 0 PROVE Total(W, S) = 0
<1> DEFINE Bad == {n \in Nat : \E s \in SUBSET S : Cardinality(s) = n /\ Total(W, s) # 0}
<1>1. Bad = {}
  <2> SUFFICES ASSUME Bad # {} PROVE FALSE
    OBVIOUS
  <2>1. Bad \subseteq Nat
    OBVIOUS
  <2>2. PICK n \in Bad : \A m \in Nat : m < n => m \notin Bad
    <3> HIDE DEF Bad
    <3> QED
      BY <2>1, LeastNumber
  <2>3. PICK s \in SUBSET S : Cardinality(s) = n /\ Total(W, s) # 0
    OBVIOUS
  <2>4. s # {}
    BY <2>3, TotalOfNone
  <2>5. Pick(s) \in s /\ IsFiniteSet(s)
    BY <2>4, PickIn, FS_Subset
  <2>6. Total(W, s) = W[Pick(s)] + Total(W, s \ {Pick(s)})
    BY <2>4, <2>5, TotalStep
  <2>7. Cardinality(s \ {Pick(s)}) \in Nat /\ Cardinality(s \ {Pick(s)}) < Cardinality(s)
    BY <2>5, FS_RemoveElement, FS_CardinalityType, FS_Subset
  <2>8. Total(W, s \ {Pick(s)}) = 0
    BY <2>2, <2>3, <2>7
  <2> QED
    BY <2>3, <2>5, <2>6, <2>8
<1>2. Cardinality(S) \in Nat
  BY FS_CardinalityType
<1> QED
  BY <1>1, <1>2

LEMMA TotalUpdate ==
    ASSUME NEW W, NEW V, NEW S, IsFiniteSet(S), NEW c \in S, \A x \in S : W[x] \in Nat /\ V[x] \in Nat,
           \A x \in S \ {c} : W[x] = V[x]
    PROVE  Total(W, S) \in Nat /\ Total(V, S) = Total(W, S) - W[c] + V[c]
<1> DEFINE Right(s) == /\ Total(W, s) \in Nat
                       /\ Total(V, s) = IF c \in s THEN Total(W, s) - W[c] + V[c] ELSE Total(W, s)
           Bad == {n \in Nat : \E s \in SUBSET S : Cardinality(s) = n /\ ~Right(s)}
<1>1. Bad = {}
  <2> SUFFICES ASSUME Bad # {} PROVE FALSE
    OBVIOUS
  <2>1. Bad \subseteq Nat
    OBVIOUS
  <2>2. PICK n \in Bad : \A m \in Nat : m < n => m \notin Bad
    <3> HIDE DEF Bad
    <3> QED
      BY <2>1, LeastNumber
  <2>3. PICK s \in SUBSET S : Cardinality(s) = n /\ ~Right(s)
    <3> HIDE DEF Right
    <3> QED
      OBVIOUS
  <2>4. CASE s = {}
    BY <2>3, <2>4, TotalOfNone
  <2>5. CASE s # {}
    <3> DEFINE p == Pick(s)
               r == s \ {p}
    <3>1. p \in s
      BY <2>5, PickIn
    <3>2. IsFiniteSet(s) /\ IsFiniteSet(r)
      BY FS_Subset
    <3>3. Cardinality(r) \in Nat /\ Cardinality(r) < Cardinality(s)
      BY <3>1, <3>2, FS_RemoveElement, FS_CardinalityType
    <3>4. Right(r)
      <4> HIDE DEF Right, p
      <4> QED
        BY <2>2, <2>3, <3>3
    <3>5. Total(W, s) = W[p] + Total(W, r) /\ Total(V, s) = V[p] + Total(V, r)
      BY <2>5, <3>2, TotalStep
    <3>6. W[p] \in Nat /\ V[p] \in Nat /\ W[c] \in Nat /\ V[c] \in Nat /\ (p # c => W[p] = V[p])
      BY <3>1
    <3> HIDE DEF p
    <3>7. Right(s)
      BY <3>1, <3>4, <3>5, <3>6
    <3> QED
      BY <2>3, <3>7
  <2> QED
    BY <2>4, <2>5
<1>2. Cardinality(S) \in Nat
  BY FS_CardinalityType
<1>3. Right(S)
  <2> HIDE DEF Right
  <2> QED
    BY <1>1, <1>2
<1> QED
  BY <1>3

LEMMA TotalIsNat ==
    ASSUME NEW S, IsFiniteSet(S), NEW W, \A x \in S : W[x] \in Nat
    PROVE  Total(W, S) \in Nat
<1> DEFINE Right(s) == Total(W, s) \in Nat
           Bad == {n \in Nat : \E s \in SUBSET S : Cardinality(s) = n /\ ~Right(s)}
<1>1. Bad = {}
  <2> SUFFICES ASSUME Bad # {} PROVE FALSE
    OBVIOUS
  <2>1. Bad \subseteq Nat
    OBVIOUS
  <2>2. PICK n \in Bad : \A m \in Nat : m < n => m \notin Bad
    <3> HIDE DEF Bad
    <3> QED
      BY <2>1, LeastNumber
  <2>3. PICK s \in SUBSET S : Cardinality(s) = n /\ ~Right(s)
    <3> HIDE DEF Right
    <3> QED
      OBVIOUS
  <2>4. CASE s = {}
    BY <2>3, <2>4, TotalOfNone
  <2>5. CASE s # {}
    <3> DEFINE p == Pick(s)
               r == s \ {p}
    <3>1. p \in s
      BY <2>5, PickIn
    <3>2. IsFiniteSet(s) /\ IsFiniteSet(r)
      BY FS_Subset
    <3>3. Cardinality(r) \in Nat /\ Cardinality(s) = Cardinality(r) + 1
      BY <3>1, <3>2, FS_RemoveElement, FS_CardinalityType
    <3>4. Right(r)
      <4> HIDE DEF Right, p
      <4>1. Cardinality(r) \notin Bad
        <5> HIDE DEF Bad, r
        <5> QED
          BY <2>1, <2>2, <2>3, <3>3
      <4> QED
        BY <3>3, <4>1
    <3>5. Total(W, s) = W[p] + Total(W, r)
      BY <2>5, <3>2, TotalStep
    <3> HIDE DEF p
    <3>6. Right(s)
      BY <3>1, <3>3, <3>4, <3>5
    <3> QED
      BY <2>3, <3>6
  <2> QED
    BY <2>4, <2>5
<1>2. Cardinality(S) \in Nat
  BY FS_CardinalityType
<1>3. Right(S)
  <2> HIDE DEF Right
  <2> QED
    BY <1>1, <1>2
<1> QED
  BY <1>3

LEMMA TotalGrows ==
    ASSUME NEW S, IsFiniteSet(S), NEW W, NEW V, \A x \in S : W[x] \in Nat /\ V[x] \in Nat /\ W[x] <= V[x]
    PROVE  Total(W, S) \in Nat /\ Total(V, S) \in Nat /\ Total(W, S) <= Total(V, S)
<1> DEFINE Right(s) == Total(W, s) \in Nat /\ Total(V, s) \in Nat /\ Total(W, s) <= Total(V, s)
           Bad == {n \in Nat : \E s \in SUBSET S : Cardinality(s) = n /\ ~Right(s)}
<1>1. Bad = {}
  <2> SUFFICES ASSUME Bad # {} PROVE FALSE
    OBVIOUS
  <2>1. Bad \subseteq Nat
    OBVIOUS
  <2>2. PICK n \in Bad : \A m \in Nat : m < n => m \notin Bad
    <3> HIDE DEF Bad
    <3> QED
      BY <2>1, LeastNumber
  <2>3. PICK s \in SUBSET S : Cardinality(s) = n /\ ~Right(s)
    <3> HIDE DEF Right
    <3> QED
      OBVIOUS
  <2>4. CASE s = {}
    BY <2>3, <2>4, TotalOfNone
  <2>5. CASE s # {}
    <3> DEFINE p == Pick(s)
               r == s \ {p}
    <3>1. p \in s
      BY <2>5, PickIn
    <3>2. IsFiniteSet(s) /\ IsFiniteSet(r)
      BY FS_Subset
    <3>3. Cardinality(r) \in Nat /\ Cardinality(s) = Cardinality(r) + 1
      BY <3>1, <3>2, FS_RemoveElement, FS_CardinalityType
    <3>4. Right(r)
      <4> HIDE DEF Right, p
      <4>1. Cardinality(r) \notin Bad
        <5> HIDE DEF Bad, r
        <5> QED
          BY <2>1, <2>2, <2>3, <3>3
      <4> QED
        BY <3>3, <4>1
    <3>5. Total(W, s) = W[p] + Total(W, r) /\ Total(V, s) = V[p] + Total(V, r)
      BY <2>5, <3>2, TotalStep
    <3> HIDE DEF p
    <3>6. Right(s)
      BY <3>1, <3>3, <3>4, <3>5
    <3> QED
      BY <2>3, <3>6
  <2> QED
    BY <2>4, <2>5
<1>2. Cardinality(S) \in Nat
  BY FS_CardinalityType
<1>3. Right(S)
  <2> HIDE DEF Right
  <2> QED
    BY <1>1, <1>2
<1> QED
  BY <1>3

LEMMA TotalAdds ==
    ASSUME NEW S, IsFiniteSet(S), NEW W, NEW V, NEW U, \A x \in S : W[x] \in Nat /\ V[x] \in Nat /\ U[x] = W[x] + V[x]
    PROVE  Total(W, S) \in Nat /\ Total(V, S) \in Nat /\ Total(U, S) = Total(W, S) + Total(V, S)
<1> DEFINE Right(s) == Total(W, s) \in Nat /\ Total(V, s) \in Nat /\ Total(U, s) = Total(W, s) + Total(V, s)
           Bad == {n \in Nat : \E s \in SUBSET S : Cardinality(s) = n /\ ~Right(s)}
<1>1. Bad = {}
  <2> SUFFICES ASSUME Bad # {} PROVE FALSE
    OBVIOUS
  <2>1. Bad \subseteq Nat
    OBVIOUS
  <2>2. PICK n \in Bad : \A m \in Nat : m < n => m \notin Bad
    <3> HIDE DEF Bad
    <3> QED
      BY <2>1, LeastNumber
  <2>3. PICK s \in SUBSET S : Cardinality(s) = n /\ ~Right(s)
    <3> HIDE DEF Right
    <3> QED
      OBVIOUS
  <2>4. CASE s = {}
    BY <2>3, <2>4, TotalOfNone
  <2>5. CASE s # {}
    <3> DEFINE p == Pick(s)
               r == s \ {p}
    <3>1. p \in s
      BY <2>5, PickIn
    <3>2. IsFiniteSet(s) /\ IsFiniteSet(r)
      BY FS_Subset
    <3>3. Cardinality(r) \in Nat /\ Cardinality(s) = Cardinality(r) + 1
      BY <3>1, <3>2, FS_RemoveElement, FS_CardinalityType
    <3>4. Right(r)
      <4> HIDE DEF Right, p
      <4>1. Cardinality(r) \notin Bad
        <5> HIDE DEF Bad, r
        <5> QED
          BY <2>1, <2>2, <2>3, <3>3
      <4> QED
        BY <3>3, <4>1
    <3>5. Total(W, s) = W[p] + Total(W, r) /\ Total(V, s) = V[p] + Total(V, r) /\ Total(U, s) = U[p] + Total(U, r)
      BY <2>5, <3>2, TotalStep
    <3> HIDE DEF p
    <3>6. Right(s)
      BY <3>1, <3>3, <3>4, <3>5
    <3> QED
      BY <2>3, <3>6
  <2> QED
    BY <2>4, <2>5
<1>2. Cardinality(S) \in Nat
  BY FS_CardinalityType
<1>3. Right(S)
  <2> HIDE DEF Right
  <2> QED
    BY <1>1, <1>2
<1> QED
  BY <1>3

LEMMA TotalBounded ==
    ASSUME NEW S, IsFiniteSet(S), NEW W, NEW most \in Nat, \A x \in S : W[x] \in Nat /\ W[x] <= most
    PROVE  Total(W, S) \in Nat /\ Total(W, S) <= most * Cardinality(S)
<1> DEFINE Right(s) == Total(W, s) \in Nat /\ Total(W, s) <= most * Cardinality(s)
           Bad == {n \in Nat : \E s \in SUBSET S : Cardinality(s) = n /\ ~Right(s)}
<1>1. Bad = {}
  <2> SUFFICES ASSUME Bad # {} PROVE FALSE
    OBVIOUS
  <2>1. Bad \subseteq Nat
    OBVIOUS
  <2>2. PICK n \in Bad : \A m \in Nat : m < n => m \notin Bad
    <3> HIDE DEF Bad
    <3> QED
      BY <2>1, LeastNumber
  <2>3. PICK s \in SUBSET S : Cardinality(s) = n /\ ~Right(s)
    <3> HIDE DEF Right
    <3> QED
      OBVIOUS
  <2>4. CASE s = {}
    BY <2>3, <2>4, TotalOfNone, FS_EmptySet
  <2>5. CASE s # {}
    <3> DEFINE p == Pick(s)
               r == s \ {p}
    <3>1. p \in s
      BY <2>5, PickIn
    <3>2. IsFiniteSet(s) /\ IsFiniteSet(r)
      BY FS_Subset
    <3>3. Cardinality(r) \in Nat /\ Cardinality(s) = Cardinality(r) + 1
      BY <3>1, <3>2, FS_RemoveElement, FS_CardinalityType
    <3>4. Right(r)
      <4> HIDE DEF Right, p
      <4>1. Cardinality(r) \notin Bad
        <5> HIDE DEF Bad, r
        <5> QED
          BY <2>1, <2>2, <2>3, <3>3
      <4> QED
        BY <3>3, <4>1
    <3>5. Total(W, s) = W[p] + Total(W, r)
      BY <2>5, <3>2, TotalStep
    <3> HIDE DEF p
    <3>6. Right(s)
      BY <3>1, <3>3, <3>4, <3>5
    <3> QED
      BY <2>3, <3>6
  <2> QED
    BY <2>4, <2>5
<1>2. Cardinality(S) \in Nat
  BY FS_CardinalityType
<1>3. Right(S)
  <2> HIDE DEF Right
  <2> QED
    BY <1>1, <1>2
<1> QED
  BY <1>3

LEMMA TotalWithout ==
    ASSUME NEW S, IsFiniteSet(S), NEW W, NEW c \in S, \A x \in S : W[x] \in Nat
    PROVE  Total(W, S) = W[c] + Total(W, S \ {c})
<1> DEFINE Right(s) == \A d \in s : Total(W, s) = W[d] + Total(W, s \ {d})
           Bad == {n \in Nat : \E s \in SUBSET S : Cardinality(s) = n /\ ~Right(s)}
<1>1. Bad = {}
  <2> SUFFICES ASSUME Bad # {} PROVE FALSE
    OBVIOUS
  <2>1. Bad \subseteq Nat
    OBVIOUS
  <2>2. PICK n \in Bad : \A m \in Nat : m < n => m \notin Bad
    <3> HIDE DEF Bad
    <3> QED
      BY <2>1, LeastNumber
  <2>3. PICK s \in SUBSET S : Cardinality(s) = n /\ ~Right(s)
    <3> HIDE DEF Right
    <3> QED
      OBVIOUS
  <2>4. PICK d \in s : Total(W, s) # W[d] + Total(W, s \ {d})
    BY <2>3
  <2>5. \A e \in s : Right(s \ {e})
    <3> SUFFICES ASSUME NEW e \in s PROVE Right(s \ {e})
      OBVIOUS
    <3>1. IsFiniteSet(s)
      BY FS_Subset
    <3>2. Cardinality(s \ {e}) \in Nat /\ Cardinality(s \ {e}) < Cardinality(s)
      BY <3>1, FS_RemoveElement, FS_CardinalityType, FS_Subset
    <3> HIDE DEF Right
    <3> QED
      BY <2>2, <2>3, <3>2
  <2> DEFINE p == Pick(s)
             r == (s \ {p}) \ {d}
  <2>6. p \in s /\ IsFiniteSet(s)
    BY PickIn, FS_Subset
  <2>7. Total(W, s) = W[p] + Total(W, s \ {p})
    BY <2>6, TotalStep
  <2> HIDE DEF p
  <2>8. p # d
    BY <2>4, <2>7
  <2>9. Total(W, s \ {p}) = W[d] + Total(W, r)
    BY <2>5, <2>6, <2>8
  <2>10. Total(W, s \ {d}) = W[p] + Total(W, (s \ {d}) \ {p})
    BY <2>5, <2>6, <2>8
  <2>11. (s \ {d}) \ {p} = r
    OBVIOUS
  <2>12. W[p] \in Nat /\ W[d] \in Nat /\ Total(W, r) \in Nat
    <3>1. IsFiniteSet(r)
      BY <2>6, FS_Subset
    <3>2. \A x \in r : W[x] \in Nat
      OBVIOUS
    <3>3. Total(W, r) \in Nat
      BY <3>1, <3>2, TotalIsNat
    <3> QED
      BY <2>6, <3>3
  <2> HIDE DEF r
  <2> QED
    BY <2>4, <2>7, <2>9, <2>10, <2>11, <2>12
<1>2. Cardinality(S) \in Nat
  BY FS_CardinalityType
<1>3. Right(S)
  <2> HIDE DEF Right
  <2> QED
    BY <1>1, <1>2
<1> QED
  BY <1>3

LEMMA TotalOfSome ==
    ASSUME NEW S, IsFiniteSet(S), NEW R \in SUBSET S, NEW W, \A x \in S : W[x] \in Nat,
           \A x \in S : x \notin R => W[x] = 0
    PROVE  Total(W, S) = Total(W, R) /\ Total(W, R) \in Nat
<1> DEFINE Right(s) == Total(W, s \cup R) = Total(W, R)
           Bad == {n \in Nat : \E s \in SUBSET (S \ R) : Cardinality(s) = n /\ ~Right(s)}
<1>0. Total(W, R) \in Nat
  BY FS_Subset, TotalIsNat
<1>1. Bad = {}
  <2> SUFFICES ASSUME Bad # {} PROVE FALSE
    OBVIOUS
  <2>1. Bad \subseteq Nat
    OBVIOUS
  <2>2. PICK n \in Bad : \A m \in Nat : m < n => m \notin Bad
    <3> HIDE DEF Bad
    <3> QED
      BY <2>1, LeastNumber
  <2>3. PICK s \in SUBSET (S \ R) : Cardinality(s) = n /\ ~Right(s)
    <3> HIDE DEF Right
    <3> QED
      OBVIOUS
  <2>4. s # {}
    <3>1. {} \cup R = R
      OBVIOUS
    <3> QED
      BY <2>3, <3>1
  <2>5. PICK d \in s : TRUE
    BY <2>4
  <2> DEFINE r == s \ {d}
  <2>6. IsFiniteSet(s) /\ IsFiniteSet(s \cup R) /\ IsFiniteSet(r)
    BY FS_Subset
  <2>7. Cardinality(r) \in Nat /\ Cardinality(r) < Cardinality(s)
    BY <2>5, <2>6, FS_RemoveElement, FS_CardinalityType
  <2>8. Right(r)
    <3>1. Cardinality(r) \notin Bad
      <4> HIDE DEF Bad, r
      <4> QED
        BY <2>1, <2>2, <2>3, <2>7
    <3>2. r \in SUBSET (S \ R)
      OBVIOUS
    <3> HIDE DEF Right, r
    <3> QED
      BY <2>7, <3>1, <3>2
  <2>9. Total(W, s \cup R) = W[d] + Total(W, (s \cup R) \ {d})
    BY <2>5, <2>6, TotalWithout
  <2>10. (s \cup R) \ {d} = r \cup R /\ W[d] = 0
    BY <2>5
  <2>11. Total(W, s \cup R) = W[d] + Total(W, r \cup R)
    BY <2>9, <2>10
  <2>12. Total(W, r \cup R) = Total(W, R)
    BY <2>8
  <2>13. Total(W, s \cup R) # Total(W, R)
    BY <2>3
  <2>14. W[d] = 0
    BY <2>10
  <2> QED
    BY ONLY <1>0, <2>11, <2>12, <2>13, <2>14
<1>2. Cardinality(S \ R) \in Nat
  BY FS_CardinalityType, FS_Subset
<1>3. Right(S \ R)
  <2> HIDE DEF Right
  <2> QED
    BY <1>1, <1>2
<1>4. (S \ R) \cup R = S
  OBVIOUS
<1> QED
  BY <1>0, <1>3, <1>4

-----------------------------------------------------------------------------
(* The inductive invariant.                                                *)

Fields == {"kind", "at", "first", "url", "secret", "hops", "routes", "room", "got", "bytes", "answer",
           "attempts", "sends", "strayed", "ok", "stored"}

\* A call and its file are the records that the code keeps of them.
CallTyped(c) ==
    /\ DOMAIN v1[c] = Fields
    /\ DOMAIN v3[c] = {"file", "pos", "size", "hash"}
    /\ v1[c].sends \in Nat /\ v1[c].attempts \in Nat /\ v1[c].bytes \in Nat
    /\ v1[c].secret \in BOOLEAN /\ v1[c].strayed \in BOOLEAN /\ v1[c].ok \in BOOLEAN

\* A request that changes something has not gone out before its only sending.
SentOnce(c) ==
    v1[c].kind = "change" =>
        /\ v1[c].sends <= 1
        /\ v1[c].at \in {"idle"} \cup Net!Waiting => v1[c].sends = 0

\* The user's headers go along only as long as the call is where it began.
AtOrigin(c) ==
    /\ v1[c].secret => v1[c].url = v1[c].first
    /\ ~v1[c].strayed
    /\ v1[c].first.tls => v1[c].url.tls

\* Every sending but the one that is under way is an attempt of the audit.
Audited(c) ==
    /\ v1[c].at \in Net!Receiving => v1[c].attempts + 1 >= v1[c].sends
    /\ v1[c].at \notin Net!Receiving => v1[c].attempts >= v1[c].sends

\* The sink was compared with one answer before the file is stored.
OneAnswer(c) ==
    /\ v1[c].at = "store" => v3[c].hash = [i \in 1..v1[c].got |-> v1[c].attempts]
    /\ v1[c].at # "done" => ~v1[c].ok
    /\ v1[c].kind = "download" => v1[c].at # "present"
    /\ v1[c].kind = "download" /\ v1[c].at = "done" /\ v1[c].ok =>
          v1[c].stored = [i \in 1..v1[c].got |-> v1[c].attempts]

CallOK(c) == CallTyped(c) /\ SentOnce(c) /\ AtOrigin(c) /\ Audited(c) /\ OneAnswer(c)

Working == {c \in Requester : v1[c].at \in Net!Waiting \cup Net!Receiving}
Over == {c \in Requester : v1[c].at = "done"}
Sends == [c \in Requester |-> v1[c].sends]
Bytes == [c \in Requester |-> v1[c].bytes]

\* A call exceeds the bytes of the turn when it ends, and by one.
TurnOK ==
    /\ DOMAIN v2 = {"active", "bytes", "requests"}
    /\ v2.active = Cardinality(Working)
    /\ v2.requests = Net!TotalOf(Sends, Requester)
    /\ v2.bytes = Net!TotalOf(Bytes, Requester)
    /\ v2.bytes <= MaxTurnBytes + Cardinality(Over)

NetInv ==
    /\ DOMAIN v1 = Requester /\ DOMAIN v3 = Requester
    /\ \A c \in Requester : CallOK(c)
    /\ TurnOK

-----------------------------------------------------------------------------
(* What a step does to its call and to the budget of the turn.             *)

AtWork(c) == v1[c].at \in Net!Waiting \cup Net!Receiving

\* The step of a call keeps to its record, and the turn counts what the call does.
Counted(c) ==
    /\ DOMAIN v1' = Requester /\ DOMAIN v3' = Requester
    /\ \A d \in Requester \ {c} : v1'[d] = v1[d] /\ v3'[d] = v3[d]
    /\ DOMAIN v2' = {"active", "bytes", "requests"}
    /\ v2'.requests = v2.requests - v1[c].sends + v1'[c].sends
    /\ v2'.bytes = v2.bytes - v1[c].bytes + v1'[c].bytes
    /\ v2'.active = IF AtWork(c) = AtWork(c)' THEN v2.active
                      ELSE IF AtWork(c) THEN v2.active - 1 ELSE v2.active + 1
    /\ v1[c].at = "done" => v1'[c].at = "done"
    /\ \/ v2'.bytes = v2.bytes
       \/ v2'.bytes <= MaxTurnBytes
       \/ v2'.bytes = v2.bytes + 1 /\ v1[c].at # "done" /\ v1'[c].at = "done"

Ready(c) ==
    /\ DOMAIN v1 = Requester /\ DOMAIN v3 = Requester
    /\ DOMAIN v2 = {"active", "bytes", "requests"}
    /\ v2.active \in Int /\ v2.requests \in Int /\ v2.bytes \in Int
    /\ CallOK(c)

LEMMA RefusedCounted ==
    ASSUME MaxTurnBytes \in Nat, NEW c \in Requester, Ready(c), Net!Refused(c) PROVE Counted(c) /\ CallOK(c)'
<1>1. Counted(c)
  BY SMTT(20)
     DEF Net!Refused, Counted, Ready, CallOK, CallTyped, Fields, AtWork, Net!Is, Net!Goes,
         Net!Stays, Net!End, Net!Ends, Net!Released, Net!Waiting, Net!Receiving, Net!Storing,
         Net!OnlyReads, Net!IsSinked
<1>2. CallTyped(c)'
  BY SMTT(20)
     DEF Net!Refused, Ready, CallOK, CallTyped, Fields, Net!Is, Net!Goes, Net!Stays, Net!End,
         Net!Ends
<1>3. SentOnce(c)'
  BY SMTT(20)
     DEF Net!Refused, Ready, CallOK, CallTyped, SentOnce, Fields, Net!Is, Net!Goes, Net!Stays,
         Net!End, Net!Ends, Net!Waiting, Net!Receiving, Net!Storing, Net!OnlyReads
<1>4. AtOrigin(c)'
  BY SMTT(20)
     DEF Net!Refused, Ready, CallOK, CallTyped, AtOrigin, Fields, Net!Is, Net!Goes, Net!Stays,
         Net!End, Net!Ends, Net!SameOrigin
<1>5. Audited(c)'
  BY SMTT(20)
     DEF Net!Refused, Ready, CallOK, CallTyped, Audited, Fields, Net!Is, Net!Goes, Net!Stays,
         Net!End, Net!Ends, Net!Waiting, Net!Receiving, Net!Storing
<1>6. OneAnswer(c)'
  BY SMTT(20)
     DEF Net!Refused, Ready, CallOK, CallTyped, OneAnswer, Fields, Net!Is, Net!Goes, Net!Stays,
         Net!End, Net!Ends, Net!Waiting, Net!Receiving, Net!Storing, Net!IsSinked
<1> QED
  BY <1>1, <1>2, <1>3, <1>4, <1>5, <1>6 DEF CallOK

LEMMA AcquireCounted ==
    ASSUME MaxTurnBytes \in Nat, NEW c \in Requester, Ready(c), Net!Acquire(c) PROVE Counted(c) /\ CallOK(c)'
<1>1. Counted(c)
  BY SMTT(20)
     DEF Net!Acquire, Counted, Ready, CallOK, CallTyped, Fields, AtWork, Net!Is, Net!Goes,
         Net!Stays, Net!End, Net!Ends, Net!Released, Net!Waiting, Net!Receiving, Net!Storing,
         Net!OnlyReads, Net!IsSinked
<1>2. CallTyped(c)'
  BY SMTT(20)
     DEF Net!Acquire, Ready, CallOK, CallTyped, Fields, Net!Is, Net!Goes, Net!Stays, Net!End,
         Net!Ends
<1>3. SentOnce(c)'
  BY SMTT(20)
     DEF Net!Acquire, Ready, CallOK, CallTyped, SentOnce, Fields, Net!Is, Net!Goes, Net!Stays,
         Net!End, Net!Ends, Net!Waiting, Net!Receiving, Net!Storing, Net!OnlyReads
<1>4. AtOrigin(c)'
  BY SMTT(20)
     DEF Net!Acquire, Ready, CallOK, CallTyped, AtOrigin, Fields, Net!Is, Net!Goes, Net!Stays,
         Net!End, Net!Ends, Net!SameOrigin
<1>5. Audited(c)'
  BY SMTT(20)
     DEF Net!Acquire, Ready, CallOK, CallTyped, Audited, Fields, Net!Is, Net!Goes, Net!Stays,
         Net!End, Net!Ends, Net!Waiting, Net!Receiving, Net!Storing
<1>6. OneAnswer(c)'
  BY SMTT(20)
     DEF Net!Acquire, Ready, CallOK, CallTyped, OneAnswer, Fields, Net!Is, Net!Goes, Net!Stays,
         Net!End, Net!Ends, Net!Waiting, Net!Receiving, Net!Storing, Net!IsSinked
<1> QED
  BY <1>1, <1>2, <1>3, <1>4, <1>5, <1>6 DEF CallOK

LEMMA AuthorizeCounted ==
    ASSUME MaxTurnBytes \in Nat, NEW c \in Requester, Ready(c), Net!Authorize(c) PROVE Counted(c) /\ CallOK(c)'
<1>1. Counted(c)
  BY SMTT(20)
     DEF Net!Authorize, Counted, Ready, CallOK, CallTyped, Fields, AtWork, Net!Is, Net!Goes,
         Net!Stays, Net!End, Net!Ends, Net!Released, Net!Waiting, Net!Receiving, Net!Storing,
         Net!OnlyReads, Net!IsSinked
<1>2. CallTyped(c)'
  BY SMTT(20)
     DEF Net!Authorize, Ready, CallOK, CallTyped, Fields, Net!Is, Net!Goes, Net!Stays, Net!End,
         Net!Ends
<1>3. SentOnce(c)'
  BY SMTT(20)
     DEF Net!Authorize, Ready, CallOK, CallTyped, SentOnce, Fields, Net!Is, Net!Goes, Net!Stays,
         Net!End, Net!Ends, Net!Waiting, Net!Receiving, Net!Storing, Net!OnlyReads
<1>4. AtOrigin(c)'
  BY SMTT(20)
     DEF Net!Authorize, Ready, CallOK, CallTyped, AtOrigin, Fields, Net!Is, Net!Goes, Net!Stays,
         Net!End, Net!Ends, Net!SameOrigin
<1>5. Audited(c)'
  BY SMTT(20)
     DEF Net!Authorize, Ready, CallOK, CallTyped, Audited, Fields, Net!Is, Net!Goes, Net!Stays,
         Net!End, Net!Ends, Net!Waiting, Net!Receiving, Net!Storing
<1>6. OneAnswer(c)'
  BY SMTT(20)
     DEF Net!Authorize, Ready, CallOK, CallTyped, OneAnswer, Fields, Net!Is, Net!Goes, Net!Stays,
         Net!End, Net!Ends, Net!Waiting, Net!Receiving, Net!Storing, Net!IsSinked
<1> QED
  BY <1>1, <1>2, <1>3, <1>4, <1>5, <1>6 DEF CallOK

LEMMA HostRefusedCounted ==
    ASSUME MaxTurnBytes \in Nat, NEW c \in Requester, Ready(c), Net!HostRefused(c) PROVE Counted(c) /\ CallOK(c)'
<1>1. Counted(c)
  BY SMTT(20)
     DEF Net!HostRefused, Counted, Ready, CallOK, CallTyped, Fields, AtWork, Net!Is, Net!Goes,
         Net!Stays, Net!End, Net!Ends, Net!Released, Net!Waiting, Net!Receiving, Net!Storing,
         Net!OnlyReads, Net!IsSinked
<1>2. CallTyped(c)'
  BY SMTT(20)
     DEF Net!HostRefused, Ready, CallOK, CallTyped, Fields, Net!Is, Net!Goes, Net!Stays, Net!End,
         Net!Ends
<1>3. SentOnce(c)'
  BY SMTT(20)
     DEF Net!HostRefused, Ready, CallOK, CallTyped, SentOnce, Fields, Net!Is, Net!Goes, Net!Stays,
         Net!End, Net!Ends, Net!Waiting, Net!Receiving, Net!Storing, Net!OnlyReads
<1>4. AtOrigin(c)'
  BY SMTT(20)
     DEF Net!HostRefused, Ready, CallOK, CallTyped, AtOrigin, Fields, Net!Is, Net!Goes, Net!Stays,
         Net!End, Net!Ends, Net!SameOrigin
<1>5. Audited(c)'
  BY SMTT(20)
     DEF Net!HostRefused, Ready, CallOK, CallTyped, Audited, Fields, Net!Is, Net!Goes, Net!Stays,
         Net!End, Net!Ends, Net!Waiting, Net!Receiving, Net!Storing
<1>6. OneAnswer(c)'
  BY SMTT(20)
     DEF Net!HostRefused, Ready, CallOK, CallTyped, OneAnswer, Fields, Net!Is, Net!Goes, Net!Stays,
         Net!End, Net!Ends, Net!Waiting, Net!Receiving, Net!Storing, Net!IsSinked
<1> QED
  BY <1>1, <1>2, <1>3, <1>4, <1>5, <1>6 DEF CallOK

LEMMA AbortedCounted ==
    ASSUME MaxTurnBytes \in Nat, NEW c \in Requester, Ready(c), Net!Aborted(c) PROVE Counted(c) /\ CallOK(c)'
<1>1. Counted(c)
  BY SMTT(20)
     DEF Net!Aborted, Counted, Ready, CallOK, CallTyped, Fields, AtWork, Net!Is, Net!Goes,
         Net!Stays, Net!End, Net!Ends, Net!Released, Net!Waiting, Net!Receiving, Net!Storing,
         Net!OnlyReads, Net!IsSinked
<1>2. CallTyped(c)'
  BY SMTT(20)
     DEF Net!Aborted, Ready, CallOK, CallTyped, Fields, Net!Is, Net!Goes, Net!Stays, Net!End,
         Net!Ends
<1>3. SentOnce(c)'
  BY SMTT(20)
     DEF Net!Aborted, Ready, CallOK, CallTyped, SentOnce, Fields, Net!Is, Net!Goes, Net!Stays,
         Net!End, Net!Ends, Net!Waiting, Net!Receiving, Net!Storing, Net!OnlyReads
<1>4. AtOrigin(c)'
  BY SMTT(20)
     DEF Net!Aborted, Ready, CallOK, CallTyped, AtOrigin, Fields, Net!Is, Net!Goes, Net!Stays,
         Net!End, Net!Ends, Net!SameOrigin
<1>5. Audited(c)'
  BY SMTT(20)
     DEF Net!Aborted, Ready, CallOK, CallTyped, Audited, Fields, Net!Is, Net!Goes, Net!Stays,
         Net!End, Net!Ends, Net!Waiting, Net!Receiving, Net!Storing
<1>6. OneAnswer(c)'
  BY SMTT(20)
     DEF Net!Aborted, Ready, CallOK, CallTyped, OneAnswer, Fields, Net!Is, Net!Goes, Net!Stays,
         Net!End, Net!Ends, Net!Waiting, Net!Receiving, Net!Storing, Net!IsSinked
<1> QED
  BY <1>1, <1>2, <1>3, <1>4, <1>5, <1>6 DEF CallOK

LEMMA WrongTypeCounted ==
    ASSUME MaxTurnBytes \in Nat, NEW c \in Requester, Ready(c), Net!WrongType(c) PROVE Counted(c) /\ CallOK(c)'
<1>1. Counted(c)
  BY SMTT(20)
     DEF Net!WrongType, Counted, Ready, CallOK, CallTyped, Fields, AtWork, Net!Is, Net!Goes,
         Net!Stays, Net!End, Net!Ends, Net!Released, Net!Waiting, Net!Receiving, Net!Storing,
         Net!OnlyReads, Net!IsSinked
<1>2. CallTyped(c)'
  BY SMTT(20)
     DEF Net!WrongType, Ready, CallOK, CallTyped, Fields, Net!Is, Net!Goes, Net!Stays, Net!End,
         Net!Ends
<1>3. SentOnce(c)'
  BY SMTT(20)
     DEF Net!WrongType, Ready, CallOK, CallTyped, SentOnce, Fields, Net!Is, Net!Goes, Net!Stays,
         Net!End, Net!Ends, Net!Waiting, Net!Receiving, Net!Storing, Net!OnlyReads
<1>4. AtOrigin(c)'
  BY SMTT(20)
     DEF Net!WrongType, Ready, CallOK, CallTyped, AtOrigin, Fields, Net!Is, Net!Goes, Net!Stays,
         Net!End, Net!Ends, Net!SameOrigin
<1>5. Audited(c)'
  BY SMTT(20)
     DEF Net!WrongType, Ready, CallOK, CallTyped, Audited, Fields, Net!Is, Net!Goes, Net!Stays,
         Net!End, Net!Ends, Net!Waiting, Net!Receiving, Net!Storing
<1>6. OneAnswer(c)'
  BY SMTT(20)
     DEF Net!WrongType, Ready, CallOK, CallTyped, OneAnswer, Fields, Net!Is, Net!Goes, Net!Stays,
         Net!End, Net!Ends, Net!Waiting, Net!Receiving, Net!Storing, Net!IsSinked
<1> QED
  BY <1>1, <1>2, <1>3, <1>4, <1>5, <1>6 DEF CallOK

LEMMA PlanCounted ==
    ASSUME MaxTurnBytes \in Nat, NEW c \in Requester, Ready(c), Net!Plan(c) PROVE Counted(c) /\ CallOK(c)'
<1>1. Counted(c)
  BY SMTT(20)
     DEF Net!Plan, Counted, Ready, CallOK, CallTyped, Fields, AtWork, Net!Is, Net!Goes, Net!Stays,
         Net!End, Net!Ends, Net!Released, Net!Waiting, Net!Receiving, Net!Storing, Net!OnlyReads,
         Net!IsSinked
<1>2. CallTyped(c)'
  BY SMTT(20)
     DEF Net!Plan, Ready, CallOK, CallTyped, Fields, Net!Is, Net!Goes, Net!Stays, Net!End, Net!Ends
<1>3. SentOnce(c)'
  BY SMTT(20)
     DEF Net!Plan, Ready, CallOK, CallTyped, SentOnce, Fields, Net!Is, Net!Goes, Net!Stays, Net!End,
         Net!Ends, Net!Waiting, Net!Receiving, Net!Storing, Net!OnlyReads
<1>4. AtOrigin(c)'
  BY SMTT(20)
     DEF Net!Plan, Ready, CallOK, CallTyped, AtOrigin, Fields, Net!Is, Net!Goes, Net!Stays, Net!End,
         Net!Ends, Net!SameOrigin
<1>5. Audited(c)'
  BY SMTT(20)
     DEF Net!Plan, Ready, CallOK, CallTyped, Audited, Fields, Net!Is, Net!Goes, Net!Stays, Net!End,
         Net!Ends, Net!Waiting, Net!Receiving, Net!Storing
<1>6. OneAnswer(c)'
  BY SMTT(20)
     DEF Net!Plan, Ready, CallOK, CallTyped, OneAnswer, Fields, Net!Is, Net!Goes, Net!Stays,
         Net!End, Net!Ends, Net!Waiting, Net!Receiving, Net!Storing, Net!IsSinked
<1> QED
  BY <1>1, <1>2, <1>3, <1>4, <1>5, <1>6 DEF CallOK

LEMMA SendCounted ==
    ASSUME MaxTurnBytes \in Nat, NEW c \in Requester, Ready(c), Net!Send(c) PROVE Counted(c) /\ CallOK(c)'
<1>1. Counted(c)
  BY SMTT(20)
     DEF Net!Send, Counted, Ready, CallOK, CallTyped, Fields, AtWork, Net!Is, Net!Goes, Net!Stays,
         Net!End, Net!Ends, Net!Released, Net!Waiting, Net!Receiving, Net!Storing, Net!OnlyReads,
         Net!IsSinked
<1>2. CallTyped(c)'
  BY SMTT(20)
     DEF Net!Send, Ready, CallOK, CallTyped, Fields, Net!Is, Net!Goes, Net!Stays, Net!End, Net!Ends
<1>3. SentOnce(c)'
  BY SMTT(20)
     DEF Net!Send, Ready, CallOK, CallTyped, SentOnce, Fields, Net!Is, Net!Goes, Net!Stays, Net!End,
         Net!Ends, Net!Waiting, Net!Receiving, Net!Storing, Net!OnlyReads
<1>4. AtOrigin(c)'
  BY SMTT(20)
     DEF Net!Send, Ready, CallOK, CallTyped, AtOrigin, Fields, Net!Is, Net!Goes, Net!Stays, Net!End,
         Net!Ends, Net!SameOrigin
<1>5. Audited(c)'
  BY SMTT(20)
     DEF Net!Send, Ready, CallOK, CallTyped, Audited, Fields, Net!Is, Net!Goes, Net!Stays, Net!End,
         Net!Ends, Net!Waiting, Net!Receiving, Net!Storing
<1>6. OneAnswer(c)'
  BY SMTT(20)
     DEF Net!Send, Ready, CallOK, CallTyped, OneAnswer, Fields, Net!Is, Net!Goes, Net!Stays,
         Net!End, Net!Ends, Net!Waiting, Net!Receiving, Net!Storing, Net!IsSinked
<1> QED
  BY <1>1, <1>2, <1>3, <1>4, <1>5, <1>6 DEF CallOK

LEMMA SendRefusedCounted ==
    ASSUME MaxTurnBytes \in Nat, NEW c \in Requester, Ready(c), Net!SendRefused(c) PROVE Counted(c) /\ CallOK(c)'
<1>1. Counted(c)
  BY SMTT(20)
     DEF Net!SendRefused, Counted, Ready, CallOK, CallTyped, Fields, AtWork, Net!Is, Net!Goes,
         Net!Stays, Net!End, Net!Ends, Net!Released, Net!Waiting, Net!Receiving, Net!Storing,
         Net!OnlyReads, Net!IsSinked
<1>2. CallTyped(c)'
  BY SMTT(20)
     DEF Net!SendRefused, Ready, CallOK, CallTyped, Fields, Net!Is, Net!Goes, Net!Stays, Net!End,
         Net!Ends
<1>3. SentOnce(c)'
  BY SMTT(20)
     DEF Net!SendRefused, Ready, CallOK, CallTyped, SentOnce, Fields, Net!Is, Net!Goes, Net!Stays,
         Net!End, Net!Ends, Net!Waiting, Net!Receiving, Net!Storing, Net!OnlyReads
<1>4. AtOrigin(c)'
  BY SMTT(20)
     DEF Net!SendRefused, Ready, CallOK, CallTyped, AtOrigin, Fields, Net!Is, Net!Goes, Net!Stays,
         Net!End, Net!Ends, Net!SameOrigin
<1>5. Audited(c)'
  BY SMTT(20)
     DEF Net!SendRefused, Ready, CallOK, CallTyped, Audited, Fields, Net!Is, Net!Goes, Net!Stays,
         Net!End, Net!Ends, Net!Waiting, Net!Receiving, Net!Storing
<1>6. OneAnswer(c)'
  BY SMTT(20)
     DEF Net!SendRefused, Ready, CallOK, CallTyped, OneAnswer, Fields, Net!Is, Net!Goes, Net!Stays,
         Net!End, Net!Ends, Net!Waiting, Net!Receiving, Net!Storing, Net!IsSinked
<1> QED
  BY <1>1, <1>2, <1>3, <1>4, <1>5, <1>6 DEF CallOK

LEMMA FailsCounted ==
    ASSUME MaxTurnBytes \in Nat, NEW c \in Requester, Ready(c), Net!Fails(c) PROVE Counted(c) /\ CallOK(c)'
<1>1. Counted(c)
  BY SMTT(20)
     DEF Net!Fails, Counted, Ready, CallOK, CallTyped, Fields, AtWork, Net!Is, Net!Goes, Net!Stays,
         Net!End, Net!Ends, Net!Released, Net!Waiting, Net!Receiving, Net!Storing, Net!OnlyReads,
         Net!IsSinked
<1>2. CallTyped(c)'
  BY SMTT(20)
     DEF Net!Fails, Ready, CallOK, CallTyped, Fields, Net!Is, Net!Goes, Net!Stays, Net!End, Net!Ends
<1>3. SentOnce(c)'
  BY SMTT(20)
     DEF Net!Fails, Ready, CallOK, CallTyped, SentOnce, Fields, Net!Is, Net!Goes, Net!Stays,
         Net!End, Net!Ends, Net!Waiting, Net!Receiving, Net!Storing, Net!OnlyReads
<1>4. AtOrigin(c)'
  BY SMTT(20)
     DEF Net!Fails, Ready, CallOK, CallTyped, AtOrigin, Fields, Net!Is, Net!Goes, Net!Stays,
         Net!End, Net!Ends, Net!SameOrigin
<1>5. Audited(c)'
  BY SMTT(20)
     DEF Net!Fails, Ready, CallOK, CallTyped, Audited, Fields, Net!Is, Net!Goes, Net!Stays, Net!End,
         Net!Ends, Net!Waiting, Net!Receiving, Net!Storing
<1>6. OneAnswer(c)'
  BY SMTT(20)
     DEF Net!Fails, Ready, CallOK, CallTyped, OneAnswer, Fields, Net!Is, Net!Goes, Net!Stays,
         Net!End, Net!Ends, Net!Waiting, Net!Receiving, Net!Storing, Net!IsSinked
<1> QED
  BY <1>1, <1>2, <1>3, <1>4, <1>5, <1>6 DEF CallOK

LEMMA ResponseCounted ==
    ASSUME MaxTurnBytes \in Nat, NEW c \in Requester, Ready(c), Net!Response(c) PROVE Counted(c) /\ CallOK(c)'
<1>1. Counted(c)
  BY SMTT(20)
     DEF Net!Response, Counted, Ready, CallOK, CallTyped, Fields, AtWork, Net!Is, Net!Goes,
         Net!Stays, Net!End, Net!Ends, Net!Released, Net!Waiting, Net!Receiving, Net!Storing,
         Net!OnlyReads, Net!IsSinked
<1>2. CallTyped(c)'
  BY SMTT(20)
     DEF Net!Response, Ready, CallOK, CallTyped, Fields, Net!Is, Net!Goes, Net!Stays, Net!End,
         Net!Ends
<1>3. SentOnce(c)'
  BY SMTT(20)
     DEF Net!Response, Ready, CallOK, CallTyped, SentOnce, Fields, Net!Is, Net!Goes, Net!Stays,
         Net!End, Net!Ends, Net!Waiting, Net!Receiving, Net!Storing, Net!OnlyReads
<1>4. AtOrigin(c)'
  BY SMTT(20)
     DEF Net!Response, Ready, CallOK, CallTyped, AtOrigin, Fields, Net!Is, Net!Goes, Net!Stays,
         Net!End, Net!Ends, Net!SameOrigin
<1>5. Audited(c)'
  BY SMTT(20)
     DEF Net!Response, Ready, CallOK, CallTyped, Audited, Fields, Net!Is, Net!Goes, Net!Stays,
         Net!End, Net!Ends, Net!Waiting, Net!Receiving, Net!Storing
<1>6. OneAnswer(c)'
  BY SMTT(20)
     DEF Net!Response, Ready, CallOK, CallTyped, OneAnswer, Fields, Net!Is, Net!Goes, Net!Stays,
         Net!End, Net!Ends, Net!Waiting, Net!Receiving, Net!Storing, Net!IsSinked
<1> QED
  BY <1>1, <1>2, <1>3, <1>4, <1>5, <1>6 DEF CallOK

LEMMA TruncateCounted ==
    ASSUME MaxTurnBytes \in Nat, NEW c \in Requester, Ready(c), Net!Truncate(c) PROVE Counted(c) /\ CallOK(c)'
<1>1. Counted(c)
  BY SMTT(20)
     DEF Net!Truncate, Counted, Ready, CallOK, CallTyped, Fields, AtWork, Net!Is, Net!Goes,
         Net!Stays, Net!End, Net!Ends, Net!Released, Net!Waiting, Net!Receiving, Net!Storing,
         Net!OnlyReads, Net!IsSinked
<1>2. CallTyped(c)'
  BY SMTT(20)
     DEF Net!Truncate, Ready, CallOK, CallTyped, Fields, Net!Is, Net!Goes, Net!Stays, Net!End,
         Net!Ends
<1>3. SentOnce(c)'
  BY SMTT(20)
     DEF Net!Truncate, Ready, CallOK, CallTyped, SentOnce, Fields, Net!Is, Net!Goes, Net!Stays,
         Net!End, Net!Ends, Net!Waiting, Net!Receiving, Net!Storing, Net!OnlyReads
<1>4. AtOrigin(c)'
  BY SMTT(20)
     DEF Net!Truncate, Ready, CallOK, CallTyped, AtOrigin, Fields, Net!Is, Net!Goes, Net!Stays,
         Net!End, Net!Ends, Net!SameOrigin
<1>5. Audited(c)'
  BY SMTT(20)
     DEF Net!Truncate, Ready, CallOK, CallTyped, Audited, Fields, Net!Is, Net!Goes, Net!Stays,
         Net!End, Net!Ends, Net!Waiting, Net!Receiving, Net!Storing
<1>6. OneAnswer(c)'
  BY SMTT(20)
     DEF Net!Truncate, Ready, CallOK, CallTyped, OneAnswer, Fields, Net!Is, Net!Goes, Net!Stays,
         Net!End, Net!Ends, Net!Waiting, Net!Receiving, Net!Storing, Net!IsSinked
<1> QED
  BY <1>1, <1>2, <1>3, <1>4, <1>5, <1>6 DEF CallOK

LEMMA ResetCountersCounted ==
    ASSUME MaxTurnBytes \in Nat, NEW c \in Requester, Ready(c), Net!ResetCounters(c) PROVE Counted(c) /\ CallOK(c)'
<1>1. Counted(c)
  BY SMTT(20)
     DEF Net!ResetCounters, Counted, Ready, CallOK, CallTyped, Fields, AtWork, Net!Is, Net!Goes,
         Net!Stays, Net!End, Net!Ends, Net!Released, Net!Waiting, Net!Receiving, Net!Storing,
         Net!OnlyReads, Net!IsSinked
<1>2. CallTyped(c)'
  BY SMTT(20)
     DEF Net!ResetCounters, Ready, CallOK, CallTyped, Fields, Net!Is, Net!Goes, Net!Stays, Net!End,
         Net!Ends
<1>3. SentOnce(c)'
  BY SMTT(20)
     DEF Net!ResetCounters, Ready, CallOK, CallTyped, SentOnce, Fields, Net!Is, Net!Goes, Net!Stays,
         Net!End, Net!Ends, Net!Waiting, Net!Receiving, Net!Storing, Net!OnlyReads
<1>4. AtOrigin(c)'
  BY SMTT(20)
     DEF Net!ResetCounters, Ready, CallOK, CallTyped, AtOrigin, Fields, Net!Is, Net!Goes, Net!Stays,
         Net!End, Net!Ends, Net!SameOrigin
<1>5. Audited(c)'
  BY SMTT(20)
     DEF Net!ResetCounters, Ready, CallOK, CallTyped, Audited, Fields, Net!Is, Net!Goes, Net!Stays,
         Net!End, Net!Ends, Net!Waiting, Net!Receiving, Net!Storing
<1>6. OneAnswer(c)'
  BY SMTT(20)
     DEF Net!ResetCounters, Ready, CallOK, CallTyped, OneAnswer, Fields, Net!Is, Net!Goes,
         Net!Stays, Net!End, Net!Ends, Net!Waiting, Net!Receiving, Net!Storing, Net!IsSinked
<1> QED
  BY <1>1, <1>2, <1>3, <1>4, <1>5, <1>6 DEF CallOK

LEMMA ChunkCounted ==
    ASSUME MaxTurnBytes \in Nat, NEW c \in Requester, Ready(c), Net!Chunk(c) PROVE Counted(c) /\ CallOK(c)'
<1>1. Counted(c)
  BY SMTT(20)
     DEF Net!Chunk, Counted, Ready, CallOK, CallTyped, Fields, AtWork, Net!Is, Net!Goes, Net!Stays,
         Net!End, Net!Ends, Net!Released, Net!Waiting, Net!Receiving, Net!Storing, Net!OnlyReads,
         Net!IsSinked
<1>2. CallTyped(c)'
  BY SMTT(20)
     DEF Net!Chunk, Ready, CallOK, CallTyped, Fields, Net!Is, Net!Goes, Net!Stays, Net!End, Net!Ends
<1>3. SentOnce(c)'
  BY SMTT(20)
     DEF Net!Chunk, Ready, CallOK, CallTyped, SentOnce, Fields, Net!Is, Net!Goes, Net!Stays,
         Net!End, Net!Ends, Net!Waiting, Net!Receiving, Net!Storing, Net!OnlyReads
<1>4. AtOrigin(c)'
  BY SMTT(20)
     DEF Net!Chunk, Ready, CallOK, CallTyped, AtOrigin, Fields, Net!Is, Net!Goes, Net!Stays,
         Net!End, Net!Ends, Net!SameOrigin
<1>5. Audited(c)'
  BY SMTT(20)
     DEF Net!Chunk, Ready, CallOK, CallTyped, Audited, Fields, Net!Is, Net!Goes, Net!Stays, Net!End,
         Net!Ends, Net!Waiting, Net!Receiving, Net!Storing
<1>6. OneAnswer(c)'
  BY SMTT(20)
     DEF Net!Chunk, Ready, CallOK, CallTyped, OneAnswer, Fields, Net!Is, Net!Goes, Net!Stays,
         Net!End, Net!Ends, Net!Waiting, Net!Receiving, Net!Storing, Net!IsSinked
<1> QED
  BY <1>1, <1>2, <1>3, <1>4, <1>5, <1>6 DEF CallOK

LEMMA TooLargeCounted ==
    ASSUME MaxTurnBytes \in Nat, NEW c \in Requester, Ready(c), Net!TooLarge(c) PROVE Counted(c) /\ CallOK(c)'
<1>1. Counted(c)
  BY SMTT(20)
     DEF Net!TooLarge, Counted, Ready, CallOK, CallTyped, Fields, AtWork, Net!Is, Net!Goes,
         Net!Stays, Net!End, Net!Ends, Net!Released, Net!Waiting, Net!Receiving, Net!Storing,
         Net!OnlyReads, Net!IsSinked
<1>2. CallTyped(c)'
  BY SMTT(20)
     DEF Net!TooLarge, Ready, CallOK, CallTyped, Fields, Net!Is, Net!Goes, Net!Stays, Net!End,
         Net!Ends
<1>3. SentOnce(c)'
  BY SMTT(20)
     DEF Net!TooLarge, Ready, CallOK, CallTyped, SentOnce, Fields, Net!Is, Net!Goes, Net!Stays,
         Net!End, Net!Ends, Net!Waiting, Net!Receiving, Net!Storing, Net!OnlyReads
<1>4. AtOrigin(c)'
  BY SMTT(20)
     DEF Net!TooLarge, Ready, CallOK, CallTyped, AtOrigin, Fields, Net!Is, Net!Goes, Net!Stays,
         Net!End, Net!Ends, Net!SameOrigin
<1>5. Audited(c)'
  BY SMTT(20)
     DEF Net!TooLarge, Ready, CallOK, CallTyped, Audited, Fields, Net!Is, Net!Goes, Net!Stays,
         Net!End, Net!Ends, Net!Waiting, Net!Receiving, Net!Storing
<1>6. OneAnswer(c)'
  BY SMTT(20)
     DEF Net!TooLarge, Ready, CallOK, CallTyped, OneAnswer, Fields, Net!Is, Net!Goes, Net!Stays,
         Net!End, Net!Ends, Net!Waiting, Net!Receiving, Net!Storing, Net!IsSinked
<1> QED
  BY <1>1, <1>2, <1>3, <1>4, <1>5, <1>6 DEF CallOK

LEMMA WriteLandsCounted ==
    ASSUME MaxTurnBytes \in Nat, NEW c \in Requester, Ready(c), Net!WriteLands(c) PROVE Counted(c) /\ CallOK(c)'
<1>1. Counted(c)
  BY SMTT(20)
     DEF Net!WriteLands, Counted, Ready, CallOK, CallTyped, Fields, AtWork, Net!Is, Net!Goes,
         Net!Stays, Net!End, Net!Ends, Net!Released, Net!Waiting, Net!Receiving, Net!Storing,
         Net!OnlyReads, Net!IsSinked
<1>2. CallTyped(c)'
  BY SMTT(20)
     DEF Net!WriteLands, Ready, CallOK, CallTyped, Fields, Net!Is, Net!Goes, Net!Stays, Net!End,
         Net!Ends
<1>3. SentOnce(c)'
  BY SMTT(20)
     DEF Net!WriteLands, Ready, CallOK, CallTyped, SentOnce, Fields, Net!Is, Net!Goes, Net!Stays,
         Net!End, Net!Ends, Net!Waiting, Net!Receiving, Net!Storing, Net!OnlyReads
<1>4. AtOrigin(c)'
  BY SMTT(20)
     DEF Net!WriteLands, Ready, CallOK, CallTyped, AtOrigin, Fields, Net!Is, Net!Goes, Net!Stays,
         Net!End, Net!Ends, Net!SameOrigin
<1>5. Audited(c)'
  BY SMTT(20)
     DEF Net!WriteLands, Ready, CallOK, CallTyped, Audited, Fields, Net!Is, Net!Goes, Net!Stays,
         Net!End, Net!Ends, Net!Waiting, Net!Receiving, Net!Storing
<1>6. OneAnswer(c)'
  BY SMTT(20)
     DEF Net!WriteLands, Ready, CallOK, CallTyped, OneAnswer, Fields, Net!Is, Net!Goes, Net!Stays,
         Net!End, Net!Ends, Net!Waiting, Net!Receiving, Net!Storing, Net!IsSinked
<1> QED
  BY <1>1, <1>2, <1>3, <1>4, <1>5, <1>6 DEF CallOK

LEMMA WriteReturnsCounted ==
    ASSUME MaxTurnBytes \in Nat, NEW c \in Requester, Ready(c), Net!WriteReturns(c) PROVE Counted(c) /\ CallOK(c)'
<1>1. Counted(c)
  BY SMTT(20)
     DEF Net!WriteReturns, Counted, Ready, CallOK, CallTyped, Fields, AtWork, Net!Is, Net!Goes,
         Net!Stays, Net!End, Net!Ends, Net!Released, Net!Waiting, Net!Receiving, Net!Storing,
         Net!OnlyReads, Net!IsSinked
<1>2. CallTyped(c)'
  BY SMTT(20)
     DEF Net!WriteReturns, Ready, CallOK, CallTyped, Fields, Net!Is, Net!Goes, Net!Stays, Net!End,
         Net!Ends
<1>3. SentOnce(c)'
  BY SMTT(20)
     DEF Net!WriteReturns, Ready, CallOK, CallTyped, SentOnce, Fields, Net!Is, Net!Goes, Net!Stays,
         Net!End, Net!Ends, Net!Waiting, Net!Receiving, Net!Storing, Net!OnlyReads
<1>4. AtOrigin(c)'
  BY SMTT(20)
     DEF Net!WriteReturns, Ready, CallOK, CallTyped, AtOrigin, Fields, Net!Is, Net!Goes, Net!Stays,
         Net!End, Net!Ends, Net!SameOrigin
<1>5. Audited(c)'
  BY SMTT(20)
     DEF Net!WriteReturns, Ready, CallOK, CallTyped, Audited, Fields, Net!Is, Net!Goes, Net!Stays,
         Net!End, Net!Ends, Net!Waiting, Net!Receiving, Net!Storing
<1>6. OneAnswer(c)'
  <2>1. /\ \/ v1'[c].at = v1[c].at
           \/ v1[c].at = "write" /\ v1'[c].at = "body"
        /\ v1'[c].ok = v1[c].ok /\ v1'[c].kind = v1[c].kind /\ v1'[c].got = v1[c].got
        /\ v1'[c].attempts = v1[c].attempts /\ v1'[c].stored = v1[c].stored
        /\ v3'[c].hash = v3[c].hash
    BY SMTT(20) DEF Net!WriteReturns, Ready, CallOK, CallTyped, Fields, Net!Is, Net!Goes
  <2> QED
    BY <2>1 DEF Ready, CallOK, OneAnswer
<1> QED
  BY <1>1, <1>2, <1>3, <1>4, <1>5, <1>6 DEF CallOK

LEMMA RouteFailsCounted ==
    ASSUME MaxTurnBytes \in Nat, NEW c \in Requester, Ready(c), Net!RouteFails(c) PROVE Counted(c) /\ CallOK(c)'
<1>1. Counted(c)
  BY SMTT(20)
     DEF Net!RouteFails, Counted, Ready, CallOK, CallTyped, Fields, AtWork, Net!Is, Net!Goes,
         Net!Stays, Net!End, Net!Ends, Net!Released, Net!Waiting, Net!Receiving, Net!Storing,
         Net!OnlyReads, Net!IsSinked
<1>2. CallTyped(c)'
  BY SMTT(20)
     DEF Net!RouteFails, Ready, CallOK, CallTyped, Fields, Net!Is, Net!Goes, Net!Stays, Net!End,
         Net!Ends
<1>3. SentOnce(c)'
  BY SMTT(20)
     DEF Net!RouteFails, Ready, CallOK, CallTyped, SentOnce, Fields, Net!Is, Net!Goes, Net!Stays,
         Net!End, Net!Ends, Net!Waiting, Net!Receiving, Net!Storing, Net!OnlyReads
<1>4. AtOrigin(c)'
  BY SMTT(20)
     DEF Net!RouteFails, Ready, CallOK, CallTyped, AtOrigin, Fields, Net!Is, Net!Goes, Net!Stays,
         Net!End, Net!Ends, Net!SameOrigin
<1>5. Audited(c)'
  BY SMTT(20)
     DEF Net!RouteFails, Ready, CallOK, CallTyped, Audited, Fields, Net!Is, Net!Goes, Net!Stays,
         Net!End, Net!Ends, Net!Waiting, Net!Receiving, Net!Storing
<1>6. OneAnswer(c)'
  BY SMTT(20)
     DEF Net!RouteFails, Ready, CallOK, CallTyped, OneAnswer, Fields, Net!Is, Net!Goes, Net!Stays,
         Net!End, Net!Ends, Net!Waiting, Net!Receiving, Net!Storing, Net!IsSinked
<1> QED
  BY <1>1, <1>2, <1>3, <1>4, <1>5, <1>6 DEF CallOK

LEMMA FollowCounted ==
    ASSUME MaxTurnBytes \in Nat, NEW c \in Requester, Ready(c), Net!Follow(c) PROVE Counted(c) /\ CallOK(c)'
<1>1. Counted(c)
  BY SMTT(20)
     DEF Net!Follow, Counted, Ready, CallOK, CallTyped, Fields, AtWork, Net!Is, Net!Goes, Net!Stays,
         Net!End, Net!Ends, Net!Released, Net!Waiting, Net!Receiving, Net!Storing, Net!OnlyReads,
         Net!IsSinked
<1>2. CallTyped(c)'
  BY SMTT(20)
     DEF Net!Follow, Ready, CallOK, CallTyped, Fields, Net!Is, Net!Goes, Net!Stays, Net!End,
         Net!Ends
<1>3. SentOnce(c)'
  BY SMTT(20)
     DEF Net!Follow, Ready, CallOK, CallTyped, SentOnce, Fields, Net!Is, Net!Goes, Net!Stays,
         Net!End, Net!Ends, Net!Waiting, Net!Receiving, Net!Storing, Net!OnlyReads
<1>4. AtOrigin(c)'
  BY SMTT(20)
     DEF Net!Follow, Ready, CallOK, CallTyped, AtOrigin, Fields, Net!Is, Net!Goes, Net!Stays,
         Net!End, Net!Ends, Net!SameOrigin
<1>5. Audited(c)'
  BY SMTT(20)
     DEF Net!Follow, Ready, CallOK, CallTyped, Audited, Fields, Net!Is, Net!Goes, Net!Stays,
         Net!End, Net!Ends, Net!Waiting, Net!Receiving, Net!Storing
<1>6. OneAnswer(c)'
  BY SMTT(20)
     DEF Net!Follow, Ready, CallOK, CallTyped, OneAnswer, Fields, Net!Is, Net!Goes, Net!Stays,
         Net!End, Net!Ends, Net!Waiting, Net!Receiving, Net!Storing, Net!IsSinked
<1> QED
  BY <1>1, <1>2, <1>3, <1>4, <1>5, <1>6 DEF CallOK

LEMMA RedirectRefusedCounted ==
    ASSUME MaxTurnBytes \in Nat, NEW c \in Requester, Ready(c), Net!RedirectRefused(c) PROVE Counted(c) /\ CallOK(c)'
<1>1. Counted(c)
  BY SMTT(20)
     DEF Net!RedirectRefused, Counted, Ready, CallOK, CallTyped, Fields, AtWork, Net!Is, Net!Goes,
         Net!Stays, Net!End, Net!Ends, Net!Released, Net!Waiting, Net!Receiving, Net!Storing,
         Net!OnlyReads, Net!IsSinked
<1>2. CallTyped(c)'
  BY SMTT(20)
     DEF Net!RedirectRefused, Ready, CallOK, CallTyped, Fields, Net!Is, Net!Goes, Net!Stays,
         Net!End, Net!Ends
<1>3. SentOnce(c)'
  BY SMTT(20)
     DEF Net!RedirectRefused, Ready, CallOK, CallTyped, SentOnce, Fields, Net!Is, Net!Goes,
         Net!Stays, Net!End, Net!Ends, Net!Waiting, Net!Receiving, Net!Storing, Net!OnlyReads
<1>4. AtOrigin(c)'
  BY SMTT(20)
     DEF Net!RedirectRefused, Ready, CallOK, CallTyped, AtOrigin, Fields, Net!Is, Net!Goes,
         Net!Stays, Net!End, Net!Ends, Net!SameOrigin
<1>5. Audited(c)'
  BY SMTT(20)
     DEF Net!RedirectRefused, Ready, CallOK, CallTyped, Audited, Fields, Net!Is, Net!Goes,
         Net!Stays, Net!End, Net!Ends, Net!Waiting, Net!Receiving, Net!Storing
<1>6. OneAnswer(c)'
  BY SMTT(20)
     DEF Net!RedirectRefused, Ready, CallOK, CallTyped, OneAnswer, Fields, Net!Is, Net!Goes,
         Net!Stays, Net!End, Net!Ends, Net!Waiting, Net!Receiving, Net!Storing, Net!IsSinked
<1> QED
  BY <1>1, <1>2, <1>3, <1>4, <1>5, <1>6 DEF CallOK

LEMMA CompleteCounted ==
    ASSUME MaxTurnBytes \in Nat, NEW c \in Requester, Ready(c), Net!Complete(c) PROVE Counted(c) /\ CallOK(c)'
<1>1. Counted(c)
  BY SMTT(20)
     DEF Net!Complete, Counted, Ready, CallOK, CallTyped, Fields, AtWork, Net!Is, Net!Goes,
         Net!Stays, Net!End, Net!Ends, Net!Released, Net!Waiting, Net!Receiving, Net!Storing,
         Net!OnlyReads, Net!IsSinked
<1>2. CallTyped(c)'
  BY SMTT(20)
     DEF Net!Complete, Ready, CallOK, CallTyped, Fields, Net!Is, Net!Goes, Net!Stays, Net!End,
         Net!Ends
<1>3. SentOnce(c)'
  BY SMTT(20)
     DEF Net!Complete, Ready, CallOK, CallTyped, SentOnce, Fields, Net!Is, Net!Goes, Net!Stays,
         Net!End, Net!Ends, Net!Waiting, Net!Receiving, Net!Storing, Net!OnlyReads
<1>4. AtOrigin(c)'
  BY SMTT(20)
     DEF Net!Complete, Ready, CallOK, CallTyped, AtOrigin, Fields, Net!Is, Net!Goes, Net!Stays,
         Net!End, Net!Ends, Net!SameOrigin
<1>5. Audited(c)'
  BY SMTT(20)
     DEF Net!Complete, Ready, CallOK, CallTyped, Audited, Fields, Net!Is, Net!Goes, Net!Stays,
         Net!End, Net!Ends, Net!Waiting, Net!Receiving, Net!Storing
<1>6. OneAnswer(c)'
  <2>1. /\ v1'[c].at \in {"finish", "present", "done"}
        /\ v1'[c].at = "present" => v1[c].kind # "download"
        /\ v1'[c].ok = v1[c].ok /\ v1'[c].kind = v1[c].kind /\ v1[c].at = "body"
    BY SMTT(20) DEF Net!Complete, Ready, CallOK, CallTyped, Fields, Net!Is, Net!IsSinked
  <2>2. ~v1[c].ok
    BY <2>1 DEF Ready, CallOK, OneAnswer
  <2>3. ~v1'[c].ok
    BY <2>1, <2>2
  <2> QED
    BY <2>1, <2>3 DEF OneAnswer
<1> QED
  BY <1>1, <1>2, <1>3, <1>4, <1>5, <1>6 DEF CallOK

LEMMA PresentCounted ==
    ASSUME MaxTurnBytes \in Nat, NEW c \in Requester, Ready(c), Net!Present(c) PROVE Counted(c) /\ CallOK(c)'
<1>1. Counted(c)
  BY SMTT(20)
     DEF Net!Present, Counted, Ready, CallOK, CallTyped, Fields, AtWork, Net!Is, Net!Goes,
         Net!Stays, Net!End, Net!Ends, Net!Released, Net!Waiting, Net!Receiving, Net!Storing,
         Net!OnlyReads, Net!IsSinked
<1>2. CallTyped(c)'
  BY SMTT(20)
     DEF Net!Present, Ready, CallOK, CallTyped, Fields, Net!Is, Net!Goes, Net!Stays, Net!End,
         Net!Ends
<1>3. SentOnce(c)'
  BY SMTT(20)
     DEF Net!Present, Ready, CallOK, CallTyped, SentOnce, Fields, Net!Is, Net!Goes, Net!Stays,
         Net!End, Net!Ends, Net!Waiting, Net!Receiving, Net!Storing, Net!OnlyReads
<1>4. AtOrigin(c)'
  BY SMTT(20)
     DEF Net!Present, Ready, CallOK, CallTyped, AtOrigin, Fields, Net!Is, Net!Goes, Net!Stays,
         Net!End, Net!Ends, Net!SameOrigin
<1>5. Audited(c)'
  BY SMTT(20)
     DEF Net!Present, Ready, CallOK, CallTyped, Audited, Fields, Net!Is, Net!Goes, Net!Stays,
         Net!End, Net!Ends, Net!Waiting, Net!Receiving, Net!Storing
<1>6. OneAnswer(c)'
  BY SMTT(20)
     DEF Net!Present, Ready, CallOK, CallTyped, OneAnswer, Fields, Net!Is, Net!Goes, Net!Stays,
         Net!End, Net!Ends, Net!Waiting, Net!Receiving, Net!Storing, Net!IsSinked
<1> QED
  BY <1>1, <1>2, <1>3, <1>4, <1>5, <1>6 DEF CallOK

LEMMA FinishCounted ==
    ASSUME MaxTurnBytes \in Nat, NEW c \in Requester, Ready(c), Net!Finish(c) PROVE Counted(c) /\ CallOK(c)'
<1>1. Counted(c)
  BY SMTT(20)
     DEF Net!Finish, Counted, Ready, CallOK, CallTyped, Fields, AtWork, Net!Is, Net!Goes, Net!Stays,
         Net!End, Net!Ends, Net!Released, Net!Waiting, Net!Receiving, Net!Storing, Net!OnlyReads,
         Net!IsSinked
<1>2. CallTyped(c)'
  BY SMTT(20)
     DEF Net!Finish, Ready, CallOK, CallTyped, Fields, Net!Is, Net!Goes, Net!Stays, Net!End,
         Net!Ends
<1>3. SentOnce(c)'
  BY SMTT(20)
     DEF Net!Finish, Ready, CallOK, CallTyped, SentOnce, Fields, Net!Is, Net!Goes, Net!Stays,
         Net!End, Net!Ends, Net!Waiting, Net!Receiving, Net!Storing, Net!OnlyReads
<1>4. AtOrigin(c)'
  BY SMTT(20)
     DEF Net!Finish, Ready, CallOK, CallTyped, AtOrigin, Fields, Net!Is, Net!Goes, Net!Stays,
         Net!End, Net!Ends, Net!SameOrigin
<1>5. Audited(c)'
  BY SMTT(20)
     DEF Net!Finish, Ready, CallOK, CallTyped, Audited, Fields, Net!Is, Net!Goes, Net!Stays,
         Net!End, Net!Ends, Net!Waiting, Net!Receiving, Net!Storing
<1>6. OneAnswer(c)'
  BY SMTT(20)
     DEF Net!Finish, Ready, CallOK, CallTyped, OneAnswer, Fields, Net!Is, Net!Goes, Net!Stays,
         Net!End, Net!Ends, Net!Waiting, Net!Receiving, Net!Storing, Net!IsSinked
<1> QED
  BY <1>1, <1>2, <1>3, <1>4, <1>5, <1>6 DEF CallOK

LEMMA StoreCounted ==
    ASSUME MaxTurnBytes \in Nat, NEW c \in Requester, Ready(c), Net!Store(c) PROVE Counted(c) /\ CallOK(c)'
<1>1. Counted(c)
  BY SMTT(20)
     DEF Net!Store, Counted, Ready, CallOK, CallTyped, Fields, AtWork, Net!Is, Net!Goes, Net!Stays,
         Net!End, Net!Ends, Net!Released, Net!Waiting, Net!Receiving, Net!Storing, Net!OnlyReads,
         Net!IsSinked
<1>2. CallTyped(c)'
  BY SMTT(20)
     DEF Net!Store, Ready, CallOK, CallTyped, Fields, Net!Is, Net!Goes, Net!Stays, Net!End, Net!Ends
<1>3. SentOnce(c)'
  BY SMTT(20)
     DEF Net!Store, Ready, CallOK, CallTyped, SentOnce, Fields, Net!Is, Net!Goes, Net!Stays,
         Net!End, Net!Ends, Net!Waiting, Net!Receiving, Net!Storing, Net!OnlyReads
<1>4. AtOrigin(c)'
  BY SMTT(20)
     DEF Net!Store, Ready, CallOK, CallTyped, AtOrigin, Fields, Net!Is, Net!Goes, Net!Stays,
         Net!End, Net!Ends, Net!SameOrigin
<1>5. Audited(c)'
  BY SMTT(20)
     DEF Net!Store, Ready, CallOK, CallTyped, Audited, Fields, Net!Is, Net!Goes, Net!Stays, Net!End,
         Net!Ends, Net!Waiting, Net!Receiving, Net!Storing
<1>6. OneAnswer(c)'
  BY SMTT(20)
     DEF Net!Store, Ready, CallOK, CallTyped, OneAnswer, Fields, Net!Is, Net!Goes, Net!Stays,
         Net!End, Net!Ends, Net!Waiting, Net!Receiving, Net!Storing, Net!IsSinked
<1> QED
  BY <1>1, <1>2, <1>3, <1>4, <1>5, <1>6 DEF CallOK

LEMMA StoreFailsCounted ==
    ASSUME MaxTurnBytes \in Nat, NEW c \in Requester, Ready(c), Net!StoreFails(c) PROVE Counted(c) /\ CallOK(c)'
<1>1. Counted(c)
  BY SMTT(20)
     DEF Net!StoreFails, Counted, Ready, CallOK, CallTyped, Fields, AtWork, Net!Is, Net!Goes,
         Net!Stays, Net!End, Net!Ends, Net!Released, Net!Waiting, Net!Receiving, Net!Storing,
         Net!OnlyReads, Net!IsSinked
<1>2. CallTyped(c)'
  BY SMTT(20)
     DEF Net!StoreFails, Ready, CallOK, CallTyped, Fields, Net!Is, Net!Goes, Net!Stays, Net!End,
         Net!Ends
<1>3. SentOnce(c)'
  BY SMTT(20)
     DEF Net!StoreFails, Ready, CallOK, CallTyped, SentOnce, Fields, Net!Is, Net!Goes, Net!Stays,
         Net!End, Net!Ends, Net!Waiting, Net!Receiving, Net!Storing, Net!OnlyReads
<1>4. AtOrigin(c)'
  BY SMTT(20)
     DEF Net!StoreFails, Ready, CallOK, CallTyped, AtOrigin, Fields, Net!Is, Net!Goes, Net!Stays,
         Net!End, Net!Ends, Net!SameOrigin
<1>5. Audited(c)'
  BY SMTT(20)
     DEF Net!StoreFails, Ready, CallOK, CallTyped, Audited, Fields, Net!Is, Net!Goes, Net!Stays,
         Net!End, Net!Ends, Net!Waiting, Net!Receiving, Net!Storing
<1>6. OneAnswer(c)'
  BY SMTT(20)
     DEF Net!StoreFails, Ready, CallOK, CallTyped, OneAnswer, Fields, Net!Is, Net!Goes, Net!Stays,
         Net!End, Net!Ends, Net!Waiting, Net!Receiving, Net!Storing, Net!IsSinked
<1> QED
  BY <1>1, <1>2, <1>3, <1>4, <1>5, <1>6 DEF CallOK


LEMMA StepCounted ==
    ASSUME MaxTurnBytes \in Nat, NEW c \in Requester, Ready(c), Net!RequestStep(c)
    PROVE  Counted(c) /\ CallOK(c)'
  BY RefusedCounted, AcquireCounted, AuthorizeCounted, HostRefusedCounted, AbortedCounted,
     WrongTypeCounted, PlanCounted, SendCounted, SendRefusedCounted, FailsCounted, ResponseCounted,
     TruncateCounted, ResetCountersCounted, ChunkCounted, TooLargeCounted, WriteLandsCounted,
     WriteReturnsCounted, RouteFailsCounted, FollowCounted, RedirectRefusedCounted, CompleteCounted,
     PresentCounted, FinishCounted, StoreCounted, StoreFailsCounted
     DEF Net!RequestStep

LEMMA TotalIsTotalOf == \A W, S : Net!TotalOf(W, S) = Total(W, S)
  BY DEF Net!TotalOf, Total, MapThenSumSet, MapThenFoldSet, Net!MapThenSumSet, Net!MapThenFoldSet

LEMMA CountedKeeps ==
    ASSUME IsFiniteSet(Requester), MaxTurnBytes \in Nat, NetInv, NEW c \in Requester, Counted(c), CallOK(c)'
    PROVE  NetInv'
<1>1. DOMAIN v1' = Requester /\ DOMAIN v3' = Requester
  BY DEF Counted
<1>2. \A d \in Requester \ {c} : CallOK(d)'
  BY DEF Counted, NetInv, CallOK, CallTyped, SentOnce, AtOrigin, Audited, OneAnswer
<1>3. \A d \in Requester : /\ v1[d].sends \in Nat /\ v1'[d].sends \in Nat
                           /\ v1[d].bytes \in Nat /\ v1'[d].bytes \in Nat
  BY <1>2 DEF NetInv, CallOK, CallTyped
<1>4. v2'.requests = Net!TotalOf(Sends', Requester)
  <2>1. \A x \in Requester : Sends[x] \in Nat /\ Sends'[x] \in Nat
    BY <1>3 DEF Sends
  <2>2. \A x \in Requester \ {c} : Sends[x] = Sends'[x]
    BY DEF Sends, Counted
  <2>3. Total(Sends, Requester) \in Nat /\ Total(Sends', Requester) = Total(Sends, Requester) - Sends[c] + Sends'[c]
    BY ONLY IsFiniteSet(Requester), c \in Requester, <2>1, <2>2, TotalUpdate
  <2>4. Sends[c] = v1[c].sends /\ Sends'[c] = v1'[c].sends
    BY DEF Sends
  <2> QED
    BY <2>3, <2>4, TotalIsTotalOf DEF Counted, NetInv, TurnOK
<1>5. v2'.bytes = Net!TotalOf(Bytes', Requester)
  <2>1. \A x \in Requester : Bytes[x] \in Nat /\ Bytes'[x] \in Nat
    BY <1>3 DEF Bytes
  <2>2. \A x \in Requester \ {c} : Bytes[x] = Bytes'[x]
    BY DEF Bytes, Counted
  <2>3. Total(Bytes, Requester) \in Nat /\ Total(Bytes', Requester) = Total(Bytes, Requester) - Bytes[c] + Bytes'[c]
    BY ONLY IsFiniteSet(Requester), c \in Requester, <2>1, <2>2, TotalUpdate
  <2>4. Bytes[c] = v1[c].bytes /\ Bytes'[c] = v1'[c].bytes
    BY DEF Bytes
  <2> QED
    BY <2>3, <2>4, TotalIsTotalOf DEF Counted, NetInv, TurnOK
<1>6. IsFiniteSet(Working) /\ IsFiniteSet(Over) /\ IsFiniteSet(Over')
  BY FS_Subset DEF Working, Over
<1>7. v2'.active = Cardinality(Working')
  <2>1. CASE AtWork(c) = AtWork(c)'
    <3>1. Working' = Working
      BY <2>1 DEF Working, AtWork, Counted
    <3> QED
      BY <2>1, <3>1 DEF Counted, NetInv, TurnOK
  <2>2. CASE AtWork(c) /\ ~AtWork(c)'
    <3>1. Working' = Working \ {c} /\ c \in Working
      BY <2>2 DEF Working, AtWork, Counted
    <3>2. Cardinality(Working') = Cardinality(Working) - 1
      BY <1>6, <3>1, FS_RemoveElement
    <3> QED
      BY <2>2, <3>2 DEF Counted, NetInv, TurnOK
  <2>3. CASE ~AtWork(c) /\ AtWork(c)'
    <3>1. Working' = Working \cup {c} /\ c \notin Working
      BY <2>3 DEF Working, AtWork, Counted
    <3>2. Cardinality(Working') = Cardinality(Working) + 1
      BY <1>6, <3>1, FS_AddElement
    <3> QED
      BY <2>3, <3>2 DEF Counted, NetInv, TurnOK
  <2> QED
    BY <2>1, <2>2, <2>3 DEF AtWork
<1>8. v2'.bytes <= MaxTurnBytes + Cardinality(Over')
  <2>1. Over \subseteq Over'
    BY DEF Over, Counted
  <2>2. Cardinality(Over) <= Cardinality(Over') /\ Cardinality(Over) \in Nat /\ Cardinality(Over') \in Nat
    BY <1>6, <2>1, FS_Subset, FS_CardinalityType
  <2>3. v2.bytes \in Int /\ v2.bytes <= MaxTurnBytes + Cardinality(Over)
    <3>1. \A x \in Requester : Bytes[x] \in Nat
      BY <1>3 DEF Bytes
    <3>2. Total(Bytes, Requester) \in Nat
      BY ONLY IsFiniteSet(Requester), c \in Requester, <3>1, TotalUpdate
    <3> QED
      BY <3>2, TotalIsTotalOf DEF NetInv, TurnOK
  <2>4. CASE v2'.bytes = v2.bytes
    BY <2>2, <2>3, <2>4
  <2>5. CASE v2'.bytes <= MaxTurnBytes
    <3>1. v2'.bytes \in Int
      BY <1>3, <2>3 DEF Counted
    <3> QED
      BY <2>2, <2>5, <3>1
  <2>6. CASE v2'.bytes = v2.bytes + 1 /\ v1[c].at # "done" /\ v1'[c].at = "done"
    <3>1. Over' = Over \cup {c} /\ c \notin Over
      BY <2>6 DEF Over, Counted
    <3>2. Cardinality(Over') = Cardinality(Over) + 1
      BY <1>6, <3>1, FS_AddElement
    <3> QED
      BY <2>2, <2>3, <2>6, <3>2
  <2> QED
    BY <2>4, <2>5, <2>6 DEF Counted
<1>9. DOMAIN v2' = {"active", "bytes", "requests"}
  BY DEF Counted
<1> QED
  BY <1>1, <1>2, <1>4, <1>5, <1>7, <1>8, <1>9 DEF NetInv, TurnOK

LEMMA InvReady ==
    ASSUME IsFiniteSet(Requester), NetInv, NEW c \in Requester PROVE Ready(c)
<1>1. \A x \in Requester : Sends[x] \in Nat /\ Bytes[x] \in Nat
  BY DEF Sends, Bytes, NetInv, CallOK, CallTyped
<1>2. Total(Sends, Requester) \in Nat /\ Total(Bytes, Requester) \in Nat
  BY ONLY IsFiniteSet(Requester), c \in Requester, <1>1, TotalUpdate
<1>3. Cardinality(Working) \in Nat
  BY FS_Subset, FS_CardinalityType DEF Working
<1> QED
  BY <1>2, <1>3, TotalIsTotalOf DEF NetInv, TurnOK, Ready

LEMMA NetInitInv == ASSUME IsFiniteSet(Requester), MaxTurnBytes \in Nat, Net!NetInit PROVE NetInv
<1>1. PICK kind \in [Requester -> {"read", "change", "download"}], url \in Net!Url :
          v1 = [c \in Requester |->
                [kind |-> kind[c], at |-> "idle", first |-> url, url |-> url, secret |-> TRUE,
                 hops |-> 0, routes |-> 0, room |-> 0, got |-> 0, bytes |-> 0, answer |-> "ok",
                 attempts |-> 0, sends |-> 0, strayed |-> FALSE, ok |-> FALSE, stored |-> <<>>]]
  BY DEF Net!NetInit
<1>2. DOMAIN v1 = Requester /\ DOMAIN v3 = Requester
  BY <1>1 DEF Net!NetInit
<1>3. \A c \in Requester : CallTyped(c)
  BY <1>1 DEF Net!NetInit, CallTyped, Net!NoSink, Fields
<1>4. \A c \in Requester : SentOnce(c) /\ AtOrigin(c) /\ Audited(c)
  BY <1>1 DEF SentOnce, AtOrigin, Audited, Net!Receiving
<1>5. \A c \in Requester : OneAnswer(c)
  BY <1>1 DEF OneAnswer
<1>6. Working = {} /\ Over = {}
  BY <1>1 DEF Working, Over, Net!Waiting, Net!Receiving
<1>7. \A x \in Requester : Sends[x] = 0 /\ Bytes[x] = 0
  BY <1>1 DEF Sends, Bytes
<1>8. Total(Sends, Requester) = 0 /\ Total(Bytes, Requester) = 0
  BY <1>7, TotalOfZeros
<1>9. Cardinality({}) = 0
  BY FS_EmptySet
<1>10. DOMAIN v2 = {"active", "bytes", "requests"} /\ v2.active = 0 /\ v2.bytes = 0 /\ v2.requests = 0
  BY DEF Net!NetInit
<1>11. TurnOK
  BY <1>6, <1>8, <1>9, <1>10, TotalIsTotalOf DEF TurnOK
<1> QED
  BY <1>2, <1>3, <1>4, <1>5, <1>11 DEF NetInv, CallOK

LEMMA NetNextInv == ASSUME IsFiniteSet(Requester), MaxTurnBytes \in Nat, NetInv, Net!NetNext PROVE NetInv'
  BY InvReady, StepCounted, CountedKeeps DEF Net!NetNext

LEMMA NetSound == ASSUME IsFiniteSet(Requester), MaxTurnBytes \in Nat, NetInv PROVE Net!RequestsSound
<1>1. Net!ChangesOnce
  <2> SUFFICES ASSUME NEW c \in Requester, ~Net!OnlyReads(c) PROVE v1[c].sends <= 1
    BY DEF Net!ChangesOnce
  <2> QED
    BY DEF Net!OnlyReads, NetInv, CallOK, SentOnce
<1>2. Net!HeadersStay
  BY DEF Net!HeadersStay, NetInv, CallOK, AtOrigin
<1>3. Net!DownloadIsOneAnswer
  BY DEF Net!DownloadIsOneAnswer, NetInv, CallOK, OneAnswer, Net!Is
<1>4. Net!BudgetHolds
  <2>1. Working = {c \in Requester : v1[c].at \in Net!Waiting \cup Net!Receiving}
    BY DEF Working
  <2>2. IsFiniteSet(Over) /\ Cardinality(Over) <= Cardinality(Requester) /\ Cardinality(Over) \in Nat /\ Cardinality(Requester) \in Nat
    BY FS_Subset, FS_CardinalityType DEF Over
  <2>3. v2.bytes \in Int \/ Requester = {}
    BY InvReady DEF Ready
  <2>4. v2.bytes <= MaxTurnBytes + Cardinality(Requester)
    <3>1. CASE v2.bytes \in Int
      BY <2>2, <3>1 DEF NetInv, TurnOK
    <3>2. CASE Requester = {}
      <4>1. Over = Requester
        BY <3>2 DEF Over
      <4> QED
        BY <4>1 DEF NetInv, TurnOK
    <3> QED
      BY <2>3, <3>1, <3>2
  <2>5. \A c \in Requester : Net!Is(c, "done") => v1[c].attempts >= v1[c].sends
    BY DEF NetInv, CallOK, Audited, Net!Is, Net!Receiving
  <2> QED
    BY <2>1, <2>4, <2>5
       DEF Net!BudgetHolds, Net!Cardinality, Cardinality, NetInv, TurnOK, Sends, Bytes
<1> QED
  BY <1>1, <1>2, <1>3, <1>4 DEF Net!RequestsSound

\* However the requests of a turn interleave, fail, are redirected or aborted: a change goes out
\* once, headers stay with their origin, the budget counts everything, and a stored download is one
\* answer.
THEOREM RequestsStaySound ==
    ASSUME IsFiniteSet(Requester), MaxTurnBytes \in Nat
    PROVE  MCSpec => []RequestsSound
<1> DEFINE Inv == part = "requests" => NetInv
<1>1. MCInit => Inv
  BY NetInitInv DEF MCInit
<1>2. Inv /\ [MCNext]_vars => Inv'
  <2>1. CASE MCNext
    BY <2>1, NetNextInv DEF MCNext
  <2>2. CASE UNCHANGED vars
    <3>1. part' = part /\ v1' = v1 /\ v2' = v2 /\ v3' = v3 /\ v4' = v4
      BY <2>2 DEF vars, partVars
    <3>2. (\A c \in Requester : CallOK(c)) => \A c \in Requester : CallOK(c)'
      BY <3>1 DEF CallOK, CallTyped, SentOnce, AtOrigin, Audited, OneAnswer
    <3>3. Working' = Working /\ Over' = Over /\ Sends' = Sends /\ Bytes' = Bytes
      BY <3>1 DEF Working, Over, Sends, Bytes
    <3>4. TurnOK => TurnOK'
      BY <3>1, <3>3 DEF TurnOK
    <3> QED
      BY <3>1, <3>2, <3>4 DEF NetInv
  <2> QED
    BY <2>1, <2>2
<1>3. Inv => RequestsSound
  BY NetSound DEF RequestsSound
<1> QED
  BY <1>1, <1>2, <1>3, PTL DEF MCSpec

-----------------------------------------------------------------------------
(* The output of the processes.                                            *)

LEMMA OutputTotal == \A W, S : Out!TotalOf(W, S) = Total(W, S)
  BY DEF Out!TotalOf, Total, MapThenSumSet, MapThenFoldSet, Out!MapThenSumSet, Out!MapThenFoldSet

-----------------------------------------------------------------------------
(* Buffers.                                                                *)

\* Places that are closed downwards are the first ones.
LEMMA FirstOnes ==
    ASSUME NEW n \in Nat, NEW S \in SUBSET (1..n), \A i \in S : \A j \in 1..n : j < i => j \in S
    PROVE  \E k \in 0..n : S = 1..k /\ Cardinality(S) = k
<1> DEFINE Absent == {m \in Nat : m + 1 \notin S}
<1>1. n \in Absent
  OBVIOUS
<1>2. PICK k \in Absent : \A m \in Nat : m < k => m \notin Absent
  <2>1. Absent \subseteq Nat /\ Absent # {}
    BY <1>1
  <2> HIDE DEF Absent
  <2> QED
    BY <2>1, LeastNumber
<1>3. k <= n
  BY <1>1, <1>2
<1>4. \A i \in 1..k : i \in S
  <2> TAKE i \in 1..k
  <2>1. i - 1 \in Nat /\ i - 1 < k
    OBVIOUS
  <2>2. i - 1 \notin Absent
    BY <1>2, <2>1
  <2>3. i - 1 + 1 \in S
    BY <2>1, <2>2
  <2> QED
    BY <2>3
<1>5. \A i \in S : i \in 1..k
  <2> SUFFICES ASSUME NEW i \in S, k < i PROVE FALSE
    BY <1>2
  <2>1. k + 1 <= i /\ k + 1 \in 1..n
    BY <1>2, <1>3
  <2>2. k + 1 \in S
    BY <2>1
  <2> QED
    BY <1>2, <2>2
<1>6. S = 1..k
  BY <1>4, <1>5
<1>7. Cardinality(1..k) = k
  BY <1>2, FS_Interval
<1> QED
  BY <1>2, <1>3, <1>6, <1>7

Piece == [from : Nat, to : Nat, born : Nat]

\* Each chunk has characters and begins where the one before it ended, and they were made in order.
Joined(b) ==
    /\ \A i \in 1..Len(b) : b[i].from < b[i].to
    /\ \A i \in 2..Len(b) : b[i].from = b[i - 1].to /\ b[i - 1].born < b[i].born

\* The chunks hold the characters from first to last.
Covers(b, first, last) ==
    /\ Len(b) = 0 => first = last
    /\ Len(b) > 0 => b[1].from = first /\ b[Len(b)].to = last

LEMMA PieceType ==
    ASSUME NEW b \in Seq(Piece), NEW i \in 1..Len(b)
    PROVE  b[i] \in Piece /\ b[i].from \in Nat /\ b[i].to \in Nat /\ b[i].born \in Nat
<1>1. b[i] \in Piece
  BY ElementOfSeq
<1> QED
  BY <1>1 DEF Piece

LEMMA Ordered ==
    ASSUME NEW b \in Seq(Piece), Joined(b)
    PROVE  \A i \in 1..Len(b) : \A j \in 1..Len(b) : i < j => b[i].to <= b[j].from /\ b[i].born < b[j].born
<1> DEFINE Right(j) == \A i \in 1..Len(b) : i < j => b[i].to <= b[j].from /\ b[i].born < b[j].born
           Bad == {j \in 1..Len(b) : ~Right(j)}
<1>0. Len(b) \in Nat
  OBVIOUS
<1> SUFFICES Bad = {}
  OBVIOUS
<1> SUFFICES ASSUME Bad # {} PROVE FALSE
  OBVIOUS
<1>1. PICK j \in Bad : \A m \in Nat : m < j => m \notin Bad
  <2>1. Bad \subseteq Nat
    BY <1>0
  <2> HIDE DEF Bad
  <2> QED
    BY <2>1, LeastNumber
<1>2. PICK i \in 1..Len(b) : i < j /\ ~(b[i].to <= b[j].from /\ b[i].born < b[j].born)
  BY <1>1
<1>3. j - 1 \in 1..Len(b) /\ j \in 2..Len(b) /\ i <= j - 1 /\ j - 1 \in Nat /\ j - 1 < j /\ j \in 1..Len(b)
  BY <1>0, <1>1, <1>2
<1>4. Right(j - 1)
  BY <1>1, <1>3
<1>5. b[j].from = b[j - 1].to /\ b[j - 1].born < b[j].born /\ b[j - 1].from < b[j - 1].to
  BY <1>3 DEF Joined
<1>6. /\ b[i].to \in Nat /\ b[j].from \in Nat /\ b[i].born \in Nat /\ b[j].born \in Nat
      /\ b[j - 1].from \in Nat /\ b[j - 1].to \in Nat /\ b[j - 1].born \in Nat
  BY <1>2, <1>3, PieceType
<1>7. CASE i = j - 1
  BY <1>2, <1>5, <1>6, <1>7
<1>8. CASE i < j - 1
  <2>1. b[i].to <= b[j - 1].from /\ b[i].born < b[j - 1].born
    BY <1>2, <1>4, <1>8
  <2>2. b[i].to <= b[j].from /\ b[i].born < b[j].born
    <3> HIDE DEF Bad
    <3> QED
      BY <1>5, <1>6, <2>1
  <2> QED
    BY <1>2, <2>2
<1> QED
  BY <1>2, <1>3, <1>7, <1>8

\* The first chunks hold the characters up to the end of the last of them.
LEMMA FirstChars ==
    ASSUME NEW b \in Seq(Piece), Joined(b), NEW k \in 0..Len(b)
    PROVE  Out!Chars(b, 1..k) = IF k = 0 THEN 0 ELSE b[k].to - b[1].from
<1> DEFINE Bad == {j \in 0..Len(b) : ~(Out!Chars(b, 1..j) = IF j = 0 THEN 0 ELSE b[j].to - b[1].from)}
<1>0. Len(b) \in Nat
  OBVIOUS
<1> SUFFICES Bad = {}
  OBVIOUS
<1> SUFFICES ASSUME Bad # {} PROVE FALSE
  OBVIOUS
<1>1. PICK j \in Bad : \A m \in Nat : m < j => m \notin Bad
  <2>1. Bad \subseteq Nat
    BY <1>0
  <2> HIDE DEF Bad
  <2> QED
    BY <2>1, LeastNumber
<1>2. j \in 0..Len(b) /\ ~(Out!Chars(b, 1..j) = IF j = 0 THEN 0 ELSE b[j].to - b[1].from)
  BY <1>1
<1>3. j # 0
  <2>1. 1..0 = {}
    OBVIOUS
  <2>2. Out!Chars(b, {}) = 0
    BY TotalOfNone, OutputTotal DEF Out!Chars
  <2> QED
    BY <1>2, <2>1, <2>2
<1>4. j - 1 \in 0..Len(b) /\ j - 1 \in Nat /\ j - 1 < j /\ j \in 1..Len(b)
  BY <1>0, <1>2, <1>3
<1>5. Out!Chars(b, 1..(j - 1)) = IF j - 1 = 0 THEN 0 ELSE b[j - 1].to - b[1].from
  BY <1>1, <1>4
<1>6. Out!Chars(b, 1..j) = Out!Length(b[j]) + Out!Chars(b, 1..(j - 1))
  <2> DEFINE W == [i \in 1..j |-> Out!Length(b[i])]
             V == [i \in 1..(j - 1) |-> Out!Length(b[i])]
  <2>1. \A i \in 1..j : W[i] \in Nat
    <3> TAKE i \in 1..j
    <3>1. i \in 1..Len(b)
      BY <1>4
    <3>2. b[i].from \in Nat /\ b[i].to \in Nat /\ b[i].from < b[i].to
      BY <3>1, PieceType DEF Joined
    <3> QED
      BY <3>2 DEF Out!Length
  <2>2. IsFiniteSet(1..j) /\ IsFiniteSet(1..(j - 1)) /\ (1..j) \ {j} = 1..(j - 1) /\ j \in 1..j
    <3>1. j \in Nat \ {0}
      BY <1>0, <1>4
    <3>2. IsFiniteSet(1..j) /\ IsFiniteSet(1..(j - 1))
      BY <3>1, FS_Interval
    <3>3. (1..j) \ {j} = 1..(j - 1) /\ j \in 1..j
      BY <3>1
    <3> QED
      BY <3>2, <3>3
  <2>3. Total(W, 1..j) = W[j] + Total(W, (1..j) \ {j})
    <3> HIDE DEF W
    <3> QED
      BY <2>1, <2>2, TotalWithout
  <2>4. \A i \in 1..(j - 1) : W[i] = V[i]
    BY <1>4
  <2>5. Total(W, 1..(j - 1)) = Total(V, 1..(j - 1))
    <3> HIDE DEF W, V
    <3> QED
      BY <2>2, <2>4, TotalSame
  <2>6. Out!Chars(b, 1..j) = Total(W, 1..j) /\ Out!Chars(b, 1..(j - 1)) = Total(V, 1..(j - 1))
    BY OutputTotal DEF Out!Chars
  <2>7. W[j] = Out!Length(b[j])
    BY <2>2
  <2> HIDE DEF W, V
  <2> QED
    BY <2>2, <2>3, <2>5, <2>6, <2>7
<1>7. b[j].from \in Nat /\ b[j].to \in Nat /\ b[1].from \in Nat
  BY <1>4, PieceType
<1>8. CASE j = 1
  BY <1>2, <1>5, <1>6, <1>7, <1>8 DEF Out!Length
<1>9. CASE j # 1
  <2>1. j \in 2..Len(b) /\ j - 1 \in 1..Len(b)
    BY <1>4, <1>9
  <2>2. b[j].from = b[j - 1].to /\ b[j - 1].to \in Nat
    BY <2>1, PieceType DEF Joined
  <2> QED
    BY <1>2, <1>4, <1>5, <1>6, <1>7, <1>9, <2>2 DEF Out!Length
<1> QED
  BY <1>8, <1>9

LEMMA RetainedIs ==
    ASSUME NEW b \in Seq(Piece), Joined(b), NEW first \in Nat, NEW last \in Nat, Covers(b, first, last)
    PROVE  Out!Retained(b) = last - first /\ Out!Retained(b) \in Nat /\ first <= last
<1>1. DOMAIN b = 1..Len(b) /\ Len(b) \in Nat /\ Len(b) \in 0..Len(b)
  OBVIOUS
<1>2. Out!Retained(b) = IF Len(b) = 0 THEN 0 ELSE b[Len(b)].to - b[1].from
  BY <1>1, FirstChars DEF Out!Retained
<1>3. CASE Len(b) = 0
  BY <1>2, <1>3 DEF Covers
<1>4. CASE Len(b) # 0
  <2>1. 1 \in 1..Len(b) /\ Len(b) \in 1..Len(b)
    BY <1>1, <1>4
  <2>2. b[1].from < b[1].to /\ b[Len(b)].from < b[Len(b)].to
    BY <2>1 DEF Joined
  <2>3. /\ b[1].from \in Nat /\ b[1].to \in Nat /\ b[Len(b)].from \in Nat /\ b[Len(b)].to \in Nat
    BY <2>1, PieceType
  <2>4. Len(b) = 1 \/ b[1].to <= b[Len(b)].from
    BY <1>1, <2>1, Ordered
  <2> QED
    BY <1>1, <1>2, <1>4, <2>2, <2>3, <2>4 DEF Covers
<1> QED
  BY <1>3, <1>4

LEMMA SequenceOf ==
    ASSUME NEW S, NEW n \in Nat, NEW f \in [1..n -> S]
    PROVE  f \in Seq(S) /\ Len(f) = n
<1>1. f \in Seq(S)
  BY SeqDef
<1>2. Len(f) \in Nat /\ 1..Len(f) = 1..n
  BY <1>1, LenProperties
<1>3. \A m \in Nat : Cardinality(1..m) = m
  BY FS_Interval
<1> QED
  BY <1>1, <1>2, <1>3

\* What is left when the first chunks go.
LEMMA WithoutFirst ==
    ASSUME NEW b \in Seq(Piece), NEW going \in SUBSET (1..Len(b)),
           \A i \in going : \A j \in 1..Len(b) : j < i => j \in going
    PROVE  \E k \in 0..Len(b) :
              /\ going = 1..k /\ Out!Without(b, going) \in Seq(Piece)
              /\ Len(Out!Without(b, going)) = Len(b) - k
              /\ \A i \in 1..(Len(b) - k) : Out!Without(b, going)[i] = b[i + k]
<1>0. Len(b) \in Nat
  BY LenProperties
<1>1. PICK k \in 0..Len(b) : going = 1..k /\ Cardinality(going) = k
  BY <1>0, FirstOnes
<1>2. Out!Without(b, going) = SubSeq(b, k + 1, Len(b))
  BY <1>1 DEF Out!Without, Out!Cardinality, Cardinality
<1>3. \A i \in (k + 1)..Len(b) : b[i] \in Piece
  BY <1>0, <1>1, ElementOfSeq
<1>4. k + 1 \in Int /\ Len(b) \in Int
  BY <1>0, <1>1
<1>5. /\ SubSeq(b, k + 1, Len(b)) \in Seq(Piece)
      /\ Len(SubSeq(b, k + 1, Len(b))) = IF k + 1 <= Len(b) THEN Len(b) - (k + 1) + 1 ELSE 0
      /\ \A i \in 1..(Len(b) - (k + 1) + 1) : SubSeq(b, k + 1, Len(b))[i] = b[k + 1 + i - 1]
  BY <1>3, <1>4, SubSeqProperties
<1>6. Len(SubSeq(b, k + 1, Len(b))) = Len(b) - k
  BY <1>0, <1>1, <1>5
<1>7. \A i \in 1..(Len(b) - k) : SubSeq(b, k + 1, Len(b))[i] = b[i + k]
  <2> TAKE i \in 1..(Len(b) - k)
  <2>1. i \in 1..(Len(b) - (k + 1) + 1) /\ k + 1 + i - 1 = i + k
    BY <1>0, <1>1
  <2> QED
    BY <1>5, <2>1
<1> QED
  BY <1>1, <1>2, <1>5, <1>6, <1>7

LEMMA SuffixJoined ==
    ASSUME NEW b \in Seq(Piece), Joined(b), NEW first \in Nat, NEW last \in Nat, Covers(b, first, last),
           NEW k \in 0..Len(b), NEW w \in Seq(Piece), Len(w) = Len(b) - k,
           \A i \in 1..(Len(b) - k) : w[i] = b[i + k]
    PROVE  Joined(w) /\ Covers(w, IF k = 0 THEN first ELSE b[k].to, last)
<1>0. Len(b) \in Nat /\ Len(w) \in Nat
  BY LenProperties
<1>1. \A i \in 1..Len(w) : w[i].from < w[i].to
  <2> TAKE i \in 1..Len(w)
  <2>1. w[i] = b[i + k] /\ i + k \in 1..Len(b)
    BY <1>0
  <2> QED
    BY <2>1 DEF Joined
<1>2. \A i \in 2..Len(w) : w[i].from = w[i - 1].to /\ w[i - 1].born < w[i].born
  <2> TAKE i \in 2..Len(w)
  <2>1. i \in 1..(Len(b) - k) /\ i - 1 \in 1..(Len(b) - k) /\ i + k \in 2..Len(b) /\ i - 1 + k = i + k - 1
    BY <1>0
  <2>2. w[i] = b[i + k] /\ w[i - 1] = b[i + k - 1]
    BY <2>1
  <2> QED
    BY <2>1, <2>2 DEF Joined
<1>3. CASE Len(w) = 0
  <2>1. k = Len(b)
    BY <1>0, <1>3
  <2> QED
    BY <1>0, <1>1, <1>2, <1>3, <2>1 DEF Joined, Covers
<1>4. CASE Len(w) > 0
  <2>1. 1 \in 1..(Len(b) - k) /\ Len(w) \in 1..(Len(b) - k) /\ Len(w) + k = Len(b) /\ Len(b) > 0 /\ 1 + k = k + 1
    BY <1>0, <1>4
  <2>2. w[1] = b[k + 1] /\ w[Len(w)] = b[Len(b)]
    BY <2>1
  <2>3. k # 0 => b[k + 1].from = b[k].to
    <3> SUFFICES ASSUME k # 0 PROVE b[k + 1].from = b[k].to
      OBVIOUS
    <3>1. k + 1 \in 2..Len(b) /\ k + 1 - 1 = k
      BY <1>0, <2>1
    <3> QED
      BY <3>1 DEF Joined
  <2>4. w[1].from = IF k = 0 THEN first ELSE b[k].to
    <3>1. CASE k = 0
      BY <2>1, <2>2, <3>1 DEF Covers
    <3>2. CASE k # 0
      BY <2>2, <2>3, <3>2
    <3> QED
      BY <3>1, <3>2
  <2>5. w[Len(w)].to = last
    BY <2>1, <2>2 DEF Covers
  <2> QED
    BY <1>1, <1>2, <1>4, <2>4, <2>5 DEF Joined, Covers
<1>5. Len(w) = 0 \/ Len(w) > 0
  BY <1>0
<1> QED
  BY <1>3, <1>4, <1>5, Zenon

\* The process's own limit takes characters from the front only.
LEMMA TrimRecordKeeps ==
    ASSUME NEW b \in Seq(Piece), Joined(b), NEW first \in Nat, NEW last \in Nat, Covers(b, first, last),
           first <= last, NEW limit \in Nat
    PROVE  /\ Out!TrimRecord(b, limit) \in Seq(Piece)
           /\ Joined(Out!TrimRecord(b, limit))
           /\ Covers(Out!TrimRecord(b, limit), IF last - first <= limit THEN first ELSE last - limit, last)
           /\ \A i \in 1..Len(Out!TrimRecord(b, limit)) :
                 \E j \in 1..Len(b) : Out!TrimRecord(b, limit)[i].born = b[j].born
<1> DEFINE least == IF b = <<>> THEN 0 ELSE Out!Monus(Out!Last(b).to, limit)
           going == {i \in DOMAIN b : b[i].to <= least}
           w == Out!Without(b, going)
           r == [i \in DOMAIN w |-> [w[i] EXCEPT !.from = Out!Larger(@, least)]]
<1>1. Out!TrimRecord(b, limit) = r
  BY DEF Out!TrimRecord
<1>0. Len(b) \in Nat /\ DOMAIN b = 1..Len(b) /\ (b = <<>> <=> Len(b) = 0)
  BY LenProperties, EmptySeq
<1>2. least \in Nat /\ (Len(b) > 0 => least = IF last > limit THEN last - limit ELSE 0)
  <2>1. CASE Len(b) = 0
    BY <1>0, <2>1
  <2>2. CASE Len(b) > 0
    BY <1>0, <2>2 DEF Covers, Out!Monus, Out!Last
  <2> QED
    BY <1>0, <2>1, <2>2
<1> HIDE DEF least
<1>3. going \in SUBSET (1..Len(b))
  BY <1>0
<1>4. \A i \in going : \A j \in 1..Len(b) : j < i => j \in going
  <2> SUFFICES ASSUME NEW i \in going, NEW j \in 1..Len(b), j < i PROVE j \in going
    OBVIOUS
  <2>1. i \in 1..Len(b) /\ b[i].to <= least
    BY <1>0
  <2>2. b[j].to <= b[i].from /\ b[i].from < b[i].to
    BY <2>1, Ordered DEF Joined
  <2>3. b[j].to \in Nat /\ b[i].from \in Nat /\ b[i].to \in Nat
    BY <2>1, PieceType
  <2> QED
    BY <1>0, <1>2, <2>1, <2>2, <2>3
<1>5. PICK k \in 0..Len(b) :
         /\ going = 1..k /\ w \in Seq(Piece)
         /\ Len(w) = Len(b) - k
         /\ \A i \in 1..(Len(b) - k) : w[i] = b[i + k]
  <2> HIDE DEF going
  <2> QED
    BY <1>3, <1>4, WithoutFirst
<1>15. Len(w) = Len(b) - k
  BY <1>5
<1>16. k \in Int /\ 0 <= k /\ k <= Len(b) /\ Len(b) \in Int
  BY <1>0
<1>6. \A i \in 1..Len(b) : b[i].to <= least <=> i <= k
  BY <1>0, <1>5
<1> HIDE DEF w, going
<1>7. Len(w) \in Nat /\ DOMAIN w = 1..Len(w)
  BY <1>5, LenProperties
<1>8. Joined(w) /\ Covers(w, IF k = 0 THEN first ELSE b[k].to, last)
  BY <1>5, SuffixJoined
<1>9. \A i \in 1..Len(w) : /\ w[i] \in Piece /\ w[i].from \in Nat /\ w[i].to \in Nat
                           /\ w[i].to > least /\ i + k \in 1..Len(b) /\ w[i] = b[i + k]
  <2> TAKE i \in 1..Len(w)
  <2>1. w[i] = b[i + k] /\ i + k \in 1..Len(b) /\ ~(i + k <= k)
    BY <1>0, <1>5, <1>7
  <2>2. w[i] \in Piece /\ w[i].from \in Nat /\ w[i].to \in Nat
    BY <1>5, PieceType
  <2>3. ~(w[i].to <= least)
    BY <1>6, <2>1
  <2> QED
    BY <1>2, <2>1, <2>2, <2>3
<1>10. \A i \in 1..Len(w) : /\ r[i] \in Piece /\ r[i].to = w[i].to /\ r[i].born = w[i].born
                            /\ r[i].from = IF w[i].from > least THEN w[i].from ELSE least
  <2> TAKE i \in 1..Len(w)
  <2>1. r[i] = [w[i] EXCEPT !.from = Out!Larger(@, least)]
    BY <1>7
  <2>2. w[i] \in Piece
    BY <1>9
  <2>3. Out!Larger(w[i].from, least) \in Nat
    BY <1>2, <1>9 DEF Out!Larger
  <2> QED
    BY <2>1, <2>2, <2>3 DEF Piece, Out!Larger
<1>11. r \in Seq(Piece) /\ Len(r) = Len(w) /\ DOMAIN r = 1..Len(w)
  <2>1. r \in [1..Len(w) -> Piece]
    BY <1>7, <1>10
  <2> HIDE DEF r
  <2> QED
    BY <1>7, <2>1, SequenceOf
<1> HIDE DEF r
<1>12. Joined(r)
  <2>1. \A i \in 1..Len(r) : r[i].from < r[i].to
    BY <1>2, <1>8, <1>9, <1>10, <1>11 DEF Joined
  <2>2. \A i \in 2..Len(r) : r[i].from = r[i - 1].to /\ r[i - 1].born < r[i].born
    <3> TAKE i \in 2..Len(r)
    <3>1. i \in 1..Len(w) /\ i - 1 \in 1..Len(w) /\ i \in 2..Len(w)
      BY <1>7, <1>11
    <3>2. w[i].from = w[i - 1].to /\ w[i - 1].born < w[i].born
      BY <1>8, <3>1 DEF Joined
    <3> QED
      BY <1>2, <1>9, <1>10, <3>1, <3>2
  <2> QED
    BY <2>1, <2>2 DEF Joined
<1>13. Covers(r, IF last - first <= limit THEN first ELSE last - limit, last)
  <2>1. CASE Len(b) = 0
    <3>0. k = 0
      BY ONLY <1>16, <2>1
    <3>1. Len(w) = 0
      BY ONLY <1>15, <2>1, <3>0
    <3>2. first = last /\ Len(r) = 0
      BY <1>11, <2>1, <3>1, Zenon DEF Covers
    <3>3. last - first <= limit /\ ~(Len(r) > 0)
      BY <3>2
    <3> QED
      BY <3>2, <3>3 DEF Covers
  <2>2. CASE Len(b) > 0 /\ last - first <= limit
    <3>1. k = 0
      <4>1. 1 \in 1..Len(b) /\ b[1].from = first /\ b[1].from < b[1].to
        BY <1>0, <2>2 DEF Covers, Joined
      <4>2. b[1].to \in Nat
        BY <4>1, PieceType
      <4>3. ~(b[1].to <= least)
        BY <1>2, <2>2, <4>1, <4>2
      <4> QED
        BY <1>6, <4>1, <4>3
    <3>2. Len(r) > 0 /\ 1 \in 1..Len(w) /\ Len(w) \in 1..Len(w) /\ Len(r) = Len(w)
      BY <1>5, <1>7, <1>11, <2>2, <3>1
    <3>3. w[1].from = first /\ w[Len(w)].to = last
      BY <1>8, <3>1, <3>2 DEF Covers
    <3>4. r[1].from = first /\ r[Len(r)].to = last
      BY <1>2, <1>10, <2>2, <3>2, <3>3
    <3> QED
      BY <2>2, <3>2, <3>4 DEF Covers
  <2>3. CASE Len(b) > 0 /\ last - first > limit
    <3>1. least = last - limit /\ least > first
      BY <1>2, <2>3
    <3>2. CASE Len(w) = 0
      <4>1. k = Len(b) /\ Len(b) \in 1..Len(b)
        BY ONLY <1>15, <1>16, <2>3, <3>2
      <4>2. b[Len(b)].to <= least /\ b[Len(b)].to = last
        BY <1>6, <2>3, <4>1 DEF Covers
      <4>3. last - limit = last
        BY <3>1, <4>2
      <4> QED
        BY <1>11, <2>3, <3>2, <4>3 DEF Covers
    <3>3. CASE Len(w) > 0
      <4>1. 1 \in 1..Len(w) /\ Len(w) \in 1..Len(w)
        BY <1>7, <3>3
      <4>2. w[1].from = IF k = 0 THEN first ELSE b[k].to
        BY <1>8, <3>3 DEF Covers
      <4>3. k # 0 => b[k].to <= least
        BY <1>0, <1>6
      <4>4. w[1].from <= least /\ w[1].from \in Nat
        BY <1>9, <3>1, <4>1, <4>2, <4>3
      <4>5. r[1].from = least
        BY <1>2, <1>10, <4>1, <4>4
      <4>6. r[Len(r)].to = last
        BY <1>8, <1>10, <1>11, <3>3, <4>1 DEF Covers
      <4> QED
        BY <1>11, <2>3, <3>1, <3>3, <4>5, <4>6 DEF Covers
    <3> QED
      BY <1>7, <3>2, <3>3
  <2> QED
    BY <1>0, <2>1, <2>2, <2>3
<1>14. \A i \in 1..Len(r) : \E j \in 1..Len(b) : r[i].born = b[j].born
  BY <1>9, <1>10, <1>11
<1> QED
  BY <1>1, <1>11, <1>12, <1>13, <1>14

-----------------------------------------------------------------------------
(* What is appended.                                                       *)

LEMMA Times ==
    ASSUME NEW M \in Nat \ {0}, NEW i \in Nat, NEW j \in Nat, i <= j
    PROVE  i * M \in Nat /\ j * M \in Nat /\ i * M <= j * M /\ (i + 1) * M = i * M + M
<1>1. PICK d \in Nat : j = i + d
  <2>1. j - i \in Nat /\ j = i + (j - i)
    OBVIOUS
  <2> QED
    BY <2>1
<1>2. i * M \in Nat /\ d * M \in Nat /\ j * M = i * M + d * M
  BY <1>1
<1> QED
  BY <1>2

\* Enough chunks, and none too many.
LEMMA ChunkCount ==
    ASSUME NEW n \in Nat \ {0}, NEW M \in Nat \ {0}
    PROVE  LET k == (n + M - 1) \div M IN k \in Nat \ {0} /\ (k - 1) * M < n /\ n <= k * M
<1> DEFINE k == (n + M - 1) \div M
<1>1. k \in Nat /\ (k - 1) * M < n /\ n <= k * M
  OBVIOUS
<1>2. k # 0
  BY <1>1
<1> QED
  BY <1>1, <1>2

LEMMA ChunksHold ==
    ASSUME MaxChunk \in Nat \ {0}, NEW p \in Proc, v2[p] \in Nat, v7 \in Nat, NEW n \in Nat \ {0}
    PROVE  /\ Out!Chunks(p, n) \in Seq(Piece) /\ Len(Out!Chunks(p, n)) > 0
           /\ Joined(Out!Chunks(p, n))
           /\ Covers(Out!Chunks(p, n), v2[p], v2[p] + n)
           /\ \A i \in 1..Len(Out!Chunks(p, n)) : /\ v7 < Out!Chunks(p, n)[i].born
                                              /\ Out!Chunks(p, n)[i].born <= v7 + Len(Out!Chunks(p, n))
<1> DEFINE k == (n + MaxChunk - 1) \div MaxChunk
           c == [i \in 1..k |-> [from |-> v2[p] + (i - 1) * MaxChunk,
                                 to |-> v2[p] + (IF i * MaxChunk < n THEN i * MaxChunk ELSE n),
                                 born |-> v7 + i]]
<1>1. Out!Chunks(p, n) = c
  BY DEF Out!Chunks
<1>2. k \in Nat \ {0} /\ (k - 1) * MaxChunk < n /\ n <= k * MaxChunk
  BY ChunkCount
<1> HIDE DEF k
<1>3. \A i \in 1..k : /\ (i - 1) * MaxChunk \in Nat /\ i * MaxChunk \in Nat
                      /\ i * MaxChunk = (i - 1) * MaxChunk + MaxChunk
                      /\ (i - 1) * MaxChunk < n
                      /\ i < k => i * MaxChunk < n
                      /\ i = k => ~(i * MaxChunk < n)
  <2> TAKE i \in 1..k
  <2>1. i - 1 \in Nat /\ k - 1 \in Nat /\ i - 1 <= k - 1 /\ i - 1 + 1 = i /\ i \in Nat
    BY <1>2
  <2>2. /\ (i - 1) * MaxChunk \in Nat /\ (k - 1) * MaxChunk \in Nat
        /\ (i - 1) * MaxChunk <= (k - 1) * MaxChunk
        /\ i * MaxChunk = (i - 1) * MaxChunk + MaxChunk
    <3>1. (i - 1 + 1) * MaxChunk = (i - 1) * MaxChunk + MaxChunk
      BY <2>1, Times
    <3> QED
      BY <2>1, <3>1, Times
  <2>3. (i - 1) * MaxChunk < n
    BY ONLY <1>2, <2>2, n \in Nat \ {0}
  <2>4. i < k => i * MaxChunk < n
    <3> SUFFICES ASSUME i < k PROVE i * MaxChunk < n
      OBVIOUS
    <3>1. i <= k - 1
      BY <1>2
    <3>2. i * MaxChunk <= (k - 1) * MaxChunk /\ i * MaxChunk \in Nat
      BY <2>1, <3>1, Times
    <3> QED
      BY ONLY <1>2, <2>2, <3>2, n \in Nat \ {0}
  <2>5. i * MaxChunk \in Nat
    BY ONLY <2>2, MaxChunk \in Nat \ {0}
  <2>6. i = k => ~(i * MaxChunk < n)
    <3> SUFFICES ASSUME i = k PROVE ~(i * MaxChunk < n)
      OBVIOUS
    <3>1. n <= i * MaxChunk
      BY <1>2
    <3> QED
      BY ONLY <2>5, <3>1, n \in Nat \ {0}
  <2> QED
    BY <2>2, <2>3, <2>4, <2>5, <2>6
<1>4. \A i \in 1..k : /\ c[i].from = v2[p] + (i - 1) * MaxChunk
                      /\ c[i].to = v2[p] + (IF i * MaxChunk < n THEN i * MaxChunk ELSE n)
                      /\ c[i].born = v7 + i
                      /\ c[i] \in Piece
  <2> TAKE i \in 1..k
  <2>1. c[i] = [from |-> v2[p] + (i - 1) * MaxChunk,
                to |-> v2[p] + (IF i * MaxChunk < n THEN i * MaxChunk ELSE n), born |-> v7 + i]
    OBVIOUS
  <2>2. (i - 1) * MaxChunk \in Nat /\ i * MaxChunk \in Nat
    BY <1>3
  <2> HIDE DEF c
  <2>3. /\ v2[p] + (i - 1) * MaxChunk \in Nat
        /\ v2[p] + (IF i * MaxChunk < n THEN i * MaxChunk ELSE n) \in Nat
        /\ v7 + i \in Nat
    BY <1>2, <2>2
  <2> QED
    BY <2>1, <2>3 DEF Piece
<1>5. c \in Seq(Piece) /\ Len(c) = k
  <2>1. c \in [1..k -> Piece]
    BY <1>4
  <2> HIDE DEF c
  <2> QED
    BY <1>2, <2>1, SequenceOf
<1> HIDE DEF c
<1>6. Joined(c)
  <2>1. \A i \in 1..k : c[i].from < c[i].to
    <3> TAKE i \in 1..k
    <3>1. /\ (i - 1) * MaxChunk \in Nat /\ i * MaxChunk = (i - 1) * MaxChunk + MaxChunk
          /\ (i - 1) * MaxChunk < n
      BY <1>3
    <3>2. /\ c[i].from = v2[p] + (i - 1) * MaxChunk
          /\ c[i].to = v2[p] + (IF i * MaxChunk < n THEN i * MaxChunk ELSE n)
      BY <1>4
    <3> QED
      BY ONLY <3>1, <3>2, n \in Nat \ {0}, MaxChunk \in Nat \ {0}, v2[p] \in Nat
  <2>2. \A i \in 2..k : c[i].from = c[i - 1].to /\ c[i - 1].born < c[i].born
    <3> TAKE i \in 2..k
    <3>1. i - 1 \in 1..k /\ i \in 1..k /\ i - 1 < k
      BY <1>2
    <3>2. (i - 1) * MaxChunk < n
      BY <1>3, <3>1
    <3>3. c[i - 1].to = v2[p] + (i - 1) * MaxChunk /\ c[i].from = v2[p] + (i - 1) * MaxChunk
      BY <1>4, <3>1, <3>2
    <3>4. c[i - 1].born < c[i].born
      BY <1>4, <3>1
    <3> QED
      BY <3>3, <3>4
  <2> QED
    BY <1>5, <2>1, <2>2 DEF Joined
<1>7. Covers(c, v2[p], v2[p] + n)
  <2>1. 1 \in 1..k /\ k \in 1..k /\ k > 0
    BY <1>2
  <2>2. c[1].from = v2[p]
    <3>1. c[1].from = v2[p] + (1 - 1) * MaxChunk
      BY <1>4, <2>1
    <3>2. (1 - 1) * MaxChunk = 0
      OBVIOUS
    <3> QED
      BY <3>1, <3>2
  <2>3. c[k].to = v2[p] + n
    BY <1>3, <1>4, <2>1
  <2> QED
    BY <1>5, <2>1, <2>2, <2>3 DEF Covers
<1>8. \A i \in 1..Len(c) : v7 < c[i].born /\ c[i].born <= v7 + Len(c)
  BY <1>2, <1>4, <1>5
<1> QED
  BY <1>1, <1>2, <1>5, <1>6, <1>7, <1>8

\* Chunks that go on where a buffer ends join it.
LEMMA Appended ==
    ASSUME NEW b \in Seq(Piece), Joined(b), NEW first \in Nat, NEW middle \in Nat, Covers(b, first, middle),
           NEW c \in Seq(Piece), Joined(c), NEW last \in Nat, Covers(c, middle, last), Len(c) > 0,
           \A i \in 1..Len(b), j \in 1..Len(c) : b[i].born < c[j].born
    PROVE  /\ b \o c \in Seq(Piece) /\ Len(b \o c) = Len(b) + Len(c) /\ Joined(b \o c)
           /\ Covers(b \o c, first, last)
           /\ \A i \in 1..Len(b \o c) : \/ \E j \in 1..Len(b) : (b \o c)[i] = b[j]
                                        \/ \E j \in 1..Len(c) : (b \o c)[i] = c[j]
<1>0. Len(b) \in Nat /\ Len(c) \in Nat
  BY LenProperties
<1> DEFINE d == b \o c
<1>1. d \in Seq(Piece) /\ Len(d) = Len(b) + Len(c)
  BY ConcatProperties
<1>2. \A i \in 1..(Len(b) + Len(c)) : d[i] = IF i <= Len(b) THEN b[i] ELSE c[i - Len(b)]
  BY ConcatProperties
<1> HIDE DEF d
<1> DEFINE lb == Len(b)
           lc == Len(c)
<1>3. lb \in Nat /\ lc \in Nat /\ lc > 0 /\ Len(d) = lb + lc
  BY <1>0, <1>1
<1>4. \A i \in 1..(lb + lc) : d[i] = IF i <= lb THEN b[i] ELSE c[i - lb]
  BY <1>2
<1>5. /\ \A i \in 1..lb : b[i].from < b[i].to
      /\ \A i \in 2..lb : b[i].from = b[i - 1].to /\ b[i - 1].born < b[i].born
      /\ \A i \in 1..lc : c[i].from < c[i].to
      /\ \A i \in 2..lc : c[i].from = c[i - 1].to /\ c[i - 1].born < c[i].born
  BY DEF Joined
<1>6. /\ lb = 0 => first = middle
      /\ lb > 0 => b[1].from = first /\ b[lb].to = middle
      /\ c[1].from = middle /\ c[lc].to = last
  BY DEF Covers
<1>7. \A i \in 1..lb, j \in 1..lc : b[i].born < c[j].born
  OBVIOUS
<1>8. \A i \in 1..(lb + lc) : \/ i \in 1..lb /\ d[i] = b[i]
                              \/ i > lb /\ i - lb \in 1..lc /\ d[i] = c[i - lb]
  BY ONLY <1>3, <1>4
<1> HIDE DEF lb, lc
<1>9. \A i \in 1..(lb + lc) : d[i].from < d[i].to
  BY ONLY <1>3, <1>5, <1>8
<1>10. \A i \in 2..(lb + lc) : d[i].from = d[i - 1].to /\ d[i - 1].born < d[i].born
  <2> TAKE i \in 2..(lb + lc)
  <2>1. CASE i <= lb
    <3>1. d[i] = b[i] /\ d[i - 1] = b[i - 1] /\ i \in 2..lb
      BY ONLY <1>3, <1>4, <2>1, i \in 2..(lb + lc)
    <3> QED
      BY <1>5, <3>1
  <2>2. CASE i = lb + 1
    <3>1. i - lb = 1 /\ i - 1 = lb /\ lb \in 1..lb /\ lb > 0 /\ 1 \in 1..lc
      BY ONLY <1>3, <2>2, i \in 2..(lb + lc)
    <3>2. d[i] = c[1] /\ d[i - 1] = b[lb]
      <4>1. i \in 1..(lb + lc) /\ i - 1 \in 1..(lb + lc) /\ ~(i <= lb) /\ i - 1 <= lb
        BY ONLY <1>3, <2>2, <3>1, i \in 2..(lb + lc)
      <4> QED
        BY ONLY <1>4, <3>1, <4>1
    <3> QED
      BY <1>6, <1>7, <3>1, <3>2
  <2>3. CASE i > lb + 1
    <3>1. d[i] = c[i - lb] /\ d[i - 1] = c[i - lb - 1] /\ i - lb \in 2..lc
      <4>1. i \in 1..(lb + lc) /\ i - 1 \in 1..(lb + lc) /\ ~(i <= lb) /\ ~(i - 1 <= lb) /\ i - 1 - lb = i - lb - 1
            /\ i - lb \in 2..lc
        BY ONLY <1>3, <2>3, i \in 2..(lb + lc)
      <4> QED
        BY <1>4, <4>1
    <3> QED
      BY <1>5, <3>1
  <2> QED
    BY <1>3, <2>1, <2>2, <2>3
<1>11. Len(d) > 0 /\ d[1].from = first /\ d[lb + lc].to = last
  <2>1. lb + lc > 0 /\ lb + lc \in 1..(lb + lc) /\ 1 \in 1..(lb + lc) /\ lb + lc - lb = lc /\ ~(lb + lc <= lb)
    BY ONLY <1>3
  <2>2. d[lb + lc] = c[lc]
    BY ONLY <1>3, <1>4, <2>1
  <2>3. CASE lb = 0
    <3>1. d[1] = c[1]
      BY ONLY <1>3, <1>4, <2>1, <2>3
    <3> QED
      BY <1>3, <1>6, <2>1, <2>2, <2>3, <3>1
  <2>4. CASE lb > 0
    <3>1. d[1] = b[1]
      BY ONLY <1>3, <1>4, <2>1, <2>4
    <3> QED
      BY <1>3, <1>6, <2>1, <2>2, <2>4, <3>1
  <2> QED
    BY <1>3, <2>3, <2>4
<1>12. Joined(d) /\ Covers(d, first, last)
  BY <1>3, <1>9, <1>10, <1>11 DEF Joined, Covers
<1>13. \A i \in 1..Len(d) : \/ \E j \in 1..lb : d[i] = b[j]
                            \/ \E j \in 1..lc : d[i] = c[j]
  BY <1>3, <1>8
<1> QED
  BY <1>1, <1>12, <1>13 DEF d, lb, lc

-----------------------------------------------------------------------------
(* What all records together may hold.                                     *)

\* A buffer as it is kept for a record.
IsBuffer(b) == b \in Seq(Piece) /\ Joined(b) /\ \E first, last \in Nat : Covers(b, first, last)

OlderPlaces(b, born) == {i \in DOMAIN b : b[i].born < born}

LEMMA OlderAreFirst ==
    ASSUME NEW b, IsBuffer(b), NEW born \in Nat
    PROVE  \E k \in 0..Len(b) : /\ OlderPlaces(b, born) = 1..k
                                /\ Out!Chars(b, OlderPlaces(b, born)) = IF k = 0 THEN 0 ELSE b[k].to - b[1].from
                                /\ Out!Chars(b, OlderPlaces(b, born)) \in Nat
<1>0. Len(b) \in Nat /\ DOMAIN b = 1..Len(b) /\ b \in Seq(Piece) /\ Joined(b)
  BY LenProperties DEF IsBuffer
<1> DEFINE S == OlderPlaces(b, born)
<1>1. S \in SUBSET (1..Len(b))
  BY <1>0 DEF OlderPlaces
<1>2. \A i \in S : \A j \in 1..Len(b) : j < i => j \in S
  <2> SUFFICES ASSUME NEW i \in S, NEW j \in 1..Len(b), j < i PROVE j \in S
    OBVIOUS
  <2>1. i \in 1..Len(b) /\ b[i].born < born
    BY <1>0 DEF OlderPlaces
  <2>2. b[j].born < b[i].born
    BY <1>0, <2>1, Ordered
  <2>3. b[j].born \in Nat /\ b[i].born \in Nat
    BY <1>0, <2>1, PieceType
  <2> QED
    BY <1>0, <2>1, <2>2, <2>3 DEF OlderPlaces
<1>3. PICK k \in 0..Len(b) : S = 1..k
  <2> HIDE DEF S
  <2> QED
    BY <1>0, <1>1, <1>2, FirstOnes
<1>4. Out!Chars(b, S) = IF k = 0 THEN 0 ELSE b[k].to - b[1].from
  BY <1>0, <1>3, FirstChars
<1>5. k # 0 => b[k].to - b[1].from \in Nat
  <2> SUFFICES ASSUME k # 0 PROVE b[k].to - b[1].from \in Nat
    OBVIOUS
  <2>1. 1 \in 1..Len(b) /\ k \in 1..Len(b) /\ (1 < k \/ k = 1)
    BY <1>0
  <2>2. b[1].from < b[1].to /\ b[k].from < b[k].to
    BY <1>0, <2>1 DEF Joined
  <2>3. k = 1 \/ b[1].to <= b[k].from
    BY <1>0, <2>1, Ordered
  <2>4. b[1].from \in Nat /\ b[1].to \in Nat /\ b[k].from \in Nat /\ b[k].to \in Nat
    BY <1>0, <2>1, PieceType
  <2> QED
    BY <2>2, <2>3, <2>4
<1> QED
  BY <1>3, <1>4, <1>5

LEMMA OlderGrows ==
    ASSUME NEW b, IsBuffer(b), NEW x \in Nat, NEW y \in Nat, x <= y
    PROVE  /\ Out!Chars(b, OlderPlaces(b, x)) \in Nat /\ Out!Chars(b, OlderPlaces(b, y)) \in Nat
           /\ Out!Chars(b, OlderPlaces(b, x)) <= Out!Chars(b, OlderPlaces(b, y))
<1>0. Len(b) \in Nat /\ b \in Seq(Piece) /\ Joined(b) /\ DOMAIN b = 1..Len(b)
  BY LenProperties DEF IsBuffer
<1>1. PICK k \in 0..Len(b) : /\ OlderPlaces(b, x) = 1..k
                             /\ Out!Chars(b, OlderPlaces(b, x)) = IF k = 0 THEN 0 ELSE b[k].to - b[1].from
                             /\ Out!Chars(b, OlderPlaces(b, x)) \in Nat
  BY OlderAreFirst
<1>2. PICK l \in 0..Len(b) : /\ OlderPlaces(b, y) = 1..l
                             /\ Out!Chars(b, OlderPlaces(b, y)) = IF l = 0 THEN 0 ELSE b[l].to - b[1].from
                             /\ Out!Chars(b, OlderPlaces(b, y)) \in Nat
  BY OlderAreFirst
<1>3. OlderPlaces(b, x) \subseteq OlderPlaces(b, y)
  <2> SUFFICES ASSUME NEW i \in OlderPlaces(b, x) PROVE i \in OlderPlaces(b, y)
    OBVIOUS
  <2>1. i \in 1..Len(b) /\ b[i].born < x
    BY <1>0 DEF OlderPlaces
  <2>2. b[i].born \in Nat
    BY <1>0, <2>1, PieceType
  <2> QED
    BY <1>0, <2>1, <2>2 DEF OlderPlaces
<1>4. k <= l
  <2>1. k # 0 => k \in 1..l
    BY <1>0, <1>1, <1>2, <1>3
  <2> QED
    BY <1>0, <2>1
<1>5. CASE k = 0
  BY <1>1, <1>2, <1>5
<1>6. CASE k # 0 /\ k = l
  BY <1>1, <1>2, <1>6
<1>7. CASE k # 0 /\ k < l
  <2>1. k \in 1..Len(b) /\ l \in 1..Len(b) /\ 1 \in 1..Len(b)
    BY <1>0, <1>7
  <2>2. b[k].to <= b[l].from /\ b[l].from < b[l].to
    BY <1>0, <1>7, <2>1, Ordered DEF Joined
  <2>3. b[k].to \in Nat /\ b[l].from \in Nat /\ b[l].to \in Nat /\ b[1].from \in Nat
    BY <1>0, <2>1, PieceType
  <2>4. b[k].to - b[1].from <= b[l].to - b[1].from
    BY <2>2, <2>3
  <2>5. l # 0
    BY <2>1
  <2> QED
    BY <1>1, <1>2, <1>7, <2>4, <2>5
<1>8. k = l \/ k < l
  BY <1>0, <1>4
<1> QED
  BY <1>5, <1>6, <1>7, <1>8

\* What the kept records hold that is older than a chunk, and all of it.
OlderIn(buffers, born) == [q \in Out!Kept |-> Out!Chars(buffers[q], OlderPlaces(buffers[q], born))]
HeldIn(buffers) == [q \in Out!Kept |-> Out!Retained(buffers[q])]

LEMMA OlderIs == \A buffers, born : Out!Older(buffers, born) = Total(OlderIn(buffers, born), Out!Kept)
  BY OutputTotal DEF Out!Older, OlderIn, OlderPlaces

LEMMA OlderTotalGrows ==
    ASSUME IsFiniteSet(Out!Kept), NEW buffers, \A q \in Out!Kept : IsBuffer(buffers[q]),
           NEW x \in Nat, NEW y \in Nat, x <= y
    PROVE  Out!Older(buffers, x) \in Nat /\ Out!Older(buffers, y) \in Nat /\ Out!Older(buffers, x) <= Out!Older(buffers, y)
<1>1. \A q \in Out!Kept : /\ OlderIn(buffers, x)[q] \in Nat /\ OlderIn(buffers, y)[q] \in Nat
                      /\ OlderIn(buffers, x)[q] <= OlderIn(buffers, y)[q]
  BY OlderGrows DEF OlderIn
<1> QED
  BY <1>1, TotalGrows, OlderIs

Goes(buffers, sum, q) ==
    {i \in DOMAIN buffers[q] : Out!Monus(sum, Out!Older(buffers, buffers[q][i].born)) > MaxGlobal}

\* The limit of all records takes whole chunks from the front of a buffer.
LEMMA TrimGlobalTakesFirst ==
    ASSUME IsFiniteSet(Out!Kept), NEW buffers, \A q \in Out!Kept : IsBuffer(buffers[q]),
           NEW sum \in Nat, MaxGlobal \in Nat, NEW q \in Out!Kept
    PROVE  \E k \in 0..Len(buffers[q]) :
              /\ Out!TrimGlobal(buffers, sum)[q] \in Seq(Piece)
              /\ Len(Out!TrimGlobal(buffers, sum)[q]) = Len(buffers[q]) - k
              /\ \A i \in 1..(Len(buffers[q]) - k) :
                    /\ Out!TrimGlobal(buffers, sum)[q][i] = buffers[q][i + k]
                    /\ i + k \notin Goes(buffers, sum, q)
<1> DEFINE b == buffers[q]
           going == Goes(buffers, sum, q)
<1>0. b \in Seq(Piece) /\ Len(b) \in Nat /\ DOMAIN b = 1..Len(b) /\ Joined(b)
  BY LenProperties DEF IsBuffer
<1>1. q \in Proc /\ Out!TrimGlobal(buffers, sum)[q] = Out!Without(b, going)
  BY DEF Out!TrimGlobal, Goes, Out!Kept
<1>2. going \in SUBSET (1..Len(b))
  BY <1>0 DEF Goes
<1>3. \A i \in going : \A j \in 1..Len(b) : j < i => j \in going
  <2> SUFFICES ASSUME NEW i \in going, NEW j \in 1..Len(b), j < i PROVE j \in going
    OBVIOUS
  <2>1. i \in 1..Len(b) /\ Out!Monus(sum, Out!Older(buffers, b[i].born)) > MaxGlobal
    BY <1>0 DEF Goes
  <2>2. b[j].born \in Nat /\ b[i].born \in Nat /\ b[j].born <= b[i].born
    BY <1>0, <2>1, Ordered, PieceType
  <2>3. /\ Out!Older(buffers, b[j].born) \in Nat /\ Out!Older(buffers, b[i].born) \in Nat
        /\ Out!Older(buffers, b[j].born) <= Out!Older(buffers, b[i].born)
    <3> HIDE DEF b
    <3> QED
      BY <2>2, OlderTotalGrows
  <2>4. Out!Monus(sum, Out!Older(buffers, b[j].born)) > MaxGlobal
    <3> HIDE DEF b
    <3> QED
      BY <2>1, <2>3 DEF Out!Monus
  <2> QED
    BY <1>0, <2>4 DEF Goes
<1> HIDE DEF b, going
<1>4. PICK k \in 0..Len(b) :
         /\ going = 1..k /\ Out!Without(b, going) \in Seq(Piece)
         /\ Len(Out!Without(b, going)) = Len(b) - k
         /\ \A i \in 1..(Len(b) - k) : Out!Without(b, going)[i] = b[i + k]
  BY <1>0, <1>2, <1>3, WithoutFirst
<1>5. \A i \in 1..(Len(b) - k) : i + k \notin going
  BY <1>0, <1>4
<1> QED
  BY <1>1, <1>4, <1>5 DEF b, going

LEMMA TrimGlobalKeeps ==
    ASSUME IsFiniteSet(Out!Kept), NEW buffers, \A q \in Out!Kept : IsBuffer(buffers[q]),
           NEW sum \in Nat, MaxGlobal \in Nat, NEW q \in Out!Kept,
           NEW first \in Nat, NEW last \in Nat, Covers(buffers[q], first, last)
    PROVE  LET after == Out!TrimGlobal(buffers, sum)[q] IN
           /\ after \in Seq(Piece) /\ Joined(after)
           /\ \E begin \in Nat : first <= begin /\ begin <= last /\ Covers(after, begin, last)
           /\ \A i \in 1..Len(after) : \E j \in 1..Len(buffers[q]) : after[i] = buffers[q][j]
<1> DEFINE b == buffers[q]
           after == Out!TrimGlobal(buffers, sum)[q]
<1>0. b \in Seq(Piece) /\ Len(b) \in Nat /\ Joined(b)
  BY LenProperties DEF IsBuffer
<1>1. PICK k \in 0..Len(b) :
         /\ after \in Seq(Piece)
         /\ Len(after) = Len(b) - k
         /\ \A i \in 1..(Len(b) - k) : after[i] = b[i + k]
  <2>1. PICK k \in 0..Len(buffers[q]) :
            /\ after \in Seq(Piece)
            /\ Len(after) = Len(buffers[q]) - k
            /\ \A i \in 1..(Len(buffers[q]) - k) :
                  after[i] = buffers[q][i + k] /\ i + k \notin Goes(buffers, sum, q)
    BY TrimGlobalTakesFirst
  <2> HIDE DEF after
  <2>2. \A i \in 1..(Len(buffers[q]) - k) : after[i] = buffers[q][i + k]
    BY <2>1
  <2> QED
    BY <2>1, <2>2
<1> HIDE DEF b, after
<1>2. Joined(after) /\ Covers(after, IF k = 0 THEN first ELSE b[k].to, last)
  BY <1>0, <1>1, SuffixJoined DEF b
<1>3. (IF k = 0 THEN first ELSE b[k].to) \in Nat /\ first <= (IF k = 0 THEN first ELSE b[k].to)
  <2>1. CASE k = 0
    BY <2>1
  <2>2. CASE k # 0
    <3>1. k \in 1..Len(b) /\ 1 \in 1..Len(b) /\ Len(b) > 0 /\ (k = 1 \/ 1 < k)
      BY <1>0, <2>2
    <3>2. b[1].from = first /\ b[1].from < b[1].to /\ b[k].from < b[k].to
      BY <3>1, <1>0 DEF Covers, Joined, b
    <3>3. k = 1 \/ b[1].to <= b[k].from
      BY <1>0, <3>1, Ordered
    <3>4. b[1].to \in Nat /\ b[k].from \in Nat /\ b[k].to \in Nat
      BY <1>0, <3>1, PieceType
    <3> QED
      BY <2>2, <3>2, <3>3, <3>4
  <2> QED
    BY <2>1, <2>2
<1>4. (IF k = 0 THEN first ELSE b[k].to) <= last
  BY <1>1, <1>2, <1>3, RetainedIs
<1>5. \A i \in 1..Len(after) : \E j \in 1..Len(b) : after[i] = b[j]
  <2> TAKE i \in 1..Len(after)
  <2>1. i + k \in 1..Len(b) /\ after[i] = b[i + k]
    BY <1>0, <1>1
  <2> QED
    BY <2>1
<1> QED
  BY <1>1, <1>2, <1>3, <1>4, <1>5 DEF b, after

\* Where all that is left is at least as young as a chunk, the older ones went.
LEMMA LeftAndOlder ==
    ASSUME IsFiniteSet(Out!Kept), NEW buffers, \A q \in Out!Kept : IsBuffer(buffers[q]),
           NEW sum \in Nat, MaxGlobal \in Nat, NEW q \in Out!Kept, NEW x \in Nat,
           \A i \in DOMAIN Out!TrimGlobal(buffers, sum)[q] : x <= Out!TrimGlobal(buffers, sum)[q][i].born
    PROVE  /\ Out!Retained(Out!TrimGlobal(buffers, sum)[q]) \in Nat
           /\ Out!Chars(buffers[q], OlderPlaces(buffers[q], x)) \in Nat
           /\ Out!Retained(buffers[q]) \in Nat
           /\ Out!Retained(Out!TrimGlobal(buffers, sum)[q]) + Out!Chars(buffers[q], OlderPlaces(buffers[q], x))
                 <= Out!Retained(buffers[q])
<1> DEFINE b == buffers[q]
           after == Out!TrimGlobal(buffers, sum)[q]
<1>0. b \in Seq(Piece) /\ Len(b) \in Nat /\ Joined(b) /\ IsBuffer(b)
  BY LenProperties DEF IsBuffer
<1>1. PICK first \in Nat, last \in Nat : Covers(b, first, last)
  BY <1>0 DEF IsBuffer
<1>2. PICK k \in 0..Len(b) :
         /\ after \in Seq(Piece)
         /\ Len(after) = Len(b) - k
         /\ \A i \in 1..(Len(b) - k) : after[i] = b[i + k]
  BY TrimGlobalTakesFirst
<1>3. \A i \in DOMAIN after : x <= after[i].born
  OBVIOUS
<1> HIDE DEF b, after
<1>4. DOMAIN after = 1..Len(after) /\ Len(after) \in Nat
  BY <1>2, LenProperties
<1>5. Joined(after) /\ Covers(after, IF k = 0 THEN first ELSE b[k].to, last)
  BY <1>0, <1>1, <1>2, SuffixJoined
<1>6. PICK l \in 0..Len(b) : /\ OlderPlaces(b, x) = 1..l
                             /\ Out!Chars(b, OlderPlaces(b, x)) = IF l = 0 THEN 0 ELSE b[l].to - b[1].from
                             /\ Out!Chars(b, OlderPlaces(b, x)) \in Nat
  BY <1>0, OlderAreFirst
<1>7. Out!Retained(b) = last - first /\ Out!Retained(b) \in Nat
  BY <1>0, <1>1, RetainedIs
<1>8. \A i \in 1..Len(b) : /\ b[i].to \in Nat /\ b[i].to <= last
                           /\ \A j \in 1..Len(b) : i <= j => b[i].to <= b[j].to
  <2> TAKE i \in 1..Len(b)
  <2>0. \A j \in 1..Len(b) : b[j].from \in Nat /\ b[j].to \in Nat /\ b[j].from < b[j].to
    BY <1>0, PieceType DEF Joined
  <2>1. \A j \in 1..Len(b) : i < j => b[i].to <= b[j].from
    BY <1>0, Ordered
  <2>2. \A j \in 1..Len(b) : i <= j => b[i].to <= b[j].to
    <3> TAKE j \in 1..Len(b)
    <3>1. i < j => b[i].to <= b[j].to
      BY <2>0, <2>1
    <3>2. i = j => b[i].to <= b[j].to
      BY <2>0
    <3> QED
      BY <3>1, <3>2
  <2>3. Len(b) \in 1..Len(b) /\ i <= Len(b) /\ Len(b) > 0
    BY <1>0
  <2>4. b[Len(b)].to = last
    BY <1>1, <2>3 DEF Covers
  <2> QED
    BY <2>0, <2>2, <2>3, <2>4
<1>9. CASE Len(after) = 0
  <2>1. Out!Retained(after) = 0
    <3>0. 0 \in 0..Len(after)
      BY <1>4
    <3>1. Out!Chars(after, 1..0) = 0
      BY <1>2, <1>5, <3>0, FirstChars
    <3> QED
      BY <1>4, <1>9, <3>1 DEF Out!Retained
  <2>2. Out!Chars(b, OlderPlaces(b, x)) <= Out!Retained(b)
    <3>1. CASE l = 0
      BY <1>6, <1>7, <3>1
    <3>2. CASE l # 0
      <4>1. l \in 1..Len(b) /\ Len(b) > 0
        BY <1>0, <3>2
      <4>2. b[1].from = first /\ b[l].to <= last /\ b[l].to \in Nat
        BY <1>1, <1>8, <4>1 DEF Covers
      <4> QED
        BY <1>6, <1>7, <3>2, <4>2
    <3> QED
      BY <3>1, <3>2
  <2> QED
    BY <1>6, <1>7, <2>1, <2>2 DEF b, after
<1>10. CASE Len(after) # 0
  <2>1. 1 \in 1..Len(after) /\ 1 \in 1..(Len(b) - k) /\ k + 1 \in 1..Len(b) /\ Len(b) > 0
    BY <1>0, <1>2, <1>4, <1>10
  <2>2. after[1] = b[k + 1] /\ x <= after[1].born
    <3>1. after[1] = b[1 + k]
      BY <1>2, <2>1
    <3> QED
      BY <1>3, <1>4, <2>1, <3>1
  <2>3. k + 1 \notin OlderPlaces(b, x)
    <3>1. b[k + 1].born \in Nat
      BY <1>0, <2>1, PieceType
    <3> QED
      BY <2>2, <3>1 DEF OlderPlaces
  <2>4. l <= k
    BY <1>0, <1>6, <2>1, <2>3
  <2>5. (IF k = 0 THEN first ELSE b[k].to) \in Nat
    BY <1>0, <1>8
  <2>6. Out!Retained(after) = last - (IF k = 0 THEN first ELSE b[k].to) /\ Out!Retained(after) \in Nat
    BY <1>2, <1>5, <2>5, RetainedIs
  <2>7. b[1].from = first
    BY <1>1, <2>1 DEF Covers
  <2>8. CASE l = 0
    <3>1. first <= (IF k = 0 THEN first ELSE b[k].to)
      <4>1. CASE k # 0
        <5>1. 1 \in 1..Len(b) /\ k \in 1..Len(b) /\ 1 <= k
          BY <1>0, <2>1, <4>1
        <5>2. b[1].to <= b[k].to /\ b[1].from < b[1].to /\ b[1].to \in Nat /\ b[k].to \in Nat
          BY <1>0, <1>8, <5>1 DEF Joined
        <5> QED
          BY <2>7, <4>1, <5>2
      <4> QED
        BY <4>1
    <3> QED
      BY <1>6, <1>7, <2>5, <2>6, <2>8, <3>1 DEF b, after
  <2>9. CASE l # 0
    <3>1. k # 0 /\ l \in 1..Len(b) /\ k \in 1..Len(b) /\ l <= k
      BY <1>0, <2>1, <2>4, <2>9
    <3>2. b[l].to <= b[k].to /\ b[l].to \in Nat /\ b[k].to \in Nat
      BY <1>8, <3>1
    <3>3. /\ Out!Retained(after) = last - b[k].to /\ Out!Retained(b) = last - first
          /\ Out!Chars(b, OlderPlaces(b, x)) = b[l].to - first
      BY <1>6, <1>7, <2>6, <2>7, <2>9, <3>1
    <3>4. Out!Retained(after) + Out!Chars(b, OlderPlaces(b, x)) <= Out!Retained(b)
      BY ONLY <3>2, <3>3, first \in Nat, last \in Nat
    <3> QED
      BY <1>6, <1>7, <2>6, <3>4 DEF b, after
  <2> QED
    BY <2>8, <2>9
<1> QED
  BY <1>9, <1>10

\* The records together are within the limit afterwards.
LEMMA TrimGlobalFits ==
    ASSUME IsFiniteSet(Out!Kept), NEW buffers, \A q \in Out!Kept : IsBuffer(buffers[q]),
           NEW sum \in Nat, MaxGlobal \in Nat, Total(HeldIn(buffers), Out!Kept) <= sum
    PROVE  Total(HeldIn(Out!TrimGlobal(buffers, sum)), Out!Kept) <= MaxGlobal
<1> DEFINE after == Out!TrimGlobal(buffers, sum)
           Borns == {n \in Nat : \E q \in Out!Kept : \E i \in DOMAIN after[q] : after[q][i].born = n}
<1>1. CASE Borns = {}
  <2>1. \A q \in Out!Kept : HeldIn(after)[q] = 0
    <3> TAKE q \in Out!Kept
    <3>1. after[q] \in Seq(Piece)
      BY TrimGlobalTakesFirst
    <3>2. Len(after[q]) = 0
      <4> SUFFICES ASSUME Len(after[q]) # 0 PROVE FALSE
        OBVIOUS
      <4> HIDE DEF after
      <4>1. 1 \in 1..Len(after[q]) /\ 1 \in DOMAIN after[q]
        BY <3>1, LenProperties
      <4>2. after[q][1].born \in Nat
        BY <3>1, <4>1, PieceType
      <4> QED
        BY <1>1, <4>1, <4>2
    <3> HIDE DEF after
    <3>3. DOMAIN after[q] = {}
      BY <3>1, <3>2, LenProperties
    <3>4. Out!Chars(after[q], {}) = 0
      BY TotalOfNone, OutputTotal DEF Out!Chars
    <3> QED
      BY <3>3, <3>4 DEF HeldIn, Out!Retained
  <2> HIDE DEF after
  <2>2. Total(HeldIn(after), Out!Kept) = 0
    BY <2>1, TotalOfZeros
  <2> QED
    BY <2>2 DEF after
<1>2. CASE Borns # {}
  <2>1. PICK x \in Borns : \A m \in Nat : m < x => m \notin Borns
    <3>1. Borns \subseteq Nat
      OBVIOUS
    <3> HIDE DEF Borns
    <3> QED
      BY <1>2, <3>1, LeastNumber
  <2>2. PICK p \in Out!Kept : \E i \in DOMAIN after[p] : after[p][i].born = x
    BY <2>1
  <2>3. PICK i \in DOMAIN after[p] : after[p][i].born = x
    BY <2>2
  <2>4. x \in Nat
    BY <2>1
  <2>5. \A q \in Out!Kept : \A j \in DOMAIN after[q] : x <= after[q][j].born
    <3> TAKE q \in Out!Kept
    <3> TAKE j \in DOMAIN after[q]
    <3>1. after[q] \in Seq(Piece)
      BY TrimGlobalTakesFirst
    <3>2. after[q][j].born \in Nat
      <4> HIDE DEF after
      <4>1. j \in 1..Len(after[q])
        BY <3>1, LenProperties
      <4> QED
        BY <3>1, <4>1, PieceType
    <3>3. after[q][j].born \in Borns
      BY <3>2
    <3> HIDE DEF after, Borns
    <3> QED
      BY <2>1, <2>4, <3>2, <3>3
  <2>6. Out!Monus(sum, Out!Older(buffers, x)) <= MaxGlobal /\ Out!Older(buffers, x) \in Nat
    <3>1. PICK k \in 0..Len(buffers[p]) :
              /\ after[p] \in Seq(Piece)
              /\ Len(after[p]) = Len(buffers[p]) - k
              /\ \A j \in 1..(Len(buffers[p]) - k) :
                    after[p][j] = buffers[p][j + k] /\ j + k \notin Goes(buffers, sum, p)
      BY TrimGlobalTakesFirst
    <3>2. buffers[p] \in Seq(Piece) /\ Len(buffers[p]) \in Nat /\ DOMAIN buffers[p] = 1..Len(buffers[p])
      BY LenProperties DEF IsBuffer
    <3>3. i \in 1..(Len(buffers[p]) - k)
      <4> HIDE DEF after
      <4>1. DOMAIN after[p] = 1..Len(after[p])
        BY <3>1, LenProperties
      <4> QED
        BY <2>3, <3>1, <4>1
    <3>4. after[p][i] = buffers[p][i + k] /\ i + k \notin Goes(buffers, sum, p) /\ i + k \in DOMAIN buffers[p]
      BY <3>1, <3>2, <3>3
    <3>5. buffers[p][i + k].born = x
      BY <2>3, <3>4
    <3> HIDE DEF after
    <3>6. ~(Out!Monus(sum, Out!Older(buffers, x)) > MaxGlobal)
      BY <3>4, <3>5 DEF Goes
    <3>7. Out!Older(buffers, x) \in Nat
      BY <2>4, OlderTotalGrows
    <3> QED
      BY <3>6, <3>7 DEF Out!Monus
  <2> DEFINE both == [q \in Out!Kept |-> HeldIn(after)[q] + OlderIn(buffers, x)[q]]
  <2>7. \A q \in Out!Kept : /\ HeldIn(after)[q] \in Nat /\ OlderIn(buffers, x)[q] \in Nat
                        /\ HeldIn(buffers)[q] \in Nat
                        /\ both[q] = HeldIn(after)[q] + OlderIn(buffers, x)[q]
                        /\ both[q] <= HeldIn(buffers)[q]
    <3> TAKE q \in Out!Kept
    <3>1. /\ Out!Retained(after[q]) \in Nat
          /\ Out!Chars(buffers[q], OlderPlaces(buffers[q], x)) \in Nat
          /\ Out!Retained(buffers[q]) \in Nat
          /\ Out!Retained(after[q]) + Out!Chars(buffers[q], OlderPlaces(buffers[q], x)) <= Out!Retained(buffers[q])
      BY <2>4, <2>5, LeftAndOlder
    <3> HIDE DEF after
    <3>2. /\ HeldIn(after)[q] = Out!Retained(after[q]) /\ HeldIn(buffers)[q] = Out!Retained(buffers[q])
          /\ OlderIn(buffers, x)[q] = Out!Chars(buffers[q], OlderPlaces(buffers[q], x))
      BY DEF HeldIn, OlderIn
    <3>3. both[q] = HeldIn(after)[q] + OlderIn(buffers, x)[q]
      OBVIOUS
    <3> HIDE DEF both
    <3> QED
      BY <3>1, <3>2, <3>3
  <2> HIDE DEF after, both
  <2>8. /\ Total(HeldIn(after), Out!Kept) \in Nat /\ Total(OlderIn(buffers, x), Out!Kept) \in Nat
        /\ Total(both, Out!Kept) = Total(HeldIn(after), Out!Kept) + Total(OlderIn(buffers, x), Out!Kept)
    BY <2>7, TotalAdds
  <2>9. Total(both, Out!Kept) <= Total(HeldIn(buffers), Out!Kept) /\ Total(HeldIn(buffers), Out!Kept) \in Nat
    <3>1. \A q \in Out!Kept : both[q] \in Nat /\ HeldIn(buffers)[q] \in Nat /\ both[q] <= HeldIn(buffers)[q]
      BY <2>7
    <3> QED
      BY <3>1, TotalGrows
  <2>10. Out!Older(buffers, x) = Total(OlderIn(buffers, x), Out!Kept)
    BY OlderIs
  <2>11. Total(HeldIn(after), Out!Kept) <= MaxGlobal
    BY <2>6, <2>8, <2>9, <2>10 DEF Out!Monus
  <2> QED
    BY <2>11 DEF after
<1> QED
  BY <1>1, <1>2

-----------------------------------------------------------------------------
(* The inductive invariant of the output.                                  *)

\* What is retained of a process goes up to the next cursor, and what is not was dropped.
BufferOK(p) ==
    /\ v2[p] \in Nat /\ v3[p] \in Nat /\ v3[p] <= v2[p]
    /\ v4[p] = v3[p]
    /\ v1[p] \in Seq(Piece) /\ Joined(v1[p]) /\ Covers(v1[p], v3[p], v2[p])
    /\ v2[p] - v3[p] <= MaxBuffer
    /\ \A i \in 1..Len(v1[p]) : v1[p][i].born <= v7

Released == Proc \ Out!Kept
ReleasedIn(buffers) == [q \in Released |-> Out!Retained(buffers[q])]

\* The total is what the records hold, and at most what children of released ones added to it.
TotalOK ==
    /\ v6 \in Nat
    /\ Out!KeptTotal <= v6 /\ Out!KeptTotal <= MaxGlobal
    /\ v6 <= Out!KeptTotal + Total(ReleasedIn(v1), Released)

BuffersInv ==
    /\ DOMAIN v1 = Proc /\ DOMAIN v2 = Proc /\ DOMAIN v3 = Proc /\ DOMAIN v4 = Proc
    /\ DOMAIN v5 = Proc
    /\ v7 \in Nat
    /\ \A p \in Proc : BufferOK(p)
    /\ TotalOK

Limits ==
    /\ IsFiniteSet(Proc)
    /\ MaxChunk \in Nat \ {0} /\ MaxBuffer \in Nat /\ MaxGlobal \in Nat

LEMMA HeldIsNat ==
    ASSUME Limits, \A p \in Proc : BufferOK(p), NEW q \in Proc
    PROVE  /\ Out!Retained(v1[q]) = v2[q] - v3[q] /\ Out!Retained(v1[q]) \in Nat
           /\ Out!Retained(v1[q]) <= MaxBuffer
  BY RetainedIs DEF BufferOK

LEMMA KeptTotalIs == Out!KeptTotal = Total(HeldIn(v1), Out!Kept)
  BY OutputTotal DEF Out!KeptTotal, HeldIn

LEMMA PartsFinite == ASSUME Limits PROVE IsFiniteSet(Out!Kept) /\ IsFiniteSet(Released)
  BY FS_Subset DEF Limits, Out!Kept, Released

-----------------------------------------------------------------------------
(* Output is appended.                                                     *)

Long(p, n) == v1[p] \o Out!Chunks(p, n)
Short(p, n) == Out!TrimRecord(Long(p, n), MaxBuffer)
Cut(p, n) == [v1 EXCEPT ![p] = Short(p, n)]
SumOf(p, n) == v6 + n - Out!Monus(Out!Retained(Long(p, n)), Out!Retained(Short(p, n)))
After(p, n) == Out!TrimGlobal(Cut(p, n), SumOf(p, n))
LostIn(p, n) == [q \in Proc |-> Out!Retained(IF q = p THEN Short(p, n) ELSE v1[q]) - Out!Retained(After(p, n)[q])]
OldIn(p, n) == [v1 EXCEPT ![p] = Long(p, n)]

LEMMA AppendIs ==
    ASSUME NEW p \in Proc, NEW n \in Nat, Out!AppendOutput(p, n)
    PROVE  /\ v2' = [v2 EXCEPT ![p] = @ + n]
           /\ v7' = v7 + Len(Out!Chunks(p, n))
           /\ v1' = After(p, n)
           /\ v6' = SumOf(p, n) - Total(LostIn(p, n), Proc)
           /\ v3' = [q \in Proc |-> Out!Begins(q, OldIn(p, n)[q], After(p, n)[q])]
           /\ v4' = [q \in Proc |-> v4[q] + Out!Retained(OldIn(p, n)[q]) - Out!Retained(After(p, n)[q])]
  BY OutputTotal DEF Out!AppendOutput, Long, Short, Cut, SumOf, After, LostIn, OldIn

\* Where the buffer begins after the process's own limit.
ShortBegins(p, n) ==
    IF v2[p] + n - v3[p] <= MaxBuffer THEN v3[p] ELSE v2[p] + n - MaxBuffer

LEMMA LongHolds ==
    ASSUME Limits, BuffersInv, NEW p \in Proc, NEW n \in Nat \ {0}
    PROVE  /\ Long(p, n) \in Seq(Piece) /\ Joined(Long(p, n)) /\ Len(Long(p, n)) > 0
           /\ Covers(Long(p, n), v3[p], v2[p] + n)
           /\ \A i \in 1..Len(Long(p, n)) : Long(p, n)[i].born <= v7 + Len(Out!Chunks(p, n))
           /\ Out!Retained(Long(p, n)) = v2[p] + n - v3[p]
           /\ Len(Out!Chunks(p, n)) \in Nat
<1> DEFINE c == Out!Chunks(p, n)
           b == v1[p]
<1>0. /\ v2[p] \in Nat /\ v3[p] \in Nat /\ v3[p] <= v2[p] /\ v7 \in Nat
      /\ b \in Seq(Piece) /\ Joined(b) /\ Covers(b, v3[p], v2[p])
      /\ \A i \in 1..Len(b) : b[i].born <= v7
  BY DEF BuffersInv, BufferOK
<1>1. /\ c \in Seq(Piece) /\ Len(c) > 0 /\ Joined(c) /\ Covers(c, v2[p], v2[p] + n)
      /\ \A i \in 1..Len(c) : v7 < c[i].born /\ c[i].born <= v7 + Len(c)
  BY <1>0, ChunksHold DEF Limits
<1>2. Len(b) \in Nat /\ Len(c) \in Nat /\ v2[p] + n \in Nat
  BY <1>0, <1>1, LenProperties
<1> HIDE DEF b, c
<1>3. /\ \A i \in 1..Len(b) : b[i].born \in Nat
      /\ \A i \in 1..Len(c) : c[i].born \in Nat
  BY <1>0, <1>1, PieceType
<1>4. \A i \in 1..Len(b), j \in 1..Len(c) : b[i].born < c[j].born
  BY <1>0, <1>1, <1>3
<1>5. /\ b \o c \in Seq(Piece) /\ Len(b \o c) = Len(b) + Len(c) /\ Joined(b \o c)
      /\ Covers(b \o c, v3[p], v2[p] + n)
      /\ \A i \in 1..Len(b \o c) : \/ \E j \in 1..Len(b) : (b \o c)[i] = b[j]
                                   \/ \E j \in 1..Len(c) : (b \o c)[i] = c[j]
  BY <1>0, <1>1, <1>2, <1>4, Appended
<1>6. Long(p, n) = b \o c
  BY DEF Long, b, c
<1>7. \A i \in 1..Len(b \o c) : (b \o c)[i].born <= v7 + Len(c)
  <2> TAKE i \in 1..Len(b \o c)
  <2>1. CASE \E j \in 1..Len(b) : (b \o c)[i] = b[j]
    <3>1. PICK j \in 1..Len(b) : (b \o c)[i] = b[j]
      BY <2>1
    <3>2. b[j].born <= v7 /\ b[j].born \in Nat
      BY <1>0, <1>3
    <3>3. b[j].born <= v7 + Len(c)
      BY ONLY <1>0, <1>2, <3>2
    <3> QED
      BY <3>1, <3>3
  <2>2. CASE \E j \in 1..Len(c) : (b \o c)[i] = c[j]
    BY <1>1, <2>2
  <2> QED
    BY <1>5, <2>1, <2>2
<1> DEFINE d == b \o c
           first == v3[p]
           last == v2[p] + n
<1>8. Out!Retained(d) = last - first
  <2>1. d \in Seq(Piece) /\ Joined(d) /\ Covers(d, first, last) /\ first \in Nat /\ last \in Nat
    BY <1>0, <1>2, <1>5
  <2> HIDE DEF d, first, last
  <2> QED
    BY ONLY <2>1, RetainedIs
<1>9. Len(b \o c) > 0
  BY ONLY <1>1, <1>2, <1>5
<1>10. Out!Retained(Long(p, n)) = v2[p] + n - v3[p]
  BY ONLY <1>0, <1>6, <1>8, n \in Nat \ {0}
<1>11. /\ Long(p, n) \in Seq(Piece) /\ Joined(Long(p, n)) /\ Len(Long(p, n)) > 0
       /\ Covers(Long(p, n), v3[p], v2[p] + n)
  BY <1>5, <1>6, <1>9
<1>12. /\ \A i \in 1..Len(Long(p, n)) : Long(p, n)[i].born <= v7 + Len(Out!Chunks(p, n))
       /\ Len(Out!Chunks(p, n)) \in Nat
  BY <1>2, <1>6, <1>7 DEF c
<1> QED
  BY <1>10, <1>11, <1>12

LEMMA ShortHolds ==
    ASSUME Limits, BuffersInv, NEW p \in Proc, NEW n \in Nat \ {0}
    PROVE  /\ Short(p, n) \in Seq(Piece) /\ Joined(Short(p, n))
           /\ ShortBegins(p, n) \in Nat /\ v3[p] <= ShortBegins(p, n)
           /\ ShortBegins(p, n) <= v2[p] + n
           /\ Covers(Short(p, n), ShortBegins(p, n), v2[p] + n)
           /\ \A i \in 1..Len(Short(p, n)) : Short(p, n)[i].born <= v7 + Len(Out!Chunks(p, n))
           /\ Out!Retained(Short(p, n)) = v2[p] + n - ShortBegins(p, n) /\ Out!Retained(Short(p, n)) \in Nat
           /\ v2[p] + n - ShortBegins(p, n) <= MaxBuffer
           /\ Out!Retained(v1[p]) <= Out!Retained(Short(p, n))
           /\ SumOf(p, n) = v6 + Out!Retained(Short(p, n)) - Out!Retained(v1[p]) /\ SumOf(p, n) \in Nat
<1>0. /\ v2[p] \in Nat /\ v3[p] \in Nat /\ v3[p] <= v2[p] /\ MaxBuffer \in Nat
      /\ v2[p] - v3[p] <= MaxBuffer /\ v2[p] + n \in Nat /\ v3[p] <= v2[p] + n
      /\ v6 \in Nat
  BY DEF BuffersInv, BufferOK, Limits, TotalOK
<1>1. /\ Long(p, n) \in Seq(Piece) /\ Joined(Long(p, n)) /\ Len(Long(p, n)) > 0
      /\ Covers(Long(p, n), v3[p], v2[p] + n)
      /\ \A i \in 1..Len(Long(p, n)) : Long(p, n)[i].born <= v7 + Len(Out!Chunks(p, n))
      /\ Out!Retained(Long(p, n)) = v2[p] + n - v3[p]
  BY LongHolds
<1>2. /\ ShortBegins(p, n) \in Nat /\ v3[p] <= ShortBegins(p, n)
      /\ ShortBegins(p, n) <= v2[p] + n /\ v2[p] + n - ShortBegins(p, n) <= MaxBuffer
  BY <1>0 DEF ShortBegins
<1>3. /\ Short(p, n) \in Seq(Piece) /\ Joined(Short(p, n))
      /\ Covers(Short(p, n), ShortBegins(p, n), v2[p] + n)
      /\ \A i \in 1..Len(Short(p, n)) : \E j \in 1..Len(Long(p, n)) : Short(p, n)[i].born = Long(p, n)[j].born
  <2>1. /\ Out!TrimRecord(Long(p, n), MaxBuffer) \in Seq(Piece)
        /\ Joined(Out!TrimRecord(Long(p, n), MaxBuffer))
        /\ Covers(Out!TrimRecord(Long(p, n), MaxBuffer),
                  IF (v2[p] + n) - v3[p] <= MaxBuffer THEN v3[p] ELSE (v2[p] + n) - MaxBuffer,
                  v2[p] + n)
        /\ \A i \in 1..Len(Out!TrimRecord(Long(p, n), MaxBuffer)) :
              \E j \in 1..Len(Long(p, n)) :
                 Out!TrimRecord(Long(p, n), MaxBuffer)[i].born = Long(p, n)[j].born
    BY ONLY <1>0, <1>1, TrimRecordKeeps, Zenon
  <2>2. Short(p, n) = Out!TrimRecord(Long(p, n), MaxBuffer)
    BY Zenon DEF Short
  <2>3. ShortBegins(p, n)
          = IF (v2[p] + n) - v3[p] <= MaxBuffer THEN v3[p] ELSE (v2[p] + n) - MaxBuffer
    BY ONLY <1>0 DEF ShortBegins
  <2> QED
    BY ONLY <2>1, <2>2, <2>3, Zenon
<1>4. Out!Retained(Short(p, n)) = v2[p] + n - ShortBegins(p, n) /\ Out!Retained(Short(p, n)) \in Nat
  BY <1>0, <1>2, <1>3, RetainedIs
<1>5. Out!Retained(v1[p]) = v2[p] - v3[p] /\ Out!Retained(v1[p]) \in Nat
  BY HeldIsNat DEF BuffersInv
<1>6. Out!Retained(v1[p]) <= Out!Retained(Short(p, n))
  BY <1>0, <1>4, <1>5 DEF ShortBegins
<1>7. SumOf(p, n) = v6 + Out!Retained(Short(p, n)) - Out!Retained(v1[p]) /\ SumOf(p, n) \in Nat
  <2>1. Out!Monus(Out!Retained(Long(p, n)), Out!Retained(Short(p, n))) = Out!Retained(Long(p, n)) - Out!Retained(Short(p, n))
    BY <1>0, <1>1, <1>2, <1>4 DEF Out!Monus
  <2>2. SumOf(p, n) = v6 + n - (Out!Retained(Long(p, n)) - Out!Retained(Short(p, n)))
    BY <2>1 DEF SumOf
  <2>3. Out!Retained(Long(p, n)) = Out!Retained(v1[p]) + n
    BY <1>0, <1>1, <1>5
  <2> QED
    BY ONLY <1>0, <1>4, <1>5, <1>6, <2>2, <2>3, n \in Nat \ {0}
<1> QED
  BY <1>1, <1>2, <1>3, <1>4, <1>6, <1>7

LEMMA CutHolds ==
    ASSUME Limits, BuffersInv, NEW p \in Proc, NEW n \in Nat \ {0}
    PROVE  \A q \in Proc :
              /\ Cut(p, n)[q] = IF q = p THEN Short(p, n) ELSE v1[q]
              /\ IsBuffer(Cut(p, n)[q])
              /\ Covers(Cut(p, n)[q], IF q = p THEN ShortBegins(p, n) ELSE v3[q],
                        IF q = p THEN v2[p] + n ELSE v2[q])
              /\ \A i \in 1..Len(Cut(p, n)[q]) : Cut(p, n)[q][i].born <= v7 + Len(Out!Chunks(p, n))
<1> TAKE q \in Proc
<1>1. Cut(p, n)[q] = IF q = p THEN Short(p, n) ELSE v1[q]
  BY DEF Cut, BuffersInv
<1>2. CASE q = p
  <2>1. /\ Short(p, n) \in Seq(Piece) /\ Joined(Short(p, n))
        /\ ShortBegins(p, n) \in Nat /\ v2[p] + n \in Nat
        /\ Covers(Short(p, n), ShortBegins(p, n), v2[p] + n)
        /\ \A i \in 1..Len(Short(p, n)) : Short(p, n)[i].born <= v7 + Len(Out!Chunks(p, n))
    BY ShortHolds DEF BuffersInv, BufferOK
  <2>2. IsBuffer(Short(p, n))
    BY <2>1 DEF IsBuffer
  <2> QED
    BY <1>1, <1>2, <2>1, <2>2
<1>3. CASE q # p
  <2>1. /\ v1[q] \in Seq(Piece) /\ Joined(v1[q]) /\ Covers(v1[q], v3[q], v2[q])
        /\ v3[q] \in Nat /\ v2[q] \in Nat /\ v7 \in Nat
        /\ \A i \in 1..Len(v1[q]) : v1[q][i].born <= v7
    BY DEF BuffersInv, BufferOK
  <2>2. IsBuffer(v1[q])
    BY <2>1 DEF IsBuffer
  <2>3. \A i \in 1..Len(v1[q]) : v1[q][i].born <= v7 + Len(Out!Chunks(p, n))
    <3> TAKE i \in 1..Len(v1[q])
    <3>1. Len(Out!Chunks(p, n)) \in Nat
      BY LongHolds
    <3>2. v1[q][i].born \in Nat /\ v1[q][i].born <= v7
      BY <2>1, PieceType
    <3> QED
      BY ONLY <2>1, <3>1, <3>2
  <2> QED
    BY <1>1, <1>3, <2>1, <2>2, <2>3
<1> QED
  BY <1>2, <1>3

\* Where each buffer begins and ends after both limits.
LEMMA AfterHolds ==
    ASSUME Limits, BuffersInv, NEW p \in Proc, NEW n \in Nat \ {0}, NEW q \in Proc
    PROVE  LET after == After(p, n)[q]
               first == IF q = p THEN ShortBegins(p, n) ELSE v3[q]
               last  == IF q = p THEN v2[p] + n ELSE v2[q]
           IN  /\ after \in Seq(Piece) /\ Joined(after)
               /\ \E begin \in Nat : /\ first <= begin /\ begin <= last /\ Covers(after, begin, last)
                                     /\ q \notin Out!Kept => begin = first
               /\ \A i \in 1..Len(after) : after[i].born <= v7 + Len(Out!Chunks(p, n))
<1> DEFINE first == IF q = p THEN ShortBegins(p, n) ELSE v3[q]
           last  == IF q = p THEN v2[p] + n ELSE v2[q]
<1>1. /\ IsBuffer(Cut(p, n)[q]) /\ Covers(Cut(p, n)[q], first, last)
      /\ \A i \in 1..Len(Cut(p, n)[q]) : Cut(p, n)[q][i].born <= v7 + Len(Out!Chunks(p, n))
  BY CutHolds
<1>2. first \in Nat /\ last \in Nat /\ first <= last
  BY ShortHolds DEF BuffersInv, BufferOK
<1>3. \A r \in Out!Kept : IsBuffer(Cut(p, n)[r])
  BY CutHolds DEF Out!Kept
<1>4. SumOf(p, n) \in Nat /\ MaxGlobal \in Nat /\ IsFiniteSet(Out!Kept)
  BY ShortHolds, PartsFinite DEF Limits
<1> HIDE DEF first, last
<1>5. CASE q \in Out!Kept
  <2>1. /\ After(p, n)[q] \in Seq(Piece) /\ Joined(After(p, n)[q])
        /\ \E begin \in Nat : first <= begin /\ begin <= last /\ Covers(After(p, n)[q], begin, last)
        /\ \A i \in 1..Len(After(p, n)[q]) : \E j \in 1..Len(Cut(p, n)[q]) : After(p, n)[q][i] = Cut(p, n)[q][j]
    <3> DEFINE cut == Cut(p, n)
               sum == SumOf(p, n)
    <3>1. /\ IsFiniteSet(Out!Kept) /\ \A r \in Out!Kept : IsBuffer(cut[r])
          /\ sum \in Nat /\ MaxGlobal \in Nat /\ q \in Out!Kept
          /\ first \in Nat /\ last \in Nat /\ Covers(cut[q], first, last)
      BY <1>1, <1>2, <1>3, <1>4, <1>5
    <3> HIDE DEF cut, sum
    <3>2. /\ Out!TrimGlobal(cut, sum)[q] \in Seq(Piece) /\ Joined(Out!TrimGlobal(cut, sum)[q])
          /\ \E begin \in Nat : first <= begin /\ begin <= last /\ Covers(Out!TrimGlobal(cut, sum)[q], begin, last)
          /\ \A i \in 1..Len(Out!TrimGlobal(cut, sum)[q]) :
                \E j \in 1..Len(cut[q]) : Out!TrimGlobal(cut, sum)[q][i] = cut[q][j]
      BY ONLY <3>1, TrimGlobalKeeps
    <3> QED
      BY <3>2 DEF After, cut, sum
  <2>2. \A i \in 1..Len(After(p, n)[q]) : After(p, n)[q][i].born <= v7 + Len(Out!Chunks(p, n))
    BY <1>1, <2>1
  <2> QED
    BY <1>5, <2>1, <2>2 DEF first, last
<1>6. CASE q \notin Out!Kept
  <2>1. After(p, n)[q] = Cut(p, n)[q]
    BY <1>6 DEF After, Out!TrimGlobal
  <2>2. Cut(p, n)[q] \in Seq(Piece) /\ Joined(Cut(p, n)[q])
    BY <1>1 DEF IsBuffer
  <2> QED
    BY <1>1, <1>2, <1>6, <2>1, <2>2 DEF first, last
<1> QED
  BY <1>5, <1>6

LEMMA AppendBuffers ==
    ASSUME Limits, BuffersInv, NEW p \in Proc, NEW n \in Nat \ {0}, Out!AppendOutput(p, n), NEW q \in Proc
    PROVE  /\ BufferOK(q)'
           /\ Out!Retained(After(p, n)[q]) \in Nat
           /\ Out!Retained(After(p, n)[q]) <= Out!Retained(Cut(p, n)[q])
           /\ q \notin Out!Kept => Out!Retained(After(p, n)[q]) = Out!Retained(Cut(p, n)[q])
           /\ Out!Retained(Cut(p, n)[q]) \in Nat
<1> DEFINE after == After(p, n)[q]
           first == IF q = p THEN ShortBegins(p, n) ELSE v3[q]
           last  == IF q = p THEN v2[p] + n ELSE v2[q]
           old   == OldIn(p, n)[q]
<1>1. /\ v2[q] \in Nat /\ v3[q] \in Nat /\ v3[q] <= v2[q] /\ v4[q] = v3[q]
      /\ v2[q] - v3[q] <= MaxBuffer /\ v7 \in Nat /\ MaxBuffer \in Nat
      /\ DOMAIN v2 = Proc /\ DOMAIN v1 = Proc
  BY DEF BuffersInv, BufferOK, Limits
<1>2. /\ after \in Seq(Piece) /\ Joined(after)
      /\ \A i \in 1..Len(after) : after[i].born <= v7 + Len(Out!Chunks(p, n))
  BY AfterHolds
<1>3. PICK begin \in Nat : /\ first <= begin /\ begin <= last /\ Covers(after, begin, last)
                           /\ q \notin Out!Kept => begin = first
  BY AfterHolds
<1>4. /\ v1'[q] = after /\ v2'[q] = last /\ v7' = v7 + Len(Out!Chunks(p, n))
      /\ v3'[q] = Out!Begins(q, old, after)
      /\ v4'[q] = v4[q] + Out!Retained(old) - Out!Retained(after)
  BY <1>1, AppendIs
<1>5. first \in Nat /\ last \in Nat /\ v3[q] <= first /\ first <= last /\ last - first <= MaxBuffer
  BY <1>1, ShortHolds
<1>6. /\ IsBuffer(Cut(p, n)[q]) /\ Covers(Cut(p, n)[q], first, last)
  BY CutHolds
<1>7. Out!Retained(Cut(p, n)[q]) = last - first /\ Out!Retained(Cut(p, n)[q]) \in Nat
  BY <1>5, <1>6, RetainedIs DEF IsBuffer
<1>8. /\ old \in Seq(Piece) /\ Joined(old) /\ Covers(old, v3[q], last) /\ (q = p => Len(old) > 0)
  <2>1. CASE q = p
    <3>1. old = Long(p, n)
      BY <1>1, <2>1 DEF OldIn
    <3> QED
      BY <2>1, <3>1, LongHolds
  <2>2. CASE q # p
    <3>1. old = v1[q]
      BY <1>1, <2>2 DEF OldIn
    <3> QED
      BY <2>2, <3>1 DEF BuffersInv, BufferOK
  <2> QED
    BY <2>1, <2>2
<1>9. q # p => last = v2[q]
  OBVIOUS
<1> HIDE DEF after, first, last, old
<1>10. Out!Retained(old) = last - v3[q] /\ Out!Retained(after) = last - begin /\ Out!Retained(after) \in Nat
  BY <1>1, <1>2, <1>3, <1>5, <1>8, RetainedIs
<1>11. v3'[q] = begin
  <2>0. (after = <<>> <=> Len(after) = 0) /\ (old = <<>> <=> Len(old) = 0) /\ Len(after) \in Nat /\ Len(old) \in Nat
    BY <1>2, <1>8, EmptySeq, LenProperties
  <2>1. CASE Len(after) # 0
    <3>1. Out!Begins(q, old, after) = after[1].from
      BY <2>0, <2>1 DEF Out!Begins
    <3> QED
      BY <1>3, <1>4, <2>0, <2>1, <3>1 DEF Covers
  <2>2. CASE Len(after) = 0 /\ Len(old) # 0
    <3>1. Out!Begins(q, old, after) = old[Len(old)].to
      BY <2>0, <2>2 DEF Out!Begins, Out!Last
    <3>2. old[Len(old)].to = last /\ begin = last
      BY <1>3, <1>8, <2>0, <2>2 DEF Covers
    <3> QED
      BY <1>4, <3>1, <3>2
  <2>3. CASE Len(after) = 0 /\ Len(old) = 0
    <3>1. Out!Begins(q, old, after) = v3[q]
      BY <2>0, <2>3 DEF Out!Begins
    <3>2. begin = last /\ v3[q] = last
      BY <1>3, <1>8, <2>3 DEF Covers
    <3> QED
      BY <1>4, <3>1, <3>2
  <2> QED
    BY <2>1, <2>2, <2>3
<1>12. v4'[q] = begin
  BY <1>1, <1>3, <1>4, <1>5, <1>10
<1>13. BufferOK(q)'
  <2>1. v2'[q] - v3'[q] <= MaxBuffer /\ v3'[q] <= v2'[q]
    BY <1>1, <1>3, <1>4, <1>5, <1>11
  <2> QED
    BY <1>2, <1>3, <1>4, <1>5, <1>11, <1>12, <2>1 DEF BufferOK
<1>14. Out!Retained(after) <= Out!Retained(Cut(p, n)[q]) /\ (q \notin Out!Kept => Out!Retained(after) = Out!Retained(Cut(p, n)[q]))
  BY <1>3, <1>5, <1>7, <1>10
<1> QED
  BY <1>7, <1>10, <1>13, <1>14 DEF after

LEMMA AppendTotal ==
    ASSUME Limits, BuffersInv, NEW p \in Proc, NEW n \in Nat \ {0}, Out!AppendOutput(p, n), v5' = v5
    PROVE  TotalOK'
<1> DEFINE after == After(p, n)
           cut   == Cut(p, n)
           sum   == SumOf(p, n)
           lost  == LostIn(p, n)
           grown == Out!Retained(Short(p, n)) - Out!Retained(v1[p])
<1>0. IsFiniteSet(Out!Kept) /\ IsFiniteSet(Released) /\ IsFiniteSet(Proc) /\ Out!Kept' = Out!Kept /\ Released' = Released
      /\ Out!Kept \subseteq Proc /\ Released = Proc \ Out!Kept /\ MaxGlobal \in Nat
  BY PartsFinite DEF Limits, Out!Kept, Released
<1>1. /\ \A q \in Proc : /\ Out!Retained(after[q]) \in Nat /\ Out!Retained(cut[q]) \in Nat
                         /\ Out!Retained(after[q]) <= Out!Retained(cut[q])
                         /\ q \notin Out!Kept => Out!Retained(after[q]) = Out!Retained(cut[q])
  BY AppendBuffers
<1>2. \A q \in Proc : /\ cut[q] = (IF q = p THEN Short(p, n) ELSE v1[q])
                      /\ Out!Retained(v1[q]) \in Nat
                      /\ q # p => Out!Retained(cut[q]) = Out!Retained(v1[q])
  BY CutHolds, HeldIsNat DEF BuffersInv
<1>3. /\ sum = v6 + Out!Retained(cut[p]) - Out!Retained(v1[p]) /\ sum \in Nat
      /\ Out!Retained(v1[p]) <= Out!Retained(cut[p])
  BY <1>2, ShortHolds
<1>4. /\ v6 \in Nat /\ Out!KeptTotal <= v6 /\ v6 <= Out!KeptTotal + Total(ReleasedIn(v1), Released)
      /\ Out!KeptTotal = Total(HeldIn(v1), Out!Kept)
  BY KeptTotalIs DEF BuffersInv, TotalOK
<1>5. v1' = after /\ v6' = sum - Total(lost, Proc)
  BY AppendIs
<1>6. \A q \in Proc : lost[q] = Out!Retained(cut[q]) - Out!Retained(after[q])
  BY <1>2 DEF LostIn
<1>13. \A q \in Out!Kept : IsBuffer(cut[q])
  BY <1>0, CutHolds
<1>14. after = Out!TrimGlobal(cut, sum)
  BY DEF After
<1> HIDE DEF after, cut, sum, lost
<1>7. \A q \in Proc : lost[q] \in Nat
  BY <1>1, <1>6
<1>8. Total(lost, Proc) = Total(lost, Out!Kept) /\ Total(lost, Out!Kept) \in Nat
  BY <1>0, <1>1, <1>6, <1>7, TotalOfSome
<1>9. /\ Total(HeldIn(cut), Out!Kept) = Total(HeldIn(after), Out!Kept) + Total(lost, Out!Kept)
      /\ Total(HeldIn(after), Out!Kept) \in Nat
  <2>1. \A q \in Out!Kept : /\ HeldIn(after)[q] \in Nat /\ lost[q] \in Nat
                        /\ HeldIn(cut)[q] = HeldIn(after)[q] + lost[q]
    BY <1>0, <1>1, <1>6, <1>7 DEF HeldIn
  <2> QED
    BY <1>0, <2>1, TotalAdds
<1>10. Out!KeptTotal' = Total(HeldIn(after), Out!Kept)
  <2>1. Out!KeptTotal' = Total(HeldIn(v1)', Out!Kept')
    BY OutputTotal DEF Out!KeptTotal, HeldIn
  <2>2. HeldIn(v1)' = HeldIn(after)
    BY <1>0, <1>5 DEF HeldIn
  <2> QED
    BY <1>0, <2>1, <2>2
<1>11. ReleasedIn(v1)' = ReleasedIn(after)
  BY <1>0, <1>5 DEF ReleasedIn
<1>12. /\ Total(HeldIn(v1), Out!Kept) \in Nat /\ Total(ReleasedIn(v1), Released) \in Nat
       /\ \A q \in Out!Kept : HeldIn(v1)[q] \in Nat
       /\ \A q \in Released : ReleasedIn(v1)[q] \in Nat
  <2>1. \A q \in Out!Kept : HeldIn(v1)[q] \in Nat
    BY <1>0, <1>2 DEF HeldIn
  <2>2. \A q \in Released : ReleasedIn(v1)[q] \in Nat
    BY <1>0, <1>2 DEF ReleasedIn
  <2> QED
    BY <1>0, <2>1, <2>2, TotalIsNat
<1>15. /\ Total(HeldIn(cut), Out!Kept) \in Nat
       /\ sum - Total(HeldIn(cut), Out!Kept) \in Nat
       /\ sum - Total(HeldIn(cut), Out!Kept) <= Total(ReleasedIn(after), Released)
  <2>1. CASE p \in Out!Kept
    <3>1. Total(HeldIn(cut), Out!Kept) = Total(HeldIn(v1), Out!Kept) - Out!Retained(v1[p]) + Out!Retained(cut[p])
      <4>1. /\ \A q \in Out!Kept : HeldIn(v1)[q] \in Nat /\ HeldIn(cut)[q] \in Nat
            /\ \A q \in Out!Kept \ {p} : HeldIn(v1)[q] = HeldIn(cut)[q]
            /\ HeldIn(v1)[p] = Out!Retained(v1[p]) /\ HeldIn(cut)[p] = Out!Retained(cut[p])
        BY <1>0, <1>1, <1>2, <2>1 DEF HeldIn
      <4>2. Total(HeldIn(cut), Out!Kept) = Total(HeldIn(v1), Out!Kept) - HeldIn(v1)[p] + HeldIn(cut)[p]
        BY <1>0, <2>1, <4>1, TotalUpdate
      <4> QED
        BY <4>1, <4>2
    <3>2. Total(ReleasedIn(after), Released) = Total(ReleasedIn(v1), Released)
      <4>1. \A q \in Released : ReleasedIn(after)[q] = ReleasedIn(v1)[q]
        BY <1>0, <1>1, <1>2, <2>1 DEF ReleasedIn
      <4> QED
        BY <1>0, <4>1, TotalSame
    <3>3. Out!Retained(v1[p]) \in Nat /\ Out!Retained(cut[p]) \in Nat
      BY <1>1, <1>2
    <3> QED
      BY <1>3, <1>4, <1>12, <3>1, <3>2, <3>3
  <2>2. CASE p \notin Out!Kept
    <3>1. Total(HeldIn(cut), Out!Kept) = Total(HeldIn(v1), Out!Kept)
      <4>1. \A q \in Out!Kept : HeldIn(cut)[q] = HeldIn(v1)[q]
        BY <1>0, <1>2, <2>2 DEF HeldIn
      <4> QED
        BY <1>0, <4>1, TotalSame
    <3>2. Total(ReleasedIn(after), Released)
            = Total(ReleasedIn(v1), Released) - Out!Retained(v1[p]) + Out!Retained(cut[p])
      <4>0. p \in Released
        BY <1>0, <2>2
      <4>1. /\ \A q \in Released : ReleasedIn(v1)[q] \in Nat /\ ReleasedIn(after)[q] \in Nat
            /\ \A q \in Released \ {p} : ReleasedIn(v1)[q] = ReleasedIn(after)[q]
            /\ ReleasedIn(v1)[p] = Out!Retained(v1[p]) /\ ReleasedIn(after)[p] = Out!Retained(cut[p])
        BY <1>0, <1>1, <1>2, <4>0 DEF ReleasedIn
      <4>2. Total(ReleasedIn(after), Released)
              = Total(ReleasedIn(v1), Released) - ReleasedIn(v1)[p] + ReleasedIn(after)[p]
        BY <1>0, <4>0, <4>1, TotalUpdate
      <4> QED
        BY <4>1, <4>2
    <3>3. Out!Retained(v1[p]) \in Nat /\ Out!Retained(cut[p]) \in Nat
      BY <1>1, <1>2
    <3> QED
      BY <1>3, <1>4, <1>12, <3>1, <3>2, <3>3
  <2> QED
    BY <2>1, <2>2
<1>16. Total(HeldIn(after), Out!Kept) <= MaxGlobal
  <2>1. Total(HeldIn(cut), Out!Kept) <= sum
    BY <1>3, <1>15
  <2> QED
    BY <1>0, <1>3, <1>13, <1>14, <2>1, TrimGlobalFits
<1>17. /\ v6' \in Nat /\ Out!KeptTotal' <= v6' /\ Out!KeptTotal' <= MaxGlobal
       /\ v6' <= Out!KeptTotal' + Total(ReleasedIn(after), Released)
  <2>0. Total(ReleasedIn(after), Released) \in Nat
    <3>1. \A q \in Released : ReleasedIn(after)[q] \in Nat
      BY <1>0, <1>1 DEF ReleasedIn
    <3> QED
      BY <1>0, <3>1, TotalIsNat
  <2> QED
    BY <1>3, <1>5, <1>8, <1>9, <1>10, <1>15, <1>16, <2>0
<1> QED
  BY <1>0, <1>11, <1>17 DEF TotalOK

\* Nothing that the buffers' invariant speaks of changes.
LEMMA BuffersSame ==
    ASSUME BuffersInv, UNCHANGED <<v1, v2, v3, v4, v5, v6, v7>> PROVE BuffersInv'
<1>1. \A p \in Proc : BufferOK(p)'
  BY DEF BuffersInv, BufferOK
<1>2. Out!Kept' = Out!Kept /\ Released' = Released
  BY DEF Out!Kept, Released
<1>3. Out!KeptTotal' = Out!KeptTotal /\ ReleasedIn(v1)' = ReleasedIn(v1)
  BY <1>2 DEF Out!KeptTotal, ReleasedIn
<1> QED
  BY <1>1, <1>2, <1>3 DEF BuffersInv, TotalOK

LEMMA BuffersAppend ==
    ASSUME Limits, BuffersInv, NEW p \in Proc, NEW n \in Nat \ {0}, Out!AppendOutput(p, n), v5' = v5
    PROVE  BuffersInv'
<1>1. \A q \in Proc : BufferOK(q)'
  BY AppendBuffers
<1>2. TotalOK'
  BY AppendTotal
<1>3. Len(Out!Chunks(p, n)) \in Nat /\ v7 \in Nat
  BY LongHolds DEF BuffersInv
<1>4. v7' \in Nat
  BY <1>3, AppendIs
<1>5. /\ DOMAIN v1' = Proc /\ DOMAIN v2' = Proc /\ DOMAIN v3' = Proc /\ DOMAIN v4' = Proc
  <2>1. DOMAIN v2 = Proc
    BY DEF BuffersInv
  <2>2. After(p, n) = [q \in Proc |-> After(p, n)[q]]
    BY DEF After, Out!TrimGlobal
  <2> QED
    BY <2>1, <2>2, AppendIs
<1>6. DOMAIN v5' = Proc
  BY DEF BuffersInv
<1> QED
  BY <1>1, <1>2, <1>4, <1>5, <1>6 DEF BuffersInv

LEMMA BuffersEnd ==
    ASSUME BuffersInv, NEW p \in Proc, Out!End(p) PROVE BuffersInv' /\ Out!Kept' = Out!Kept
<1>1. \A q \in Proc : BufferOK(q)'
  BY DEF BuffersInv, BufferOK, Out!End
<1>2. Out!Kept' = Out!Kept /\ Released' = Released /\ DOMAIN v5' = Proc
  <2>1. /\ v5[p] = "active" /\ v5' = [v5 EXCEPT ![p] = "terminal"] /\ DOMAIN v5 = Proc
    BY DEF Out!End, BuffersInv
  <2>2. \A q \in Proc : v5'[q] # "released" <=> v5[q] # "released"
    BY <2>1
  <2>3. Out!Kept' = Out!Kept
    BY <2>2 DEF Out!Kept
  <2> QED
    BY <2>1, <2>3 DEF Released
<1>3. UNCHANGED <<v1, v2, v3, v4, v6, v7>>
  BY DEF Out!End
<1>4. Out!KeptTotal' = Out!KeptTotal /\ ReleasedIn(v1)' = ReleasedIn(v1)
  BY <1>2, <1>3 DEF Out!KeptTotal, ReleasedIn
<1> QED
  BY <1>1, <1>2, <1>3, <1>4 DEF BuffersInv, TotalOK

LEMMA BuffersRelease ==
    ASSUME Limits, BuffersInv, NEW p \in Proc, Out!Release(p)
    PROVE  BuffersInv' /\ p \in Out!Kept /\ Out!Kept' = Out!Kept \ {p}
<1>1. \A q \in Proc : BufferOK(q)'
  BY DEF BuffersInv, BufferOK, Out!Release, Out!Cardinality, Cardinality
<1>2. p \in Out!Kept /\ Out!Kept' = Out!Kept \ {p} /\ Released' = Released \cup {p} /\ DOMAIN v5' = Proc
      /\ p \notin Released
  <2>1. /\ v5[p] = "terminal" /\ v5' = [v5 EXCEPT ![p] = "released"] /\ DOMAIN v5 = Proc
    BY DEF Out!Release, BuffersInv
  <2>2. \A q \in Proc : v5'[q] # "released" <=> (v5[q] # "released" /\ q # p)
    BY <2>1
  <2>3. p \in Out!Kept /\ Out!Kept' = Out!Kept \ {p}
    BY <2>1, <2>2 DEF Out!Kept
  <2> QED
    BY <2>1, <2>3 DEF Released
<1>3. UNCHANGED <<v1, v2, v3, v4, v7>> /\ v6' = Out!Monus(v6, Out!Retained(v1[p]))
  BY DEF Out!Release, Out!Cardinality, Cardinality
<1>4. IsFiniteSet(Out!Kept) /\ IsFiniteSet(Released) /\ IsFiniteSet(Released') /\ Out!Kept \subseteq Proc
      /\ Released \subseteq Proc
  <2>1. Released' \subseteq Proc
    BY DEF Released
  <2> QED
    BY <2>1, PartsFinite, FS_Subset DEF Limits, Out!Kept, Released
<1>5. \A q \in Proc : Out!Retained(v1[q]) \in Nat
  BY HeldIsNat DEF BuffersInv
<1>6. /\ v6 \in Nat /\ Out!KeptTotal <= v6 /\ Out!KeptTotal <= MaxGlobal /\ MaxGlobal \in Nat
      /\ v6 <= Out!KeptTotal + Total(ReleasedIn(v1), Released)
      /\ Out!KeptTotal = Total(HeldIn(v1), Out!Kept)
  BY KeptTotalIs DEF BuffersInv, TotalOK, Limits
<1>7. Out!KeptTotal' = Total(HeldIn(v1), Out!Kept \ {p})
  <2>1. Out!KeptTotal' = Total(HeldIn(v1)', Out!Kept \ {p})
    BY <1>2, OutputTotal DEF Out!KeptTotal, HeldIn
  <2>2. \A q \in Out!Kept \ {p} : HeldIn(v1)'[q] = HeldIn(v1)[q]
    BY <1>2, <1>3 DEF HeldIn
  <2>3. IsFiniteSet(Out!Kept \ {p})
    BY <1>4, FS_Subset
  <2> QED
    BY <2>1, <2>2, <2>3, TotalSame
<1>8. /\ Out!KeptTotal = Out!Retained(v1[p]) + Out!KeptTotal' /\ Out!KeptTotal' \in Nat
  <2>1. \A q \in Out!Kept : HeldIn(v1)[q] \in Nat
    BY <1>4, <1>5 DEF HeldIn
  <2>2. Total(HeldIn(v1), Out!Kept) = HeldIn(v1)[p] + Total(HeldIn(v1), Out!Kept \ {p})
    BY <1>2, <1>4, <2>1, TotalWithout
  <2>3. Total(HeldIn(v1), Out!Kept \ {p}) \in Nat
    BY <1>4, <2>1, TotalIsNat, FS_Subset
  <2> QED
    BY <1>2, <1>6, <1>7, <2>2, <2>3 DEF HeldIn
<1>9. Total(ReleasedIn(v1)', Released') = Out!Retained(v1[p]) + Total(ReleasedIn(v1), Released)
      /\ Total(ReleasedIn(v1), Released) \in Nat
  <2>1. \A q \in Released' : ReleasedIn(v1)'[q] = Out!Retained(v1[q])
    BY <1>3 DEF ReleasedIn
  <2>2. \A q \in Released : ReleasedIn(v1)[q] = Out!Retained(v1[q])
    BY DEF ReleasedIn
  <2>3. Released' \ {p} = Released /\ p \in Released'
    BY <1>2
  <2>4. \A q \in Released' : ReleasedIn(v1)'[q] \in Nat
    BY <1>2, <1>4, <1>5, <2>1
  <2>5. Total(ReleasedIn(v1)', Released') = ReleasedIn(v1)'[p] + Total(ReleasedIn(v1)', Released)
    BY <1>4, <2>3, <2>4, TotalWithout
  <2>6. Total(ReleasedIn(v1)', Released) = Total(ReleasedIn(v1), Released)
    BY <1>2, <1>4, <2>1, <2>2, TotalSame
  <2>7. Total(ReleasedIn(v1), Released) \in Nat
    BY <1>4, <1>5, <2>2, TotalIsNat
  <2> QED
    BY <2>1, <2>3, <2>5, <2>6, <2>7
<1>10. Out!Retained(v1[p]) \in Nat
  BY <1>5
<1>11. v6' = v6 - Out!Retained(v1[p])
  BY ONLY <1>3, <1>6, <1>8, <1>10 DEF Out!Monus
<1>12. /\ v6' \in Nat /\ Out!KeptTotal' <= v6' /\ Out!KeptTotal' <= MaxGlobal
       /\ v6' <= Out!KeptTotal' + Total(ReleasedIn(v1)', Released')
  BY ONLY <1>6, <1>8, <1>9, <1>10, <1>11
<1> QED
  BY <1>1, <1>2, <1>3, <1>12 DEF BuffersInv, TotalOK

\* What the invariant says of the properties.
LEMMA BuffersSound ==
    ASSUME Limits, BuffersInv PROVE Out!BufferIsSuffix /\ Out!GlobalLimit
<1>1. ASSUME NEW p \in Proc
      PROVE  /\ v4[p] = v3[p] /\ v3[p] + Out!Retained(v1[p]) = v2[p]
             /\ \A i \in DOMAIN v1[p] : i > 1 => v1[p][i].from = v1[p][i-1].to
  <2>1. /\ v2[p] \in Nat /\ v3[p] \in Nat /\ v3[p] <= v2[p] /\ v4[p] = v3[p]
        /\ v1[p] \in Seq(Piece) /\ Joined(v1[p])
        /\ Out!Retained(v1[p]) = v2[p] - v3[p]
    BY HeldIsNat DEF BuffersInv, BufferOK
  <2>2. DOMAIN v1[p] = 1..Len(v1[p])
    BY <2>1
  <2>3. v3[p] + Out!Retained(v1[p]) = v2[p]
    BY ONLY <2>1
  <2>4. \A i \in DOMAIN v1[p] : i > 1 => v1[p][i].from = v1[p][i-1].to
    <3>1. Len(v1[p]) \in Nat
      BY <2>1, LenProperties
    <3>2. \A i \in DOMAIN v1[p] : i > 1 => i \in 2..Len(v1[p])
      BY ONLY <2>2, <3>1
    <3> QED
      BY <2>1, <3>2 DEF Joined
  <2> QED
    BY <2>1, <2>3, <2>4
<1>2. /\ v6 \in Nat /\ Out!KeptTotal <= v6 /\ Out!KeptTotal <= MaxGlobal
      /\ v6 <= Out!KeptTotal + Total(ReleasedIn(v1), Released)
  BY DEF BuffersInv, TotalOK
<1>3. Out!KeptTotal \in Nat
  <2>1. \A q \in Out!Kept : HeldIn(v1)[q] \in Nat
    BY HeldIsNat DEF BuffersInv, HeldIn, Out!Kept
  <2> QED
    BY <2>1, KeptTotalIs, PartsFinite, TotalIsNat
<1>4. /\ Total(ReleasedIn(v1), Released) \in Nat
      /\ Total(ReleasedIn(v1), Released) <= MaxBuffer * Cardinality(Released)
  <2>1. \A q \in Released : ReleasedIn(v1)[q] \in Nat /\ ReleasedIn(v1)[q] <= MaxBuffer
    BY HeldIsNat DEF BuffersInv, ReleasedIn, Released
  <2>2. IsFiniteSet(Released) /\ MaxBuffer \in Nat
    BY PartsFinite DEF Limits
  <2> QED
    BY <2>1, <2>2, TotalBounded
<1>5. MaxBuffer * Cardinality(Released) \in Nat
  <2>1. Cardinality(Released) \in Nat /\ MaxBuffer \in Nat
    BY PartsFinite, FS_CardinalityType DEF Limits
  <2> QED
    BY <2>1
<1>6. v6 <= Out!KeptTotal + MaxBuffer * Cardinality(Released)
  BY ONLY <1>2, <1>3, <1>4, <1>5
<1>7. Out!GlobalLimit
  BY <1>2, <1>6 DEF Out!GlobalLimit, Out!Cardinality, Cardinality, Released
<1> QED
  BY <1>1, <1>7 DEF Out!BufferIsSuffix

-----------------------------------------------------------------------------
(* Reading.                                                                *)

\* What the loop has after chunk c, when it had acc before.
TakenFrom(acc, c, since) ==
    LET begin == Out!Larger(since, c.from)
        n     == IF c.to - begin < acc.left THEN c.to - begin ELSE acc.left
    IN  IF acc.left = 0 \/ c.to <= since THEN acc
        ELSE [left |-> acc.left - n, got |-> acc.got + n, next |-> begin + n]

\* What it has after each of the first n chunks.
IsTaking(b, since, max, n, g) ==
    g = [i \in 0..n |-> IF i = 0 THEN [left |-> max, got |-> 0, next |-> since]
                        ELSE TakenFrom(g[i - 1], b[i], since)]
Taking(b, since, max) == CHOOSE taken : IsTaking(b, since, max, Len(b), taken)

LEMMA TakenIs ==
    ASSUME NEW p, NEW since, NEW max
    PROVE  Out!Taken(p, since, max) = Taking(v1[p], since, max)[Len(v1[p])]
  BY DEF Out!Taken, Taking, IsTaking, TakenFrom

LEMMA TakingGrows ==
    ASSUME NEW b, NEW since, NEW max, NEW n \in Nat, NEW g, IsTaking(b, since, max, n, g)
    PROVE  \E h : IsTaking(b, since, max, n + 1, h)
<1> DEFINE first == [left |-> max, got |-> 0, next |-> since]
           h == [i \in 0..(n + 1) |-> IF i = 0 THEN first ELSE TakenFrom(g[i - 1], b[i], since)]
<1>1. g = [i \in 0..n |-> IF i = 0 THEN first ELSE TakenFrom(g[i - 1], b[i], since)]
  BY DEF IsTaking
<1> HIDE DEF first
<1>2. \A i \in 0..n : g[i] = IF i = 0 THEN first ELSE TakenFrom(g[i - 1], b[i], since)
  BY <1>1
<1>3. \A i \in 0..n : h[i] = g[i]
  <2> TAKE i \in 0..n
  <2>1. i \in 0..(n + 1)
    OBVIOUS
  <2>2. h[i] = IF i = 0 THEN first ELSE TakenFrom(g[i - 1], b[i], since)
    BY <2>1, Zenon
  <2> QED
    BY <1>2, <2>2, Zenon
<1>4. \A i \in 1..(n + 1) : h[i - 1] = g[i - 1]
  <2> HIDE DEF h
  <2> QED
    BY <1>3
<1>5. h = [i \in 0..(n + 1) |-> IF i = 0 THEN first ELSE TakenFrom(h[i - 1], b[i], since)]
  <2>1. \A i \in 0..(n + 1) : (IF i = 0 THEN first ELSE TakenFrom(g[i - 1], b[i], since))
                              = IF i = 0 THEN first ELSE TakenFrom(h[i - 1], b[i], since)
    <3> HIDE DEF h
    <3> TAKE i \in 0..(n + 1)
    <3>1. i = 0 \/ i \in 1..(n + 1)
      OBVIOUS
    <3> QED
      BY <1>4, <3>1, Zenon
  <2>2. h = [i \in 0..(n + 1) |-> IF i = 0 THEN first ELSE TakenFrom(g[i - 1], b[i], since)]
    OBVIOUS
  <2> HIDE DEF h
  <2> QED
    BY <2>1, <2>2, Zenon
<1>6. IsTaking(b, since, max, n + 1, h)
  <2> HIDE DEF h
  <2> QED
    BY <1>5 DEF IsTaking, first
<1> QED
  BY <1>6

LEMMA TakingExists ==
    ASSUME NEW b, NEW since, NEW max
    PROVE  \A n \in Nat : \E g : IsTaking(b, since, max, n, g)
<1> DEFINE Bad == {n \in Nat : ~ \E g : IsTaking(b, since, max, n, g)}
<1> SUFFICES ASSUME Bad # {} PROVE FALSE
  OBVIOUS
<1>1. Bad \subseteq Nat
  OBVIOUS
<1>2. PICK n \in Bad : \A m \in Nat : m < n => m \notin Bad
  <2> HIDE DEF Bad
  <2> QED
    BY <1>1, LeastNumber
<1>3. n # 0
  <2> DEFINE g == [i \in 0..0 |-> [left |-> max, got |-> 0, next |-> since]]
  <2>1. IsTaking(b, since, max, 0, g)
    <3>1. \A i \in 0..0 : i = 0
      OBVIOUS
    <3> QED
      BY <3>1, Zenon DEF IsTaking
  <2> QED
    BY <2>1
<1>4. n - 1 \in Nat /\ n - 1 < n /\ (n - 1) + 1 = n
  BY <1>1, <1>3
<1>5. n - 1 \notin Bad
  BY <1>2, <1>4
<1>6. PICK g : IsTaking(b, since, max, n - 1, g)
  BY <1>4, <1>5
<1>7. \E h : IsTaking(b, since, max, n, h)
  BY <1>4, <1>6, TakingGrows
<1> QED
  BY <1>7

\* So far nothing was skipped: what was taken goes from since to next, and next is where the next
\* chunk begins or the reader's own cursor, unless there is nothing left to take.
Unskipped(acc, since, end) ==
    /\ acc.left \in Nat /\ acc.got \in Nat /\ acc.next \in Nat
    /\ acc.next = since + acc.got
    /\ acc.left = 0 \/ acc.next = Out!Larger(since, end)

LEMMA StepUnskipped ==
    ASSUME NEW acc, NEW since \in Nat, NEW c \in Piece, c.from < c.to, Unskipped(acc, since, c.from)
    PROVE  Unskipped(TakenFrom(acc, c, since), since, c.to)
<1>0. /\ acc.left \in Nat /\ acc.got \in Nat /\ acc.next \in Nat /\ acc.next = since + acc.got
      /\ acc.left = 0 \/ acc.next = Out!Larger(since, c.from)
      /\ c.from \in Nat /\ c.to \in Nat
  BY DEF Unskipped, Piece
<1>1. CASE acc.left = 0 \/ c.to <= since
  <2>1. TakenFrom(acc, c, since) = acc
    BY <1>1 DEF TakenFrom
  <2>2. acc.left = 0 \/ acc.next = Out!Larger(since, c.to)
    BY <1>0, <1>1 DEF Out!Larger
  <2> QED
    BY <1>0, <2>1, <2>2 DEF Unskipped
<1>2. CASE acc.left # 0 /\ ~(c.to <= since)
  <2> DEFINE begin == Out!Larger(since, c.from)
             n == IF c.to - begin < acc.left THEN c.to - begin ELSE acc.left
             new == TakenFrom(acc, c, since)
  <2>1. new = [left |-> acc.left - n, got |-> acc.got + n, next |-> begin + n]
    BY <1>2 DEF TakenFrom
  <2>2. new.left = acc.left - n /\ new.got = acc.got + n /\ new.next = begin + n
    <3> HIDE DEF begin, n
    <3> QED
      BY <2>1
  <2>3. begin \in Nat /\ begin = acc.next /\ begin < c.to
    BY <1>0, <1>2 DEF Out!Larger
  <2>4. Out!Larger(since, c.to) = c.to
    BY <1>0, <1>2 DEF Out!Larger
  <2> HIDE DEF begin, new
  <2>5. n \in Nat /\ n <= acc.left /\ (n = acc.left \/ begin + n = c.to)
    BY <1>0, <2>3
  <2> HIDE DEF n
  <2>6. new.left \in Nat /\ new.got \in Nat /\ new.next \in Nat /\ new.next = since + new.got
        /\ (new.left = 0 \/ new.next = Out!Larger(since, c.to))
    BY ONLY <1>0, <2>2, <2>3, <2>4, <2>5, since \in Nat
  <2> QED
    BY <2>6 DEF Unskipped, new
<1> QED
  BY <1>1, <1>2

LEMMA TakenUnskipped ==
    ASSUME NEW p, NEW since \in Nat, NEW max \in Nat, NEW first \in Nat, NEW last \in Nat,
           v1[p] \in Seq(Piece), Joined(v1[p]), Covers(v1[p], first, last), first <= since
    PROVE  /\ Out!Taken(p, since, max).got \in Nat /\ Out!Taken(p, since, max).next \in Nat
           /\ Out!Taken(p, since, max).next = since + Out!Taken(p, since, max).got
<1> DEFINE b == v1[p]
           g == Taking(b, since, max)
           End0(i) == IF i = 0 THEN first ELSE b[i].to
           Right(i) == Unskipped(g[i], since, End0(i))
           Bad == {i \in 0..Len(b) : ~Right(i)}
<1>0. Len(b) \in Nat /\ b \in Seq(Piece) /\ Joined(b) /\ Covers(b, first, last)
  BY LenProperties
<1>1. Out!Taken(p, since, max) = g[Len(b)]
  BY TakenIs
<1> HIDE DEF b
<1>2. IsTaking(b, since, max, Len(b), g)
  BY <1>0, TakingExists DEF Taking
<1> HIDE DEF g
<1>3. \A i \in 0..Len(b) : g[i] = IF i = 0 THEN [left |-> max, got |-> 0, next |-> since]
                                  ELSE TakenFrom(g[i - 1], b[i], since)
  BY <1>2, Zenon DEF IsTaking
<1>4. Bad = {}
  <2> SUFFICES ASSUME Bad # {} PROVE FALSE
    OBVIOUS
  <2>1. Bad \subseteq Nat
    OBVIOUS
  <2>2. PICK i \in Bad : \A m \in Nat : m < i => m \notin Bad
    <3> HIDE DEF Bad
    <3> QED
      BY <2>1, LeastNumber
  <2>3. i \in 0..Len(b) /\ ~Right(i)
    <3> HIDE DEF Right
    <3> QED
      OBVIOUS
  <2>4. i # 0
    <3> SUFFICES ASSUME i = 0 PROVE FALSE
      OBVIOUS
    <3>1. 0 \in 0..Len(b)
      BY <1>0
    <3>2. g[0] = [left |-> max, got |-> 0, next |-> since]
      BY <1>3, <3>1
    <3>3. Unskipped(g[0], since, first)
      BY <3>2 DEF Unskipped, Out!Larger
    <3> QED
      BY <2>3, <3>3
  <2>5. i - 1 \in 0..Len(b) /\ i - 1 \in Nat /\ i - 1 < i /\ i \in 1..Len(b)
    BY <1>0, <2>3, <2>4
  <2>6. Right(i - 1)
    <3>1. i - 1 \notin Bad
      <4> HIDE DEF Bad
      <4> QED
        BY <2>2, <2>5
    <3> HIDE DEF Right
    <3> QED
      BY <2>5, <3>1
  <2>7. Unskipped(g[i - 1], since, b[i].from)
    <3>1. CASE i = 1
      <4>1. b[i].from = first /\ i - 1 = 0
        BY <1>0, <2>5, <3>1 DEF Covers
      <4> QED
        BY <2>6, <4>1
    <3>2. CASE i # 1
      <4>1. i \in 2..Len(b) /\ i - 1 # 0
        BY <1>0, <2>5, <3>2
      <4>2. b[i].from = b[i - 1].to
        BY <1>0, <4>1 DEF Joined
      <4> QED
        BY <2>6, <4>1, <4>2
    <3> QED
      BY <3>1, <3>2
  <2>8. b[i] \in Piece /\ b[i].from < b[i].to
    BY <1>0, <2>5, PieceType DEF Joined
  <2>9. Unskipped(TakenFrom(g[i - 1], b[i], since), since, b[i].to)
    BY <2>7, <2>8, StepUnskipped
  <2>10. g[i] = TakenFrom(g[i - 1], b[i], since)
    BY <1>3, <2>3, <2>4
  <2> QED
    BY <2>3, <2>4, <2>9, <2>10
<1>5. Right(Len(b))
  <2>1. Len(b) \in 0..Len(b) /\ Len(b) \notin Bad
    BY <1>0, <1>4
  <2> HIDE DEF Right
  <2> QED
    BY <2>1
<1> QED
  BY <1>1, <1>5 DEF Unskipped

\* What a reader was given and was told it has missed go up to its cursor.
ReaderOK(p) ==
    /\ v8[p].cursor \in Nat /\ v8[p].got \in Nat /\ v8[p].missed \in Nat
    /\ v8[p].got + v8[p].missed = v8[p].cursor

ReadersInv ==
    /\ DOMAIN v8 = Proc
    /\ \A p \in Proc : DOMAIN v8[p] = {"waiting", "cursor", "got", "missed"} /\ ReaderOK(p)

LEMMA AskReaders ==
    ASSUME ReadersInv, NEW p, Out!AskAndWait(p) PROVE ReadersInv'
<1>1. v8' = [v8 EXCEPT ![p].waiting = TRUE]
  BY DEF Out!AskAndWait
<1>2. \A q \in Proc : /\ DOMAIN v8'[q] = {"waiting", "cursor", "got", "missed"}
                      /\ v8'[q].cursor = v8[q].cursor /\ v8'[q].got = v8[q].got
                      /\ v8'[q].missed = v8[q].missed
  BY <1>1 DEF ReadersInv
<1>3. DOMAIN v8' = Proc
  BY <1>1 DEF ReadersInv
<1> QED
  BY <1>2, <1>3 DEF ReadersInv, ReaderOK

LEMMA AnswerReaders ==
    ASSUME BuffersInv, ReadersInv, NEW p, NEW max \in Nat, Out!Answer(p, max) PROVE ReadersInv'
<1> DEFINE since == Out!Larger(v8[p].cursor, v3[p])
           taken == Out!Taken(p, since, max)
           new == [waiting |-> FALSE, cursor |-> taken.next, got |-> v8[p].got + taken.got,
                   missed |-> v8[p].missed + Out!Monus(v3[p], v8[p].cursor)]
<1>1. v8' = [v8 EXCEPT ![p] = new]
  BY DEF Out!Answer
<1>2. p \in Proc => /\ DOMAIN new = {"waiting", "cursor", "got", "missed"}
                    /\ new.cursor \in Nat /\ new.got \in Nat /\ new.missed \in Nat
                    /\ new.got + new.missed = new.cursor
  <2> SUFFICES ASSUME p \in Proc
               PROVE  /\ DOMAIN new = {"waiting", "cursor", "got", "missed"}
                      /\ new.cursor \in Nat /\ new.got \in Nat /\ new.missed \in Nat
                      /\ new.got + new.missed = new.cursor
    OBVIOUS
  <2>1. /\ v3[p] \in Nat /\ v2[p] \in Nat /\ v1[p] \in Seq(Piece) /\ Joined(v1[p])
        /\ Covers(v1[p], v3[p], v2[p])
    BY DEF BuffersInv, BufferOK
  <2>2. /\ v8[p].cursor \in Nat /\ v8[p].got \in Nat /\ v8[p].missed \in Nat
        /\ v8[p].got + v8[p].missed = v8[p].cursor
    BY DEF ReadersInv, ReaderOK
  <2>3. since \in Nat /\ v3[p] <= since /\ since = v8[p].cursor + Out!Monus(v3[p], v8[p].cursor)
        /\ Out!Monus(v3[p], v8[p].cursor) \in Nat
    BY <2>1, <2>2 DEF Out!Larger, Out!Monus
  <2> HIDE DEF since
  <2>4. taken.got \in Nat /\ taken.next \in Nat /\ taken.next = since + taken.got
    BY <2>1, <2>3, TakenUnskipped
  <2> HIDE DEF taken
  <2>5. /\ DOMAIN new = {"waiting", "cursor", "got", "missed"}
        /\ new.cursor = taken.next /\ new.got = v8[p].got + taken.got
        /\ new.missed = v8[p].missed + Out!Monus(v3[p], v8[p].cursor)
    OBVIOUS
  <2> HIDE DEF new
  <2> QED
    BY ONLY <2>2, <2>3, <2>4, <2>5
<1> HIDE DEF new
<1>3. DOMAIN v8' = Proc /\ \A q \in Proc : v8'[q] = IF q = p THEN new ELSE v8[q]
  BY <1>1 DEF ReadersInv
<1> QED
  BY <1>2, <1>3 DEF ReadersInv, ReaderOK

LEMMA ReadersSound == ASSUME ReadersInv PROVE Out!NothingSilentlyLost
  BY DEF ReadersInv, ReaderOK, Out!NothingSilentlyLost

-----------------------------------------------------------------------------
(* The places for logs.                                                    *)

Reservations == [p \in Out!Kept |-> Cardinality(v10[p])]
Stored == [p \in Out!Kept |-> v9[p]]
\* The calls that hold a place of a process.
Storers(p) == {a \in Reading : v13[a].at = "storing" /\ v13[a].of = p}

\* Who stores a log of a kept record holds a place, and there is one for each.
PlaceOK(p) ==
    /\ v9[p] \in Nat
    /\ p \in Out!Kept => v10[p] = Storers(p) /\ v9[p] + Cardinality(v10[p]) <= MaxSnapshots

CallsOK ==
    /\ DOMAIN v13 = Reading
    /\ \A a \in Reading : /\ DOMAIN v13[a] = {"at", "of"}
                          /\ v13[a].at # "unattached"
                          /\ v13[a].at = "storing" => v13[a].of \in Proc

CountsOK ==
    /\ v12 = Total(Reservations, Out!Kept)
    /\ v11 = Total(Stored, Out!Kept)
    /\ v11 + v12 <= MaxAllSnapshots

PlacesInv ==
    /\ DOMAIN v9 = Proc /\ DOMAIN v10 = Proc
    /\ \A p \in Proc : PlaceOK(p)
    /\ CallsOK
    /\ CountsOK

Places ==
    /\ IsFiniteSet(Proc) /\ IsFiniteSet(Reading)
    /\ MaxSnapshots \in Nat /\ MaxAllSnapshots \in Nat

LEMMA TotalHas ==
    ASSUME NEW S, IsFiniteSet(S), NEW W, NEW c \in S, \A x \in S : W[x] \in Nat
    PROVE  Total(W, S) \in Nat /\ W[c] <= Total(W, S)
<1>1. Total(W, S) = W[c] + Total(W, S \ {c})
  BY TotalWithout
<1>2. Total(W, S \ {c}) \in Nat /\ Total(W, S) \in Nat
  BY FS_Subset, TotalIsNat
<1> QED
  BY <1>1, <1>2

LEMMA PlacesAre ==
    ASSUME Places, PlacesInv
    PROVE  /\ IsFiniteSet(Out!Kept) /\ Out!Kept \subseteq Proc
           /\ \A p \in Out!Kept : /\ IsFiniteSet(v10[p]) /\ Reservations[p] = Cardinality(v10[p])
                              /\ Reservations[p] \in Nat /\ Stored[p] = v9[p] /\ Stored[p] \in Nat
           /\ v12 \in Nat /\ v11 \in Nat
<1>1. IsFiniteSet(Out!Kept) /\ Out!Kept \subseteq Proc
  BY FS_Subset DEF Places, Out!Kept
<1>2. \A p \in Out!Kept : IsFiniteSet(v10[p]) /\ Cardinality(v10[p]) \in Nat
  <2> TAKE p \in Out!Kept
  <2>1. v10[p] = Storers(p)
    BY <1>1 DEF PlacesInv, PlaceOK
  <2>2. Storers(p) \subseteq Reading
    BY DEF Storers
  <2> QED
    BY <2>1, <2>2, FS_Subset, FS_CardinalityType DEF Places
<1>3. \A p \in Out!Kept : /\ Reservations[p] = Cardinality(v10[p]) /\ Reservations[p] \in Nat
                      /\ Stored[p] = v9[p] /\ Stored[p] \in Nat
  BY <1>1, <1>2 DEF Reservations, Stored, PlacesInv, PlaceOK
<1>4. v12 \in Nat /\ v11 \in Nat
  BY <1>1, <1>3, TotalIsNat DEF PlacesInv, CountsOK
<1> QED
  BY <1>1, <1>2, <1>3, <1>4

LEMMA PlacesSame ==
    ASSUME PlacesInv, UNCHANGED Out!artifactVars, Out!Kept' = Out!Kept PROVE PlacesInv'
<1>1. UNCHANGED <<v9, v10, v11, v12, v13>>
  BY DEF Out!artifactVars
<1>2. \A p \in Proc : PlaceOK(p)'
  BY <1>1 DEF PlacesInv, PlaceOK, Storers
<1>3. CallsOK'
  BY <1>1 DEF PlacesInv, CallsOK
<1>4. Reservations' = Reservations /\ Stored' = Stored
  BY <1>1 DEF Reservations, Stored
<1>5. CountsOK'
  BY <1>1, <1>4 DEF PlacesInv, CountsOK
<1> QED
  BY <1>1, <1>2, <1>3, <1>5 DEF PlacesInv

LEMMA PlacesRelease ==
    ASSUME Places, PlacesInv, NEW p \in Proc, Out!Release(p), p \in Out!Kept, Out!Kept' = Out!Kept \ {p} PROVE PlacesInv'
<1>1. /\ v11' = Out!Monus(v11, v9[p])
      /\ v12' = Out!Monus(v12, Cardinality(v10[p]))
      /\ v10' = [v10 EXCEPT ![p] = {}]
      /\ UNCHANGED <<v9, v13>>
  BY DEF Out!Release, Out!Cardinality, Cardinality
<1>2. /\ IsFiniteSet(Out!Kept) /\ Out!Kept \subseteq Proc
      /\ \A q \in Out!Kept : /\ Reservations[q] = Cardinality(v10[q])
                         /\ Reservations[q] \in Nat /\ Stored[q] = v9[q] /\ Stored[q] \in Nat
      /\ v12 \in Nat /\ v11 \in Nat
  BY PlacesAre
<1>3. /\ DOMAIN v10' = Proc /\ DOMAIN v9' = Proc
      /\ \A q \in Proc : q # p => v10'[q] = v10[q]
  BY <1>1 DEF PlacesInv
<1>4. \A q \in Proc : PlaceOK(q)'
  BY <1>1, <1>3 DEF PlacesInv, PlaceOK, Storers
<1>5. CallsOK'
  BY <1>1 DEF PlacesInv, CallsOK
<1>6. v12 = Total(Reservations, Out!Kept) /\ v11 = Total(Stored, Out!Kept)
      /\ v11 + v12 <= MaxAllSnapshots
  BY DEF PlacesInv, CountsOK
<1>7. IsFiniteSet(Out!Kept \ {p})
  BY <1>2, FS_Subset
<1>8. v12' = Total(Reservations', Out!Kept') /\ v12' <= v12 /\ v12' \in Nat
  <2>1. \A q \in Out!Kept \ {p} : Reservations'[q] = Reservations[q]
    BY <1>2, <1>3 DEF Reservations
  <2>2. Total(Reservations', Out!Kept \ {p}) = Total(Reservations, Out!Kept \ {p})
    BY <1>7, <2>1, TotalSame
  <2>3. Total(Reservations, Out!Kept) = Reservations[p] + Total(Reservations, Out!Kept \ {p})
    BY <1>2, TotalWithout
  <2>4. Total(Reservations, Out!Kept \ {p}) \in Nat
    BY <1>2, <1>7, TotalIsNat
  <2>5. Reservations[p] = Cardinality(v10[p]) /\ Reservations[p] \in Nat
    BY <1>2
  <2>6. v12' = Out!Monus(v12, Reservations[p])
    BY <1>1, <2>5
  <2>7. v12' = Total(Reservations, Out!Kept \ {p})
    BY ONLY <1>2, <1>6, <2>3, <2>4, <2>5, <2>6 DEF Out!Monus
  <2> QED
    BY <1>2, <1>6, <2>2, <2>3, <2>4, <2>5, <2>7
<1>9. v11' = Total(Stored', Out!Kept') /\ v11' <= v11 /\ v11' \in Nat
  <2>1. \A q \in Out!Kept \ {p} : Stored'[q] = Stored[q]
    BY <1>1, <1>2 DEF Stored
  <2>2. Total(Stored', Out!Kept \ {p}) = Total(Stored, Out!Kept \ {p})
    BY <1>7, <2>1, TotalSame
  <2>3. Total(Stored, Out!Kept) = Stored[p] + Total(Stored, Out!Kept \ {p})
    BY <1>2, TotalWithout
  <2>4. Total(Stored, Out!Kept \ {p}) \in Nat
    BY <1>2, <1>7, TotalIsNat
  <2>5. Stored[p] = v9[p] /\ Stored[p] \in Nat
    BY <1>2
  <2>6. v11' = Out!Monus(v11, Stored[p])
    BY <1>1, <2>5
  <2>7. v11' = Total(Stored, Out!Kept \ {p})
    BY ONLY <1>2, <1>6, <2>3, <2>4, <2>5, <2>6 DEF Out!Monus
  <2> QED
    BY <1>2, <1>6, <2>2, <2>3, <2>4, <2>5, <2>7
<1>10. v11' + v12' <= MaxAllSnapshots
  BY <1>2, <1>6, <1>8, <1>9 DEF Places
<1> QED
  BY <1>3, <1>4, <1>5, <1>8, <1>9, <1>10 DEF PlacesInv, CountsOK

LEMMA PlacesReserve ==
    ASSUME Places, PlacesInv, NEW a \in Reading, NEW p \in Proc, Out!Reserve(a, p) PROVE PlacesInv'
<1>1. /\ v13[a].at = "idle" /\ p \in Out!Kept /\ Out!Kept' = Out!Kept
      /\ UNCHANGED <<v9, v11>>
  BY DEF Out!Reserve, Out!Kept
<1>2. /\ IsFiniteSet(Out!Kept) /\ Out!Kept \subseteq Proc
      /\ \A q \in Out!Kept : /\ IsFiniteSet(v10[q]) /\ Reservations[q] = Cardinality(v10[q])
                         /\ Reservations[q] \in Nat /\ Stored[q] = v9[q] /\ Stored[q] \in Nat
      /\ v12 \in Nat /\ v11 \in Nat
  BY PlacesAre
<1>3. Stored' = Stored
  BY <1>1 DEF Stored
<1>4. CASE Out!RoomFor(p)
  <2>1. /\ v10' = [v10 EXCEPT ![p] = @ \cup {a}] /\ v12' = v12 + 1
        /\ v13' = [v13 EXCEPT ![a] = [at |-> "storing", of |-> p]]
    BY <1>4 DEF Out!Reserve
  <2>2. /\ DOMAIN v10' = Proc /\ DOMAIN v13' = Reading
        /\ v10'[p] = v10[p] \cup {a}
        /\ \A q \in Proc : q # p => v10'[q] = v10[q]
        /\ v13'[a] = [at |-> "storing", of |-> p]
        /\ \A b \in Reading : b # a => v13'[b] = v13[b]
    BY <2>1 DEF PlacesInv, CallsOK
  <2>3. v10[p] = Storers(p) /\ a \notin v10[p]
    BY <1>1 DEF PlacesInv, PlaceOK, Storers
  <2>4. Cardinality(v10'[p]) = Cardinality(v10[p]) + 1
    <3>1. IsFiniteSet(v10[p]) /\ Cardinality(v10[p]) \in Nat
      BY <1>1, <1>2
    <3>2. Cardinality(v10[p] \cup {a}) = Cardinality(v10[p]) + 1
      BY <2>3, <3>1, FS_AddElement
    <3> QED
      BY <2>2, <3>2
  <2>5. \A q \in Proc : Storers(q)' = IF q = p THEN Storers(q) \cup {a} ELSE Storers(q)
    <3> TAKE q \in Proc
    <3>1. \A b \in Reading : b # a => (b \in Storers(q)' <=> b \in Storers(q))
      BY <2>2 DEF Storers
    <3>2. a \in Storers(q)' <=> q = p
      BY <2>2 DEF Storers
    <3>3. a \notin Storers(q)
      BY <1>1 DEF Storers
    <3>4. Storers(q) \subseteq Reading /\ Storers(q)' \subseteq Reading
      BY DEF Storers
    <3> QED
      BY <3>1, <3>2, <3>3, <3>4
  <2>6. v9[p] + Cardinality(v10[p]) < MaxSnapshots /\ v11 + v12 < MaxAllSnapshots
    BY <1>4 DEF Out!RoomFor, Out!Cardinality, Cardinality
  <2>7. \A q \in Proc : PlaceOK(q)'
    <3> TAKE q \in Proc
    <3>1. CASE q = p
      <4>1. v9[p] \in Nat /\ Cardinality(v10[p]) \in Nat /\ MaxSnapshots \in Nat
        BY <1>1, <1>2 DEF Places
      <4>2. v9'[p] + Cardinality(v10'[p]) <= MaxSnapshots
        BY <1>1, <2>4, <2>6, <4>1
      <4>3. v10'[p] = Storers(p)'
        BY <2>2, <2>3, <2>5
      <4> QED
        BY <1>1, <3>1, <4>1, <4>2, <4>3 DEF PlaceOK
    <3>2. CASE q # p
      <4>1. Storers(q)' = Storers(q) /\ v10'[q] = v10[q]
        BY <2>2, <2>5, <3>2
      <4> QED
        BY <1>1, <4>1 DEF PlacesInv, PlaceOK
    <3> QED
      BY <3>1, <3>2
  <2>8. CallsOK'
    BY <2>2 DEF PlacesInv, CallsOK
  <2>9. Total(Reservations', Out!Kept') = Total(Reservations, Out!Kept) + 1
    <3>1. /\ \A q \in Out!Kept : Reservations[q] \in Nat /\ Reservations'[q] \in Nat
          /\ \A q \in Out!Kept \ {p} : Reservations[q] = Reservations'[q]
          /\ Reservations'[p] = Reservations[p] + 1
      <4>1. \A q \in Out!Kept : Reservations'[q] = IF q = p THEN Reservations[q] + 1 ELSE Reservations[q]
        BY <1>1, <1>2, <2>2, <2>4 DEF Reservations
      <4> QED
        BY <1>1, <1>2, <4>1
    <3>2. /\ Total(Reservations, Out!Kept) \in Nat
          /\ Total(Reservations', Out!Kept) = Total(Reservations, Out!Kept) - Reservations[p] + Reservations'[p]
      BY <1>1, <1>2, <3>1, TotalUpdate, TotalIsNat
    <3> QED
      BY <1>1, <3>1, <3>2
  <2>10. CountsOK'
    <3>1. /\ v12 = Total(Reservations, Out!Kept) /\ v11 = Total(Stored, Out!Kept)
      BY DEF PlacesInv, CountsOK
    <3>2. v11' + v12' <= MaxAllSnapshots
      BY <1>1, <1>2, <2>1, <2>6 DEF Places
    <3> QED
      BY <1>1, <1>3, <2>1, <2>9, <3>1, <3>2 DEF CountsOK
  <2> QED
    BY <1>1, <2>2, <2>7, <2>8, <2>10 DEF PlacesInv
<1>5. CASE ~Out!RoomFor(p)
  <2>1. /\ UNCHANGED <<v10, v12>>
        /\ v13' = [v13 EXCEPT ![a] = [at |-> "no_room", of |-> p]]
    BY <1>5 DEF Out!Reserve
  <2>2. /\ DOMAIN v13' = Reading /\ v13'[a] = [at |-> "no_room", of |-> p]
        /\ \A b \in Reading : b # a => v13'[b] = v13[b]
    BY <2>1 DEF PlacesInv, CallsOK
  <2>3. \A q \in Proc : Storers(q)' = Storers(q)
    <3> TAKE q \in Proc
    <3>1. \A b \in Reading : b \in Storers(q)' <=> b \in Storers(q)
      BY <1>1, <2>2 DEF Storers
    <3> QED
      BY <3>1 DEF Storers
  <2>4. \A q \in Proc : PlaceOK(q)'
    BY <1>1, <2>1, <2>3 DEF PlacesInv, PlaceOK
  <2>5. CallsOK'
    BY <2>2 DEF PlacesInv, CallsOK
  <2>6. Reservations' = Reservations
    BY <1>1, <2>1 DEF Reservations
  <2>7. CountsOK'
    BY <1>1, <1>3, <2>1, <2>6 DEF PlacesInv, CountsOK
  <2> QED
    BY <1>1, <2>1, <2>4, <2>5, <2>7 DEF PlacesInv
<1> QED
  BY <1>4, <1>5

\* A call leaves its place.
LEMMA PlaceLeft ==
    ASSUME Places, PlacesInv, NEW a \in Reading, v13[a].at = "storing", v13[a].of \in Out!Kept, Out!Kept' = Out!Kept,
           v10' = [v10 EXCEPT ![v13[a].of] = @ \ {a}],
           DOMAIN v13' = Reading, v13'[a].at # "storing",
           \A b \in Reading : b # a => v13'[b] = v13[b]
    PROVE  /\ \A q \in Proc : Storers(q)' = Storers(q) \ {a}
           /\ DOMAIN v10' = Proc
           /\ \A q \in Out!Kept : v10'[q] = Storers(q)'
           /\ \A q \in Proc : q # v13[a].of => v10'[q] = v10[q]
           /\ Cardinality(v10[v13[a].of]) >= 1
           /\ Cardinality(v10'[v13[a].of]) = Cardinality(v10[v13[a].of]) - 1
           /\ Total(Reservations', Out!Kept') = Total(Reservations, Out!Kept) - 1
           /\ Total(Reservations, Out!Kept) >= 1
<1> DEFINE p == v13[a].of
<1>0. p \in Out!Kept /\ p \in Proc
  BY DEF Out!Kept
<1>1. /\ IsFiniteSet(Out!Kept) /\ Out!Kept \subseteq Proc
      /\ \A q \in Out!Kept : /\ IsFiniteSet(v10[q]) /\ Reservations[q] = Cardinality(v10[q])
                         /\ Reservations[q] \in Nat
  BY PlacesAre
<1>2. \A q \in Proc : Storers(q)' = Storers(q) \ {a}
  <2> TAKE q \in Proc
  <2>1. \A b \in Reading : b \in Storers(q)' <=> (b \in Storers(q) /\ b # a)
    BY DEF Storers
  <2>2. Storers(q)' \subseteq Reading /\ Storers(q) \subseteq Reading
    BY DEF Storers
  <2> QED
    BY <2>1, <2>2
<1>3. DOMAIN v10' = Proc /\ \A q \in Proc : v10'[q] = IF q = p THEN v10[q] \ {a} ELSE v10[q]
  BY DEF PlacesInv
<1>4. \A q \in Out!Kept : v10[q] = Storers(q)
  BY <1>1 DEF PlacesInv, PlaceOK
<1>5. \A q \in Out!Kept : q # p => a \notin Storers(q)
  BY DEF Storers
<1>6. a \in v10[p]
  BY <1>0, <1>4 DEF Storers
<1>7. \A q \in Out!Kept : v10'[q] = Storers(q)'
  <2> TAKE q \in Out!Kept
  <2>1. Storers(q)' = v10[q] \ {a} /\ q \in Proc
    BY <1>1, <1>2, <1>4
  <2>2. q # p => v10[q] \ {a} = v10[q]
    BY <1>4, <1>5
  <2> QED
    BY <1>3, <2>1, <2>2
<1>8. Cardinality(v10[p]) >= 1 /\ Cardinality(v10'[p]) = Cardinality(v10[p]) - 1
      /\ Cardinality(v10[p]) \in Nat
  <2>1. v10'[p] = v10[p] \ {a}
    BY <1>0, <1>3
  <2>2. IsFiniteSet(v10[p]) /\ Cardinality(v10[p]) \in Nat
    BY <1>0, <1>1
  <2>3. Cardinality(v10[p] \ {a}) = Cardinality(v10[p]) - 1 /\ Cardinality(v10[p] \ {a}) \in Nat
    BY <1>6, <2>2, FS_RemoveElement, FS_CardinalityType
  <2> QED
    BY ONLY <2>1, <2>2, <2>3
<1> HIDE DEF p
<1>9. \A q \in Out!Kept : Reservations'[q] = IF q = p THEN Reservations[q] - 1 ELSE Reservations[q]
  BY <1>1, <1>3, <1>8 DEF Reservations
<1>10. /\ \A q \in Out!Kept : Reservations[q] \in Nat /\ Reservations'[q] \in Nat
       /\ \A q \in Out!Kept \ {p} : Reservations[q] = Reservations'[q]
       /\ Reservations'[p] = Reservations[p] - 1 /\ Reservations[p] >= 1
  BY <1>0, <1>1, <1>8, <1>9
<1>11. /\ Total(Reservations, Out!Kept) \in Nat /\ Reservations[p] <= Total(Reservations, Out!Kept)
       /\ Total(Reservations', Out!Kept) = Total(Reservations, Out!Kept) - Reservations[p] + Reservations'[p]
  BY <1>0, <1>1, <1>10, TotalUpdate, TotalHas
<1>12. Total(Reservations', Out!Kept') = Total(Reservations, Out!Kept) - 1 /\ Total(Reservations, Out!Kept) >= 1
  BY <1>0, <1>10, <1>11
<1> QED
  BY <1>2, <1>3, <1>7, <1>8, <1>12 DEF p

LEMMA PlacesAttach ==
    ASSUME Places, PlacesInv, NEW a \in Reading, Out!Attach(a) PROVE PlacesInv'
<1> DEFINE p == v13[a].of
<1>1. v13[a].at = "storing" /\ p \in Proc /\ Out!Kept' = Out!Kept
  BY DEF Out!Attach, PlacesInv, CallsOK, Out!Kept
<1>2. CASE v5[p] = "released"
  <2>1. v13' = [v13 EXCEPT ![a].at = "gone"] /\ UNCHANGED <<v9, v10, v11, v12>>
    BY <1>2 DEF Out!Attach
  <2>2. /\ DOMAIN v13' = Reading /\ v13'[a].at = "gone" /\ DOMAIN v13'[a] = {"at", "of"}
        /\ \A b \in Reading : b # a => v13'[b] = v13[b]
    BY <2>1 DEF PlacesInv, CallsOK
  <2>3. \A q \in Out!Kept : Storers(q)' = Storers(q)
    <3> TAKE q \in Out!Kept
    <3>1. q # p
      BY <1>2 DEF Out!Kept
    <3>2. \A b \in Reading : b \in Storers(q)' <=> b \in Storers(q)
      BY <2>2, <3>1 DEF Storers
    <3> QED
      BY <3>2 DEF Storers
  <2>4. \A q \in Proc : PlaceOK(q)'
    BY <1>1, <2>1, <2>3 DEF PlacesInv, PlaceOK
  <2>5. CallsOK'
    BY <2>2 DEF PlacesInv, CallsOK
  <2>6. Reservations' = Reservations /\ Stored' = Stored
    BY <1>1, <2>1 DEF Reservations, Stored
  <2>7. CountsOK'
    BY <1>1, <2>1, <2>6 DEF PlacesInv, CountsOK
  <2> QED
    BY <2>1, <2>4, <2>5, <2>7 DEF PlacesInv
<1>3. CASE v5[p] # "released"
  <2>0. p \in Out!Kept
    BY <1>1, <1>3 DEF Out!Kept
  <2>1. /\ v10' = [v10 EXCEPT ![p] = @ \ {a}] /\ v12' = Out!Monus(v12, 1)
        /\ IF v9[p] >= MaxSnapshots \/ v11 >= MaxAllSnapshots
             THEN /\ v13' = [v13 EXCEPT ![a].at = "unattached"]
                  /\ UNCHANGED <<v9, v11>>
             ELSE /\ v13' = [v13 EXCEPT ![a].at = "attached"]
                  /\ v9' = [v9 EXCEPT ![p] = @ + 1]
                  /\ v11' = v11 + 1
    BY <1>3 DEF Out!Attach
  <2>2. /\ DOMAIN v13' = Reading /\ v13'[a].at # "storing" /\ DOMAIN v13'[a] = {"at", "of"}
        /\ \A b \in Reading : b # a => v13'[b] = v13[b]
    BY <2>1 DEF PlacesInv, CallsOK
  <2>3. /\ DOMAIN v10' = Proc
        /\ \A q \in Out!Kept : v10'[q] = Storers(q)'
        /\ \A q \in Proc : q # p => v10'[q] = v10[q]
        /\ Cardinality(v10[p]) >= 1
        /\ Cardinality(v10'[p]) = Cardinality(v10[p]) - 1
        /\ Total(Reservations', Out!Kept') = Total(Reservations, Out!Kept) - 1
        /\ Total(Reservations, Out!Kept) >= 1
    BY <1>1, <2>0, <2>1, <2>2, PlaceLeft
  <2>4. /\ IsFiniteSet(Out!Kept) /\ Out!Kept \subseteq Proc
        /\ \A q \in Out!Kept : /\ Reservations[q] = Cardinality(v10[q])
                           /\ Reservations[q] \in Nat /\ Stored[q] = v9[q] /\ Stored[q] \in Nat
        /\ v12 \in Nat /\ v11 \in Nat
    BY PlacesAre
  <2>5. /\ v12 = Total(Reservations, Out!Kept) /\ v11 = Total(Stored, Out!Kept)
        /\ v11 + v12 <= MaxAllSnapshots
        /\ v9[p] + Cardinality(v10[p]) <= MaxSnapshots
        /\ MaxSnapshots \in Nat /\ MaxAllSnapshots \in Nat
        /\ Cardinality(v10[p]) \in Nat /\ v9[p] \in Nat
    BY <2>0, <2>4 DEF PlacesInv, CountsOK, PlaceOK, Places
  <2>6. v9[p] < MaxSnapshots /\ v11 < MaxAllSnapshots /\ v12' = v12 - 1
    BY ONLY <2>1, <2>3, <2>4, <2>5 DEF Out!Monus
  <2>7. ~(v9[p] >= MaxSnapshots \/ v11 >= MaxAllSnapshots)
    BY ONLY <2>4, <2>5, <2>6
  <2>8. /\ v13' = [v13 EXCEPT ![a].at = "attached"]
        /\ v9' = [v9 EXCEPT ![p] = @ + 1] /\ v11' = v11 + 1
    BY <2>1, <2>7
  <2>9. /\ DOMAIN v9' = Proc /\ \A q \in Proc : v9'[q] = IF q = p THEN v9[q] + 1 ELSE v9[q]
    BY <2>8 DEF PlacesInv
  <2>10. \A q \in Proc : PlaceOK(q)'
    <3> TAKE q \in Proc
    <3>1. CASE q = p
      <4>1. v9'[p] = v9[p] + 1 /\ Cardinality(v10'[p]) = Cardinality(v10[p]) - 1
        BY <1>1, <2>3, <2>9
      <4>2. v9'[p] \in Nat /\ v9'[p] + Cardinality(v10'[p]) <= MaxSnapshots
        BY ONLY <2>5, <4>1
      <4>3. v10'[q] = Storers(q)'
        BY <2>0, <2>3, <3>1
      <4>4. v9'[q] \in Nat /\ v9'[q] + Cardinality(v10'[q]) <= MaxSnapshots
        BY <3>1, <4>2
      <4> QED
        BY <4>3, <4>4 DEF PlaceOK
    <3>2. CASE q # p
      <4>1. v10'[q] = v10[q] /\ v9'[q] = v9[q]
        BY <2>3, <2>9, <3>2
      <4>2. q \in Out!Kept => v10'[q] = Storers(q)'
        BY <2>3
      <4> QED
        BY <1>1, <4>1, <4>2 DEF PlacesInv, PlaceOK
    <3> QED
      BY <3>1, <3>2
  <2>11. CallsOK'
    <3>1. v13'[a].at = "attached"
      BY <2>8 DEF PlacesInv, CallsOK
    <3> QED
      BY <2>2, <3>1 DEF PlacesInv, CallsOK
  <2>12. Total(Stored', Out!Kept') = Total(Stored, Out!Kept) + 1
    <3>1. \A q \in Out!Kept : Stored'[q] = IF q = p THEN Stored[q] + 1 ELSE Stored[q]
      BY <1>1, <2>4, <2>9 DEF Stored
    <3>2. /\ \A q \in Out!Kept : Stored[q] \in Nat /\ Stored'[q] \in Nat
          /\ \A q \in Out!Kept \ {p} : Stored[q] = Stored'[q]
          /\ Stored'[p] = Stored[p] + 1
      BY <2>0, <2>4, <3>1
    <3>3. /\ Total(Stored, Out!Kept) \in Nat
          /\ Total(Stored', Out!Kept) = Total(Stored, Out!Kept) - Stored[p] + Stored'[p]
      <4> HIDE DEF p
      <4> QED
        BY <2>0, <2>4, <3>2, TotalUpdate, TotalIsNat
    <3>4. Stored[p] \in Nat
      BY <2>0, <3>2
    <3> QED
      BY <1>1, <3>2, <3>3, <3>4
  <2>13. CountsOK'
    <3>1. v11' + v12' <= MaxAllSnapshots
      BY ONLY <2>4, <2>5, <2>6, <2>8
    <3> QED
      BY <2>3, <2>5, <2>6, <2>8, <2>12, <3>1 DEF CountsOK
  <2> QED
    BY <2>3, <2>9, <2>10, <2>11, <2>13 DEF PlacesInv
<1> QED
  BY <1>2, <1>3

LEMMA PlacesGiveBack ==
    ASSUME Places, PlacesInv, NEW a \in Reading, Out!GiveBack(a) PROVE PlacesInv'
<1> DEFINE p == v13[a].of
<1>1. /\ v13[a].at = "storing" /\ p \in Proc /\ Out!Kept' = Out!Kept
      /\ v13' = [v13 EXCEPT ![a].at = "failed"] /\ UNCHANGED <<v9, v11>>
  BY DEF Out!GiveBack, PlacesInv, CallsOK, Out!Kept
<1>2. /\ DOMAIN v13' = Reading /\ v13'[a].at = "failed" /\ DOMAIN v13'[a] = {"at", "of"}
      /\ \A b \in Reading : b # a => v13'[b] = v13[b]
  BY <1>1 DEF PlacesInv, CallsOK
<1>3. CallsOK'
  BY <1>2 DEF PlacesInv, CallsOK
<1>4. Stored' = Stored
  BY <1>1 DEF Stored
<1>5. CASE v5[p] = "released"
  <2>1. UNCHANGED <<v10, v12>>
    BY <1>5 DEF Out!GiveBack
  <2>2. \A q \in Out!Kept : Storers(q)' = Storers(q)
    <3> TAKE q \in Out!Kept
    <3>1. q # p
      BY <1>5 DEF Out!Kept
    <3>2. \A b \in Reading : b \in Storers(q)' <=> b \in Storers(q)
      BY <1>2, <3>1 DEF Storers
    <3> QED
      BY <3>2 DEF Storers
  <2>3. \A q \in Proc : PlaceOK(q)'
    BY <1>1, <2>1, <2>2 DEF PlacesInv, PlaceOK
  <2>4. Reservations' = Reservations
    BY <1>1, <2>1 DEF Reservations
  <2>5. CountsOK'
    BY <1>1, <1>4, <2>1, <2>4 DEF PlacesInv, CountsOK
  <2> QED
    BY <1>1, <1>3, <2>1, <2>3, <2>5 DEF PlacesInv
<1>6. CASE v5[p] # "released"
  <2>0. p \in Out!Kept
    BY <1>1, <1>6 DEF Out!Kept
  <2>1. /\ v10' = [v10 EXCEPT ![p] = @ \ {a}] /\ v12' = Out!Monus(v12, 1)
    BY <1>6 DEF Out!GiveBack
  <2>2. /\ DOMAIN v10' = Proc
        /\ \A q \in Out!Kept : v10'[q] = Storers(q)'
        /\ \A q \in Proc : q # p => v10'[q] = v10[q]
        /\ Cardinality(v10[p]) >= 1
        /\ Cardinality(v10'[p]) = Cardinality(v10[p]) - 1
        /\ Total(Reservations', Out!Kept') = Total(Reservations, Out!Kept) - 1
        /\ Total(Reservations, Out!Kept) >= 1
    <3>1. v13'[a].at # "storing"
      BY <1>2
    <3> QED
      BY <1>1, <1>2, <2>0, <2>1, <3>1, PlaceLeft
  <2>3. /\ Out!Kept \subseteq Proc /\ Cardinality(v10[p]) \in Nat
        /\ v12 \in Nat /\ v11 \in Nat
    BY <2>0, PlacesAre
  <2>4. /\ v12 = Total(Reservations, Out!Kept) /\ v11 = Total(Stored, Out!Kept)
        /\ v11 + v12 <= MaxAllSnapshots
        /\ v9[p] + Cardinality(v10[p]) <= MaxSnapshots
        /\ MaxSnapshots \in Nat /\ MaxAllSnapshots \in Nat /\ v9[p] \in Nat
    BY <2>0, <2>3 DEF PlacesInv, CountsOK, PlaceOK, Places
  <2>5. v12' = v12 - 1
    BY ONLY <2>1, <2>2, <2>3, <2>4 DEF Out!Monus
  <2>6. \A q \in Proc : PlaceOK(q)'
    <3> TAKE q \in Proc
    <3>1. CASE q = p
      <4>2. v9'[p] \in Nat /\ v9'[p] + Cardinality(v10'[p]) <= MaxSnapshots
        BY <1>1, <2>2, <2>3, <2>4
      <4>3. v10'[q] = Storers(q)'
        BY <2>0, <2>2, <3>1
      <4>4. v9'[q] \in Nat /\ v9'[q] + Cardinality(v10'[q]) <= MaxSnapshots
        BY <3>1, <4>2
      <4> QED
        BY <4>3, <4>4 DEF PlaceOK
    <3>2. CASE q # p
      <4>1. v10'[q] = v10[q] /\ (q \in Out!Kept => v10'[q] = Storers(q)')
        BY <2>2, <3>2
      <4> QED
        BY <1>1, <4>1 DEF PlacesInv, PlaceOK
    <3> QED
      BY <3>1, <3>2
  <2>7. CountsOK'
    <3>1. v11' + v12' <= MaxAllSnapshots
      BY <1>1, <2>3, <2>4, <2>5
    <3> QED
      BY <1>1, <1>4, <2>2, <2>4, <2>5, <3>1 DEF CountsOK
  <2> QED
    BY <1>1, <1>3, <2>2, <2>6, <2>7 DEF PlacesInv
<1> QED
  BY <1>5, <1>6

LEMMA PlacesSound ==
    ASSUME Places, PlacesInv PROVE Out!ReservationHonoured
  BY OutputTotal
     DEF PlacesInv, CallsOK, CountsOK, Out!ReservationHonoured, Out!Cardinality, Cardinality,
         Reservations, Stored

-----------------------------------------------------------------------------
(* The output as a whole.                                                  *)

OutInv == BuffersInv /\ ReadersInv /\ PlacesInv

LEMMA OutInitInv == ASSUME Limits, Places, Out!Init PROVE OutInv
<1>0. /\ Out!Kept = Proc /\ Released = {} /\ IsFiniteSet(Proc) /\ IsFiniteSet({})
  BY FS_EmptySet DEF Out!Init, Out!Kept, Released, Limits
<1>1. \A p \in Proc : BufferOK(p)
  <2> TAKE p \in Proc
  <2>1. v1[p] = <<>> /\ v2[p] = 0 /\ v3[p] = 0 /\ v4[p] = 0
    BY DEF Out!Init
  <2>2. <<>> \in Seq(Piece) /\ Len(<<>>) = 0
    BY EmptySeq
  <2>3. Joined(<<>>) /\ Covers(<<>>, 0, 0)
    BY <2>2 DEF Joined, Covers
  <2>4. \A i \in 1..Len(<<>>) : <<>>[i].born <= v7
    BY <2>2
  <2>5. 0 - 0 <= MaxBuffer /\ 0 \in Nat
    BY DEF Limits
  <2> QED
    BY <2>1, <2>2, <2>3, <2>4, <2>5 DEF BufferOK
<1>2. Out!KeptTotal = 0
  <2>1. \A p \in Proc : v2[p] = 0 /\ v3[p] = 0 /\ BufferOK(p)
    BY <1>1 DEF Out!Init
  <2>2. \A p \in Out!Kept : HeldIn(v1)[p] = 0
    BY <1>0, <1>1, <2>1, HeldIsNat DEF HeldIn
  <2> QED
    BY <1>0, <2>2, KeptTotalIs, TotalOfZeros
<1>3. Total(ReleasedIn(v1), Released) = 0
  BY <1>0, TotalOfNone
<1>4. TotalOK
  BY <1>2, <1>3 DEF TotalOK, Out!Init, Limits
<1>5. BuffersInv
  BY <1>1, <1>4 DEF BuffersInv, Out!Init
<1>6. ReadersInv
  BY DEF ReadersInv, ReaderOK, Out!Init
<1>7. \A p \in Proc : PlaceOK(p)
  <2> TAKE p \in Proc
  <2>1. v9[p] = 0 /\ v10[p] = {} /\ Storers(p) = {} /\ MaxSnapshots \in Nat
    BY DEF Out!Init, Storers, Places
  <2> QED
    BY <2>1, FS_EmptySet DEF PlaceOK
<1>8. CallsOK
  BY DEF CallsOK, Out!Init
<1>9. CountsOK
  <2>1. \A p \in Out!Kept : Reservations[p] = 0 /\ Stored[p] = 0
    BY <1>0, FS_EmptySet DEF Reservations, Stored, Out!Init
  <2>2. Total(Reservations, Out!Kept) = 0 /\ Total(Stored, Out!Kept) = 0
    BY <1>0, <2>1, TotalOfZeros
  <2> QED
    BY <2>2 DEF CountsOK, Out!Init, Places
<1>10. PlacesInv
  BY <1>7, <1>8, <1>9 DEF PlacesInv, Out!Init
<1> QED
  BY <1>5, <1>6, <1>10 DEF OutInv

LEMMA OutSameInv == ASSUME OutInv, UNCHANGED Out!outputVars PROVE OutInv'
<1>1. /\ UNCHANGED <<v1, v2, v3, v4, v5, v6, v7>> /\ v8' = v8
      /\ UNCHANGED Out!artifactVars
  BY DEF Out!outputVars, Out!artifactVars
<1>2. Out!Kept' = Out!Kept
  BY <1>1 DEF Out!Kept
<1>3. ReadersInv'
  BY <1>1 DEF OutInv, ReadersInv, ReaderOK
<1> QED
  BY <1>1, <1>2, <1>3, BuffersSame, PlacesSame DEF OutInv

LEMMA OutWritingInv ==
    ASSUME Limits, Places, OutInv, NEW p \in Proc, NEW n \in Nat \ {0}, Out!Writing(p, n) PROVE OutInv'
<1>0. BuffersInv /\ ReadersInv /\ PlacesInv
  BY DEF OutInv
<1>1. v8' = v8 => ReadersInv'
  BY <1>0 DEF ReadersInv, ReaderOK
<1>2. CASE Out!Output(p, n)
  <2>1. Out!AppendOutput(p, n) /\ v5' = v5 /\ v8' = v8 /\ UNCHANGED Out!artifactVars
    BY <1>2 DEF Out!Output
  <2>2. Out!Kept' = Out!Kept
    BY <2>1 DEF Out!Kept
  <2> QED
    BY <1>0, <1>1, <2>1, <2>2, BuffersAppend, PlacesSame DEF OutInv
<1>3. CASE Out!End(p)
  <2>1. v8' = v8 /\ UNCHANGED Out!artifactVars
    BY <1>3 DEF Out!End
  <2> QED
    BY <1>0, <1>1, <1>3, <2>1, BuffersEnd, PlacesSame DEF OutInv
<1>4. CASE Out!Release(p)
  <2>1. v8' = v8
    BY <1>4 DEF Out!Release, Out!Cardinality, Cardinality
  <2> QED
    BY <1>0, <1>1, <1>4, <2>1, BuffersRelease, PlacesRelease DEF OutInv
<1> QED
  BY <1>2, <1>3, <1>4 DEF Out!Writing

LEMMA OutReadingInv ==
    ASSUME OutInv, NEW p, NEW max \in Nat, Out!AskAndWait(p) \/ Out!Answer(p, max) PROVE OutInv'
<1>1. /\ UNCHANGED <<v1, v2, v3, v4, v5, v6, v7>> /\ UNCHANGED Out!artifactVars
  BY DEF Out!AskAndWait, Out!Answer
<1>2. Out!Kept' = Out!Kept
  BY <1>1 DEF Out!Kept
<1>3. ReadersInv'
  BY AskReaders, AnswerReaders DEF OutInv
<1> QED
  BY <1>1, <1>2, <1>3, BuffersSame, PlacesSame DEF OutInv

LEMMA OutStoringInv ==
    ASSUME Limits, Places, OutInv, NEW a \in Reading, Out!Storing(a) PROVE OutInv'
<1>1. UNCHANGED <<v1, v2, v3, v4, v5, v6, v7>> /\ v8' = v8
  BY DEF Out!Storing, Out!Reserve, Out!Attach, Out!GiveBack
<1>2. PlacesInv'
  BY PlacesReserve, PlacesAttach, PlacesGiveBack DEF OutInv, Out!Storing
<1>3. ReadersInv'
  BY <1>1 DEF OutInv, ReadersInv, ReaderOK
<1> QED
  BY <1>1, <1>2, <1>3, BuffersSame DEF OutInv

LEMMA OutSound ==
    ASSUME Limits, Places, OutInv
    PROVE  Out!NothingSilentlyLost /\ Out!BufferIsSuffix /\ Out!GlobalLimit /\ Out!ReservationHonoured
  BY ReadersSound, BuffersSound, PlacesSound DEF OutInv

\* However the processes' output, the readers, the log snapshots and the releases of records
\* interleave: a reader has been given or told it missed every character up to its cursor, a buffer is
\* the suffix of what its process wrote, the records together stay within their limit, and a place that
\* was reserved for a log is there when the log has been stored.
THEOREM OutputIsAccountedFor ==
    ASSUME IsFiniteSet(Proc), IsFiniteSet(Reading), MaxChunk \in Nat \ {0},
           MaxBuffer \in Nat, MaxGlobal \in Nat, MaxSnapshots \in Nat, MaxAllSnapshots \in Nat
    PROVE  MCSpec => []OutputAccountedFor
<1> DEFINE Inv == part \in {"output", "artifacts"} => OutInv
<1>0. Limits /\ Places
  BY DEF Limits, Places
<1>1. MCInit => Inv
  BY <1>0, OutInitInv DEF MCInit
<1>2. Inv /\ [MCNext]_vars => Inv'
  <2> SUFFICES ASSUME Inv, [MCNext]_vars, part' \in {"output", "artifacts"} PROVE OutInv'
    OBVIOUS
  <2>1. part' = part /\ OutInv
    BY DEF MCNext, vars
  <2>2. CASE OutputNext
    <3>1. CASE \E p \in Proc, n \in {1, 3} : Out!Writing(p, n)
      <4>1. 1 \in Nat \ {0} /\ 3 \in Nat \ {0}
        OBVIOUS
      <4> QED
        BY <1>0, <2>1, <3>1, <4>1, OutWritingInv
    <3>2. CASE Out!AskAndWait(One)
      <4>1. 0 \in Nat
        OBVIOUS
      <4> QED
        BY <2>1, <3>2, <4>1, OutReadingInv
    <3>3. CASE \E n \in {1, 3} : Out!Answer(One, n)
      <4>1. 1 \in Nat /\ 3 \in Nat
        OBVIOUS
      <4> QED
        BY <2>1, <3>3, <4>1, OutReadingInv
    <3> QED
      BY <2>2, <3>1, <3>2, <3>3 DEF OutputNext
  <2>3. CASE ArtifactsNext
    <3>1. CASE \E a \in Reading : Out!Storing(a)
      BY <1>0, <2>1, <3>1, OutStoringInv
    <3>2. CASE \E p \in Proc : Out!End(p) \/ Out!Release(p)
      <4>1. PICK p \in Proc : Out!Writing(p, 1)
        BY <3>2 DEF Out!Writing
      <4>2. 1 \in Nat \ {0}
        OBVIOUS
      <4> QED
        BY <1>0, <2>1, <4>1, <4>2, OutWritingInv
    <3> QED
      BY <2>3, <3>1, <3>2 DEF ArtifactsNext
  <2>4. CASE UNCHANGED vars
    <3>1. UNCHANGED Out!outputVars
      BY <2>4 DEF vars, partVars, Out!outputVars
    <3> QED
      BY <2>1, <3>1, OutSameInv
  <2> QED
    BY <2>1, <2>2, <2>3, <2>4 DEF MCNext
<1>3. Inv => OutputAccountedFor
  BY <1>0, OutSound DEF OutputAccountedFor
<1> QED
  BY <1>1, <1>2, <1>3, PTL DEF MCSpec
=============================================================================
