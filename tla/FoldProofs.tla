----------------------------- MODULE FoldProofs -----------------------------
(***************************************************************************)
(* What the folds over sequences and sets compute.  A fold of the          *)
(* community modules is a function on the subsets of a set that calls      *)
(* itself; the theorems of the library that justify such functions take an *)
(* operator, which the provers cannot instantiate.  Here a step is a       *)
(* function and an induction is over a set of numbers, so that a theorem   *)
(* about one fold can cite them.                                           *)
(***************************************************************************)
EXTENDS Integers, FiniteSets, FiniteSetsExt, FiniteSetTheorems,
        WellFoundedInduction, TLAPS

\* Induction, for a set of numbers.
LEMMA SetInduction ==
  ASSUME NEW S, 0 \in S, \A n \in Nat : n \in S => n + 1 \in S
  PROVE  Nat \subseteq S
<1> DEFINE less == OpToRel(<, Nat)
<1>1. IsWellFoundedOn(less, Nat)
  BY NatLessThanWellFounded, Zenon
<1>2. \A i, j \in Nat : i < j => <<i, j>> \in less
  BY Zenon DEF OpToRel
<1> HIDE DEF less
<1>3. SUFFICES ASSUME Nat \ S # {}
               PROVE  FALSE
  OBVIOUS
<1>4. PICK x \in Nat \ S : \A y \in Nat \ S : ~(<<y, x>> \in less)
  BY <1>1, <1>3, WFMin, Zenon
<1>5. x \in Nat /\ x # 0
  BY <1>4
<1>6. x - 1 \in Nat /\ x = (x - 1) + 1 /\ x - 1 < x
  BY <1>5
<1>7. x - 1 \notin S
  BY <1>4, <1>6
<1>8. QED
  BY <1>2, <1>4, <1>5, <1>6, <1>7

\* The same up to a bound.
LEMMA BoundedInduction ==
  ASSUME NEW S, NEW n \in Nat, 0 \in S,
         \A k \in 0 .. n - 1 : k \in S => k + 1 \in S
  PROVE  0 .. n \subseteq S
<1> DEFINE Upto == {k \in Nat : k <= n => k \in S}
<1>1. 0 \in Upto
  OBVIOUS
<1>2. \A k \in Nat : k \in Upto => k + 1 \in Upto
  OBVIOUS
<1>3. Nat \subseteq Upto
  <2> HIDE DEF Upto
  <2> QED
    BY <1>1, <1>2, SetInduction
<1>4. QED
  BY <1>3

\* pick names an element of every set there is one in.
Picks(pick, D) == \A T \in SUBSET D : T # {} => pick[T] \in T

\* it takes the elements of a set as pick names them, and folds them with step.
IsFold(it, D, base, step, pick) ==
  \A T \in SUBSET D :
    it[T] = IF T = {} THEN base ELSE step[<<it[T \ {pick[T]}], pick[T]>>]

\* A fold over a finite set exists, whatever element is taken next.
LEMMA FoldExists ==
  ASSUME NEW D, IsFiniteSet(D), NEW V, NEW base \in V,
         NEW step \in [V \X D -> V], NEW pick, Picks(pick, D)
  PROVE  \E it \in [SUBSET D -> V] : IsFold(it, D, base, step, pick)
<1> DEFINE Next(it, T) == IF T = {} THEN base
                          ELSE step[<<it[T \ {pick[T]}], pick[T]>>]
           Upto == {n \in Nat : \E it \in [SUBSET D -> V] :
                      \A T \in SUBSET D : Cardinality(T) <= n => it[T] = Next(it, T)}
<1>1. \A T \in SUBSET D : IsFiniteSet(T) /\ Cardinality(T) \in Nat
  BY FS_Subset, FS_CardinalityType
<1>2. \A T \in SUBSET D : T # {} =>
        /\ T \ {pick[T]} \in SUBSET D
        /\ pick[T] \in D
        /\ Cardinality(T \ {pick[T]}) = Cardinality(T) - 1
  BY <1>1, FS_RemoveElement DEF Picks
<1>3. \A it \in [SUBSET D -> V], T \in SUBSET D : Next(it, T) \in V
  BY <1>2
<1>4. 0 \in Upto
  <2> DEFINE it == [T \in SUBSET D |-> base]
  <2>1. it \in [SUBSET D -> V]
    OBVIOUS
  <2>2. ASSUME NEW T \in SUBSET D, Cardinality(T) <= 0
        PROVE  it[T] = Next(it, T)
    <3>1. T = {}
      BY <1>1, <2>2, FS_EmptySet
    <3>2. QED
      BY <3>1
  <2>3. QED
    BY <2>1, <2>2
<1>5. ASSUME NEW n \in Nat, n \in Upto
      PROVE  n + 1 \in Upto
  <2>1. PICK it \in [SUBSET D -> V] :
          \A T \in SUBSET D : Cardinality(T) <= n => it[T] = Next(it, T)
    BY <1>5
  <2> DEFINE further == [T \in SUBSET D |->
                           IF Cardinality(T) <= n THEN it[T] ELSE Next(it, T)]
  <2>2. further \in [SUBSET D -> V]
    BY <1>3 
  <2>3. ASSUME NEW T \in SUBSET D, Cardinality(T) <= n + 1
        PROVE  further[T] = Next(further, T)
    <3>1. further[T] = Next(it, T)
      BY <2>1
    <3>2. CASE T = {}
      BY <3>1, <3>2
    <3>3. CASE T # {}
      <4>1. Cardinality(T \ {pick[T]}) <= n /\ T \ {pick[T]} \in SUBSET D
        BY <1>1, <1>2, <2>3, <3>3
      <4>2. further[T \ {pick[T]}] = it[T \ {pick[T]}]
        BY <4>1
      <4>3. QED
        BY <3>1, <3>3, <4>2
    <3>4. QED
      BY <3>2, <3>3
  <2>4. QED
    <3> HIDE DEF further, Next
    <3> QED
      BY <2>2, <2>3
<1>6. Cardinality(D) \in Upto
  <2>1. Nat \subseteq Upto
    <3> HIDE DEF Upto
    <3> QED
      BY <1>4, <1>5, SetInduction
  <2>2. QED
    BY <1>1, <2>1
<1>7. \A T \in SUBSET D : Cardinality(T) <= Cardinality(D)
  BY FS_Subset
<1>8. QED
  BY <1>6, <1>7 DEF IsFold

\* A set of positions has a greatest one.
LEMMA GreatestPosition ==
  ASSUME NEW n \in Nat, NEW T \in SUBSET (1 .. n), T # {}
  PROVE  Max(T) \in T /\ \A i \in T : Max(T) >= i
<1> DEFINE Upto == {k \in Nat : \A U \in SUBSET (1 .. k) :
                      U # {} => \E i \in U : \A j \in U : i >= j}
<1>1. 0 \in Upto
  <2>1. 1 .. 0 = {}
    OBVIOUS
  <2>2. QED
    BY <2>1
<1>2. ASSUME NEW k \in Nat, k \in Upto
      PROVE  k + 1 \in Upto
  <2>1. ASSUME NEW U \in SUBSET (1 .. k + 1), U # {}
        PROVE  \E i \in U : \A j \in U : i >= j
    <3>1. CASE k + 1 \in U
      BY <3>1
    <3>2. CASE k + 1 \notin U
      <4>1. U \in SUBSET (1 .. k)
        BY <3>2
      <4>2. QED
        BY <1>2, <2>1, <4>1
    <3>3. QED
      BY <3>1, <3>2
  <2>2. QED
    BY <2>1
<1>3. n \in Upto
  <2> HIDE DEF Upto
  <2> QED
    BY <1>1, <1>2, SetInduction
<1>4. PICK i \in T : \A j \in T : i >= j
  BY <1>3
<1>5. QED
  BY <1>4 DEF Max

\* The last of the first k + 1 positions, and what is before it.
LEMMA LastPosition ==
  ASSUME NEW k \in Nat
  PROVE  /\ Max(1 .. k + 1) = k + 1
         /\ (1 .. k + 1) \ {k + 1} = 1 .. k
         /\ 1 .. k + 1 # {}
<1>1. k + 1 \in Nat /\ k + 1 \in 1 .. k + 1
  OBVIOUS
<1>2. /\ Max(1 .. k + 1) \in 1 .. k + 1
      /\ Max(1 .. k + 1) >= k + 1
  BY <1>1, GreatestPosition
<1>3. QED
  BY <1>1, <1>2

\* it takes the positions in the order of a sequence.
IsLeftFold(it, n, base, step) ==
  \A T \in SUBSET (1 .. n) :
    it[T] = IF T = {} THEN base ELSE step[<<it[T \ {Max(T)}], Max(T)>>]

\* A fold from the first element of a sequence to the last exists: its step
\* is a function of what there is so far and of the next position.
LEMMA LeftFoldExists ==
  ASSUME NEW n \in Nat, NEW V, NEW base \in V, NEW step \in [V \X (1 .. n) -> V]
  PROVE  \E it \in [SUBSET (1 .. n) -> V] : IsLeftFold(it, n, base, step)
<1> DEFINE D == 1 .. n
           pick == [T \in SUBSET D |-> Max(T)]
<1>1. IsFiniteSet(D)
  BY FS_Interval
<1>2. Picks(pick, D)
  BY GreatestPosition DEF Picks
<1>3. \A T \in SUBSET D : pick[T] = Max(T)
  OBVIOUS
<1>4. step \in [V \X D -> V]
  OBVIOUS
<1> HIDE DEF D, pick
<1>5. PICK it \in [SUBSET D -> V] : IsFold(it, D, base, step, pick)
  BY <1>1, <1>2, <1>4, FoldExists
<1>6. QED
  BY <1>3, <1>5 DEF D, IsFold, IsLeftFold
\* it adds up the numbers v of the elements of a set, as pick names them.
IsSum(it, D, v, pick) ==
  \A T \in SUBSET D :
    it[T] = IF T = {} THEN 0 ELSE it[T \ {pick[T]}] + v[pick[T]]

\* What a sum gives for a set, whichever element is taken out first.
AnyOrder(it, D, v) ==
  \A T \in SUBSET D :
    /\ it[T] \in Nat
    /\ T = {} => it[T] = 0
    /\ \A x \in T : it[T] = it[T \ {x}] + v[x]

LEMMA SumTakesAny ==
  ASSUME NEW D, IsFiniteSet(D), NEW v \in [D -> Nat], NEW it, NEW pick,
         Picks(pick, D), IsSum(it, D, v, pick)
  PROVE  AnyOrder(it, D, v)
<1> DEFINE Fine(T) == it[T] \in Nat /\ \A x \in T : it[T] = it[T \ {x}] + v[x]
           Upto == {n \in Nat : \A T \in SUBSET D : Cardinality(T) <= n => Fine(T)}
<1>1. \A T \in SUBSET D : IsFiniteSet(T) /\ Cardinality(T) \in Nat
  BY FS_Subset, FS_CardinalityType
<1>2. \A T \in SUBSET D : \A x \in T : Cardinality(T \ {x}) = Cardinality(T) - 1
  BY <1>1, FS_RemoveElement
<1>3. \A T \in SUBSET D : T # {} =>
        pick[T] \in T /\ it[T] = it[T \ {pick[T]}] + v[pick[T]]
  BY DEF Picks, IsSum
<1>4. it[{}] = 0
  BY DEF IsSum
<1>5. 0 \in Upto
  <2>1. \A T \in SUBSET D : Cardinality(T) <= 0 => T = {}
    BY <1>1, FS_EmptySet
  <2>2. QED
    BY <1>4, <2>1
<1>6. ASSUME NEW n \in Nat, n \in Upto
      PROVE  n + 1 \in Upto
  <2>10. Fine({})
    BY <1>4
  <2>1. SUFFICES ASSUME NEW T \in SUBSET D, Cardinality(T) <= n + 1, T # {}
                 PROVE  Fine(T)
    <3> HIDE DEF Fine
    <3> QED BY <2>10
  <2>2. \A U \in SUBSET D : Cardinality(U) <= n => Fine(U)
    BY <1>6
  <2> DEFINE y == pick[T]
  <2>3. y \in T /\ it[T] = it[T \ {y}] + v[y] /\ v[y] \in Nat
    BY <1>3, <2>1
  <2>4. \A x \in T : Cardinality(T \ {x}) <= n
    BY <1>1, <1>2, <2>1
  <2> HIDE DEF y
  <2>5. Fine(T \ {y})
    BY <2>2, <2>3, <2>4
  <2>6. it[T] \in Nat
    BY <2>3, <2>5
  <2>7. ASSUME NEW x \in T, x # y
        PROVE  it[T] = it[T \ {x}] + v[x]
    <3>1. Fine(T \ {x})
      BY <2>2, <2>4
    <3>2. (T \ {x}) \ {y} = (T \ {y}) \ {x}
      OBVIOUS
    <3> DEFINE rest == it[(T \ {y}) \ {x}]
    <3>3. it[T \ {x}] = rest + v[y]
      BY <2>3, <2>7, <3>1, <3>2
    <3>4. it[T \ {y}] = rest + v[x]
      BY <2>5, <2>7
    <3>5. rest \in Nat /\ v[x] \in Nat
      <4>1. Cardinality((T \ {y}) \ {x}) <= n
        BY <1>1, <1>2, <2>1, <2>3, <2>7
      <4> QED BY <2>2, <4>1
    <3> HIDE DEF rest
    <3> QED BY <2>3, <3>3, <3>4, <3>5
  <2> QED BY <2>3, <2>6, <2>7
<1>7. Cardinality(D) \in Upto
  <2>1. Nat \subseteq Upto
    <3> HIDE DEF Upto
    <3> QED
      BY <1>5, <1>6, SetInduction
  <2>2. QED
    BY <1>1, <2>1
<1>8. \A T \in SUBSET D : Cardinality(T) <= Cardinality(D)
  BY FS_Subset
<1>9. QED
  BY <1>4, <1>7, <1>8 DEF AnyOrder
=============================================================================
