---------------------------- MODULE PolicyProofs ----------------------------
(***************************************************************************)
(* Theorems about the decision functions, for every chain, every sample    *)
(* and every configuration.                                                *)
(***************************************************************************)
EXTENDS PolicyCheck, FoldProofs

\* Multiplication keeps an order.
LEMMA ScaledOrder ==
  ASSUME NEW p \in Nat, NEW i \in Nat, NEW j \in Nat, i <= j
  PROVE  p * i <= p * j
<1>1. PICK d \in Nat : j = i + d
  <2>1. j - i \in Nat /\ j = i + (j - i)
    OBVIOUS
  <2>2. QED
    BY <2>1
<1>2. p * j = p * i + p * d
  BY <1>1
<1>3. p * d \in Nat /\ p * i \in Nat
  BY <1>1
<1>4. QED
  BY <1>2, <1>3

\* Numbers that only fall, against a baseline that only rises, keep firing.
LEMMA TriggerMonotone ==
  ASSUME NEW p \in FailoverPolicy,
         NEW t \in OptNat, NEW r \in OptNat, NEW i \in OptNat,
         NEW t2 \in OptNat, NEW r2 \in OptNat, NEW i2 \in OptNat,
         t # NoValue => t2 \in 0 .. t,
         r # NoValue => r2 \in 0 .. r,
         i <= i2,
         should_trigger(p, t, r, i)
  PROVE  should_trigger(p, t2, r2, i2)
<1>1. /\ p.tokens_remaining_pct \in Nat
      /\ p.tokens_remaining_abs \in OptNat
      /\ p.requests_remaining \in Nat
  BY DEF FailoverPolicy
<1>2. CASE t # NoValue /\ p.tokens_remaining_abs # NoValue /\ t < p.tokens_remaining_abs
  BY <1>1, <1>2 DEF should_trigger, OptNat, NoValue
<1>3. CASE /\ t # NoValue /\ i # NoValue /\ i > 0
           /\ 100 * t < p.tokens_remaining_pct * i
  <2>1. i \in Nat /\ i2 \in Nat /\ t \in Nat /\ t2 \in Nat /\ t2 <= t /\ i2 > 0
    BY <1>3 DEF OptNat, NoValue
  <2>2. p.tokens_remaining_pct * i <= p.tokens_remaining_pct * i2
    BY <1>1, <2>1, ScaledOrder
  <2>3. /\ p.tokens_remaining_pct * i \in Nat
        /\ p.tokens_remaining_pct * i2 \in Nat
    BY <1>1, <2>1
  <2>4. 100 * t2 <= 100 * t
    BY <2>1
  <2>5. 100 * t2 < p.tokens_remaining_pct * i2
    BY <1>3, <2>1, <2>2, <2>3, <2>4
  <2>6. QED
    BY <2>1, <2>5 DEF should_trigger, NoValue
<1>4. CASE r # NoValue /\ r < p.requests_remaining
  BY <1>1, <1>4 DEF should_trigger, OptNat, NoValue
<1>5. QED
  BY <1>2, <1>3, <1>4 DEF should_trigger

\* There is at most one target, and it is a kind of the chain other than the
\* current one (pick_next; "skipping the current one" holds for the kind the
\* event names).
THEOREM PickIsUnique ==
  ASSUME NEW s \in Seq(Kinds), NEW c, NEW m \in [Kinds -> OptNat]
  PROVE  /\ \A k, l \in pick_next(s, c, m) : k = l
         /\ \A k \in pick_next(s, c, m) : k # c /\ \E i \in DOMAIN s : s[i] = k
<1>1. \A i \in candidates(s, c) : i \in Nat /\ s[i] \in Kinds /\ s[i] # c
  BY DEF candidates
<1>2. \A k \in Kinds : tokens_of(m, k) \in Nat
  BY DEF tokens_of, OptNat, NoValue
<1>3. ASSUME NEW i \in candidates(s, c), NEW j \in candidates(s, c),
             i # j, preferred(s, m, i, j)
      PROVE  ~preferred(s, m, j, i)
  <2>1. /\ i \in Nat /\ j \in Nat
        /\ tokens_of(m, s[i]) \in Nat /\ tokens_of(m, s[j]) \in Nat
    BY <1>1, <1>2
  <2>2. QED
    BY <1>3, <2>1 DEF preferred
<1>4. QED
  BY <1>1, <1>3 DEF pick_next, candidates

TriggerInv ==
  /\ policy \in FailoverPolicy
  /\ tokens \in OptNat /\ requests \in OptNat /\ initial \in OptNat

\* An agent below a threshold stays below it while its numbers do not recover,
\* for every configuration and every sequence of responses.
THEOREM TriggerStays == Spec => NoRecoveryNoRelease
<1> DEFINE vs == <<question, numbers>>
<1>1. Init => TriggerInv
  BY CheckAssumption
     DEF Init, PickInit, TriggerInit, NoNumbers, TriggerInv, OptNat
<1>2. TriggerInv /\ [Next]_vs => TriggerInv' /\ policy' = policy /\ initial <= initial'
  <2>1. ASSUME TriggerInv, NEW t \in Amounts \cup {NoValue},
               NEW r \in Amounts \cup {NoValue}, Responded(t, r)
        PROVE  TriggerInv' /\ policy' = policy /\ initial <= initial'
    <3>1. t \in OptNat /\ r \in OptNat
      BY CheckAssumption DEF OptNat
    <3>2. QED
      BY <2>1, <3>1 DEF Responded, TriggerInv, question, OptNat, NoValue
  <2>2. ASSUME TriggerInv, UNCHANGED <<question, tokens, requests, initial>>
        PROVE  TriggerInv' /\ policy' = policy /\ initial <= initial'
    BY <2>2 DEF TriggerInv, question, OptNat, NoValue
  <2>3. QED
    BY <2>1, <2>2 DEF Next, Sampled, numbers
<1>3. TriggerInv /\ [Next]_vs =>
        [/\ fires
         /\ tokens # NoValue => tokens' \in 0 .. tokens
         /\ requests # NoValue => requests' \in 0 .. requests
         => fires']_numbers
  BY <1>2, TriggerMonotone DEF TriggerInv, fires
<1>4. QED
  BY <1>1, <1>2, <1>3, PTL DEF Spec, NoRecoveryNoRelease

\* A question to pick_next: a chain of kinds and a number, or none, for each.
QuestionInv ==
  /\ chain \in Seq(Kinds)
  /\ samples \in [Kinds -> OptNat]

\* A new sample of one kind leaves the other kinds' numbers alone, and there are
\* samples after it if there were any before.
LEMMA SampleOfOneKind ==
  ASSUME QuestionInv, NEW k0 \in Kinds, NEW t \in Amounts, Sampled(k0, t),
         ~samples_empty(chain, samples)
  PROVE  /\ \A k \in Kinds : /\ tokens_of(samples, k) \in Nat
                             /\ tokens_of(samples', k) \in Nat
                             /\ k # k0 => tokens_of(samples', k) = tokens_of(samples, k)
         /\ ~samples_empty(chain, samples')
<1>1. t \in Nat /\ t # NoValue
  BY CheckAssumption DEF NoValue
<1>2. \A k \in Kinds : samples'[k] = IF k = k0 THEN t ELSE samples[k]
  BY DEF Sampled, QuestionInv
<1>3. \A k \in Kinds : samples[k] \in OptNat
  BY DEF QuestionInv
<1>4. \A i \in DOMAIN chain : chain[i] \in Kinds
  BY DEF QuestionInv
<1>5. ~samples_empty(chain, samples')
  BY <1>1, <1>2, <1>4 DEF samples_empty
<1>6. QED
  BY <1>1, <1>2, <1>3, <1>5 DEF tokens_of, OptNat, NoValue

\* What has the most tokens keeps them when its number rises and the others'
\* do not move; the other way round for a number that falls.
LEMMA MoreTokensPreferred ==
  ASSUME NEW s \in Seq(Kinds), NEW c, NEW m, NEW n, NEW k \in Kinds,
         ~samples_empty(s, m), ~samples_empty(s, n),
         \A l \in Kinds : /\ tokens_of(m, l) \in Nat
                          /\ tokens_of(n, l) \in Nat
                          /\ l # k => tokens_of(n, l) = tokens_of(m, l),
         tokens_of(n, k) > tokens_of(m, k),
         k \in pick_next(s, c, m)
  PROVE  k \in pick_next(s, c, n)
<1>1. PICK i \in candidates(s, c) :
        /\ s[i] = k
        /\ \A j \in candidates(s, c) \ {i} : preferred(s, m, i, j)
  BY DEF pick_next
<1>2. \A j \in candidates(s, c) : j \in Nat /\ s[j] \in Kinds
  BY DEF candidates
<1>3. ASSUME NEW j \in candidates(s, c) \ {i}
      PROVE  preferred(s, n, i, j)
  <2>1. \/ tokens_of(m, k) > tokens_of(m, s[j])
        \/ tokens_of(m, k) = tokens_of(m, s[j]) /\ i > j
    BY <1>1, <1>3 DEF preferred
  <2>2. s[j] \in Kinds
    BY <1>2, <1>3
  <2>3. \/ tokens_of(n, k) > tokens_of(n, s[j])
        \/ tokens_of(n, k) = tokens_of(n, s[j]) /\ i > j
    <3>1. CASE s[j] = k
      BY <2>1, <3>1
    <3>2. CASE s[j] # k
      BY <2>1, <2>2, <3>2
    <3>3. QED
      BY <3>1, <3>2
  <2>4. QED
    BY <1>1, <2>3 DEF preferred
<1>4. QED
  BY <1>1, <1>3 DEF pick_next

\* A question stays one.
LEMMA QuestionAlways == Spec => []QuestionInv
<1> DEFINE vs == <<question, numbers>>
<1>1. Init => QuestionInv
  <2>1. ASSUME NEW n \in 1 .. MaxChain, NEW s \in [1 .. n -> Kinds]
        PROVE  s \in Seq(Kinds)
    <3>1. n \in Nat
      BY CheckAssumption
    <3>2. QED
      BY <3>1
  <2>2. PickInit => QuestionInv
    BY <2>1, CheckAssumption DEF PickInit, QuestionInv, OptNat
  <2>3. TriggerInit => QuestionInv
    BY DEF TriggerInit, QuestionInv, OptNat
  <2>4. QED
    BY <2>2, <2>3 DEF Init
<1>2. QuestionInv /\ [Next]_vs => QuestionInv'
  <2>1. ASSUME QuestionInv, NEW k \in Kinds, NEW t \in Amounts, Sampled(k, t)
        PROVE  QuestionInv'
    BY <2>1, CheckAssumption DEF Sampled, QuestionInv, question, OptNat
  <2>2. ASSUME QuestionInv, UNCHANGED <<question, samples>>
        PROVE  QuestionInv'
    BY <2>2 DEF QuestionInv, question
  <2>3. QED
    BY <2>1, <2>2 DEF Next, Responded, numbers
<1>3. QED
  BY <1>1, <1>2, PTL DEF Spec

\* pick_next follows the numbers: the target stays the target when it gets more
\* tokens, and nobody becomes the target by losing some.
THEOREM TargetFollowsTokens == Spec => MoreTokensKeepTheTarget
<1> DEFINE vs == <<question, numbers>>
           Follows == ~samples_empty(chain, samples) =>
             \A k \in Kinds :
               /\ k \in picked /\ tokens_of(samples', k) > tokens_of(samples, k)
                    => k \in picked'
               /\ k \in picked' /\ tokens_of(samples', k) < tokens_of(samples, k)
                    => k \in picked
<1>1. QuestionInv /\ [Next]_vs => [Follows]_numbers
  <2>1. ASSUME QuestionInv, NEW k0 \in Kinds, NEW t \in Amounts, Sampled(k0, t),
               ~samples_empty(chain, samples), NEW k \in Kinds,
               tokens_of(samples', k) # tokens_of(samples, k)
        PROVE  /\ k \in picked /\ tokens_of(samples', k) > tokens_of(samples, k)
                    => k \in picked'
               /\ k \in picked' /\ tokens_of(samples', k) < tokens_of(samples, k)
                    => k \in picked
    <3>1. /\ \A l \in Kinds : /\ tokens_of(samples, l) \in Nat
                              /\ tokens_of(samples', l) \in Nat
                              /\ l # k => tokens_of(samples', l) = tokens_of(samples, l)
          /\ ~samples_empty(chain, samples')
      BY <2>1, SampleOfOneKind
    <3>2. chain' = chain /\ current' = current /\ chain \in Seq(Kinds)
      BY <2>1 DEF Sampled, question, QuestionInv
    <3>3. ASSUME tokens_of(samples', k) > tokens_of(samples, k),
                 k \in pick_next(chain, current, samples)
          PROVE  k \in pick_next(chain, current, samples')
      BY <2>1, <3>1, <3>2, <3>3, MoreTokensPreferred
    <3>4. ASSUME tokens_of(samples', k) < tokens_of(samples, k),
                 k \in pick_next(chain, current, samples')
          PROVE  k \in pick_next(chain, current, samples)
      <4>1. tokens_of(samples, k) > tokens_of(samples', k)
        BY <3>1, <3>4
      <4>2. \A l \in Kinds : /\ tokens_of(samples', l) \in Nat
                             /\ tokens_of(samples, l) \in Nat
                             /\ l # k => tokens_of(samples, l) = tokens_of(samples', l)
        BY <3>1
      <4>3. QED
        BY <2>1, <3>1, <3>2, <3>4, <4>1, <4>2, MoreTokensPreferred
    <3>5. QED
      BY <3>2, <3>3, <3>4 DEF picked
  <2>2. ASSUME QuestionInv, NEW k0 \in Kinds, NEW t \in Amounts, Sampled(k0, t)
        PROVE  Follows
    <3>1. ASSUME NEW k \in Kinds, ~samples_empty(chain, samples)
          PROVE  tokens_of(samples, k) \in Nat /\ tokens_of(samples', k) \in Nat
      BY <2>2, <3>1, SampleOfOneKind
    <3>2. QED
      BY <2>1, <2>2, <3>1
  <2>3. ASSUME QuestionInv, UNCHANGED samples
        PROVE  Follows
    <3>1. \A k \in Kinds : tokens_of(samples, k) \in Nat
      BY <2>3 DEF QuestionInv, tokens_of, OptNat, NoValue
    <3>2. QED
      BY <2>3, <3>1 DEF tokens_of
  <2>4. QED
    BY <2>2, <2>3 DEF Next, Responded
<1>2. QED
  BY <1>1, QuestionAlways, PTL DEF Spec, MoreTokensKeepTheTarget

\* How far the scan is after each kind of the chain.
LEMMA ScanUnfolds ==
  ASSUME NEW s \in Seq(Kinds)
  PROVE  \E acc :
           /\ acc[0] = {}
           /\ \A i \in 0 .. Len(s) - 1 :
                acc[i + 1] = IF s[i + 1] = current THEN acc[i] ELSE scan(acc[i], s[i + 1])
           /\ scanned(s) = acc[Len(s)]
<1> DEFINE n == Len(s)
           D == 1 .. n
           V == SUBSET Kinds
           Step(best, k) == IF k = current THEN best ELSE scan(best, k)
           step == [x \in V \X D |-> Step(x[1], s[x[2]])]
           Fold(f) == f = [T \in SUBSET D |->
                             IF T = {} THEN {} ELSE Step(f[T \ {Max(T)}], s[Max(T)])]
<1>1. n \in Nat /\ DOMAIN s = D /\ \A i \in D : s[i] \in Kinds
  OBVIOUS
<1>2. \A best \in V, k \in Kinds : Step(best, k) \in V
  BY DEF scan
<1>3. \E f : Fold(f)
  <2>1. step \in [V \X D -> V]
    BY <1>1, <1>2
  <2>2. {} \in V
    OBVIOUS
  <2>3. \A best \in V, i \in D : step[<<best, i>>] = Step(best, s[i])
    OBVIOUS
  <2> HIDE DEF V, n, Step, step
  <2>4. PICK f \in [SUBSET D -> V] : IsLeftFold(f, n, {}, step)
    BY <1>1, <2>1, <2>2, LeftFoldExists
  <2>5. \A T \in SUBSET D : T # {} => Max(T) \in D
    BY <1>1, GreatestPosition
  <2>6. \A T \in SUBSET D :
          f[T] = IF T = {} THEN {} ELSE Step(f[T \ {Max(T)}], s[Max(T)])
    BY <2>3, <2>4, <2>5 DEF IsLeftFold
  <2>7. f = [T \in SUBSET D |-> IF T = {} THEN {} ELSE Step(f[T \ {Max(T)}], s[Max(T)])]
    BY <2>4, <2>6
  <2>8. QED
    BY <2>7, Zenon
<1> DEFINE fold == CHOOSE f : Fold(f)
           acc == [i \in 0 .. n |-> fold[1 .. i]]
<1>4. scanned(s) = fold[D]
  BY <1>1, Zenon DEF scanned, FoldLeft, MapThenFoldSet
<1>5. \A T \in SUBSET D :
        fold[T] = IF T = {} THEN {} ELSE Step(fold[T \ {Max(T)}], s[Max(T)])
  <2>1. Fold(fold)
    <3> HIDE DEF Fold
    <3> QED
      BY <1>3, Zenon
  <2> HIDE DEF fold, Step
  <2>2. QED
    BY <2>1
<1> HIDE DEF fold, Step
<1>6. acc[0] = {} /\ acc[n] = fold[D]
  <2>1. 1 .. 0 = {} /\ 0 \in 0 .. n /\ n \in 0 .. n
    BY <1>1
  <2>2. fold[{}] = {}
    BY <1>5
  <2>3. QED
    BY <2>1, <2>2
<1>7. ASSUME NEW i \in 0 .. n - 1
      PROVE  acc[i + 1] = Step(acc[i], s[i + 1])
  <2>1. /\ Max(1 .. i + 1) = i + 1
        /\ (1 .. i + 1) \ {i + 1} = 1 .. i
        /\ 1 .. i + 1 # {}
    <3>1. i \in Nat
      BY <1>1
    <3>2. QED
      BY <3>1, LastPosition
  <2>2. 1 .. i + 1 \in SUBSET D /\ i \in 0 .. n /\ i + 1 \in 0 .. n
    BY <1>1
  <2>3. QED
    BY <1>5, <2>1, <2>2
<1>8. QED
  <2> HIDE DEF acc
  <2> QED
    BY <1>4, <1>6, <1>7 DEF Step

\* After k kinds the scan holds the candidate preferred to all others so far.
Foremost(s, k, best) ==
  \/ /\ best = {}
     /\ \A i \in 1 .. k : s[i] = current
  \/ \E i \in 1 .. k :
       /\ best = {s[i]}
       /\ s[i] # current
       /\ \A j \in 1 .. k : j # i /\ s[j] # current => preferred(s, samples, i, j)

LEMMA ScanStep ==
  ASSUME QuestionInv, NEW k \in 0 .. Len(chain) - 1, NEW best, NEW further,
         Foremost(chain, k, best),
         further = IF chain[k + 1] = current THEN best ELSE scan(best, chain[k + 1])
  PROVE  Foremost(chain, k + 1, further)
<1>1. /\ k \in Nat /\ k + 1 \in DOMAIN chain
      /\ \A i \in 1 .. k + 1 : i \in Nat /\ (i \in 1 .. k \/ i = k + 1) /\ chain[i] \in Kinds
      /\ \A i \in 1 .. k : i < k + 1 /\ i \in 1 .. k + 1
  BY DEF QuestionInv
<1>2. \A l \in Kinds : tokens_of(samples, l) \in Nat
  BY DEF QuestionInv, tokens_of, OptNat, NoValue
<1>3. CASE chain[k + 1] = current
  <2>1. further = best
    BY <1>3
  <2>2. QED
    BY <1>1, <1>3, <2>1 DEF Foremost
<1>4. CASE chain[k + 1] # current /\ best = {}
  <2>1. further = {chain[k + 1]}
    BY <1>4 DEF scan
  <2>2. \A i \in 1 .. k : chain[i] = current
    BY <1>4 DEF Foremost
  <2>3. QED
    BY <1>1, <1>4, <2>1, <2>2 DEF Foremost
<1>5. CASE chain[k + 1] # current /\ best # {}
  <2>1. PICK i \in 1 .. k :
          /\ best = {chain[i]}
          /\ chain[i] # current
          /\ \A j \in 1 .. k : j # i /\ chain[j] # current => preferred(chain, samples, i, j)
    BY <1>5 DEF Foremost
  <2>2. (CHOOSE b \in best : TRUE) = chain[i]
    BY <2>1
  <2>3. i \in Nat /\ i < k + 1 /\ i \in 1 .. k + 1 /\ chain[i] \in Kinds
    BY <1>1
  <2>4. CASE ~samples_empty(chain, samples) /\ tokens_of(samples, chain[k + 1]) >= tokens_of(samples, chain[i])
    <3>1. further = {chain[k + 1]}
      BY <1>5, <2>2, <2>4 DEF scan
    <3>2. ASSUME NEW j \in 1 .. k + 1, j # k + 1, chain[j] # current
          PROVE  preferred(chain, samples, k + 1, j)
      <4>1. j \in 1 .. k /\ j \in Nat /\ j < k + 1 /\ chain[j] \in Kinds
        BY <1>1, <3>2
      <4>2. tokens_of(samples, chain[i]) >= tokens_of(samples, chain[j])
        <5>1. CASE j = i
          BY <1>2, <4>1, <5>1
        <5>2. CASE j # i
          <6>1. preferred(chain, samples, i, j)
            BY <2>1, <3>2, <4>1, <5>2
          <6>2. QED
            BY <1>2, <2>3, <2>4, <4>1, <6>1 DEF preferred
        <5>3. QED
          BY <5>1, <5>2
      <4>3. QED
        BY <1>1, <1>2, <2>3, <2>4, <4>1, <4>2 DEF preferred
    <3>3. QED
      BY <1>1, <1>5, <3>1, <3>2 DEF Foremost
  <2>5. CASE samples_empty(chain, samples) \/ tokens_of(samples, chain[k + 1]) < tokens_of(samples, chain[i])
    <3>1. further = {chain[i]}
      BY <1>1, <1>2, <1>5, <2>1, <2>2, <2>3, <2>5 DEF scan
    <3>2. preferred(chain, samples, i, k + 1)
      BY <1>1, <1>2, <2>3, <2>5 DEF preferred
    <3>3. QED
      BY <1>1, <2>1, <2>3, <3>1, <3>2 DEF Foremost
  <2>6. QED
    BY <1>1, <1>2, <2>3, <2>4, <2>5
<1>6. QED
  BY <1>3, <1>4, <1>5

\* pick_next is what its loop computes, for every chain and all samples; there
\* is a target exactly when the chain names a kind other than the current one.
THEOREM PickIsScan == Spec => []PicksAsScanned
<1>1. QuestionInv => PicksAsScanned
  <2>1. SUFFICES ASSUME QuestionInv
                 PROVE  PicksAsScanned
    OBVIOUS
  <2> DEFINE n == Len(chain)
  <2>2. n \in Nat /\ DOMAIN chain = 1 .. n /\ chain \in Seq(Kinds)
    BY <2>1 DEF QuestionInv
  <2>3. PICK acc :
          /\ acc[0] = {}
          /\ \A i \in 0 .. n - 1 :
               acc[i + 1] = IF chain[i + 1] = current
                            THEN acc[i] ELSE scan(acc[i], chain[i + 1])
          /\ scanned(chain) = acc[n]
    BY <2>2, ScanUnfolds
  <2>4. Foremost(chain, n, acc[n])
    <3> DEFINE S == {k \in 0 .. n : Foremost(chain, k, acc[k])}
    <3>1. 0 \in S
      BY <2>2, <2>3 DEF Foremost
    <3>2. ASSUME NEW k \in 0 .. n - 1, k \in S
          PROVE  k + 1 \in S
      BY <2>1, <2>2, <2>3, <3>2, ScanStep
    <3>3. 0 .. n \subseteq S
      <4> HIDE DEF S, n
      <4> QED
        BY <2>2, <3>1, <3>2, BoundedInduction
    <3>4. QED
      BY <2>2, <3>3
  <2> HIDE DEF n
  <2>5. /\ \A k, l \in picked : k = l
        /\ \A k \in picked : k # current /\ \E i \in DOMAIN chain : chain[i] = k
    BY <2>1, PickIsUnique DEF picked, QuestionInv
  <2>6. CASE \A i \in DOMAIN chain : chain[i] = current
    <3>1. acc[n] = {}
      BY <2>2, <2>4, <2>6 DEF Foremost
    <3>2. picked = {}
      BY <2>5, <2>6
    <3>3. QED
      BY <2>3, <2>6, <3>1, <3>2 DEF PicksAsScanned
  <2>7. CASE ~(\A i \in DOMAIN chain : chain[i] = current)
    <3>1. PICK i \in 1 .. n :
            /\ acc[n] = {chain[i]}
            /\ chain[i] # current
            /\ \A j \in 1 .. n : j # i /\ chain[j] # current => preferred(chain, samples, i, j)
      BY <2>2, <2>4, <2>7 DEF Foremost
    <3>2. chain[i] \in picked
      BY <2>2, <3>1 DEF picked, pick_next, candidates
    <3>3. picked = {chain[i]}
      BY <2>5, <3>2
    <3>4. QED
      BY <2>3, <2>5, <2>7, <3>1, <3>3 DEF PicksAsScanned
  <2>8. QED
    BY <2>6, <2>7
<1>2. QED
  BY <1>1, QuestionAlways, PTL
=============================================================================
