-------------------------- MODULE SnakeRulesProofs --------------------------
(***************************************************************************)
(* The rules of the game for any number of players and any board: living   *)
(* snakes never overlap, a round is played by two snakes or more, only     *)
(* food eaten twice or a full board ends the process, and the order of     *)
(* markDead only matters when a snake goes where another one stands.       *)
(*                                                                         *)
(* markDead and Filled are folds.  The provers cannot use the induction    *)
(* theorems of the library, which take a predicate, so induction is said   *)
(* of sets here: a set of numbers that has 0 and each successor has all.   *)
(***************************************************************************)
EXTENDS SnakeRules, FiniteSetTheorems, SequenceTheorems, WellFoundedInduction, TLAPS

-----------------------------------------------------------------------------
\* Any set of numbers has a least one.
LEMMA LeastNat ==
  ASSUME NEW T \in SUBSET Nat, T # {}
  PROVE  \E x \in T : \A y \in T : x <= y
<1> DEFINE R == OpToRel(<, Nat)
<1>1. \A x, y \in Nat : <<y, x>> \in R <=> y < x
  BY DEF OpToRel
<1>2. IsWellFoundedOn(R, Nat)
  BY NatLessThanWellFounded
<1> HIDE DEF R
<1>0. T \subseteq Nat
  OBVIOUS
<1>3. PICK x \in T : \A y \in T : ~(<<y, x>> \in R)
  BY <1>0, <1>2, WFMin
<1>4. \A y \in T : x <= y
  <2> SUFFICES ASSUME NEW y \in T PROVE x <= y
    OBVIOUS
  <2>1. x \in Nat /\ y \in Nat
    BY <1>0
  <2>2. ~(y < x)
    BY <1>1, <1>3, <2>1
  <2> QED
    BY <2>1, <2>2
<1> QED
  BY <1>4

\* Induction over the numbers up to a bound
LEMMA UpTo ==
  ASSUME NEW n \in Nat, NEW S, 0 \in S,
         \A k \in 0..(n - 1) : k \in S => k + 1 \in S
  PROVE  \A k \in 0..n : k \in S
<1> DEFINE T == (0..n) \ S
<1> SUFFICES ASSUME T # {} PROVE FALSE
  OBVIOUS
<1>1. T \in SUBSET Nat
  OBVIOUS
<1>2. PICK x \in T : \A y \in T : x <= y
  <2> HIDE DEF T
  <2> QED
    BY <1>1, LeastNat
<1>3. x \in 1..n
  OBVIOUS
<1>4. x - 1 \in 0..(n - 1) /\ (x - 1) + 1 = x
  BY <1>3
<1>5. x - 1 \in S
  BY <1>2, <1>3, <1>4
<1> QED
  BY <1>4, <1>5

\* The greatest number of a finite set, as FiniteSetsExt chooses it
LEMMA MaxIn ==
  ASSUME NEW n \in Nat, NEW S \in SUBSET (1..n), S # {}
  PROVE  Max(S) \in S /\ \A y \in S : y <= Max(S)
<1> DEFINE T == {k \in Nat : n - k \in S}
<1>1. T \in SUBSET Nat /\ T # {}
  <2>1. PICK s \in S : TRUE
    OBVIOUS
  <2>2. n - s \in Nat /\ n - (n - s) = s
    OBVIOUS
  <2> QED
    BY <2>2
<1>2. PICK x \in T : \A y \in T : x <= y
  <2> HIDE DEF T
  <2> QED
    BY <1>1, LeastNat
<1>3. n - x \in S
  BY <1>2
<1>4. \A y \in S : y <= n - x
  <2> SUFFICES ASSUME NEW y \in S PROVE y <= n - x
    OBVIOUS
  <2>1. n - y \in T
    OBVIOUS
  <2> QED
    BY <1>2, <2>1
<1>5. \E m \in S : \A y \in S : m >= y
  BY <1>3, <1>4
<1> QED
  BY <1>5 DEF Max

\* it takes out of each subset of S one element after another, as c chooses.
IsFold(it, S, R, base, c, G) ==
  /\ it \in [SUBSET S -> R]
  /\ \A s \in SUBSET S :
       it[s] = IF s = {} THEN base ELSE G[c[s]][it[s \ {c[s]}]]

Chooses(c, S) == \A s \in SUBSET S : s # {} => c[s] \in s

\* A finite set can be folded: the equation of a fold has a solution.
LEMMA FoldExists ==
  ASSUME NEW S, IsFiniteSet(S), NEW R, NEW base \in R,
         NEW c, Chooses(c, S),
         NEW G \in [S -> [R -> R]]
  PROVE  \E it : IsFold(it, S, R, base, c, G)
<1> DEFINE Folds(it, n) ==
             \A s \in SUBSET S : Cardinality(s) <= n =>
               it[s] = IF s = {} THEN base ELSE G[c[s]][it[s \ {c[s]}]]
           A == {n \in Nat : \E it \in [SUBSET S -> R] : Folds(it, n)}
<1> USE DEF Chooses
<1>0. \A s \in SUBSET S : IsFiniteSet(s) /\ Cardinality(s) \in Nat
  BY FS_Subset, FS_CardinalityType
<1>1. 0 \in A
  <2> DEFINE it == [s \in SUBSET S |-> base]
  <2>1. it \in [SUBSET S -> R]
    OBVIOUS
  <2>2. \A s \in SUBSET S : Cardinality(s) <= 0 => s = {}
    BY <1>0, FS_EmptySet
  <2>3. Folds(it, 0)
    BY <2>2
  <2> HIDE DEF it
  <2> QED
    BY <2>1, <2>3
<1>2. ASSUME NEW n \in Nat, n \in A
      PROVE  n + 1 \in A
  <2>1. PICK g \in [SUBSET S -> R] : Folds(g, n)
    BY <1>2
  <2> DEFINE it == [s \in SUBSET S |->
                      IF s = {} THEN base ELSE G[c[s]][g[s \ {c[s]}]]]
  <2>2. it \in [SUBSET S -> R]
    <3>1. \A s \in SUBSET S : s # {} => c[s] \in S /\ g[s \ {c[s]}] \in R
      OBVIOUS
    <3>2. \A s \in SUBSET S : s # {} => G[c[s]][g[s \ {c[s]}]] \in R
      BY <3>1
    <3> QED
      BY <3>2
  <2>3. ASSUME NEW s \in SUBSET S, Cardinality(s) <= n
        PROVE  it[s] = g[s]
    BY <2>1, <2>3
  <2>4. ASSUME NEW s \in SUBSET S, Cardinality(s) <= n + 1, s # {}
        PROVE  it[s] = G[c[s]][it[s \ {c[s]}]]
    <3>1. c[s] \in s /\ s \ {c[s]} \in SUBSET S
      BY <2>4
    <3>2. Cardinality(s \ {c[s]}) = Cardinality(s) - 1
      BY <1>0, <3>1, FS_RemoveElement
    <3>3. Cardinality(s \ {c[s]}) <= n
      BY <1>0, <2>4, <3>2
    <3>4. it[s \ {c[s]}] = g[s \ {c[s]}]
      <4> HIDE DEF it
      <4> QED
        BY <2>3, <3>1, <3>3
    <3>5. it[s] = G[c[s]][g[s \ {c[s]}]]
      BY <2>4
    <3> HIDE DEF it
    <3> QED
      BY <3>4, <3>5
  <2>5. it[{}] = base
    OBVIOUS
  <2> HIDE DEF it
  <2>6. Folds(it, n + 1)
    <3> SUFFICES ASSUME NEW s \in SUBSET S, Cardinality(s) <= n + 1
                 PROVE  it[s] = IF s = {} THEN base ELSE G[c[s]][it[s \ {c[s]}]]
      OBVIOUS
    <3> QED
      BY <2>4, <2>5
  <2>7. \E f \in [SUBSET S -> R] : Folds(f, n + 1)
    <3> HIDE DEF Folds
    <3> QED
      BY <2>2, <2>6
  <2>8. n + 1 \in Nat
    OBVIOUS
  <2> HIDE DEF Folds
  <2> QED
    BY <2>7, <2>8
<1>3. Cardinality(S) \in A
  <2>1. Cardinality(S) \in Nat
    BY FS_CardinalityType
  <2> HIDE DEF A
  <2>2. \A k \in 0..(Cardinality(S) - 1) : k \in A => k + 1 \in A
    BY <1>2
  <2> QED
    BY <1>1, <2>1, <2>2, UpTo
<1>4. PICK it \in [SUBSET S -> R] : Folds(it, Cardinality(S))
  BY <1>3
<1>5. \A s \in SUBSET S : Cardinality(s) <= Cardinality(S)
  BY FS_Subset
<1>6. IsFold(it, S, R, base, c, G)
  BY <1>4, <1>5 DEF IsFold
<1> QED
  BY <1>6

-----------------------------------------------------------------------------
\* What markDead hands on from one player of the round to the next
Result == [alive : SUBSET Player, count : Int, over : BOOLEAN]

Before == [alive |-> alive, count |-> aliveSnakes, over |-> over]

\* Who meets p head on
Meets(h, p) == {q \in DOMAIN h \ {p} : h[q] = h[p]}

\* p meets somebody, or goes where one of A stands.
Hits(h, A, p) == Meets(h, p) # {} \/ \E q \in A \ Meets(h, p) : h[p] \in Occupied(q)

\* Who is marked dead when it is p's turn and A are still alive
Dying(h, A, p) == Meets(h, p) \cup (IF Hits(h, A, p) THEN {p} ELSE {})

LEMMA MarkOneIs ==
  \A h, d, p : /\ MarkOne(h, d, p).alive = d.alive \ Dying(h, d.alive, p)
               /\ MarkOne(h, d, p).count = d.count - Cardinality(Dying(h, d.alive, p))
               /\ MarkOne(h, d, p).over = (d.over \/ Self \in Dying(h, d.alive, p))
BY DEF MarkOne, Dying, Hits, Meets

LEMMA DyingType ==
  ASSUME NEW h, DOMAIN h \subseteq Player, NEW A, NEW p \in DOMAIN h
  PROVE  /\ Dying(h, A, p) \subseteq DOMAIN h
         /\ IsFiniteSet(Dying(h, A, p))
         /\ Cardinality(Dying(h, A, p)) \in Nat
<1>1. Dying(h, A, p) \subseteq DOMAIN h
  BY DEF Dying, Meets
<1>2. IsFiniteSet(DOMAIN h)
  BY PlayersAssumption, FS_Subset
<1> QED
  BY <1>1, <1>2, FS_Subset, FS_CardinalityType

LEMMA MarkOneType ==
  ASSUME NEW h, DOMAIN h \subseteq Player, NEW d \in Result, NEW p \in DOMAIN h
  PROVE  MarkOne(h, d, p) \in Result
<1> DEFINE D == Dying(h, d.alive, p)
<1>1. MarkOne(h, d, p) = [alive |-> d.alive \ D, count |-> d.count - Cardinality(D),
                          over |-> d.over \/ Self \in D]
  BY DEF MarkOne, Dying, Hits, Meets
<1>2. Cardinality(D) \in Nat
  BY DyingType
<1>3. d.alive \in SUBSET Player /\ d.count \in Int
  BY DEF Result
<1>4. (d.over \/ Self \in D) \in BOOLEAN
  OBVIOUS
<1> HIDE DEF D
<1>5. d.alive \ D \in SUBSET Player /\ d.count - Cardinality(D) \in Int
  BY <1>2, <1>3
<1> QED
  BY <1>1, <1>4, <1>5 DEF Result

\* d[k] is what is left after k turns of markDead.
IsRun(d, h, n, o) ==
  /\ d \in [0..n -> Result]
  /\ d[0] = Before
  /\ \A k \in 1..n : d[k] = MarkOne(h, d[k - 1], o[k])
  /\ markDead(h, o) = d[n]

\* markDead goes through the players of the round one by one.
LEMMA MarkDeadSteps ==
  ASSUME NEW h, DOMAIN h \subseteq Player, NEW n \in Nat, NEW o \in [1..n -> DOMAIN h],
         Before \in Result
  PROVE  \E d : IsRun(d, h, n, o)
<1> DEFINE S == 1..n
           c == [s \in SUBSET S |-> Max(s)]
           G == [i \in S |-> [d \in Result |-> MarkOne(h, d, o[i])]]
           P(it) == it = [s \in SUBSET S |->
                            IF s = {} THEN Before
                            ELSE MarkOne(h, it[s \ {Max(s)}], o[Max(s)])]
<1>1. \E it : IsFold(it, S, Result, Before, c, G)
  <2>1. IsFiniteSet(S)
    BY FS_Interval
  <2>2. Chooses(c, S)
    BY MaxIn DEF Chooses
  <2>3. G \in [S -> [Result -> Result]]
    BY MarkOneType
  <2> HIDE DEF S, c, G, P
  <2> QED
    BY <2>1, <2>2, <2>3, FoldExists
<1>2. PICK it : /\ it \in [SUBSET S -> Result]
                /\ \A s \in SUBSET S :
                     it[s] = IF s = {} THEN Before ELSE G[c[s]][it[s \ {c[s]}]]
  <2> HIDE DEF S, c, G, P
  <2> QED
    BY <1>1 DEF IsFold
<1>3. ASSUME NEW s \in SUBSET S, s # {}
      PROVE  it[s] = MarkOne(h, it[s \ {Max(s)}], o[Max(s)])
  <2>1. Max(s) \in S
    BY <1>3, MaxIn
  <2>2. s \ {Max(s)} \in SUBSET S
    OBVIOUS
  <2>3. it[s \ {Max(s)}] \in Result
    <3> HIDE DEF S
    <3> QED
      BY <1>2, <2>2
  <2>4. c[s] = Max(s)
    OBVIOUS
  <2> HIDE DEF S, c
  <2> QED
    BY <1>2, <1>3, <2>1, <2>3, <2>4
<1>4. it[{}] = Before
  BY <1>2
<1>5. P(it)
  <2>1. it = [s \in SUBSET S |-> it[s]]
    BY <1>2
  <2>2. \A s \in SUBSET S :
          it[s] = IF s = {} THEN Before
                  ELSE MarkOne(h, it[s \ {Max(s)}], o[Max(s)])
    BY <1>3, <1>4
  <2> HIDE DEF S
  <2> QED
    BY <2>1, <2>2
<1>6. markDead(h, o) = (CHOOSE j : P(j))[S]
  <2>1. DOMAIN o = S
    OBVIOUS
  <2> QED
    BY <2>1 DEF markDead, FoldLeft, MapThenFoldSet, Before
<1>7. PICK j : P(j) /\ markDead(h, o) = j[S]
  <2> HIDE DEF P
  <2> QED
    BY <1>5, <1>6
<1> DEFINE d == [k \in 0..n |-> j[1..k]]
<1>8. \A s \in SUBSET S :
        j[s] = IF s = {} THEN Before ELSE MarkOne(h, j[s \ {Max(s)}], o[Max(s)])
  BY <1>7
<1>9. d[0] = Before
  <2>1. 1..0 = {}
    OBVIOUS
  <2>2. d[0] = j[1..0]
    OBVIOUS
  <2>3. j[1..0] = j[{}]
    BY <2>1, Zenon
  <2>4. j[{}] = Before
    <3> HIDE DEF S
    <3> QED
      BY <1>8
  <2> HIDE DEF d
  <2> QED
    BY <2>2, <2>3, <2>4
<1>10. ASSUME NEW k \in 1..n
       PROVE  d[k] = MarkOne(h, d[k - 1], o[k])
  <2>1. 1..k \in SUBSET S /\ 1..k # {}
    <3>1. \A x \in 1..k : x \in S
      OBVIOUS
    <3>2. k \in 1..k
      OBVIOUS
    <3> QED
      BY <3>1, <3>2
  <2>2. Max(1..k) = k
    <3>1. Max(1..k) \in 1..k /\ \A y \in 1..k : y <= Max(1..k)
      BY MaxIn, <2>1
    <3> QED
      BY <3>1
  <2>3. (1..k) \ {k} = 1..(k - 1)
    OBVIOUS
  <2>4. d[k] = j[1..k] /\ d[k - 1] = j[1..(k - 1)]
    OBVIOUS
  <2>5. j[1..k] = MarkOne(h, j[(1..k) \ {Max(1..k)}], o[Max(1..k)])
    <3> HIDE DEF S
    <3> QED
      BY <1>8, <2>1
  <2> HIDE DEF d
  <2>6. j[(1..k) \ {k}] = j[1..(k - 1)]
    BY <2>3, Zenon
  <2> QED
    BY <2>2, <2>4, <2>5, <2>6
<1>11. d \in [0..n -> Result]
  <2> DEFINE T == {k \in 0..n : d[k] \in Result}
  <2>1. 0 \in T
    BY <1>9
  <2>2. ASSUME NEW k \in 0..(n - 1), k \in T
        PROVE  k + 1 \in T
    <3>1. k + 1 \in 1..n /\ (k + 1) - 1 = k
      OBVIOUS
    <3>2. d[k + 1] = MarkOne(h, d[k], o[k + 1])
      <4> HIDE DEF d
      <4> QED
        BY <1>10, <3>1
    <3>3. d[k] \in Result /\ o[k + 1] \in DOMAIN h
      BY <2>2, <3>1
    <3>4. d[k + 1] \in Result
      <4> HIDE DEF d
      <4> QED
        BY <3>2, <3>3, MarkOneType
    <3> QED
      BY <3>1, <3>4
  <2>3. \A k \in 0..n : k \in T
    <3> HIDE DEF T
    <3> QED
      BY <2>1, <2>2, UpTo
  <2> QED
    BY <2>3
<1>12. markDead(h, o) = d[n]
  <2>1. d[n] = j[S]
    OBVIOUS
  <2> HIDE DEF d, S
  <2> QED
    BY <1>7, <2>1
<1> HIDE DEF d
<1>13. IsRun(d, h, n, o)
  BY <1>9, <1>10, <1>11, <1>12 DEF IsRun
<1> QED
  BY <1>13

\* Go's range over the moves of a round comes past each of them once.
LEMMA OrderType ==
  ASSUME NEW S, IsFiniteSet(S), NEW o \in SetToSeqs(S)
  PROVE  /\ Cardinality(S) \in Nat
         /\ o \in [1..Cardinality(S) -> S]
         /\ \A i, j \in 1..Cardinality(S) : o[i] = o[j] => i = j
         /\ \A s \in S : \E i \in 1..Cardinality(S) : o[i] = s
<1>1. Cardinality(S) \in Nat
  BY FS_CardinalityType
<1>2. PICK n \in Nat : n = Cardinality(S)
  BY <1>1
<1>3. o \in [1..n -> S] /\ \A i, j \in 1..n : o[i] = o[j] => i = j
  BY <1>2 DEF SetToSeqs
<1>4. o \in Injection(1..n, S)
  BY <1>3 DEF Injection, IsInjective
<1>5. IsFiniteSet(1..n) /\ Cardinality(1..n) = n
  BY FS_Interval
<1>6. o \in Surjection(1..n, S)
  BY <1>2, <1>4, <1>5, FS_Injection
<1> QED
  BY <1>2, <1>3, <1>6 DEF Surjection

\* What is left after some players of the round: nobody came alive, there are
\* at least as many as are counted, and whoever of them had its turn meets
\* nobody and goes where none of them stands.
Survived(h, d, turns) ==
  /\ d.alive \subseteq alive
  /\ d.count <= Cardinality(d.alive)
  /\ \A p \in turns \cap d.alive :
       Meets(h, p) = {} /\ \A q \in d.alive : h[p] \notin Occupied(q)

LEMMA SurvivedStep ==
  ASSUME NEW h, DOMAIN h \subseteq Player, NEW d \in Result, NEW p \in DOMAIN h,
         NEW turns, Survived(h, d, turns)
  PROVE  Survived(h, MarkOne(h, d, p), turns \cup {p})
<1> DEFINE D == Dying(h, d.alive, p)
           e == MarkOne(h, d, p)
<1>1. e.alive = d.alive \ D /\ e.count = d.count - Cardinality(D)
  BY MarkOneIs
<1>2. d.alive \subseteq Player /\ d.count \in Int
  BY DEF Result
<1>3. IsFiniteSet(D) /\ Cardinality(D) \in Nat
  BY DyingType
<1>4. e.alive \subseteq alive
  BY <1>1 DEF Survived
<1>5. e.count <= Cardinality(e.alive)
  <2>1. PICK A : A = d.alive
    OBVIOUS
  <2>2. IsFiniteSet(A) /\ Cardinality(A) \in Nat
    BY <1>2, <2>1, PlayersAssumption, FS_Subset, FS_CardinalityType
  <2>3. PICK B : B = D
    OBVIOUS
  <2>4. Cardinality(A \ B) = Cardinality(A) - Cardinality(A \cap B)
    BY <2>2, FS_Difference
  <2>5. IsFiniteSet(A \cap B) /\ Cardinality(A \cap B) <= Cardinality(B)
    BY <1>3, <2>3, FS_Intersection
  <2>6. Cardinality(A \cap B) \in Nat
    BY <2>5, FS_CardinalityType
  <2>7. d.count <= Cardinality(A)
    BY <2>1 DEF Survived
  <2>8. e.alive = A \ B /\ e.count = d.count - Cardinality(B)
    BY <1>1, <2>1, <2>3
  <2> HIDE DEF e, D
  <2>9. Cardinality(e.alive) = Cardinality(A) - Cardinality(A \cap B)
    BY <2>4, <2>8
  <2> QED
    BY <1>2, <1>3, <2>2, <2>3, <2>5, <2>6, <2>7, <2>8, <2>9
<1>6. ASSUME NEW x \in (turns \cup {p}) \cap e.alive
      PROVE  Meets(h, x) = {} /\ \A q \in e.alive : h[x] \notin Occupied(q)
  <2>1. CASE x \in turns
    BY <1>1, <1>6, <2>1 DEF Survived
  <2>2. CASE x = p
    <3>1. p \notin D
      BY <1>1, <1>6, <2>2
    <3>2. ~Hits(h, d.alive, p)
      BY <3>1 DEF Dying
    <3>3. Meets(h, p) = {} /\ \A q \in d.alive : h[p] \notin Occupied(q)
      BY <3>2 DEF Hits
    <3> QED
      BY <1>1, <2>2, <3>3
  <2> QED
    BY <1>6, <2>1, <2>2
<1> QED
  BY <1>4, <1>5, <1>6 DEF Survived

\* The survivors of markDead, in whatever order it goes through a round
LEMMA MarkDeadSurvived ==
  ASSUME NEW h, DOMAIN h \subseteq Player, NEW r \in Outcomes(h),
         Before \in Result, aliveSnakes <= Cardinality(alive)
  PROVE  r \in Result /\ Survived(h, r, DOMAIN h)
<1>1. PICK o \in SetToSeqs(DOMAIN h) : r = markDead(h, o)
  BY DEF Outcomes
<1>2. IsFiniteSet(DOMAIN h)
  BY PlayersAssumption, FS_Subset
<1>3. PICK n \in Nat : n = Cardinality(DOMAIN h)
  BY <1>2, FS_CardinalityType
<1>4. o \in [1..n -> DOMAIN h] /\ \A p \in DOMAIN h : \E i \in 1..n : o[i] = p
  BY <1>2, <1>3, OrderType
<1>5. PICK d : /\ d \in [0..n -> Result]
               /\ d[0] = Before
               /\ \A k \in 1..n : d[k] = MarkOne(h, d[k - 1], o[k])
               /\ markDead(h, o) = d[n]
  <2>1. \E d : IsRun(d, h, n, o)
    BY <1>4, MarkDeadSteps
  <2> QED
    BY <2>1 DEF IsRun
<1> DEFINE Turns(k) == {o[i] : i \in 1..k}
           T == {k \in 0..n : Survived(h, d[k], Turns(k))}
<1>6. 0 \in T
  <2>1. Turns(0) = {}
    OBVIOUS
  <2> HIDE DEF Turns
  <2> QED
    BY <1>5, <2>1 DEF Survived, Before
<1>7. ASSUME NEW k \in 0..(n - 1), k \in T
      PROVE  k + 1 \in T
  <2>1. k + 1 \in 1..n /\ k + 1 \in 0..n /\ (k + 1) - 1 = k /\ k \in 0..n
    OBVIOUS
  <2>2. d[k + 1] = MarkOne(h, d[k], o[k + 1])
    BY <1>5, <2>1
  <2>3. d[k] \in Result /\ o[k + 1] \in DOMAIN h
    BY <1>4, <1>5, <2>1
  <2>4. Survived(h, MarkOne(h, d[k], o[k + 1]), Turns(k) \cup {o[k + 1]})
    <3> HIDE DEF Turns
    <3>1. Survived(h, d[k], Turns(k))
      BY <1>7
    <3> QED
      BY <2>3, <3>1, SurvivedStep
  <2>5. Turns(k + 1) = Turns(k) \cup {o[k + 1]}
    <3>1. 1..(k + 1) = (1..k) \cup {k + 1}
      OBVIOUS
    <3> QED
      BY <3>1
  <2>6. Survived(h, d[k + 1], Turns(k + 1))
    <3> HIDE DEF Turns
    <3> QED
      BY <2>2, <2>4, <2>5, Zenon
  <2> QED
    BY <2>1, <2>6
<1>8. n \in T
  <2>1. \A k \in 0..n : k \in T
    <3> HIDE DEF T
    <3> QED
      BY <1>6, <1>7, UpTo
  <2> QED
    BY <2>1
<1>9. Turns(n) = DOMAIN h
  BY <1>4
<1>10. Survived(h, d[n], DOMAIN h)
  <2>1. Survived(h, d[n], Turns(n))
    BY <1>8
  <2> HIDE DEF Turns
  <2> QED
    BY <1>9, <2>1, Zenon
<1> QED
  BY <1>1, <1>5, <1>10

-----------------------------------------------------------------------------
\* No snake goes where another one of the round stands.
Clear(h) == \A p, q \in DOMAIN h : p # q => h[p] \notin Occupied(q)

\* Who dies with whom, if all see the snakes as they were before the round
Deaths(h, turns) == {x \in turns \X DOMAIN h : x[2] \in Dying(h, alive, x[1])}

\* What the turns of some players leave, whatever their order
Left(h, turns) ==
  [alive |-> alive \ UNION {Dying(h, alive, p) : p \in turns},
   count |-> aliveSnakes - Cardinality(Deaths(h, turns)),
   over  |-> over \/ \E p \in turns : Self \in Dying(h, alive, p)]

\* In a clear round a player finds at its turn what it would have found at
\* first: it is only dead by then if it meets somebody.
LEMMA DyingFixed ==
  ASSUME NEW h, DOMAIN h \subseteq Player, Clear(h),
         NEW turns \in SUBSET DOMAIN h, NEW p \in DOMAIN h \ turns
  PROVE  Dying(h, Left(h, turns).alive, p) = Dying(h, alive, p)
<1> DEFINE A == Left(h, turns).alive
<1>1. A = alive \ UNION {Dying(h, alive, x) : x \in turns}
  BY DEF Left
<1>2. \A x \in turns : Dying(h, alive, x) \subseteq DOMAIN h
  BY DyingType
<1> HIDE DEF A
<1>3. Hits(h, A, p) <=> Hits(h, alive, p)
  <2>1. CASE Meets(h, p) # {}
    BY <2>1 DEF Hits
  <2>2. CASE Meets(h, p) = {}
    <3>1. ASSUME Hits(h, A, p) PROVE Hits(h, alive, p)
      BY <1>1, <3>1 DEF Hits
    <3>2. ASSUME Hits(h, alive, p) PROVE Hits(h, A, p)
      <4>1. PICK q \in alive : h[p] \in Occupied(q)
        BY <2>2, <3>2 DEF Hits
      <4>2. q \in A
        <5>1. CASE q \notin DOMAIN h
          BY <1>1, <1>2, <4>1, <5>1
        <5>2. CASE q \in DOMAIN h
          <6>1. q = p
            BY <4>1, <5>2 DEF Clear
          <6>2. \A x \in turns : p \notin Dying(h, alive, x)
            <7> SUFFICES ASSUME NEW x \in turns, p \in Dying(h, alive, x)
                         PROVE  FALSE
              OBVIOUS
            <7>1. x # p /\ x \in DOMAIN h
              OBVIOUS
            <7>2. p \in Meets(h, x)
              BY <7>1 DEF Dying
            <7>3. x \in Meets(h, p)
              BY <7>1, <7>2 DEF Meets
            <7> QED
              BY <2>2, <7>3
          <6> QED
            BY <1>1, <4>1, <6>1, <6>2
        <5> QED
          BY <5>1, <5>2
      <4> QED
        BY <2>2, <4>1, <4>2 DEF Hits
    <3> QED
      BY <3>1, <3>2
  <2> QED
    BY <2>1, <2>2
<1> QED
  BY <1>3 DEF Dying, A

LEMMA LeftStep ==
  ASSUME NEW h, DOMAIN h \subseteq Player, Clear(h), Before \in Result,
         NEW turns \in SUBSET DOMAIN h, NEW p \in DOMAIN h \ turns
  PROVE  MarkOne(h, Left(h, turns), p) = Left(h, turns \cup {p})
<1> DEFINE D == Dying(h, alive, p)
           L == Left(h, turns)
           E == Deaths(h, turns)
           F == Deaths(h, turns \cup {p})
           new == {p} \X D
           g == [q \in D |-> <<p, q>>]
<1>1. Dying(h, L.alive, p) = D
  BY DyingFixed
<1>2. MarkOne(h, L, p) = [alive |-> L.alive \ D, count |-> L.count - Cardinality(D),
                          over |-> L.over \/ Self \in D]
  <2>1. MarkOne(h, L, p) =
          [alive |-> L.alive \ Dying(h, L.alive, p),
           count |-> L.count - Cardinality(Dying(h, L.alive, p)),
           over  |-> L.over \/ Self \in Dying(h, L.alive, p)]
    BY DEF MarkOne, Dying, Hits, Meets
  <2> HIDE DEF D, L
  <2> QED
    BY <1>1, <2>1
<1>3. L.alive \ D = alive \ UNION {Dying(h, alive, x) : x \in turns \cup {p}}
  BY DEF Left
<1>4. (L.over \/ Self \in D) = (over \/ \E x \in turns \cup {p} : Self \in Dying(h, alive, x))
  <2>1. L.over = (over \/ \E x \in turns : Self \in Dying(h, alive, x))
    BY DEF Left
  <2> QED
    BY <2>1
<1>5. D \subseteq DOMAIN h /\ IsFiniteSet(D) /\ Cardinality(D) \in Nat
  BY DyingType
<1>6. F = E \cup new /\ E \cap new = {}
  <2>1. \A x : x \in F <=> x \in E \/ x \in new
    BY <1>5 DEF Deaths
  <2>2. \A x : ~(x \in E /\ x \in new)
    BY DEF Deaths
  <2> HIDE DEF E, F, new
  <2> QED
    BY <2>1, <2>2
<1>7. IsFiniteSet(E) /\ Cardinality(E) \in Nat
  <2>1. IsFiniteSet(DOMAIN h) /\ IsFiniteSet(turns)
    BY PlayersAssumption, FS_Subset
  <2>2. IsFiniteSet(turns \X DOMAIN h)
    BY <2>1, FS_Product
  <2>3. E \subseteq turns \X DOMAIN h
    BY DEF Deaths
  <2> HIDE DEF E
  <2> QED
    BY <2>2, <2>3, FS_Subset, FS_CardinalityType
<1>8. IsFiniteSet(new) /\ Cardinality(new) = Cardinality(D)
  <2>1. g \in Bijection(D, new)
    <3>1. g \in [D -> new]
      OBVIOUS
    <3>2. \A a, b \in D : g[a] = g[b] => a = b
      OBVIOUS
    <3>3. \A x \in new : \E q \in D : g[q] = x
      OBVIOUS
    <3> HIDE DEF g, D, new
    <3> QED
      BY <3>1, <3>2, <3>3 DEF Bijection, Injection, Surjection, IsInjective
  <2> HIDE DEF g, D, new
  <2> QED
    BY <1>5, <2>1, FS_Bijection DEF ExistsBijection
<1>9. Cardinality(F) = Cardinality(E) + Cardinality(D)
  <2> HIDE DEF D, E, F, new
  <2>1. Cardinality(E \cap new) = 0
    BY <1>6, FS_EmptySet
  <2>2. Cardinality(E \cup new) = Cardinality(E) + Cardinality(new) - Cardinality(E \cap new)
    BY <1>7, <1>8, FS_Union
  <2>3. Cardinality(F) = Cardinality(E \cup new)
    BY <1>6, Zenon
  <2> QED
    BY <1>5, <1>7, <1>8, <2>1, <2>2, <2>3
<1>10. L.count - Cardinality(D) = aliveSnakes - Cardinality(F)
  <2>1. aliveSnakes \in Int
    BY DEF Before, Result
  <2>2. L.count = aliveSnakes - Cardinality(E)
    BY DEF Left
  <2> HIDE DEF D, E, F, L
  <2> QED
    BY <1>5, <1>7, <1>9, <2>1, <2>2
<1>11. Left(h, turns \cup {p}) =
         [alive |-> alive \ UNION {Dying(h, alive, x) : x \in turns \cup {p}},
          count |-> aliveSnakes - Cardinality(F),
          over  |-> over \/ \E x \in turns \cup {p} : Self \in Dying(h, alive, x)]
  BY DEF Left
<1>12. MarkOne(h, L, p) = Left(h, turns \cup {p})
  <2> HIDE DEF D, L, E, F
  <2> QED
    BY <1>2, <1>3, <1>4, <1>10, <1>11, Zenon
<1> QED
  BY <1>12

\* In a clear round markDead leaves the same in every order.
LEMMA OutcomeFixed ==
  ASSUME NEW h, DOMAIN h \subseteq Player, Clear(h), Before \in Result
  PROVE  Outcomes(h) = {Left(h, DOMAIN h)}
<1>1. IsFiniteSet(DOMAIN h)
  BY PlayersAssumption, FS_Subset
<1>2. ASSUME NEW o \in SetToSeqs(DOMAIN h)
      PROVE  markDead(h, o) = Left(h, DOMAIN h)
  <2>1. PICK n \in Nat : n = Cardinality(DOMAIN h)
    BY <1>1, FS_CardinalityType
  <2>2. /\ o \in [1..n -> DOMAIN h]
        /\ \A i, j \in 1..n : o[i] = o[j] => i = j
        /\ \A p \in DOMAIN h : \E i \in 1..n : o[i] = p
    BY <1>1, <2>1, OrderType
  <2>3. PICK d : /\ d \in [0..n -> Result]
                 /\ d[0] = Before
                 /\ \A k \in 1..n : d[k] = MarkOne(h, d[k - 1], o[k])
                 /\ markDead(h, o) = d[n]
    <3>1. \E d : IsRun(d, h, n, o)
      BY <2>2, MarkDeadSteps
    <3> QED
      BY <3>1 DEF IsRun
  <2> DEFINE Turns(k) == {o[i] : i \in 1..k}
             T == {k \in 0..n : d[k] = Left(h, Turns(k))}
  <2>4. 0 \in T
    <3>1. Turns(0) = {}
      OBVIOUS
    <3>2. Deaths(h, {}) = {}
      BY DEF Deaths
    <3>3. Cardinality(Deaths(h, {})) = 0
      BY <3>2, FS_EmptySet
    <3>4. aliveSnakes \in Int /\ over \in BOOLEAN
      BY DEF Before, Result
    <3>5. Left(h, {}) = Before
      <4>1. alive \ UNION {Dying(h, alive, p) : p \in {}} = alive
        OBVIOUS
      <4>2. aliveSnakes - Cardinality(Deaths(h, {})) = aliveSnakes
        BY <3>3, <3>4
      <4>3. (over \/ \E p \in {} : Self \in Dying(h, alive, p)) = over
        BY <3>4
      <4> QED
        BY <4>1, <4>2, <4>3, Zenon DEF Left, Before
    <3>6. Left(h, Turns(0)) = Left(h, {})
      <4> HIDE DEF Turns
      <4> QED
        BY <3>1, Zenon
    <3> HIDE DEF Turns
    <3> QED
      BY <2>3, <3>5, <3>6
  <2>5. ASSUME NEW k \in 0..(n - 1), k \in T
        PROVE  k + 1 \in T
    <3>1. k + 1 \in 1..n /\ k + 1 \in 0..n /\ (k + 1) - 1 = k /\ k \in 0..n
      OBVIOUS
    <3>2. d[k + 1] = MarkOne(h, d[k], o[k + 1])
      BY <2>3, <3>1
    <3>3. o[k + 1] \in DOMAIN h \ Turns(k) /\ Turns(k) \in SUBSET DOMAIN h
      BY <2>2, <3>1
    <3>4. MarkOne(h, Left(h, Turns(k)), o[k + 1]) = Left(h, Turns(k) \cup {o[k + 1]})
      <4> HIDE DEF Turns
      <4> QED
        BY <3>3, LeftStep
    <3>5. Turns(k + 1) = Turns(k) \cup {o[k + 1]}
      <4>1. 1..(k + 1) = (1..k) \cup {k + 1}
        OBVIOUS
      <4> QED
        BY <4>1
    <3>6. d[k] = Left(h, Turns(k))
      BY <2>5
    <3>7. d[k + 1] = Left(h, Turns(k + 1))
      <4> HIDE DEF Turns
      <4> QED
        BY <3>2, <3>4, <3>5, <3>6, Zenon
    <3> QED
      BY <3>1, <3>7
  <2>6. n \in T
    <3>1. \A k \in 0..n : k \in T
      <4> HIDE DEF T
      <4> QED
        BY <2>4, <2>5, UpTo
    <3> QED
      BY <3>1
  <2>7. Turns(n) = DOMAIN h
    <3>1. \A p \in DOMAIN h : p \in Turns(n)
      BY <2>2
    <3>2. \A p \in Turns(n) : p \in DOMAIN h
      BY <2>2
    <3> HIDE DEF Turns
    <3> QED
      BY <3>1, <3>2
  <2>8. d[n] = Left(h, Turns(n))
    BY <2>6
  <2> HIDE DEF Turns
  <2> QED
    BY <2>3, <2>7, <2>8, Zenon
<1>3. \E o : o \in SetToSeqs(DOMAIN h)
  <2>1. ExistsBijection(1..Cardinality(DOMAIN h), DOMAIN h)
    BY <1>1, FS_CardinalityType
  <2> QED
    BY <2>1 DEF ExistsBijection, Bijection, Injection, IsInjective, SetToSeqs
<1>4. \A r \in Outcomes(h) : r = Left(h, DOMAIN h)
  BY <1>2 DEF Outcomes
<1>5. \E r : r \in Outcomes(h)
  BY <1>3 DEF Outcomes
<1> QED
  BY <1>4, <1>5

-----------------------------------------------------------------------------
\* The cells are numbered row by row, without a gap: i - 1 = H * (x - 2) + y - 2.
LEMMA RowOf ==
  ASSUME NEW H \in Nat \ {0}, NEW W \in Nat, NEW e \in Nat
  PROVE  /\ e % H \in 0..(H - 1)
         /\ e < W * H => e \div H \in 0..(W - 1)
<1>1. e = H * (e \div H) + (e % H) /\ e \div H \in Int /\ e % H \in 0..(H - 1)
  OBVIOUS
<1> DEFINE d == e \div H
           r == e % H
<1> HIDE DEF d, r
<1>2. e = H * d + r /\ d \in Int /\ r \in 0..(H - 1)
  BY <1>1 DEF d, r
<1>3. d >= 0
  <2>1. CASE d <= -1
    <3>1. H * d <= -H
      BY <1>2, <2>1
    <3> QED
      BY <1>2, <3>1
  <2> QED
    BY <1>2, <2>1
<1>4. ASSUME e < W * H PROVE d <= W - 1
  <2>1. CASE d >= W
    <3>1. H * d >= H * W
      BY <1>2, <2>1
    <3>2. H * W = W * H
      OBVIOUS
    <3> QED
      BY <1>2, <1>4, <3>1, <3>2
  <2> QED
    BY <1>2, <2>1
<1> QED
  BY <1>2, <1>3, <1>4 DEF d, r

LEMMA CellOf ==
  ASSUME NEW H \in Nat \ {0}, NEW W \in Nat, NEW a \in 0..(W - 1), NEW b \in 0..(H - 1)
  PROVE  /\ H * a + b \in Nat /\ H * a + b < W * H
         /\ (H * a + b) \div H = a /\ (H * a + b) % H = b
<1>1. H * a \in Nat
  OBVIOUS
<1>2. PICK e \in Nat : e = H * a + b
  BY <1>1
<1>3. H * a <= H * (W - 1)
  OBVIOUS
<1>4. H * (W - 1) = W * H - H
  OBVIOUS
<1>5. W * H \in Nat
  OBVIOUS
<1>6. e < W * H
  BY <1>1, <1>2, <1>3, <1>4, <1>5
<1> DEFINE d == e \div H
           r == e % H
<1>7. e = H * d + r /\ d \in Int /\ r \in 0..(H - 1)
  OBVIOUS
<1> HIDE DEF d, r
<1>8. d = a
  <2>1. H * (d - a) = b - r
    BY <1>2, <1>7
  <2>2. PICK z \in Int : z = d - a
    BY <1>7
  <2>3. H * z < H /\ H * z > -H
    BY <1>7, <2>1, <2>2
  <2>4. z < 1 /\ z > -1
    BY <2>3
  <2> QED
    BY <1>7, <2>2, <2>4
<1>9. r = b
  BY <1>2, <1>7, <1>8
<1> QED
  BY <1>2, <1>6, <1>8, <1>9 DEF d, r

LEMMA InsideIs ==
  /\ \A c \in Inside : \E x \in 2..(Right - 1), y \in 2..(Bottom - 1) : c = <<x, y>>
  /\ \A x \in 2..(Right - 1), y \in 2..(Bottom - 1) : <<x, y>> \in Inside
<1>1. PICK H \in Nat \ {0} : H = Height
  BY BoardAssumption DEF Height
<1>2. PICK W \in Nat : W = Right - 2
  BY BoardAssumption
<1>3. Area = W * H /\ W * H \in Nat
  BY <1>1, <1>2 DEF Area
<1>4. H = Bottom - 2 /\ Bottom \in Nat /\ Right \in Nat
  BY <1>1, BoardAssumption DEF Height
<1>5. ASSUME NEW c \in Inside
      PROVE  \E x \in 2..(Right - 1), y \in 2..(Bottom - 1) : c = <<x, y>>
  <2>1. PICK i \in 1..Area : c = Cell(i)
    BY DEF Inside
  <2>2. PICK e \in Nat : e = i - 1 /\ e < W * H
    BY <1>3, <2>1
  <2>3. c = <<2 + (e \div H), 2 + (e % H)>>
    BY <1>1, <2>1, <2>2 DEF Cell
  <2>4. e % H \in 0..(H - 1) /\ e \div H \in 0..(W - 1)
    BY <2>2, RowOf
  <2>5. 2 + (e \div H) \in 2..(Right - 1) /\ 2 + (e % H) \in 2..(Bottom - 1)
    BY <1>2, <1>4, <2>4
  <2> QED
    BY <2>3, <2>5
<1>6. ASSUME NEW x \in 2..(Right - 1), NEW y \in 2..(Bottom - 1)
      PROVE  <<x, y>> \in Inside
  <2>1. PICK a \in 0..(W - 1), b \in 0..(H - 1) : a = x - 2 /\ b = y - 2
    BY <1>2, <1>4
  <2>2. /\ H * a + b \in Nat /\ H * a + b < W * H
        /\ (H * a + b) \div H = a /\ (H * a + b) % H = b
    BY CellOf
  <2>3. PICK e \in Nat : e = H * a + b
    BY <2>2
  <2>4. e < W * H /\ e \div H = a /\ e % H = b
    BY <2>2, <2>3
  <2>5. e + 1 \in 1..Area /\ (e + 1) - 1 = e
    BY <1>3, <2>4
  <2>6. Cell(e + 1) = <<2 + a, 2 + b>>
    BY <1>1, <2>4, <2>5 DEF Cell
  <2>7. 2 + a = x /\ 2 + b = y
    BY <2>1
  <2>8. Cell(e + 1) = <<x, y>>
    BY <2>6, <2>7
  <2> QED
    BY <2>5, <2>8 DEF Inside
<1> QED
  BY <1>5, <1>6

\* What is inside the border can be drawn, the placeholder (0, 0) cannot.
LEMMA InsideDrawable ==
  /\ \A c \in Inside : ~Outside(c)
  /\ \A c \in Starts : ~Outside(c) => c \in Inside
  /\ Outside(Origin)
<1>1. ASSUME NEW c \in Inside PROVE ~Outside(c)
  BY <1>1, InsideIs, BoardAssumption DEF Outside
<1>2. ASSUME NEW c \in Starts, ~Outside(c) PROVE c \in Inside
  <2>1. PICK x \in 1..(Right - 2), y \in 1..(Bottom - 2) : c = <<x, y>>
    BY DEF Starts
  <2>2. x \in 2..(Right - 1) /\ y \in 2..(Bottom - 1)
    BY <1>2, <2>1, BoardAssumption DEF Outside
  <2> QED
    BY <2>1, <2>2, InsideIs
<1>3. Outside(Origin)
  BY DEF Outside, Origin
<1> QED
  BY <1>1, <1>2, <1>3

LEMMA InsideFinite == IsFiniteSet(Inside) /\ Area \in Nat
<1>1. IsFiniteSet(2..(Right - 1)) /\ IsFiniteSet(2..(Bottom - 1))
  BY BoardAssumption, FS_Interval
<1>2. IsFiniteSet((2..(Right - 1)) \X (2..(Bottom - 1)))
  BY <1>1, FS_Product
<1>3. Inside \subseteq (2..(Right - 1)) \X (2..(Bottom - 1))
  BY InsideIs
<1>4. Area \in Nat
  BY BoardAssumption DEF Area, Height
<1> QED
  BY <1>2, <1>3, <1>4, FS_Subset

\* A snake that walks over the border comes in on the other side.
LEMMA NewHeadInside ==
  ASSUME NEW p, head[p] \in Inside, NEW s \in Shifts
  PROVE  NewHead(p, s) \in Inside
<1>1. PICK x \in 2..(Right - 1), y \in 2..(Bottom - 1) : head[p] = <<x, y>>
  BY InsideIs
<1>2. PICK a \in -1..1, b \in -1..1 : s = <<a, b>>
  BY DEF Shifts
<1>3. NewHead(p, s) = <<Wrap(x + a, Right), Wrap(y + b, Bottom)>>
  BY <1>1, <1>2 DEF NewHead, goodCoord
<1>4. Wrap(x + a, Right) \in 2..(Right - 1) /\ Wrap(y + b, Bottom) \in 2..(Bottom - 1)
  BY BoardAssumption DEF Wrap
<1> QED
  BY <1>3, <1>4, InsideIs

\* The sum of finitely many numbers is a number.
LEMMA SumType ==
  ASSUME NEW f, IsFiniteSet(DOMAIN f), \A x \in DOMAIN f : f[x] \in Int
  PROVE  FoldFunction(+, 0, f) \in Int
<1> DEFINE S == DOMAIN f
           c == [s \in SUBSET S |-> CHOOSE x \in s : TRUE]
           G == [x \in S |-> [v \in Int |-> f[x] + v]]
           P(it) == it = [s \in SUBSET S |->
                            IF s = {} THEN 0
                            ELSE f[CHOOSE x \in s : TRUE] + it[s \ {CHOOSE x \in s : TRUE}]]
<1>1. \E it : IsFold(it, S, Int, 0, c, G)
  <2>1. Chooses(c, S)
    BY DEF Chooses
  <2>2. G \in [S -> [Int -> Int]]
    OBVIOUS
  <2>3. 0 \in Int
    OBVIOUS
  <2> HIDE DEF S, c, G, P
  <2> QED
    BY <2>1, <2>2, <2>3, FoldExists DEF S
<1>2. PICK it : /\ it \in [SUBSET S -> Int]
                /\ \A s \in SUBSET S :
                     it[s] = IF s = {} THEN 0 ELSE G[c[s]][it[s \ {c[s]}]]
  <2> HIDE DEF S, c, G, P
  <2> QED
    BY <1>1 DEF IsFold
<1>3. P(it)
  <2>1. it = [s \in SUBSET S |-> it[s]]
    BY <1>2
  <2>2. ASSUME NEW s \in SUBSET S, s # {}
        PROVE  it[s] = f[CHOOSE x \in s : TRUE] + it[s \ {CHOOSE x \in s : TRUE}]
    <3>1. PICK y : y = CHOOSE x \in s : TRUE
      OBVIOUS
    <3>2. y \in S /\ c[s] = y
      BY <2>2, <3>1
    <3>3. it[s \ {y}] \in Int
      BY <1>2
    <3>4. it[s] = G[y][it[s \ {y}]]
      <4> HIDE DEF S, c, G
      <4> QED
        BY <1>2, <2>2, <3>2
    <3>5. G[y][it[s \ {y}]] = f[y] + it[s \ {y}]
      BY <3>2, <3>3
    <3> HIDE DEF S, c, G
    <3> QED
      BY <3>1, <3>4, <3>5, Zenon
  <2>3. it[{}] = 0
    BY <1>2
  <2>4. \A s \in SUBSET S :
          it[s] = IF s = {} THEN 0
                  ELSE f[CHOOSE x \in s : TRUE] + it[s \ {CHOOSE x \in s : TRUE}]
    BY <2>2, <2>3
  <2> HIDE DEF S
  <2> QED
    BY <2>1, <2>4
<1>4. FoldFunction(+, 0, f) = (CHOOSE j : P(j))[S]
  BY DEF FoldFunction, FoldFunctionOnSet, MapThenFoldSet
<1>5. PICK j : P(j) /\ FoldFunction(+, 0, f) = j[S]
  <2> HIDE DEF P
  <2> QED
    BY <1>3, <1>4
<1>6. ASSUME NEW s \in SUBSET S
      PROVE  IsFiniteSet(s) /\ Cardinality(s) \in Nat /\ Cardinality(s) <= Cardinality(S)
  <2> HIDE DEF S
  <2> QED
    BY FS_Subset, FS_CardinalityType DEF S
<1> DEFINE A == {n \in Nat : \A s \in SUBSET S : Cardinality(s) <= n => j[s] \in Int}
<1>7. j[{}] = 0
  BY <1>5
<1>8. 0 \in A
  BY <1>6, <1>7, FS_EmptySet
<1>9. ASSUME NEW n \in Nat, n \in A
      PROVE  n + 1 \in A
  <2> SUFFICES ASSUME NEW s \in SUBSET S, Cardinality(s) <= n + 1
               PROVE  j[s] \in Int
    OBVIOUS
  <2>1. CASE s = {}
    BY <1>7, <2>1
  <2>2. CASE s # {}
    <3>1. PICK y : y = CHOOSE x \in s : TRUE
      OBVIOUS
    <3>2. y \in s /\ f[y] \in Int
      BY <2>2, <3>1
    <3>3. j[s] = f[y] + j[s \ {y}]
      BY <1>5, <2>2, <3>1
    <3>4. Cardinality(s \ {y}) <= n
      <4>1. Cardinality(s \ {y}) = Cardinality(s) - 1
        BY <1>6, <3>2, FS_RemoveElement
      <4> QED
        BY <1>6, <4>1
    <3>5. j[s \ {y}] \in Int
      BY <1>9, <3>4
    <3> QED
      BY <3>2, <3>3, <3>5
  <2> QED
    BY <2>1, <2>2
<1>10. Cardinality(S) \in A
  <2>1. Cardinality(S) \in Nat
    BY <1>6
  <2> HIDE DEF A, S
  <2>2. \A k \in 0..(Cardinality(S) - 1) : k \in A => k + 1 \in A
    BY <1>9
  <2> QED
    BY <1>8, <2>1, <2>2, UpTo
<1>11. j[S] \in Int
  BY <1>6, <1>10
<1> QED
  BY <1>5, <1>11

-----------------------------------------------------------------------------
\* While the process runs every head is inside the border.
HeadsInside == ~exited => \A p \in Player : head[p] \in Inside

\* A round puts down one piece of food at most.
FoodBound == \A c \in Inside : food[c] <= moveNum

\* However deaths and departures are counted, never too many are left.
CountBelow == aliveSnakes <= Cardinality(alive)

\* The screen was drawn after the last round.
Drawn == ~over /\ ~exited => Drawable

RulesInv == TypeOK /\ HeadsInside /\ FoodBound /\ CountBelow /\ Drawn /\ Disjoint

Cells == Starts \cup Inside \cup {Origin}

-----------------------------------------------------------------------------
\* What Round makes of the bodies, the heads and the food
BodiesAfter(h, r) == [p \in Player |->
                        IF p \notin DOMAIN h THEN body[p]
                        ELSE IF p \in r.alive THEN Moved(h, p) ELSE Fed(h, p)]
HeadsAfter(h, r) == [p \in Player |-> IF p \in DOMAIN h \cap r.alive THEN h[p] ELSE head[p]]
FoodLeft(h) == [c \in Inside |-> IF \E p \in DOMAIN h : h[p] = c THEN 0 ELSE food[c]]

LEMMA RoundIs ==
  ASSUME NEW h, NEW r, Round(h, r)
  PROVE  /\ Verdict(r) /\ alive' = r.alive
         /\ streams' = streams \cap r.alive
         /\ parting' = parting \ DOMAIN h
         /\ UNCHANGED <<unreported, leavers>>
         /\ isOver(r) => UNCHANGED <<head, body, food, moveNum, exited>>
         /\ ~isOver(r) =>
              \E new \in newFood(HeadsAfter(h, r), BodiesAfter(h, r), FoodLeft(h)) :
                /\ head' = HeadsAfter(h, r) /\ body' = BodiesAfter(h, r)
                /\ food' = new.food
                /\ moveNum' = moveNum + (IF new.panics THEN 0 ELSE 1)
                /\ exited' = (new.panics \/ ~Drawable')
BY Zenon DEF Round, BodiesAfter, HeadsAfter, FoodLeft

\* Who is in a round, and where the moves lead
LEMMA NewHeadsType ==
  ASSUME TypeOK, HeadsInside, ~exited, NEW h \in NewHeads
  PROVE  /\ DOMAIN h \subseteq Player
         /\ \A p \in DOMAIN h : h[p] \in Inside
<1>0. PICK party \in Parties :
        \E m \in [party -> Shifts] : h = [p \in party |-> NewHead(p, m[p])]
  BY DEF NewHeads
<1>1. PICK m \in [party -> Shifts] : h = [p \in party |-> NewHead(p, m[p])]
  BY <1>0
<1>2. party \subseteq Player
  BY PlayersAssumption DEF Parties, TypeOK, Others
<1>3. DOMAIN h = party /\ \A p \in party : h[p] = NewHead(p, m[p]) /\ m[p] \in Shifts
  BY <1>1
<1>4. \A p \in party : head[p] \in Inside
  BY <1>2 DEF HeadsInside
<1> QED
  BY <1>2, <1>3, <1>4, NewHeadInside

LEMMA BeforeType == TypeOK => Before \in Result
BY DEF TypeOK, Before, Result

\* newFood, whatever cells it takes for free
LEMMA NewFoodIs ==
  ASSUME NEW heads, NEW bodies, NEW foods
  PROVE  \E free : newFood(heads, bodies, foods) =
           LET left == Area - Filled(bodies, foods)
               On(c) == [foods EXCEPT ![c] = @ + 1]
               Board(v) == IF v > 0 THEN On(free[v])
                           ELSE IF Free(Cell(1), heads, bodies, foods) THEN foods
                           ELSE On(Cell(1))
           IN IF moveNum % N # 0 THEN {[food |-> foods, panics |-> FALSE]}
              ELSE IF left <= 0 THEN {[food |-> foods, panics |-> TRUE]}
              ELSE {[food |-> Board(v), panics |-> FALSE] : v \in 0..(left - 1)}
<1> DEFINE free == SelectSeq([i \in 1..Area |-> Cell(i)],
                             LAMBDA c : Free(c, heads, bodies, foods))
<1>1. newFood(heads, bodies, foods) =
        LET left == Area - Filled(bodies, foods)
            On(c) == [foods EXCEPT ![c] = @ + 1]
            Board(v) == IF v > 0 THEN On(free[v])
                        ELSE IF Free(Cell(1), heads, bodies, foods) THEN foods
                        ELSE On(Cell(1))
        IN IF moveNum % N # 0 THEN {[food |-> foods, panics |-> FALSE]}
           ELSE IF left <= 0 THEN {[food |-> foods, panics |-> TRUE]}
           ELSE {[food |-> Board(v), panics |-> FALSE] : v \in 0..(left - 1)}
  BY Zenon DEF newFood
<1> HIDE DEF free
<1> QED
  BY <1>1

\* One piece of food more, or none because the board is full
LEMMA NewFoodType ==
  ASSUME NEW heads, NEW bodies, NEW m \in Nat, NEW foods \in [Inside -> 0..m],
         NEW new \in newFood(heads, bodies, foods)
  PROVE  /\ new.food \in [Inside -> 0..(m + 1)]
         /\ new.panics \in BOOLEAN
         /\ new.panics => new.food = foods /\ Area - Filled(bodies, foods) <= 0
<1> DEFINE On(c) == [foods EXCEPT ![c] = @ + 1]
           left == Area - Filled(bodies, foods)
<1>1. ASSUME NEW c PROVE On(c) \in [Inside -> 0..(m + 1)]
  <2>1. ASSUME NEW x \in Inside PROVE On(c)[x] \in 0..(m + 1)
    <3>1. foods[x] \in 0..m
      OBVIOUS
    <3>2. CASE x = c
      BY <3>1, <3>2
    <3>3. CASE x # c
      BY <3>1, <3>3
    <3> QED
      BY <3>2, <3>3
  <2>2. On(c) = [x \in Inside |-> On(c)[x]]
    OBVIOUS
  <2> HIDE DEF On
  <2> QED
    BY <2>1, <2>2
<1>2. foods \in [Inside -> 0..(m + 1)]
  OBVIOUS
<1>3. PICK free : newFood(heads, bodies, foods) =
         LET Board(v) == IF v > 0 THEN On(free[v])
                         ELSE IF Free(Cell(1), heads, bodies, foods) THEN foods
                         ELSE On(Cell(1))
         IN IF moveNum % N # 0 THEN {[food |-> foods, panics |-> FALSE]}
            ELSE IF left <= 0 THEN {[food |-> foods, panics |-> TRUE]}
            ELSE {[food |-> Board(v), panics |-> FALSE] : v \in 0..(left - 1)}
  BY NewFoodIs, Zenon
<1> HIDE DEF On, left
<1>4. \/ new = [food |-> foods, panics |-> FALSE]
      \/ left <= 0 /\ new = [food |-> foods, panics |-> TRUE]
      \/ \E c : new = [food |-> On(c), panics |-> FALSE]
  BY <1>3
<1>5. CASE new = [food |-> foods, panics |-> FALSE]
  BY <1>2, <1>5
<1>6. CASE left <= 0 /\ new = [food |-> foods, panics |-> TRUE]
  BY <1>2, <1>6 DEF left
<1>7. CASE \E c : new = [food |-> On(c), panics |-> FALSE]
  BY <1>1, <1>7
<1> QED
  BY <1>4, <1>5, <1>6, <1>7

\* The sum that newFood compares with the board
LEMMA FilledType ==
  ASSUME NEW bodies, \A p \in Player : Len(bodies[p]) \in Nat,
         NEW foods \in [Inside -> Nat]
  PROVE  Filled(bodies, foods) \in Int
<1> DEFINE b == [p \in Player |-> Len(bodies[p]) + 1]
<1>1. IsFiniteSet(DOMAIN foods) /\ \A c \in DOMAIN foods : foods[c] \in Int
  BY InsideFinite
<1>2. IsFiniteSet(DOMAIN b) /\ \A p \in DOMAIN b : b[p] \in Int
  BY PlayersAssumption
<1>3. PICK x \in Int : x = FoldFunction(+, 0, foods)
  BY <1>1, SumType
<1>4. PICK y \in Int : y = FoldFunction(+, 0, b)
  <2> HIDE DEF b
  <2> QED
    BY <1>2, SumType
<1>5. Filled(bodies, foods) = x + y
  BY <1>3, <1>4, Zenon DEF Filled
<1> QED
  BY <1>5

-----------------------------------------------------------------------------
\* A snake that ate gets one segment more for each piece, at (0, 0) at first.
LEMMA FedType ==
  ASSUME TypeOK, NEW h, NEW p \in DOMAIN h, p \in Player,
         \A q \in DOMAIN h : h[q] \in Inside
  PROVE  /\ Eaten(h, p) \in Nat
         /\ Eaten(h, p) > 1 => food[h[p]] > 1
         /\ body[p] \in Seq(Cells) /\ head[p] \in Cells
         /\ Fed(h, p) \in Seq(Cells)
         /\ Len(Fed(h, p)) = Len(body[p]) + Eaten(h, p)
         /\ \A i \in 1..Len(body[p]) : Fed(h, p)[i] = body[p][i]
         /\ \A i \in (Len(body[p]) + 1)..Len(Fed(h, p)) : Fed(h, p)[i] = Origin
<1>1. food[h[p]] \in Nat
  BY BoundAssumption DEF TypeOK
<1>2. Eaten(h, p) \in Nat /\ (Eaten(h, p) > 1 => food[h[p]] > 1)
  BY <1>1 DEF Eaten
<1>3. body[p] \in Seq(Cells) /\ head[p] \in Cells
  BY DEF TypeOK, Cells
<1>4. PICK k \in Nat : k = Eaten(h, p)
  BY <1>2
<1>5. PICK t : t = [i \in 1..k |-> Origin]
  OBVIOUS
<1>6. t \in Seq(Cells) /\ Len(t) = k /\ \A i \in 1..k : t[i] = Origin
  <2>1. Origin \in Cells
    BY DEF Cells
  <2> HIDE DEF Cells
  <2> QED
    BY <1>5, <2>1
<1>7. Fed(h, p) = body[p] \o t
  BY <1>4, <1>5 DEF Fed
<1> HIDE DEF Cells
<1>8. /\ body[p] \o t \in Seq(Cells)
      /\ Len(body[p] \o t) = Len(body[p]) + k
      /\ \A i \in 1..Len(body[p]) : (body[p] \o t)[i] = body[p][i]
      /\ \A i \in (Len(body[p]) + 1)..(Len(body[p]) + k) :
           (body[p] \o t)[i] = t[i - Len(body[p])]
  BY <1>3, <1>6
<1>9. \A i \in (Len(body[p]) + 1)..(Len(body[p]) + k) : i - Len(body[p]) \in 1..k
  BY <1>3
<1> QED
  BY <1>2, <1>3, <1>4, <1>6, <1>7, <1>8, <1>9

\* The segments follow: each takes the place of the one before it.
LEMMA MovedType ==
  ASSUME TypeOK, NEW h, NEW p \in DOMAIN h, p \in Player,
         \A q \in DOMAIN h : h[q] \in Inside
  PROVE  /\ Moved(h, p) \in Seq(Cells)
         /\ Len(Moved(h, p)) = Len(Fed(h, p))
         /\ Len(Moved(h, p)) > 0 => Moved(h, p)[1] = head[p]
         /\ \A i \in 2..Len(Moved(h, p)) : Moved(h, p)[i] = Fed(h, p)[i - 1]
<1>1. PICK b : b = Fed(h, p)
  OBVIOUS
<1>2. b \in Seq(Cells) /\ head[p] \in Cells
  BY <1>1, FedType
<1> HIDE DEF Cells
<1>3. CASE b = << >>
  <2>1. Moved(h, p) = << >>
    BY <1>1, <1>3 DEF Moved
  <2> QED
    BY <1>1, <1>3, <2>1
<1>4. CASE b # << >>
  <2>1. Moved(h, p) = <<head[p]>> \o SubSeq(b, 1, Len(b) - 1)
    BY <1>1, <1>4 DEF Moved, Front
  <2>2. PICK t : t = SubSeq(b, 1, Len(b) - 1)
    OBVIOUS
  <2>3. Len(b) \in Nat /\ Len(b) > 0
    BY <1>2, <1>4
  <2>4. t \in Seq(Cells) /\ Len(t) = Len(b) - 1 /\ \A i \in 1..(Len(b) - 1) : t[i] = b[i]
    <3>0. PICK l \in Nat : l = Len(b) /\ l > 0
      BY <2>3
    <3>1. PICK n \in Nat : n = Len(b) - 1
      <4>1. l - 1 \in Nat /\ l - 1 = Len(b) - 1
        BY <3>0
      <4> QED
        BY <4>1
    <3>2. \A i \in 1..n : b[i] \in Cells
      BY <1>2, <2>3, <3>1
    <3>3. /\ SubSeq(b, 1, n) \in Seq(Cells)
          /\ Len(SubSeq(b, 1, n)) = (IF 1 <= n THEN n - 1 + 1 ELSE 0)
          /\ \A i \in 1..(n - 1 + 1) : SubSeq(b, 1, n)[i] = b[1 + i - 1]
      BY <3>2, SubSeqProperties
    <3>4. t = SubSeq(b, 1, n)
      BY <2>2, <3>1, Zenon
    <3> QED
      BY <3>1, <3>3, <3>4
  <2>5. PICK s : s = <<head[p]>>
    OBVIOUS
  <2>6. s \in Seq(Cells) /\ Len(s) = 1 /\ s[1] = head[p]
    BY <1>2, <2>5
  <2>7. /\ s \o t \in Seq(Cells) /\ Len(s \o t) = Len(b)
        /\ (s \o t)[1] = head[p]
        /\ \A i \in 2..Len(b) : (s \o t)[i] = t[i - 1]
    <3>1. /\ s \o t \in Seq(Cells) /\ Len(s \o t) = Len(s) + Len(t)
          /\ \A i \in 1..(Len(s) + Len(t)) :
               (s \o t)[i] = IF i <= Len(s) THEN s[i] ELSE t[i - Len(s)]
      BY <2>4, <2>6, ConcatProperties
    <3>2. PICK w : w = s \o t
      OBVIOUS
    <3> QED
      BY <2>3, <2>4, <2>6, <3>1, <3>2
  <2>8. \A i \in 2..Len(b) : i - 1 \in 1..(Len(b) - 1)
    BY <2>3
  <2> QED
    BY <1>1, <2>1, <2>2, <2>4, <2>5, <2>7, <2>8
<1> QED
  BY <1>3, <1>4

-----------------------------------------------------------------------------
\* Where a snake stands, by the places of its segments
LEMMA OccupiedIs ==
  ASSUME NEW p, body[p] \in Seq(Cells)
  PROVE  \A c : c \in Occupied(p) <=> \/ c = head[p]
                                      \/ \E i \in 1..Len(body[p]) : c = body[p][i]
BY DEF Occupied, ToSet

\* The first places of a snake that moved and has no segment at (0, 0) are the
\* head and the body of before.
LEMMA Follows ==
  ASSUME TypeOK, NEW h, NEW p \in DOMAIN h, p \in Player,
         \A q \in DOMAIN h : h[q] \in Inside,
         \A i \in 1..Len(Moved(h, p)) : Moved(h, p)[i] # Origin
  PROVE  /\ Len(Moved(h, p)) \in 0..(Len(body[p]) + 1)
         /\ Len(Moved(h, p)) > 0 => Moved(h, p)[1] = head[p]
         /\ \A i \in 2..Len(Moved(h, p)) :
              i - 1 \in 1..Len(body[p]) /\ Moved(h, p)[i] = body[p][i - 1]
<1>1. PICK b \in Seq(Cells) : b = body[p]
  BY FedType
<1>2. PICK f \in Seq(Cells) : f = Fed(h, p)
  BY FedType
<1>3. PICK v \in Seq(Cells) : v = Moved(h, p)
  BY MovedType
<1> HIDE DEF Cells
<1>4. PICK lb \in Nat, lv \in Nat : lb = Len(b) /\ lv = Len(v)
  OBVIOUS
<1>5. /\ Len(f) = lv /\ lv >= lb
      /\ \A i \in 1..lb : f[i] = b[i]
      /\ \A i \in (lb + 1)..lv : f[i] = Origin
  BY <1>1, <1>2, <1>3, <1>4, FedType, MovedType
<1>6. /\ lv > 0 => v[1] = head[p]
      /\ \A i \in 2..lv : v[i] = f[i - 1]
  <2>1. /\ Len(Moved(h, p)) > 0 => Moved(h, p)[1] = head[p]
        /\ \A i \in 2..Len(Moved(h, p)) : Moved(h, p)[i] = Fed(h, p)[i - 1]
    BY MovedType
  <2>2. /\ Len(v) > 0 => v[1] = head[p]
        /\ \A i \in 2..Len(v) : v[i] = f[i - 1]
    BY <1>2, <1>3, <2>1, Zenon
  <2> QED
    BY <1>4, <2>2
<1>7. \A i \in 1..lv : v[i] # Origin
  BY <1>3, <1>4
<1>8. lv <= lb + 1
  <2> SUFFICES ASSUME lv >= lb + 2 PROVE FALSE
    OBVIOUS
  <2>1. lv \in 2..lv /\ lv - 1 \in (lb + 1)..lv
    OBVIOUS
  <2>2. v[lv] = Origin
    BY <1>5, <1>6, <2>1
  <2>3. lv \in 1..lv
    BY <2>1
  <2> QED
    BY <1>7, <2>2, <2>3
<1>9. ASSUME NEW i \in 2..lv PROVE i - 1 \in 1..lb /\ v[i] = b[i - 1]
  <2>1. i - 1 \in 1..lb
    BY <1>8
  <2> QED
    BY <1>5, <1>6, <2>1
<1> QED
  BY <1>1, <1>3, <1>4, <1>6, <1>8, <1>9

\* Where it stands, then, apart from the new head, it stood before.
LEMMA StaysOn ==
  ASSUME TypeOK, NEW h, NEW p \in DOMAIN h, p \in Player,
         \A q \in DOMAIN h : h[q] \in Inside,
         \A i \in 1..Len(Moved(h, p)) : Moved(h, p)[i] # Origin
  PROVE  \A i \in 1..Len(Moved(h, p)) : Moved(h, p)[i] \in Occupied(p)
<1>1. body[p] \in Seq(Cells)
  BY FedType
<1>2. Len(Moved(h, p)) \in Nat
  BY MovedType
<1> SUFFICES ASSUME NEW i \in 1..Len(Moved(h, p)) PROVE Moved(h, p)[i] \in Occupied(p)
  OBVIOUS
<1>3. CASE i = 1
  <2>1. Moved(h, p)[1] = head[p]
    BY <1>2, <1>3, Follows
  <2> QED
    BY <1>3, <2>1 DEF Occupied
<1>4. CASE i # 1
  <2>1. i \in 2..Len(Moved(h, p))
    BY <1>2, <1>4
  <2>2. i - 1 \in 1..Len(body[p]) /\ Moved(h, p)[i] = body[p][i - 1]
    BY <2>1, Follows
  <2> QED
    BY <1>1, <2>2, OccupiedIs
<1> QED
  BY <1>3, <1>4

\* A snake does not overlap itself, by the places of its segments.
NoKnot(hd, b) == /\ \A i \in 1..Len(b) : b[i] # hd
                 /\ \A i, j \in 1..Len(b) : b[i] = b[j] => i = j

LEMMA NoKnotIs ==
  ASSUME NEW S, NEW hd \in S, NEW b \in Seq(S)
  PROVE  IsInjective(<<hd>> \o b) <=> NoKnot(hd, b)
<1>1. PICK s \in Seq(S) : s = <<hd>> /\ Len(s) = 1 /\ s[1] = hd
  <2>1. <<hd>> \in Seq(S) /\ Len(<<hd>>) = 1 /\ <<hd>>[1] = hd
    OBVIOUS
  <2> QED
    BY <2>1, Zenon
<1>2. PICK t : t = s \o b
  OBVIOUS
<1>3. PICK l \in Nat : l = Len(b)
  OBVIOUS
<1>4. /\ t \in Seq(S) /\ Len(t) = l + 1
      /\ \A i \in 1..(l + 1) : t[i] = IF i <= 1 THEN hd ELSE b[i - 1]
  <2>1. /\ s \o b \in Seq(S) /\ Len(s \o b) = Len(s) + Len(b)
        /\ \A i \in 1..(Len(s) + Len(b)) :
             (s \o b)[i] = IF i <= Len(s) THEN s[i] ELSE b[i - Len(s)]
    BY ConcatProperties
  <2>2. Len(s) + Len(b) = l + 1
    BY <1>1, <1>3
  <2> QED
    BY <1>1, <1>2, <2>1, <2>2
<1>5. DOMAIN t = 1..(l + 1)
  BY <1>4
<1>6. t[1] = hd /\ \A i \in 1..l : i + 1 \in 1..(l + 1) /\ t[i + 1] = b[i]
  BY <1>4
<1>7. ASSUME IsInjective(t) PROVE NoKnot(hd, b)
  <2>1. \A i, j \in 1..(l + 1) : t[i] = t[j] => i = j
    BY <1>5, <1>7 DEF IsInjective
  <2>2. ASSUME NEW i \in 1..l PROVE b[i] # hd
    <3>1. i + 1 \in 1..(l + 1) /\ 1 \in 1..(l + 1) /\ i + 1 # 1
      OBVIOUS
    <3> QED
      BY <1>6, <2>1, <3>1
  <2>3. ASSUME NEW i \in 1..l, NEW j \in 1..l, b[i] = b[j] PROVE i = j
    <3>1. i + 1 \in 1..(l + 1) /\ j + 1 \in 1..(l + 1) /\ t[i + 1] = t[j + 1]
      BY <1>6, <2>3
    <3>2. i + 1 = j + 1
      BY <2>1, <3>1
    <3> QED
      BY <3>2
  <2> QED
    BY <1>3, <2>2, <2>3 DEF NoKnot
<1>8. ASSUME NoKnot(hd, b) PROVE IsInjective(t)
  <2> SUFFICES ASSUME NEW i \in 1..(l + 1), NEW j \in 1..(l + 1), t[i] = t[j]
               PROVE  i = j
    BY <1>5 DEF IsInjective
  <2>1. \A k \in 1..l : b[k] # hd
    BY <1>3, <1>8 DEF NoKnot
  <2>2. \A k, m \in 1..l : b[k] = b[m] => k = m
    BY <1>3, <1>8 DEF NoKnot
  <2>3. CASE i = 1 /\ j = 1
    BY <2>3
  <2>4. CASE i = 1 /\ j # 1
    <3>1. j - 1 \in 1..l /\ t[j] = b[j - 1] /\ t[i] = hd
      BY <1>4, <2>4
    <3> QED
      BY <2>1, <3>1
  <2>5. CASE i # 1 /\ j = 1
    <3>1. i - 1 \in 1..l /\ t[i] = b[i - 1] /\ t[j] = hd
      BY <1>4, <2>5
    <3> QED
      BY <2>1, <3>1
  <2>6. CASE i # 1 /\ j # 1
    <3>1. i - 1 \in 1..l /\ t[i] = b[i - 1] /\ j - 1 \in 1..l /\ t[j] = b[j - 1]
      BY <1>4, <2>6
    <3>2. i - 1 = j - 1
      BY <2>2, <3>1
    <3> QED
      BY <3>2
  <2> QED
    BY <2>3, <2>4, <2>5, <2>6
<1>9. <<hd>> \o b = t
  BY <1>1, <1>2
<1> QED
  BY <1>7, <1>8, <1>9, Zenon

\* The body that follows the head is free of knots, and the new head is not on
\* the old snake.
LEMMA MovedNoKnot ==
  ASSUME TypeOK, NEW h, NEW p \in DOMAIN h, p \in Player,
         \A q \in DOMAIN h : h[q] \in Inside,
         \A i \in 1..Len(Moved(h, p)) : Moved(h, p)[i] # Origin,
         NoKnot(head[p], body[p]), h[p] \notin Occupied(p)
  PROVE  NoKnot(h[p], Moved(h, p))
<1>0. PICK b, m : b = body[p] /\ m = Len(b)
  OBVIOUS
<1>1. \A i \in 1..Len(Moved(h, p)) : Moved(h, p)[i] # h[p]
  BY StaysOn
<1>2. PICK v : v = Moved(h, p)
  OBVIOUS
<1>3. PICK l \in Nat : l = Len(v)
  BY <1>2, MovedType
<1>4. /\ l > 0 => v[1] = head[p]
      /\ \A i \in 2..l : i - 1 \in 1..m /\ v[i] = b[i - 1]
  BY <1>0, <1>2, <1>3, Follows
<1>5. /\ \A i \in 1..m : b[i] # head[p]
      /\ \A i, j \in 1..m : b[i] = b[j] => i = j
  BY <1>0 DEF NoKnot
<1>6. ASSUME NEW i \in 1..l, NEW j \in 1..l, v[i] = v[j] PROVE i = j
  <2>1. CASE i = 1 /\ j = 1
    BY <2>1
  <2>2. CASE i = 1 /\ j # 1
    <3>1. j \in 2..l /\ l > 0
      BY <2>2
    <3> QED
      BY <1>4, <1>5, <1>6, <2>2, <3>1
  <2>3. CASE i # 1 /\ j = 1
    <3>1. i \in 2..l /\ l > 0
      BY <2>3
    <3> QED
      BY <1>4, <1>5, <1>6, <2>3, <3>1
  <2>4. CASE i # 1 /\ j # 1
    <3>1. i \in 2..l /\ j \in 2..l
      BY <2>4
    <3>2. i - 1 = j - 1
      BY <1>4, <1>5, <1>6, <3>1
    <3> QED
      BY <3>2
  <2> QED
    BY <2>1, <2>2, <2>3, <2>4
<1> QED
  BY <1>1, <1>2, <1>3, <1>6 DEF NoKnot
-----------------------------------------------------------------------------
\* What a round brings together, and what markDead leaves of it
LEMMA RoundFacts ==
  ASSUME RulesInv, ~exited, NEW h \in NewHeads, NEW r \in Outcomes(h)
  PROVE  /\ DOMAIN h \subseteq Player
         /\ \A p \in DOMAIN h : h[p] \in Inside
         /\ r \in Result
         /\ Survived(h, r, DOMAIN h)
<1>1. DOMAIN h \subseteq Player /\ \A p \in DOMAIN h : h[p] \in Inside
  BY NewHeadsType DEF RulesInv
<1>2. Before \in Result /\ aliveSnakes <= Cardinality(alive)
  BY BeforeType DEF RulesInv, CountBelow
<1> QED
  BY <1>1, <1>2, MarkDeadSurvived

LEMMA AfterType ==
  ASSUME TypeOK, FoodBound, NEW h, NEW r, DOMAIN h \subseteq Player,
         \A p \in DOMAIN h : h[p] \in Inside
  PROVE  /\ \A p \in Player : BodiesAfter(h, r)[p] \in Seq(Cells)
         /\ \A p \in Player : HeadsAfter(h, r)[p] \in Starts \cup Inside
         /\ FoodLeft(h) \in [Inside -> 0..moveNum]
<1>1. ASSUME NEW p \in Player PROVE BodiesAfter(h, r)[p] \in Seq(Cells)
  <2>1. CASE p \notin DOMAIN h
    <3>1. BodiesAfter(h, r)[p] = body[p]
      BY <2>1 DEF BodiesAfter
    <3> QED
      BY <3>1 DEF TypeOK, Cells
  <2>2. CASE p \in DOMAIN h
    <3>1. BodiesAfter(h, r)[p] \in {Moved(h, p), Fed(h, p)}
      BY <2>2 DEF BodiesAfter
    <3> QED
      BY <2>2, <3>1, FedType, MovedType
  <2> QED
    BY <2>1, <2>2
<1>2. ASSUME NEW p \in Player PROVE HeadsAfter(h, r)[p] \in Starts \cup Inside
  <2>1. head[p] \in Starts \cup Inside
    BY DEF TypeOK
  <2>2. p \in DOMAIN h => h[p] \in Inside
    OBVIOUS
  <2> QED
    BY <2>1, <2>2 DEF HeadsAfter
<1>3. ASSUME NEW c \in Inside PROVE FoodLeft(h)[c] \in 0..moveNum
  <2>1. food[c] \in 0..moveNum /\ moveNum \in Nat
    BY BoundAssumption DEF TypeOK, FoodBound
  <2> QED
    BY <2>1 DEF FoodLeft
<1>4. FoodLeft(h) = [c \in Inside |-> FoodLeft(h)[c]]
  BY DEF FoodLeft
<1> QED
  BY <1>1, <1>2, <1>3, <1>4

\* The parts of TypeOK about the snakes and the food
BoardType == /\ \A p \in Player : /\ head[p] \in Starts \cup Inside
                                  /\ body[p] \in Seq(Cells)
             /\ food \in [Inside -> 0..MaxRounds]
             /\ moveNum \in 0..MaxRounds
             /\ exited \in BOOLEAN

LEMMA RoundBoard ==
  ASSUME RulesInv, Going, NEW h \in NewHeads, NEW r \in Outcomes(h), Round(h, r)
  PROVE  BoardType' /\ FoodBound'
<1>1. TypeOK /\ FoodBound /\ ~exited /\ moveNum \in Nat /\ moveNum < MaxRounds
  BY BoundAssumption DEF RulesInv, Going, TypeOK
<1>2. DOMAIN h \subseteq Player /\ \A p \in DOMAIN h : h[p] \in Inside
  BY <1>1, RoundFacts
<1>3. CASE isOver(r)
  <2>1. UNCHANGED <<head, body, food, moveNum, exited>>
    BY <1>3, RoundIs
  <2> QED
    BY <1>1, <2>1 DEF TypeOK, FoodBound, BoardType, Cells
<1>4. CASE ~isOver(r)
  <2>1. PICK new \in newFood(HeadsAfter(h, r), BodiesAfter(h, r), FoodLeft(h)) :
          /\ head' = HeadsAfter(h, r) /\ body' = BodiesAfter(h, r)
          /\ food' = new.food
          /\ moveNum' = moveNum + (IF new.panics THEN 0 ELSE 1)
          /\ exited' = (new.panics \/ ~Drawable')
    BY <1>4, RoundIs
  <2>2. /\ \A p \in Player : BodiesAfter(h, r)[p] \in Seq(Cells)
        /\ \A p \in Player : HeadsAfter(h, r)[p] \in Starts \cup Inside
        /\ FoodLeft(h) \in [Inside -> 0..moveNum]
    BY <1>1, <1>2, AfterType
  <2>3. /\ new.food \in [Inside -> 0..(moveNum + 1)]
        /\ new.panics \in BOOLEAN
        /\ new.panics => new.food = FoodLeft(h)
    BY <1>1, <2>2, NewFoodType
  <2>4. moveNum' \in 0..MaxRounds /\ food' \in [Inside -> 0..moveNum']
    <3>0. moveNum \in 0..MaxRounds /\ moveNum + 1 \in 0..MaxRounds
      BY <1>1, BoundAssumption
    <3>1. CASE new.panics
      <4>1. moveNum' = moveNum
        BY <1>1, <2>1, <3>1
      <4>2. food' \in [Inside -> 0..moveNum]
        BY <2>1, <2>2, <2>3, <3>1, Zenon
      <4> QED
        BY <3>0, <4>1, <4>2, Zenon
    <3>2. CASE ~new.panics
      <4>1. moveNum' = moveNum + 1
        BY <2>1, <3>2
      <4>2. food' \in [Inside -> 0..(moveNum + 1)]
        BY <2>1, <2>3
      <4> QED
        BY <3>0, <4>1, <4>2, Zenon
    <3> QED
      BY <3>1, <3>2
  <2>5. food' \in [Inside -> 0..MaxRounds] /\ \A c \in Inside : food'[c] <= moveNum'
    BY <1>1, <2>4, BoundAssumption
  <2>6. exited' \in BOOLEAN
    BY <2>1, <2>3
  <2>7. BoardType'
    BY <2>1, <2>2, <2>4, <2>5, <2>6 DEF BoardType, Cells, Starts, Inside
  <2> QED
    BY <2>5, <2>7 DEF FoodBound
<1> QED
  BY <1>3, <1>4

LEMMA RoundType ==
  ASSUME RulesInv, Going, NEW h \in NewHeads, NEW r \in Outcomes(h), Round(h, r)
  PROVE  TypeOK'
<1>1. /\ Verdict(r) /\ alive' = r.alive
      /\ streams' = streams \cap r.alive
      /\ parting' = parting \ DOMAIN h
      /\ UNCHANGED <<unreported, leavers>>
  BY RoundIs
<1>2. r \in Result
  BY RoundFacts DEF Going
<1>3. r.alive \subseteq Player /\ r.count \in Int /\ r.over \in BOOLEAN
  BY <1>2 DEF Result
<1>4. TypeOK
  BY DEF RulesInv
<1>5. aliveSnakes' \in Int /\ winner' \in Player \cup {NoBody}
  BY <1>1, <1>3, <1>4 DEF Verdict, TypeOK
<1>6. over' \in BOOLEAN /\ successful' \in BOOLEAN
  BY <1>1, <1>3 DEF Verdict, isOver
<1>7. /\ streams' \subseteq Others' /\ unreported' \subseteq Others'
      /\ parting' \subseteq Others' \ streams'
      /\ alive' \subseteq Player /\ streams' \subseteq alive'
      /\ leavers' \in 0..MaxLeavers
  BY <1>1, <1>3, <1>4 DEF TypeOK, Others
<1>8. BoardType'
  BY RoundBoard
<1> QED
  BY <1>5, <1>6, <1>7, <1>8 DEF TypeOK, BoardType, Cells

LEMMA RoundCount ==
  ASSUME RulesInv, Going, NEW h \in NewHeads, NEW r \in Outcomes(h), Round(h, r)
  PROVE  CountBelow'
<1>1. alive' = r.alive /\ aliveSnakes' = r.count
  BY RoundIs DEF Verdict
<1>2. r.count <= Cardinality(r.alive)
  BY RoundFacts DEF Going, Survived
<1> QED
  BY <1>1, <1>2 DEF CountBelow

LEMMA RoundDrawn ==
  ASSUME RulesInv, Going, NEW h \in NewHeads, NEW r \in Outcomes(h), Round(h, r)
  PROVE  Drawn' /\ HeadsInside'
<1>1. TypeOK /\ ~exited /\ HeadsInside
  BY DEF RulesInv, Going
<1>2. DOMAIN h \subseteq Player /\ \A p \in DOMAIN h : h[p] \in Inside
  BY <1>1, RoundFacts
<1>3. CASE isOver(r)
  <2>1. UNCHANGED <<head, body, food, moveNum, exited>> /\ over'
    BY <1>3, RoundIs DEF Verdict
  <2> QED
    BY <1>1, <2>1 DEF Drawn, HeadsInside
<1>4. CASE ~isOver(r)
  <2>1. head' = HeadsAfter(h, r) /\ (~exited' => Drawable')
    BY <1>4, RoundIs
  <2>2. ASSUME NEW p \in Player PROVE HeadsAfter(h, r)[p] \in Inside
    <3>1. head[p] \in Inside
      BY <1>1 DEF HeadsInside
    <3> QED
      BY <1>2, <3>1 DEF HeadsAfter
  <2> QED
    BY <2>1, <2>2 DEF Drawn, HeadsInside
<1> QED
  BY <1>3, <1>4

\* Where the survivor p of a round stands: where it stood, or where it went.
\* It has no segment at (0, 0), or the process would not go on.
LEMMA SurvivorMoved ==
  ASSUME RulesInv, Going, NEW h \in NewHeads, NEW r \in Outcomes(h), Round(h, r),
         ~isOver(r), ~exited', NEW p \in DOMAIN h \cap r.alive
  PROVE  /\ head'[p] = h[p] /\ body'[p] = Moved(h, p)
         /\ \A i \in 1..Len(Moved(h, p)) : Moved(h, p)[i] # Origin
<1>1. TypeOK /\ ~exited
  BY DEF RulesInv, Going
<1>2. DOMAIN h \subseteq Player /\ \A q \in DOMAIN h : h[q] \in Inside
  BY <1>1, RoundFacts
<1>3. alive' = r.alive /\ head' = HeadsAfter(h, r) /\ body' = BodiesAfter(h, r) /\ Drawable'
  BY RoundIs
<1>4. head'[p] = h[p] /\ body'[p] = Moved(h, p)
  BY <1>2, <1>3 DEF HeadsAfter, BodiesAfter
<1>5. \A c \in ToSet(body'[p]) : ~Outside(c)'
  BY <1>3 DEF Drawable, Occupied
<1>6. \A c \in ToSet(body'[p]) : ~Outside(c)
  BY <1>5 DEF Outside
<1>7. \A i \in 1..Len(Moved(h, p)) : Moved(h, p)[i] \in ToSet(body'[p])
  BY <1>4 DEF ToSet
<1> QED
  BY <1>4, <1>6, <1>7, InsideDrawable

LEMMA SurvivorStands ==
  ASSUME RulesInv, Going, NEW h \in NewHeads, NEW r \in Outcomes(h), Round(h, r),
         ~isOver(r), ~exited', NEW p \in r.alive
  PROVE  IF p \in DOMAIN h THEN Occupied(p)' \subseteq Occupied(p) \cup {h[p]}
                           ELSE Occupied(p)' = Occupied(p)
<1>1. TypeOK /\ ~exited
  BY DEF RulesInv, Going
<1>2. DOMAIN h \subseteq Player /\ (\A q \in DOMAIN h : h[q] \in Inside) /\ p \in Player
  BY <1>1, RoundFacts DEF Result
<1>3. CASE p \in DOMAIN h
  <2>1. /\ head'[p] = h[p] /\ body'[p] = Moved(h, p)
        /\ \A i \in 1..Len(Moved(h, p)) : Moved(h, p)[i] # Origin
    BY <1>3, SurvivorMoved
  <2>2. \A i \in 1..Len(Moved(h, p)) : Moved(h, p)[i] \in Occupied(p)
    BY <1>1, <1>2, <1>3, <2>1, StaysOn
  <2>3. Moved(h, p) \in Seq(Cells)
    BY <1>1, <1>2, <1>3, MovedType
  <2>4. ToSet(Moved(h, p)) \subseteq Occupied(p)
    <3> HIDE DEF Cells
    <3> QED
      BY <2>2, <2>3 DEF ToSet
  <2>5. Occupied(p)' = {h[p]} \cup ToSet(Moved(h, p))
    BY <2>1, Zenon DEF Occupied, ToSet
  <2> QED
    BY <1>3, <2>4, <2>5
<1>4. CASE p \notin DOMAIN h
  <2>1. head' = HeadsAfter(h, r) /\ body' = BodiesAfter(h, r)
    BY RoundIs
  <2>2. head'[p] = head[p] /\ body'[p] = body[p]
    BY <1>2, <1>4, <2>1 DEF HeadsAfter, BodiesAfter
  <2> QED
    BY <1>4, <2>2, Zenon DEF Occupied, ToSet
<1> QED
  BY <1>3, <1>4

LEMMA RoundDisjoint ==
  ASSUME RulesInv, Going, NEW h \in NewHeads, NEW r \in Outcomes(h), Round(h, r)
  PROVE  Disjoint'
<1>1. TypeOK /\ ~exited /\ Disjoint
  BY DEF RulesInv, Going
<1>2. DOMAIN h \subseteq Player /\ \A q \in DOMAIN h : h[q] \in Inside
  BY <1>1, RoundFacts
<1>3. alive' = r.alive /\ r.alive \subseteq alive /\ r.alive \subseteq Player
  BY <1>1, RoundIs, RoundFacts DEF Survived, Result
<1>4. /\ \A p \in alive : IsInjective(<<head[p]>> \o body[p])
      /\ \A p, q \in alive : p # q => Occupied(p) \cap Occupied(q) = {}
  BY <1>1 DEF Disjoint
<1>5. CASE isOver(r)
  <2>1. UNCHANGED <<head, body, exited>>
    BY <1>5, RoundIs
  <2>2. \A p \in alive' : IsInjective(<<head[p]>> \o body[p])'
    BY <1>3, <1>4, <2>1
  <2>3. \A p \in alive' : Occupied(p)' = Occupied(p)
    BY <2>1 DEF Occupied
  <2> QED
    BY <1>3, <1>4, <2>2, <2>3 DEF Disjoint
<1>6. CASE ~isOver(r) /\ ~exited'
  <2>1. \A p \in DOMAIN h \cap r.alive :
          Meets(h, p) = {} /\ \A q \in r.alive : h[p] \notin Occupied(q)
    BY <1>1, RoundFacts DEF Survived
  <2>2. ASSUME NEW p \in r.alive, NEW q \in r.alive, p # q,
               NEW c \in Occupied(p)', c \in Occupied(q)'
        PROVE  FALSE
    <3>1. c \in Occupied(p) \/ (p \in DOMAIN h /\ c = h[p])
      BY <1>6, SurvivorStands
    <3>2. c \in Occupied(q) \/ (q \in DOMAIN h /\ c = h[q])
      BY <1>6, <2>2, SurvivorStands
    <3>3. ~(c \in Occupied(p) /\ c \in Occupied(q))
      BY <1>3, <1>4, <2>2
    <3>4. ~(p \in DOMAIN h /\ c = h[p] /\ c \in Occupied(q))
      BY <2>1
    <3>5. ~(q \in DOMAIN h /\ c = h[q] /\ c \in Occupied(p))
      BY <2>1
    <3>6. ~(p \in DOMAIN h /\ c = h[p] /\ q \in DOMAIN h /\ c = h[q])
      BY <2>1, <2>2 DEF Meets
    <3> QED
      BY <3>1, <3>2, <3>3, <3>4, <3>5, <3>6
  <2>3. ASSUME NEW p \in r.alive PROVE IsInjective(<<head'[p]>> \o body'[p])
    <3>1. IsInjective(<<head[p]>> \o body[p])
      BY <1>3, <1>4
    <3>2. CASE p \notin DOMAIN h
      <4>1. head' = HeadsAfter(h, r) /\ body' = BodiesAfter(h, r)
        BY <1>6, RoundIs
      <4>2. head'[p] = head[p] /\ body'[p] = body[p]
        BY <1>3, <3>2, <4>1 DEF HeadsAfter, BodiesAfter
      <4> QED
        BY <3>1, <4>2, Zenon
    <3>3. CASE p \in DOMAIN h
      <4>1. body[p] \in Seq(Cells) /\ head[p] \in Cells
        BY <1>1, <1>2, <3>3, FedType
      <4>2. NoKnot(head[p], body[p])
        <5> HIDE DEF Cells
        <5> QED
          BY <3>1, <4>1, NoKnotIs
      <4>3. /\ head'[p] = h[p] /\ body'[p] = Moved(h, p)
            /\ \A i \in 1..Len(Moved(h, p)) : Moved(h, p)[i] # Origin
        BY <1>6, <3>3, SurvivorMoved
      <4>4. NoKnot(h[p], Moved(h, p))
        BY <1>1, <1>2, <2>1, <3>3, <4>2, <4>3, MovedNoKnot
      <4>5. h[p] \in Cells /\ Moved(h, p) \in Seq(Cells)
        BY <1>1, <1>2, <3>3, MovedType DEF Cells
      <4>6. IsInjective(<<h[p]>> \o Moved(h, p))
        <5> HIDE DEF Cells
        <5> QED
          BY <4>4, <4>5, NoKnotIs
      <4> QED
        BY <4>3, <4>6, Zenon
    <3> QED
      BY <3>2, <3>3
  <2>4. \A p \in alive' : IsInjective(<<head[p]>> \o body[p])'
    BY <1>3, <2>3
  <2>5. \A p, q \in alive' : p # q => Occupied(p)' \cap Occupied(q)' = {}
    BY <1>3, <2>2
  <2> QED
    BY <2>4, <2>5, Zenon DEF Disjoint
<1>7. CASE exited'
  BY <1>7 DEF Disjoint
<1> QED
  BY <1>5, <1>6, <1>7
-----------------------------------------------------------------------------
LEMMA RulesInit == Init => RulesInv
<1> SUFFICES ASSUME Init PROVE RulesInv
  OBVIOUS
<1>1. \A p \in Player : head[p] \in Starts /\ body[p] = << >>
  BY DEF Init
<1>2. moveNum = 0 /\ aliveSnakes = Cardinality(Player) /\ alive = Player
      /\ exited = ~Drawable /\ food = [c \in Inside |-> 0] /\ ~over
  BY DEF Init
<1>3. Cardinality(Player) \in Nat
  BY PlayersAssumption, FS_CardinalityType
<1>4. food \in [Inside -> 0..MaxRounds]
  BY <1>2, BoundAssumption
<1>5. TypeOK
  <2>1. \A p \in Player : body[p] \in Seq(Starts \cup Inside \cup {Origin})
    <3>1. \A S : << >> \in Seq(S)
      OBVIOUS
    <3> QED
      BY <1>1, <3>1, Zenon
  <2>2. \A p \in Player : head[p] \in Starts \cup Inside
    BY <1>1
  <2>3. /\ streams = Others /\ unreported = Others /\ parting = {} /\ leavers = 0
        /\ ~successful /\ winner = NoBody
        /\ successful \in BOOLEAN /\ over \in BOOLEAN
    BY DEF Init
  <2>4. exited \in BOOLEAN
    BY <1>2
  <2> QED
    BY <1>2, <1>3, <1>4, <2>1, <2>2, <2>3, <2>4, BoundAssumption DEF TypeOK, Others
<1>6. HeadsInside
  <2> SUFFICES ASSUME ~exited, NEW p \in Player PROVE head[p] \in Inside
    BY DEF HeadsInside
  <2>1. Drawable
    BY <1>2
  <2>2. ~Outside(head[p])
    BY <1>2, <2>1 DEF Drawable, Occupied
  <2> QED
    BY <1>1, <2>2, InsideDrawable
<1>7. FoodBound
  BY <1>2 DEF FoodBound
<1>8. CountBelow
  BY <1>2, <1>3 DEF CountBelow
<1>9. Drawn
  BY <1>2 DEF Drawn
<1>10. Disjoint
  <2>1. \A p, q \in Player : head[p] = head[q] => p = q
    BY DEF Init, IsInjective
  <2>2. \A p \in Player : Occupied(p) = {head[p]}
    <3> SUFFICES ASSUME NEW p \in Player PROVE Occupied(p) = {head[p]}
      OBVIOUS
    <3>1. ToSet(<< >>) = {}
      BY DEF ToSet
    <3> QED
      BY <1>1, <3>1, Zenon DEF Occupied
  <2>3. ASSUME NEW p \in Player PROVE IsInjective(<<head[p]>> \o body[p])
    <3>1. << >> \in Seq(Starts) /\ head[p] \in Starts
      BY <1>1
    <3>2. NoKnot(head[p], << >>)
      BY DEF NoKnot
    <3>3. IsInjective(<<head[p]>> \o << >>)
      BY <3>1, <3>2, NoKnotIs
    <3> QED
      BY <1>1, <3>3, Zenon
  <2> QED
    BY <1>2, <2>1, <2>2, <2>3 DEF Disjoint
<1> QED
  BY <1>5, <1>6, <1>7, <1>8, <1>9, <1>10 DEF RulesInv

\* Without a change of the snakes, and with nobody come alive
LEMMA DisjointKept ==
  ASSUME Disjoint, ~exited, UNCHANGED <<head, body>>, alive' \subseteq alive
  PROVE  Disjoint'
<1>1. \A p : Occupied(p)' = Occupied(p)
  BY DEF Occupied
<1>2. \A p \in alive' : IsInjective(<<head[p]>> \o body[p])'
  BY DEF Disjoint
<1>3. \A p, q \in alive' : p # q => Occupied(p)' \cap Occupied(q)' = {}
  BY <1>1 DEF Disjoint
<1> QED
  BY <1>2, <1>3, Zenon DEF Disjoint

LEMMA DrawableKept ==
  ASSUME Drawable, UNCHANGED <<head, body, food>>, alive' \subseteq alive
  PROVE  Drawable'
BY DEF Drawable, Occupied, Outside

LEMMA LeaveStep ==
  ASSUME RulesInv, ~over, ~exited, NEW q \in Others, Leave(q)
  PROVE  RulesInv'
<1>1. UNCHANGED <<unreported, alive, head, body, aliveSnakes, over, successful, winner,
                  food, moveNum, exited>>
  BY DEF Leave, snakes, verdict
<1>2. /\ leavers < MaxLeavers /\ leavers' = leavers + 1
      /\ q \in streams /\ streams' = streams \ {q}
      /\ parting' \in {parting, parting \cup {q}}
  BY DEF Leave
<1>3. TypeOK'
  <2>1. /\ streams' \subseteq Others' /\ unreported' \subseteq Others'
        /\ parting' \subseteq Others' \ streams' /\ streams' \subseteq alive'
    BY <1>1, <1>2 DEF RulesInv, TypeOK, Others
  <2>2. leavers' \in 0..MaxLeavers
    BY <1>2, BoundAssumption DEF RulesInv, TypeOK
  <2> QED
    BY <1>1, <2>1, <2>2 DEF RulesInv, TypeOK
<1>4. HeadsInside' /\ FoodBound' /\ CountBelow'
  BY <1>1 DEF RulesInv, HeadsInside, FoodBound, CountBelow
<1>5. Drawn'
  BY <1>1, DrawableKept DEF RulesInv, Drawn
<1>6. Disjoint'
  BY <1>1, DisjointKept DEF RulesInv
<1> QED
  BY <1>3, <1>4, <1>5, <1>6 DEF RulesInv

\* A report draws nothing that was not drawn before.
LEMMA ReportDrawn ==
  ASSUME RulesInv, ~over, ~exited, NEW q \in Others, Report(q)
  PROVE  ~exited' /\ Drawable'
<1>1. UNCHANGED <<head, body, food, over>> /\ alive' \subseteq alive /\ Draw
  BY DEF Report
<1>2. Drawable
  BY DEF RulesInv, Drawn
<1>3. Drawable'
  BY <1>1, <1>2, DrawableKept
<1> QED
  BY <1>1, <1>3 DEF Draw

LEMMA ReportStep ==
  ASSUME RulesInv, ~over, ~exited, NEW q \in Others, Report(q)
  PROVE  RulesInv'
<1>1. /\ UNCHANGED <<streams, parting, leavers, head, body, food, over, successful,
                     winner, moveNum>>
      /\ unreported' = unreported \ {q} /\ alive' = alive \ {q}
      /\ aliveSnakes' = aliveSnakes - 1 /\ q \notin streams
  BY DEF Report
<1>2. ~exited' /\ Drawable' /\ exited' \in BOOLEAN
  BY ReportDrawn DEF Report, Draw
<1>3. TypeOK'
  <2>1. /\ streams' \subseteq Others' /\ unreported' \subseteq Others'
        /\ parting' \subseteq Others' \ streams' /\ streams' \subseteq alive'
        /\ alive' \subseteq Player /\ aliveSnakes' \in Int
    BY <1>1 DEF RulesInv, TypeOK, Others
  <2> QED
    BY <1>1, <1>2, <2>1 DEF RulesInv, TypeOK
<1>4. HeadsInside' /\ FoodBound'
  BY <1>1, <1>2 DEF RulesInv, HeadsInside, FoodBound
<1>5. CountBelow'
  <2>1. alive \subseteq Player /\ aliveSnakes \in Int /\ aliveSnakes <= Cardinality(alive)
    BY DEF RulesInv, TypeOK, CountBelow
  <2>2. IsFiniteSet(alive) /\ Cardinality(alive) \in Nat
    BY <2>1, PlayersAssumption, FS_Subset, FS_CardinalityType
  <2>3. Cardinality(alive \ {q}) >= Cardinality(alive) - 1
    <3>1. CASE q \in alive
      <4>1. Cardinality(alive \ {q}) = Cardinality(alive) - 1
        BY <2>2, <3>1, FS_RemoveElement
      <4> QED
        BY <2>2, <4>1
    <3>2. CASE q \notin alive
      <4>1. alive \ {q} = alive
        BY <3>2
      <4>2. Cardinality(alive \ {q}) = Cardinality(alive)
        BY <4>1, Zenon
      <4> QED
        BY <2>2, <4>2
    <3> QED
      BY <3>1, <3>2
  <2>4. Cardinality(alive \ {q}) \in Nat
    BY <2>2, FS_Subset, FS_CardinalityType
  <2>5. aliveSnakes - 1 <= Cardinality(alive \ {q})
    BY <2>1, <2>2, <2>3, <2>4
  <2> QED
    BY <1>1, <2>5 DEF CountBelow
<1>6. Drawn'
  BY <1>2 DEF Drawn
<1>7. Disjoint'
  BY <1>1, DisjointKept DEF RulesInv
<1> QED
  BY <1>3, <1>4, <1>5, <1>6, <1>7 DEF RulesInv

LEMMA RulesStep == RulesInv /\ [Next]_vars => RulesInv'
<1> SUFFICES ASSUME RulesInv, [Next]_vars PROVE RulesInv'
  OBVIOUS
<1>1. CASE handleMoves
  <2>1. PICK h \in NewHeads : \E r \in Outcomes(h) : Round(h, r)
    BY <1>1 DEF handleMoves
  <2>2. PICK r \in Outcomes(h) : Round(h, r)
    BY <2>1
  <2>3. Going
    BY <1>1 DEF handleMoves
  <2>4. TypeOK' /\ FoodBound' /\ CountBelow' /\ Drawn' /\ HeadsInside' /\ Disjoint'
    BY <2>2, <2>3, RoundType, RoundBoard, RoundCount, RoundDrawn, RoundDisjoint
  <2> QED
    BY <2>4 DEF RulesInv
<1>2. ASSUME NEW q \in Others, ~over, ~exited, Leave(q) PROVE RulesInv'
  BY <1>2, LeaveStep
<1>3. ASSUME NEW q \in Others, ~over, ~exited, Report(q) PROVE RulesInv'
  BY <1>3, ReportStep
<1>4. CASE UNCHANGED vars
  BY <1>4 DEF vars, peers, snakes, verdict, RulesInv, TypeOK, HeadsInside, FoodBound,
              CountBelow, Drawn, Disjoint, Drawable, Occupied, Outside, Others
<1> QED
  BY <1>1, <1>2, <1>3, <1>4 DEF Next

LEMMA RulesAlways == Spec => []RulesInv
BY RulesInit, RulesStep, PTL DEF Spec

-----------------------------------------------------------------------------
\* The state of the rules keeps its types: nobody leaves the board, nobody who
\* left has a stream, no stream is left of a dead snake, and markDead, the food
\* and the rounds stay within what the fields of GameUI can hold of them.
THEOREM RulesType == Spec => []TypeOK
<1>1. RulesInv => TypeOK
  BY DEF RulesInv
<1> QED
  BY <1>1, RulesAlways, PTL

\* Living snakes never overlap, whatever order markDead takes the players of a
\* round in and whoever is missing from the round.
THEOREM RulesDisjoint == Spec => []Disjoint
<1>1. RulesInv => Disjoint
  BY DEF RulesInv
<1> QED
  BY <1>1, RulesAlways, PTL

\* If nobody of a round goes where another one of it stands, the order of
\* Go's map in markDead does not matter: all players make the same of it.
THEOREM RulesOrder == Spec => []OrderIndifferent
<1>1. RulesInv => OrderIndifferent
  <2> SUFFICES ASSUME RulesInv, Going, NEW h \in NewHeads, Clear(h)
               PROVE  Cardinality(Outcomes(h)) = 1
    BY DEF OrderIndifferent, Clear
  <2>1. DOMAIN h \subseteq Player
    BY NewHeadsType DEF RulesInv, Going
  <2>2. Before \in Result
    BY BeforeType DEF RulesInv
  <2>3. Outcomes(h) = {Left(h, DOMAIN h)}
    BY <2>1, <2>2, OutcomeFixed
  <2>4. PICK x : Outcomes(h) = {x}
    BY <2>3
  <2> QED
    BY <2>4, FS_Singleton
<1> QED
  BY <1>1, RulesAlways, PTL

\* A round is only played to its end by two living snakes or more: AliveSnakes
\* never counts more than there are, whatever markDead subtracts twice.
THEOREM RulesPlayedByTwo == Spec => PlayedByTwo
<1>1. ASSUME RulesInv, [Next]_vars, moveNum' > moveNum
      PROVE  Cardinality(alive') >= 2
  <2>1. moveNum' # moveNum
    BY <1>1 DEF RulesInv, TypeOK
  <2>2. handleMoves
    BY <1>1, <2>1 DEF Next, Leave, Report, vars
  <2>3. PICK h \in NewHeads : \E r \in Outcomes(h) : Round(h, r)
    BY <2>2 DEF handleMoves
  <2>4. PICK r \in Outcomes(h) : Round(h, r)
    BY <2>3
  <2>5. Going
    BY <2>2 DEF handleMoves
  <2>6. ~isOver(r) /\ alive' = r.alive
    BY <2>1, <2>4, RoundIs
  <2>7. r.count \in Int /\ r.alive \subseteq Player /\ r.count <= Cardinality(r.alive)
    BY <1>1, <2>5, RoundFacts DEF Going, Survived, Result
  <2>8. Cardinality(r.alive) \in Nat
    BY <2>7, PlayersAssumption, FS_Subset, FS_CardinalityType
  <2> QED
    BY <2>6, <2>7, <2>8 DEF isOver
<1>2. RulesInv /\ [Next]_vars => [moveNum' > moveNum => Cardinality(alive') >= 2]_vars
  BY <1>1
<1> QED
  BY <1>2, RulesAlways, PTL DEF Spec, PlayedByTwo

\* A segment that cannot be drawn is the second of two pieces eaten at once.
LEMMA PlaceholderLeft ==
  ASSUME TypeOK, Drawable, NEW h, NEW p \in DOMAIN h, p \in alive,
         \A q \in DOMAIN h : h[q] \in Inside,
         NEW i \in 1..Len(Moved(h, p)), Outside(Moved(h, p)[i])
  PROVE  food[h[p]] > 1
<1>1. p \in Player /\ \A c \in Occupied(p) : ~Outside(c)
  BY DEF TypeOK, Drawable
<1>2. /\ body[p] \in Seq(Cells) /\ Fed(h, p) \in Seq(Cells)
      /\ Moved(h, p) \in Seq(Cells)
  BY <1>1, FedType, MovedType
<1>3. PICK b \in Seq(Cells), f \in Seq(Cells), v \in Seq(Cells) :
        b = body[p] /\ f = Fed(h, p) /\ v = Moved(h, p)
  BY <1>2
<1> HIDE DEF Cells
<1>4. PICK lb \in Nat, lv \in Nat, e \in Nat : lb = Len(b) /\ lv = Len(v) /\ e = Eaten(h, p)
  <2>1. Len(b) \in Nat /\ Len(v) \in Nat /\ Eaten(h, p) \in Nat
    BY <1>1, <1>3, FedType
  <2> QED
    BY <2>1, Zenon
<1>5. /\ Len(Moved(h, p)) = Len(Fed(h, p))
      /\ Len(Moved(h, p)) > 0 => Moved(h, p)[1] = head[p]
      /\ \A k \in 2..Len(Moved(h, p)) : Moved(h, p)[k] = Fed(h, p)[k - 1]
  BY <1>1, MovedType
<1>6. /\ Len(Fed(h, p)) = Len(body[p]) + Eaten(h, p)
      /\ \A k \in 1..Len(body[p]) : Fed(h, p)[k] = body[p][k]
      /\ Eaten(h, p) > 1 => food[h[p]] > 1
  BY <1>1, FedType
<1>7. lv = lb + e /\ (lv > 0 => v[1] = head[p]) /\ \A k \in 2..lv : v[k] = f[k - 1]
  BY <1>3, <1>4, <1>5, <1>6
<1>8. \A k \in 1..lb : f[k] = b[k]
  BY <1>3, <1>4, <1>6
<1>9. i \in 1..lv /\ Outside(v[i])
  BY <1>3, <1>4
<1>10. \A k \in 1..lb : ~Outside(b[k])
  BY <1>1, <1>3, <1>4, OccupiedIs
<1>11. ~Outside(head[p])
  BY <1>1 DEF Occupied
<1>12. i \in 2..lv
  BY <1>7, <1>9, <1>11
<1>13. ~(i - 1 \in 1..lb)
  BY <1>7, <1>8, <1>9, <1>10, <1>12
<1>14. e > 1
  BY <1>7, <1>12, <1>13
<1> QED
  BY <1>4, <1>6, <1>14

\* The process of a program that started only exits when food that lies double
\* is eaten, or when newFood finds the board full.
THEOREM RulesBoardHolds == Spec => BoardHolds
<1> DEFINE Excused == \/ \E c \in Inside : food[c] > 1
                      \/ Filled(body', food') >= Area
<1>1. ASSUME RulesInv, [Next]_vars, exited', ~exited
      PROVE  Excused
  <2>1. handleMoves
    <3>1. ASSUME NEW q \in Others, Report(q), ~over PROVE FALSE
      BY <1>1, <3>1, ReportDrawn
    <3> QED
      BY <1>1, <3>1 DEF Next, Leave, vars
  <2>2. PICK h \in NewHeads : \E r \in Outcomes(h) : Round(h, r)
    BY <2>1 DEF handleMoves
  <2>3. PICK r \in Outcomes(h) : Round(h, r)
    BY <2>2
  <2>4. Going
    BY <2>1 DEF handleMoves
  <2>5. ~isOver(r)
    BY <1>1, <2>3, RoundIs
  <2>6. PICK new \in newFood(HeadsAfter(h, r), BodiesAfter(h, r), FoodLeft(h)) :
          /\ head' = HeadsAfter(h, r) /\ body' = BodiesAfter(h, r)
          /\ food' = new.food
          /\ moveNum' = moveNum + (IF new.panics THEN 0 ELSE 1)
          /\ exited' = (new.panics \/ ~Drawable')
    BY <2>3, <2>5, RoundIs
  <2>7. /\ TypeOK /\ FoodBound /\ Drawable /\ moveNum \in Nat
        /\ DOMAIN h \subseteq Player /\ \A p \in DOMAIN h : h[p] \in Inside
    <3>1. DOMAIN h \subseteq Player /\ \A p \in DOMAIN h : h[p] \in Inside
      BY <1>1, NewHeadsType DEF RulesInv
    <3> QED
      BY <1>1, <2>4, <3>1 DEF RulesInv, Drawn, Going, TypeOK
  <2>8. alive' = r.alive /\ r.alive \subseteq alive /\ alive \subseteq Player
    BY <1>1, <2>3, <2>7, RoundIs, RoundFacts DEF Survived, TypeOK
  <2>9. /\ \A p \in Player : BodiesAfter(h, r)[p] \in Seq(Cells)
        /\ FoodLeft(h) \in [Inside -> 0..moveNum]
    BY <2>7, AfterType
  <2>10. CASE new.panics
    <3>1. new.food = FoodLeft(h) /\ Area - Filled(BodiesAfter(h, r), FoodLeft(h)) <= 0
      BY <2>7, <2>9, <2>10, NewFoodType
    <3>2. \A p \in Player : Len(BodiesAfter(h, r)[p]) \in Nat
      <4> HIDE DEF Cells
      <4> QED
        BY <2>9
    <3>3. FoodLeft(h) \in [Inside -> Nat]
      BY <2>7, <2>9
    <3>4. PICK x \in Int : x = Filled(BodiesAfter(h, r), FoodLeft(h))
      BY <3>2, <3>3, FilledType
    <3>5. x >= Area
      BY <3>1, <3>4, InsideFinite
    <3>6. Filled(body', food') = x
      BY <2>6, <3>1, <3>4, Zenon
    <3> QED
      BY <3>5, <3>6
  <2>11. CASE ~Drawable'
    <3>1. food' \in [Inside -> 0..(moveNum + 1)]
      BY <2>6, <2>7, <2>9, NewFoodType
    <3>2. \A c \in DOMAIN food' : ~Outside(c)
      BY <3>1, InsideDrawable
    <3>3. PICK p \in r.alive : \E c \in Occupied(p)' : Outside(c)
      BY <2>8, <2>11, <3>2 DEF Drawable, Outside
    <3>4. PICK c : c \in {head'[p]} \cup ToSet(body'[p]) /\ Outside(c)
      BY <3>3 DEF Occupied
    <3>5. CASE p \notin DOMAIN h
      <4>1. head'[p] = head[p] /\ body'[p] = body[p]
        BY <2>6, <2>8, <3>5 DEF HeadsAfter, BodiesAfter
      <4>2. c \in Occupied(p)
        BY <3>4, <4>1, Zenon DEF Occupied
      <4> QED
        BY <2>7, <2>8, <3>4, <4>2 DEF Drawable
    <3>6. CASE p \in DOMAIN h
      <4>1. head'[p] = h[p] /\ body'[p] = Moved(h, p)
        BY <2>6, <2>8, <3>6 DEF HeadsAfter, BodiesAfter
      <4>2. c # h[p]
        BY <2>7, <3>4, <3>6, InsideDrawable
      <4>3. c \in ToSet(Moved(h, p))
        BY <3>4, <4>1, <4>2, Zenon
      <4>4. Moved(h, p) \in Seq(Cells)
        BY <2>7, <2>8, <3>6, MovedType
      <4>5. PICK i \in 1..Len(Moved(h, p)) : c = Moved(h, p)[i]
        <5> HIDE DEF Cells
        <5> QED
          BY <4>3, <4>4 DEF ToSet
      <4>6. food[h[p]] > 1
        BY <2>7, <2>8, <3>4, <3>6, <4>5, PlaceholderLeft
      <4> QED
        BY <2>7, <3>6, <4>6
    <3> QED
      BY <3>5, <3>6
  <2> QED
    BY <1>1, <2>6, <2>10, <2>11
<1>2. RulesInv /\ [Next]_vars => [exited' /\ ~exited => Excused]_vars
  BY <1>1
<1> QED
  BY <1>2, RulesAlways, PTL DEF Spec, BoardHolds
=============================================================================
