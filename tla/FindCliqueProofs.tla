-------------------------- MODULE FindCliqueProofs --------------------------
(***************************************************************************)
(* Whatever the mesh, the number of players and the order in which Go      *)
(* ranges over the neighbours, if FindClique does not panic it returns a   *)
(* clique, and nil only if there is none or the masks overflow: every set  *)
(* of neighbours has a mask below the limit, and all of these are tried.  The provers have no theory of   *)
(* powers; what is needed of 2^k follows from the number of subsets of a   *)
(* set of k elements.                                                      *)
(***************************************************************************)
EXTENDS FindClique, PeerMeshProofs, WellFoundedInduction

\* Induction over the numbers, said of a set of numbers.
LEMMA NatSet ==
  ASSUME NEW S, 0 \in S, \A k \in Nat : k \in S => k + 1 \in S
  PROVE  Nat \subseteq S
<1> DEFINE R == OpToRel(<, Nat)
           T == Nat \ S
<1>1. \A x, y \in Nat : <<y, x>> \in R <=> y < x
  BY DEF OpToRel
<1>2. IsWellFoundedOn(R, Nat)
  BY NatLessThanWellFounded
<1> SUFFICES ASSUME T # {} PROVE FALSE
  OBVIOUS
<1>3. T \subseteq Nat
  OBVIOUS
<1>4. \E x \in T : \A y \in T : ~(<<y, x>> \in R)
  <2> HIDE DEF R, T
  <2> QED
    BY <1>2, <1>3, WFMin
<1>5. PICK x \in T : \A y \in T : ~(<<y, x>> \in R)
  BY <1>4
<1>6. x \in Nat /\ x # 0
  OBVIOUS
<1>7. x - 1 \in Nat /\ (x - 1) + 1 = x /\ x - 1 < x
  BY <1>6
<1>8. x - 1 \in S
  <2>1. <<x - 1, x>> \in R
    BY <1>1, <1>6, <1>7
  <2> QED
    BY <1>5, <1>7, <2>1
<1>9. x \in S
  BY <1>7, <1>8
<1> QED
  BY <1>5, <1>9

\* A power of two counts the subsets of an interval.
LEMMA PowerCounts ==
  ASSUME NEW k \in Nat
  PROVE  2^k \in Nat /\ IsFiniteSet(SUBSET (1..k)) /\ Cardinality(SUBSET (1..k)) = 2^k
<1> DEFINE I == 1..k
           P == SUBSET I
<1>1. IsFiniteSet(I) /\ Cardinality(I) = k
  BY FS_Interval
<1> HIDE DEF I
<1>2. IsFiniteSet(P) /\ Cardinality(P) = 2^Cardinality(I)
  BY <1>1, FS_SUBSET
<1> HIDE DEF P
<1>3. IsFiniteSet(P) /\ Cardinality(P) = 2^k
  BY <1>1, <1>2
<1> QED
  BY <1>3, FS_CardinalityType DEF P, I

LEMMA PowerZero == 2^0 = 1
<1>1. SUBSET (1..0) = {{}}
  OBVIOUS
<1> QED
  BY <1>1, PowerCounts, FS_Singleton

\* Half of the subsets of 1..k+1 have k+1 as an element.
LEMMA PowerStep ==
  ASSUME NEW k \in Nat
  PROVE  2^(k + 1) = 2 * 2^k
<1> DEFINE P == SUBSET (1..k)
           Q == {T \cup {k + 1} : T \in P}
           b == [T \in P |-> T \cup {k + 1}]
<1>1. SUBSET (1..(k + 1)) = P \cup Q
  <2>1. ASSUME NEW U \in SUBSET (1..(k + 1)), k + 1 \in U
        PROVE  U \in Q
    <3>1. U \ {k + 1} \in P /\ U = (U \ {k + 1}) \cup {k + 1}
      BY <2>1
    <3> QED
      BY <3>1
  <2>2. ASSUME NEW U \in SUBSET (1..(k + 1)), k + 1 \notin U
        PROVE  U \in P
    BY <2>2
  <2>3. \A U \in SUBSET (1..(k + 1)) : U \in P \cup Q
    BY <2>1, <2>2
  <2>4. \A U \in P \cup Q : U \in SUBSET (1..(k + 1))
    <3>1. \A T \in P : T \in SUBSET (1..(k + 1))
      OBVIOUS
    <3>2. k + 1 \in 1..(k + 1)
      OBVIOUS
    <3> QED
      BY <3>1, <3>2
  <2> HIDE DEF P, Q
  <2> QED
    BY <2>3, <2>4
<1>2. P \cap Q = {}
  OBVIOUS
<1>3. b \in Bijection(P, Q)
  <2>1. b \in [P -> Q]
    OBVIOUS
  <2>2. ASSUME NEW T \in P, NEW U \in P, b[T] = b[U]
        PROVE  T = U
    <3>1. T \cup {k + 1} = U \cup {k + 1}
      BY <2>2
    <3>2. k + 1 \notin T /\ k + 1 \notin U
      OBVIOUS
    <3> QED
      BY <3>1, <3>2
  <2>3. \A U \in Q : \E T \in P : b[T] = U
    OBVIOUS
  <2> HIDE DEF b, P, Q
  <2> QED
    BY <2>1, <2>2, <2>3 DEF Bijection, Injection, Surjection, IsInjective
<1>4. IsFiniteSet(P) /\ Cardinality(P) = 2^k /\ 2^k \in Nat
  BY PowerCounts
<1> DEFINE W == P \cup Q
<1>5. IsFiniteSet(Q) /\ Cardinality(Q) = Cardinality(P)
  <2> HIDE DEF P, Q, b
  <2> QED
    BY <1>3, <1>4, FS_Bijection DEF ExistsBijection
<1>6. Cardinality(P \cup Q) = Cardinality(P) + Cardinality(Q)
  <2> HIDE DEF P, Q, b
  <2>1. Cardinality(P \cap Q) = 0
    BY <1>2, FS_EmptySet
  <2> QED
    BY <1>4, <1>5, <2>1, FS_Union
<1>7. Cardinality(SUBSET (1..(k + 1))) = 2^(k + 1)
  <2>1. PICK l \in Nat : l = k + 1
    OBVIOUS
  <2>2. Cardinality(SUBSET (1..l)) = 2^l
    BY PowerCounts
  <2> QED
    BY <2>1, <2>2
<1> HIDE DEF P, Q, b
<1>8. Cardinality(P \cup Q) = 2^(k + 1)
  BY <1>1, <1>7
<1> QED
  BY <1>4, <1>5, <1>6, <1>8

\* Adding an even multiple of a to m does not change whether m \div a is odd.
LEMMA DivAdd ==
  ASSUME NEW a \in Nat, a > 0, NEW m \in Nat, NEW q \in Nat
  PROVE  /\ (m + a * q) \div a = (m \div a) + q
         /\ m \div a \in Nat
<1> DEFINE d == m \div a
           r == m % a
           e == (m + a * q) \div a
           t == (m + a * q) % a
<1>0. a * q \in Nat
  OBVIOUS
<1>1. m = a * d + r /\ d \in Int /\ r \in 0..(a - 1)
  OBVIOUS
<1>2. m + a * q = a * e + t /\ e \in Int /\ t \in 0..(a - 1)
  BY <1>0
<1> HIDE DEF d, r, e, t
<1>3. a * (e - d - q) = r - t
  BY <1>1, <1>2
<1>4. r - t < a /\ t - r < a
  BY <1>1, <1>2
<1>5. e - d - q = 0
  <2>1. PICK z \in Int : z = e - d - q
    BY <1>1, <1>2
  <2>2. a * z < a /\ a * z > -a
    BY <1>1, <1>2, <1>3, <1>4, <2>1
  <2>3. z < 1
    BY <2>2
  <2>4. z > -1
    BY <2>2
  <2> QED
    BY <2>1, <2>3, <2>4
<1>6. d >= 0
  <2>1. CASE d <= -1
    <3>1. a * d <= -a
      BY <1>1, <2>1
    <3> QED
      BY <1>1, <3>1
  <2> QED
    BY <1>1, <2>1
<1> QED
  BY <1>1, <1>2, <1>5, <1>6 DEF d, e

\* The lower powers of two divide the higher ones an even number of times.
LEMMA PowerDivides ==
  ASSUME NEW j \in Nat, NEW k \in Nat, j < k
  PROVE  \E q \in Nat : 2^k = 2^j * (2 * q)
<1> DEFINE S == {d \in Nat : \E q \in Nat : 2^(j + 1 + d) = 2^j * (2 * q)}
<1>0. 2^j \in Nat
  BY PowerCounts
<1>1. 0 \in S
  <2>1. 2^(j + 1) = 2^j * (2 * 1)
    BY <1>0, PowerStep
  <2>2. j + 1 + 0 = j + 1
    OBVIOUS
  <2> QED
    BY <2>1, <2>2
<1>2. ASSUME NEW d \in Nat, d \in S
      PROVE  d + 1 \in S
  <2>1. PICK q \in Nat : 2^(j + 1 + d) = 2^j * (2 * q)
    BY <1>2
  <2>2. PICK e \in Nat : e = j + 1 + d
    OBVIOUS
  <2>3. 2^(e + 1) = 2 * 2^e
    BY PowerStep
  <2>4. j + 1 + (d + 1) = e + 1
    BY <2>2
  <2>5. 2^(j + 1 + (d + 1)) = 2 * (2^j * (2 * q))
    BY <2>1, <2>2, <2>3, <2>4
  <2>6. 2 * (2^j * (2 * q)) = 2^j * (2 * (2 * q))
    BY <1>0
  <2>7. \E h \in Nat : 2^(j + 1 + (d + 1)) = 2^j * (2 * h)
    <3>1. 2 * q \in Nat /\ 2^(j + 1 + (d + 1)) = 2^j * (2 * (2 * q))
      BY <2>5, <2>6
    <3> QED
      BY <3>1
  <2>8. d + 1 \in Nat
    OBVIOUS
  <2> QED
    BY <2>7, <2>8
<1> HIDE DEF S
<1>3. Nat \subseteq S
  BY <1>1, <1>2, NatSet
<1>4. k - j - 1 \in S
  BY <1>3
<1>5. j + 1 + (k - j - 1) = k
  OBVIOUS
<1> QED
  BY <1>4, <1>5 DEF S

LEMMA PowerPositive ==
  \A k \in Nat : 2^k \in Nat /\ 2^k > 0
<1> DEFINE S == {k \in Nat : 2^k > 0}
<1>1. 0 \in S
  BY PowerZero
<1>2. ASSUME NEW k \in Nat, k \in S
      PROVE  k + 1 \in S
  BY <1>2, PowerStep, PowerCounts
<1> HIDE DEF S
<1>3. Nat \subseteq S
  BY <1>1, <1>2, NatSet
<1> QED
  BY <1>3, PowerCounts DEF S

\* Bit k-1 of the mask m
Bit(m, k) == (m \div 2^(k - 1)) % 2 = 1

\* Every selection of len neighbours has a mask.
LEMMA MaskOf ==
  ASSUME NEW len \in Nat, NEW K \in SUBSET (1..len)
  PROVE  \E m \in 0..(2^len - 1) : {k \in 1..len : Bit(m, k)} = K
<1> DEFINE Masked(l, J) == \E m \in 0..(2^l - 1) : \A k \in 1..l : Bit(m, k) <=> k \in J
           S == {l \in Nat : \A J \in SUBSET Nat : Masked(l, J)}
<1>1. 0 \in S
  <2>1. 0 \in 0..(2^0 - 1)
    BY PowerZero
  <2>2. 1..0 = {}
    OBVIOUS
  <2> QED
    BY <2>1, <2>2
<1>2. ASSUME NEW l \in Nat, l \in S
      PROVE  l + 1 \in S
  <2> SUFFICES ASSUME NEW J \in SUBSET Nat
               PROVE  Masked(l + 1, J)
    OBVIOUS
  <2>1. PICK m \in 0..(2^l - 1) : \A k \in 1..l : Bit(m, k) <=> k \in J
    BY <1>2
  <2>2. PICK p \in Nat : p = 2^l /\ p > 0
    BY PowerPositive
  <2>3. m \in Nat /\ m < p /\ 2^(l + 1) = 2 * p
    BY <2>1, <2>2, PowerStep
  <2>4. (l + 1) - 1 = l
    OBVIOUS
  <2>5. m \div p = 0
    BY <2>2, <2>3
  <2>6. CASE l + 1 \notin J
    <3>1. ~Bit(m, l + 1)
      BY <2>2, <2>4, <2>5 DEF Bit
    <3>2. m \in 0..(2^(l + 1) - 1)
      BY <2>2, <2>3
    <3>3. \A k \in 1..(l + 1) : Bit(m, k) <=> k \in J
      BY <2>1, <2>6, <3>1
    <3> QED
      BY <3>2, <3>3
  <2>7. CASE l + 1 \in J
    <3> DEFINE w == m + p
    <3>1. Bit(w, l + 1)
      <4>1. (m + p * 1) \div p = (m \div p) + 1
        BY <2>2, <2>3, DivAdd
      <4>2. w \div p = 1
        BY <2>2, <2>3, <2>5, <4>1
      <4> QED
        BY <2>2, <2>4, <4>2 DEF Bit
    <3>2. ASSUME NEW k \in 1..l
          PROVE  Bit(w, k) <=> Bit(m, k)
      <4>1. PICK a \in Nat : a = 2^(k - 1) /\ a > 0
        <5>1. k - 1 \in Nat
          OBVIOUS
        <5> QED
          BY <5>1, PowerPositive
      <4>2. PICK q \in Nat : p = a * (2 * q)
        <5>1. k - 1 \in Nat /\ k - 1 < l
          OBVIOUS
        <5> QED
          BY <2>2, <4>1, <5>1, PowerDivides
      <4>3. 2 * q \in Nat
        OBVIOUS
      <4>4. (m + a * (2 * q)) \div a = (m \div a) + 2 * q /\ m \div a \in Nat
        BY <2>3, <4>1, <4>3, DivAdd
      <4>5. PICK d \in Nat : d = m \div a
        BY <4>4
      <4>6. w \div a = d + 2 * q
        BY <4>2, <4>4, <4>5
      <4>7. (d + 2 * q) % 2 = d % 2
        OBVIOUS
      <4> QED
        BY <4>1, <4>5, <4>6, <4>7 DEF Bit
    <3>3. w \in 0..(2^(l + 1) - 1)
      BY <2>2, <2>3
    <3> HIDE DEF w
    <3>4. \A k \in 1..(l + 1) : Bit(w, k) <=> k \in J
      BY <2>1, <2>7, <3>1, <3>2
    <3> QED
      BY <3>3, <3>4
  <2> QED
    BY <2>6, <2>7
<1>3. len \in S
  <2> HIDE DEF S
  <2> QED
    BY <1>1, <1>2, NatSet
<1>4. K \in SUBSET Nat
  OBVIOUS
<1>5. Masked(len, K)
  BY <1>3, <1>4
<1> QED
  BY <1>5

-----------------------------------------------------------------------------
\* The set of bits of a mask is finite, and a candidate lists no more peers
\* than its slice is long.
LEMMA CandidateSize ==
  ASSUME neighbours \in Seq(Peer), NEW mask \in Nat
  PROVE  /\ IsFiniteSet(Bits(mask))
         /\ Cardinality(Bits(mask)) \in Nat
         /\ Candidate(mask) \subseteq Peer
         /\ IsFiniteSet(Candidate(mask))
         /\ Cardinality(Candidate(mask)) <= CandidateLen(mask)
<1> DEFINE B == Bits(mask)
           T == {neighbours[k] : k \in B}
           g == [k \in B |-> neighbours[k]]
<1>1. B \subseteq 1..Len(neighbours) /\ Len(neighbours) \in Nat
  BY DEF Bits
<1>2. IsFiniteSet(B) /\ Cardinality(B) \in Nat
  <2>1. IsFiniteSet(1..Len(neighbours))
    BY <1>1, FS_Interval
  <2> HIDE DEF B
  <2> QED
    BY <1>1, <2>1, FS_Subset, FS_CardinalityType
<1>3. Candidate(mask) = {Required} \cup T
  BY DEF Candidate
<1>4. T \subseteq Peer /\ Required \in Peer
  BY <1>1, SearchAssumption
<1>5. CandidateLen(mask) = 1 + Cardinality(B)
  BY DEF CandidateLen
<1> HIDE DEF B
<1>6. g \in Surjection(B, T)
  BY DEF Surjection
<1>7. IsFiniteSet(T) /\ Cardinality(T) <= Cardinality(B)
  <2> HIDE DEF T, g
  <2> QED
    BY <1>2, <1>6, FS_Surjection
<1>8. Cardinality(T) \in Nat
  BY <1>7, FS_CardinalityType
<1>9. /\ IsFiniteSet(T \cup {Required})
      /\ Cardinality(T \cup {Required}) <= Cardinality(T) + 1
  <2> HIDE DEF T
  <2>1. /\ IsFiniteSet(T \cup {Required})
        /\ Cardinality(T \cup {Required}) =
             IF Required \in T THEN Cardinality(T) ELSE Cardinality(T) + 1
    BY <1>7, FS_AddElement
  <2> QED
    BY <1>8, <2>1
<1>10. Candidate(mask) = T \cup {Required}
  BY <1>3
<1>11. Candidate(mask) \subseteq Peer
  BY <1>4, <1>10
<1> HIDE DEF T
<1>12. Cardinality(T \cup {Required}) <= 1 + Cardinality(B)
  <2>1. Cardinality(T \cup {Required}) \in Nat
    BY <1>9, FS_CardinalityType
  <2> QED
    BY <1>2, <1>7, <1>8, <1>9, <2>1
<1>13. /\ IsFiniteSet(Candidate(mask))
       /\ Cardinality(Candidate(mask)) <= CandidateLen(mask)
  BY <1>5, <1>9, <1>10, <1>12
<1> QED
  BY <1>2, <1>11, <1>13 DEF B

\* FoundIsClique holds as it stands once the types of the search are known.
FoundInv == TypeOK /\ FoundIsClique

\* Before the slice is made nothing is listed and nothing found.
LEMMA FoundInit == Init => FoundInv
BY DEF Init, SearchedMeshes, FoundInv, TypeOK, FoundIsClique

\* An order of the neighbours is a sequence of them.
LEMMA OrderSeq ==
  ASSUME mesh \in Mesh, NEW f \in Orders(Neighbours(mesh, Required))
  PROVE  f \in Seq(Neighbours(mesh, Required))
<1>1. IsFiniteSet(Neighbours(mesh, Required))
  BY NeighboursType, PeerAssumption, FS_Subset
<1>2. Cardinality(Neighbours(mesh, Required)) \in Nat
  BY <1>1, FS_CardinalityType
<1>3. f \in [1..Cardinality(Neighbours(mesh, Required)) -> Neighbours(mesh, Required)]
  BY DEF Orders
<1> QED
  BY <1>2, <1>3

\* A candidate is returned only when IsClique accepts it, with n - 1 bits set.
LEMMA FoundStep == FoundInv /\ [Next]_vars => FoundInv'
<1> SUFFICES ASSUME FoundInv, [Next]_vars PROVE FoundInv'
  OBVIOUS
<1> USE DEF FoundInv
<1>1. CASE Skip
  BY <1>1 DEF Skip, TypeOK, FoundIsClique
<1>2. CASE NotFound
  BY <1>2 DEF NotFound, TypeOK, FoundIsClique
<1>3. CASE UNCHANGED vars
  BY <1>3 DEF vars, TypeOK, FoundIsClique
<1>5. CASE Make
  <2>1. neighbours' \in Seq(Neighbours(mesh, Required))
    BY <1>5, OrderSeq DEF Make, TypeOK
  <2> QED
    BY <1>5, <2>1 DEF Make, TypeOK, FoundIsClique
<1>6. CASE Panic
  BY <1>6 DEF Panic, TypeOK, FoundIsClique
<1>4. CASE Found
  <2> DEFINE C == Candidate(i)
  <2>1. neighbours \in Seq(Peer) /\ i \in Nat /\ n \in Int /\ mesh \in Mesh
    BY NeighboursType, SearchAssumption DEF TypeOK
  <2>2. /\ C \subseteq Peer /\ IsFiniteSet(C)
        /\ Cardinality(Bits(i)) \in Nat
        /\ Cardinality(C) <= CandidateLen(i)
    BY <2>1, CandidateSize
  <2>3. CandidateLen(i) = n /\ n \in Nat
    BY <1>4, <2>1, <2>2 DEF Found, CandidateLen
  <2>4. Required \in C
    BY DEF Candidate
  <2>5. IsClique(mesh, C, n)
    BY <1>4, <2>3 DEF Found
  <2>6. Cardinality(C) = n /\ Complete(mesh, C)
    <3> HIDE DEF C
    <3> QED
      BY <2>2, <2>3, <2>4, <2>5, IsCliqueSound
  <2>7. clique' = C /\ mesh' = mesh /\ n' = n
    BY <1>4 DEF Found
  <2> HIDE DEF C
  <2>8. FoundIsClique'
    BY <2>4, <2>6, <2>7 DEF FoundIsClique
  <2>9. TypeOK'
    BY <1>4, <2>2, <2>7 DEF Found, TypeOK
  <2> QED
    BY <2>8, <2>9
<1> QED
  BY <1>1, <1>2, <1>3, <1>4, <1>5, <1>6 DEF Next

\* The state of the search keeps its types: the neighbours listed are peers
\* of the mesh, and what is returned is a set of peers.
THEOREM SearchType == Spec => []TypeOK
<1>1. FoundInv => TypeOK
  BY DEF FoundInv
<1> QED
  BY <1>1, FoundInit, FoundStep, PTL DEF Spec

\* Whatever FindClique returns is a complete subgraph of n distinct peers
\* around the facilitator.
THEOREM SearchSound == Spec => []FoundIsClique
<1>1. FoundInv => FoundIsClique
  BY DEF FoundInv
<1> QED
  BY <1>1, FoundInit, FoundStep, PTL DEF Spec

-----------------------------------------------------------------------------
\* Whoever is connected to all the others is counted by IsClique: the converse
\* of IsCliqueSound.
LEMMA IsCliqueComplete ==
  ASSUME NEW m, NEW S, IsFiniteSet(S), Complete(m, S)
  PROVE  IsClique(m, S, Cardinality(S))
<1> SUFFICES ASSUME NEW src \in S
             PROVE  Cardinality({dst \in Neighbours(m, src) : src # dst /\ dst \in S})
                      = Cardinality(S) - 1
  BY DEF IsClique
<1>1. {dst \in Neighbours(m, src) : src # dst /\ dst \in S} = S \ {src}
  BY DEF Complete
<1> QED
  BY <1>1, FS_RemoveElement

\* Each set of neighbours is the candidate of a mask that the loop tries, if
\* the mask of all the neighbours fits into a word.
LEMMA CandidateOf ==
  ASSUME neighbours \in Orders(Neighbours(mesh, Required)), mesh \in Mesh,
         Cardinality(Neighbours(mesh, Required)) < WordSize,
         NEW S \in SUBSET Neighbours(mesh, Required)
  PROVE  \E m \in Nat : /\ m < Limit
                        /\ Candidate(m) = {Required} \cup S
                        /\ CandidateLen(m) = Cardinality({Required} \cup S)
<1> DEFINE Nb == Neighbours(mesh, Required)
           T == S \ {Required}
           K == {k \in 1..Len(neighbours) : neighbours[k] \in T}
           g == [k \in K |-> neighbours[k]]
<1>1. IsFiniteSet(Nb) /\ Cardinality(Nb) \in Nat
  <2>1. Nb \subseteq Peer
    BY NeighboursType
  <2> HIDE DEF Nb
  <2> QED
    BY <2>1, PeerAssumption, FS_Subset, FS_CardinalityType
<1>2. /\ neighbours \in [1..Cardinality(Nb) -> Nb]
      /\ \A a, b \in DOMAIN neighbours : neighbours[a] = neighbours[b] => a = b
  BY DEF Orders
<1>3. Len(neighbours) = Cardinality(Nb) /\ Len(neighbours) \in Nat
  <2> HIDE DEF Nb
  <2> QED
    BY <1>1, <1>2
<1>4. \A s \in Nb : \E k \in 1..Len(neighbours) : neighbours[k] = s
  <2>1. neighbours \in Injection(1..Cardinality(Nb), Nb)
    BY <1>2 DEF Injection, IsInjective
  <2>2. Cardinality(1..Cardinality(Nb)) = Cardinality(Nb)
    <3> HIDE DEF Nb
    <3> QED
      BY <1>1, FS_Interval
  <2>3. neighbours \in Surjection(1..Cardinality(Nb), Nb)
    <3> HIDE DEF Nb
    <3> QED
      BY <1>1, <2>1, <2>2, FS_Injection
  <2> QED
    BY <1>3, <2>3 DEF Surjection
<1>5. PICK m \in 0..(2^Len(neighbours) - 1) : {k \in 1..Len(neighbours) : Bit(m, k)} = K
  BY <1>3, MaskOf
<1>6. Bits(m) = K
  BY <1>5 DEF Bits, Bit
<1>7. m \in Nat /\ m < Limit
  BY <1>3, <1>5, PowerPositive DEF Limit
<1>8. {neighbours[k] : k \in K} = T
  BY <1>4
<1>9. Candidate(m) = {Required} \cup S
  BY <1>6, <1>8 DEF Candidate
<1>10. IsFiniteSet(T) /\ Cardinality(T) = Cardinality(K)
  <2>1. g \in Bijection(K, T)
    <3>1. g \in [K -> T]
      OBVIOUS
    <3>2. \A a, b \in K : g[a] = g[b] => a = b
      BY <1>2, <1>3
    <3>3. \A s \in T : \E k \in K : g[k] = s
      BY <1>8
    <3> HIDE DEF g, K, T
    <3> QED
      BY <3>1, <3>2, <3>3 DEF Bijection, Injection, Surjection, IsInjective
  <2>2. IsFiniteSet(K)
    <3>1. K \in SUBSET (1..Len(neighbours)) /\ IsFiniteSet(1..Len(neighbours))
      BY <1>3, FS_Interval
    <3> HIDE DEF K
    <3> QED
      BY <3>1, FS_Subset
  <2> HIDE DEF g, K, T
  <2> QED
    BY <2>1, <2>2, FS_Bijection DEF ExistsBijection
<1>11. Cardinality({Required} \cup S) = 1 + Cardinality(K)
  <2>1. {Required} \cup S = T \cup {Required} /\ Required \notin T
    OBVIOUS
  <2>2. Cardinality(T) \in Nat
    <3> HIDE DEF T
    <3> QED
      BY <1>10, FS_CardinalityType
  <2> HIDE DEF K, T
  <2>3. Cardinality(T \cup {Required}) = Cardinality(T) + 1
    BY <1>10, <2>1, FS_AddElement
  <2>4. Cardinality({Required} \cup S) = Cardinality(T \cup {Required})
    BY <2>1, Zenon
  <2> QED
    BY <1>10, <2>2, <2>3, <2>4
<1>12. CandidateLen(m) = Cardinality({Required} \cup S)
  BY <1>6, <1>11 DEF CandidateLen
<1> QED
  BY <1>7, <1>9, <1>12

\* A mask that was tried and did not end the search
Failed(m) == \/ Cardinality(Bits(m)) # n - 1
             \/ ~IsClique(mesh, Candidate(m), CandidateLen(m))

\* The search has tried every mask below the current one, all of them when it
\* gives up; what it has found is allowed.
SearchInv ==
  /\ mesh \in Mesh /\ i \in Nat /\ n \in Int
  /\ pc = "make" => i = 0
  /\ pc \in {"search", "returned"} =>
       Allocatable(n) /\ neighbours \in Orders(Neighbours(mesh, Required))
  /\ pc = "panicked" => ~Allocatable(n)
  /\ pc # "returned" => clique = {}
  /\ clique = {} => \A m \in Nat : m < i => Failed(m)
  /\ pc = "returned" /\ clique = {} => i >= Limit
  /\ clique # {} => clique \in FindCliqueResults(mesh, n, Required)

LEMMA SearchInit == Init => SearchInv
BY SearchAssumption DEF Init, SearchInv, SearchedMeshes

LEMMA SearchStep == FoundInv /\ SearchInv /\ [Next]_vars => SearchInv'
<1> SUFFICES ASSUME FoundInv, SearchInv, [Next]_vars PROVE SearchInv'
  OBVIOUS
<1>1. CASE Skip
  <2>1. Failed(i)
    BY <1>1 DEF Skip, Failed
  <2>2. \A m : Failed(m)' <=> Failed(m)
    BY <1>1 DEF Skip, Failed, Bits, Candidate, CandidateLen
  <2>3. i' = i + 1 /\ UNCHANGED <<mesh, n, neighbours, pc, clique>> /\ pc = "search"
    BY <1>1 DEF Skip
  <2>4. \A m \in Nat : m < i + 1 => m < i \/ m = i
    BY DEF SearchInv
  <2> QED
    BY <2>1, <2>2, <2>3, <2>4 DEF SearchInv
<1>2. CASE Found
  <2> DEFINE C == Candidate(i)
             S == {neighbours[k] : k \in Bits(i)}
  <2>1. /\ pc = "search" /\ i < Limit /\ clique' = C /\ pc' = "returned"
        /\ UNCHANGED <<mesh, n, neighbours, i>>
    BY <1>2 DEF Found
  <2>2. Required \in C
    BY DEF Candidate
  <2>3. (FoundIsClique)'
    BY FoundStep DEF FoundInv
  <2>4. Cardinality(C) = n
    BY <2>1, <2>2, <2>3 DEF FoundIsClique
  <2>5. neighbours \in Seq(Neighbours(mesh, Required))
    BY DEF FoundInv, TypeOK
  <2>6. CandidateLen(i) = n
    <3>1. neighbours \in Seq(Peer) /\ i \in Nat
      BY <2>5, NeighboursType DEF SearchInv
    <3>2. Cardinality(Bits(i)) \in Nat
      BY <3>1, CandidateSize
    <3> QED
      BY <1>2, <3>2 DEF Found, CandidateLen, SearchInv
  <2>7. IsClique(mesh, C, n)
    BY <1>2, <2>6 DEF Found
  <2>8. C = {Required} \cup S /\ S \in SUBSET Neighbours(mesh, Required)
    <3>1. \A k \in Bits(i) : k \in 1..Len(neighbours)
      BY DEF Bits
    <3>2. \A k \in Bits(i) : neighbours[k] \in Neighbours(mesh, Required)
      BY <2>5, <3>1
    <3> QED
      BY <3>2 DEF Candidate
  <2>9. ~(Cardinality(Neighbours(mesh, Required)) >= WordSize)
    <3>1. Len(neighbours) < WordSize
      BY <2>1 DEF Limit, SearchInv
    <3>2. IsFiniteSet(Neighbours(mesh, Required))
      BY NeighboursType, PeerAssumption, FS_Subset DEF SearchInv
    <3>3. PICK c \in Nat : c = Cardinality(Neighbours(mesh, Required))
      BY <3>2, FS_CardinalityType
    <3>4. neighbours \in [1..c -> Neighbours(mesh, Required)]
      BY <2>1, <3>3 DEF SearchInv, Orders
    <3>5. Len(neighbours) = c
      BY <3>4
    <3> QED
      BY <3>1, <3>3, <3>5, WordAssumption
  <2>10. C \in FindCliqueResults(mesh, n, Required)
    <3> HIDE DEF C, S
    <3> QED
      BY <2>4, <2>7, <2>8, <2>9 DEF FindCliqueResults
  <2> HIDE DEF C, S
  <2> QED
    BY <2>1, <2>2, <2>10 DEF SearchInv
<1>5. CASE Make
  BY <1>5 DEF Make, SearchInv
<1>6. CASE Panic
  <2>1. i = 0 /\ i' = i /\ clique = {} /\ clique' = clique
    BY <1>6 DEF Panic, SearchInv
  <2> QED
    BY <1>6, <2>1 DEF Panic, SearchInv
<1>3. CASE NotFound
  <2>1. \A m : Failed(m)' <=> Failed(m)
    BY <1>3 DEF NotFound, Failed, Bits, Candidate, CandidateLen
  <2>2. Limit' = Limit
    BY <1>3 DEF NotFound, Limit
  <2> QED
    BY <1>3, <2>1, <2>2 DEF NotFound, SearchInv
<1>4. CASE UNCHANGED vars
  <2>1. \A m : Failed(m)' <=> Failed(m)
    BY <1>4 DEF vars, Failed, Bits, Candidate, CandidateLen
  <2>2. Limit' = Limit
    BY <1>4 DEF vars, Limit
  <2> QED
    BY <1>4, <2>1, <2>2 DEF vars, SearchInv
<1> QED
  BY <1>1, <1>2, <1>3, <1>4, <1>5, <1>6 DEF Next

\* The loop leaves out no set of neighbours.
LEMMA SearchExact == FoundInv /\ SearchInv => ResultAsAbstracted
<1> SUFFICES ASSUME SearchInv, pc = "returned", clique = {},
                    NEW C \in FindCliqueResults(mesh, n, Required)
             PROVE  FALSE
  BY DEF SearchInv, ResultAsAbstracted
<1>1. PICK S \in SUBSET Neighbours(mesh, Required) : C = {Required} \cup S
  BY DEF FindCliqueResults
<1>2. /\ Cardinality(C) = n /\ IsClique(mesh, C, n)
      /\ ~(Cardinality(Neighbours(mesh, Required)) >= WordSize)
  BY DEF FindCliqueResults
<1>3. Cardinality(Neighbours(mesh, Required)) < WordSize
  <2>1. IsFiniteSet(Neighbours(mesh, Required))
    BY NeighboursType, PeerAssumption, FS_Subset DEF SearchInv
  <2>2. Cardinality(Neighbours(mesh, Required)) \in Nat
    BY <2>1, FS_CardinalityType
  <2> QED
    BY <1>2, <2>2, WordAssumption
<1>4. PICK m \in Nat : /\ m < Limit
                       /\ Candidate(m) = C
                       /\ CandidateLen(m) = n
  BY <1>1, <1>2, <1>3, CandidateOf DEF SearchInv
<1>5. Limit \in Nat
  BY <1>3, PowerPositive DEF Limit, SearchInv, Orders
<1>6. Failed(m)
  BY <1>4, <1>5 DEF SearchInv
<1>7. Cardinality(Bits(m)) = n - 1
  <2>1. neighbours \in Seq(Peer)
    <3>1. IsFiniteSet(Neighbours(mesh, Required))
      BY NeighboursType, PeerAssumption, FS_Subset DEF SearchInv
    <3>2. PICK c \in Nat : c = Cardinality(Neighbours(mesh, Required))
      BY <3>1, FS_CardinalityType
    <3>3. neighbours \in [1..c -> Peer]
      BY <3>2, NeighboursType DEF SearchInv, Orders
    <3> QED
      BY <3>3
  <2>2. Cardinality(Bits(m)) \in Nat
    BY <2>1, CandidateSize
  <2> QED
    BY <1>4, <2>2 DEF CandidateLen
<1> QED
  BY <1>2, <1>4, <1>6, <1>7 DEF Failed

\* What the facilitator's model takes FindClique for is what the function does:
\* it panics if no slice has room for that number of peers, and returns else,
\* namely one of the cliques that the mesh allows, and nil if there are none or
\* if the mask of all the neighbours does not fit into a word.
THEOREM SearchAsAbstracted == Spec => []ResultAsAbstracted
<1> QED
  BY FoundInit, FoundStep, SearchInit, SearchStep, SearchExact, PTL DEF Spec

\* FindClique returns nil only if no n peers around the facilitator are all
\* connected, or if the mask of its neighbours does not fit into a word.
THEOREM SearchComplete == Spec => []NilMeansNone
<1>1. ASSUME FoundInv, SearchInv
      PROVE  NilMeansNone
  <2> SUFFICES ASSUME pc = "returned", clique = {},
                      Cardinality(Neighbours(mesh, Required)) < WordSize,
                      NEW S \in SUBSET Peer, Required \in S,
                      Cardinality(S) = n, Complete(mesh, S)
               PROVE  FALSE
    BY DEF NilMeansNone
  <2>1. FindCliqueResults(mesh, n, Required) = {}
    BY <1>1, SearchExact DEF ResultAsAbstracted
  <2>2. IsFiniteSet(S)
    BY PeerAssumption, FS_Subset
  <2>3. IsClique(mesh, S, n)
    BY <2>2, IsCliqueComplete
  <2>4. S \ {Required} \in SUBSET Neighbours(mesh, Required)
    BY DEF Complete
  <2>5. S = {Required} \cup (S \ {Required})
    OBVIOUS
  <2>6. ~(Cardinality(Neighbours(mesh, Required)) >= WordSize)
    <3>1. IsFiniteSet(Neighbours(mesh, Required))
      BY <1>1, NeighboursType, PeerAssumption, FS_Subset DEF SearchInv
    <3> QED
      BY <1>1, <3>1, FS_CardinalityType, WordAssumption
  <2>7. S \in FindCliqueResults(mesh, n, Required)
    BY <2>3, <2>4, <2>5, <2>6 DEF FindCliqueResults
  <2> QED
    BY <2>1, <2>7
<1>2. FoundInv /\ SearchInv => NilMeansNone
  BY <1>1
<1> QED
  BY <1>2, FoundInit, FoundStep, SearchInit, SearchStep, PTL DEF Spec
=============================================================================
