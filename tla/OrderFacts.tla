------------------------------ MODULE OrderFacts ------------------------------
(***************************************************************************)
(* Facts about numbers and finite orders that the proofs of several modules*)
(* need.                                                                   *)
(***************************************************************************)
EXTENDS Integers, FiniteSetTheorems, TLAPS

(***************************************************************************)
(* Numbers                                                                 *)
(***************************************************************************)

\* A set of numbers that is not empty has a least one.
LEMMA LeastNumber ==
    ASSUME NEW S, S \subseteq Nat, S # {}
    PROVE  \E m \in S : \A k \in S : m <= k
<1> SUFFICES ASSUME \A m \in S : \E k \in S : k < m PROVE FALSE
  OBVIOUS
<1> PICK top \in S : TRUE
  OBVIOUS
<1> DEFINE above == {k \in 0 .. top : \E s \in S : s <= k}
           pred == [k \in above |-> k - 1]
<1>1. IsFiniteSet(above)
  <2>1. IsFiniteSet(0 .. top)
    BY FS_Interval
  <2>2. above \subseteq 0 .. top
    OBVIOUS
  <2> QED BY <2>1, <2>2, FS_Subset
<1>2. \A k \in above : k - 1 \in above
  <2> TAKE k \in above
  <2> PICK s \in S : s <= k
    OBVIOUS
  <2> PICK r \in S : r < s
    OBVIOUS
  <2> r <= k - 1 /\ k - 1 \in 0 .. top
    OBVIOUS
  <2> QED OBVIOUS
<1>3. pred \in Injection(above, above)
  BY <1>2 DEF Injection, IsInjective
<1>4. pred \in Surjection(above, above)
  BY <1>1, <1>3, FS_Injection
<1>5. top \in above
  OBVIOUS
<1>6. PICK k \in above : pred[k] = top
  BY <1>4, <1>5 DEF Surjection
<1> QED BY <1>6

\* Quotient and remainder are unique.
LEMMA Remainder ==
    ASSUME NEW d \in Nat \ {0}, NEW q \in Int, NEW s \in Int,
           NEW a \in 0 .. d - 1, NEW b \in 0 .. d - 1, (d * q) + a = (d * s) + b
    PROVE  a = b
<1>1. d * (q - s) = b - a
  OBVIOUS
<1>2. q - s < 1
  <2> SUFFICES ASSUME q - s >= 1 PROVE FALSE
    OBVIOUS
  <2>1. d * (q - s) >= d
    OBVIOUS
  <2> QED BY <1>1, <2>1
<1>3. q - s > -1
  <2> SUFFICES ASSUME q - s <= -1 PROVE FALSE
    OBVIOUS
  <2>1. d * (q - s) <= -d
    OBVIOUS
  <2> QED BY <1>1, <2>1
<1>4. d * (q - s) = 0
  BY <1>2, <1>3
<1> QED BY <1>1, <1>4

\* The remainders of successive tickets are successive, and start again at 0.
LEMMA NextRemainder ==
    ASSUME NEW d \in Nat \ {0}, NEW n \in Nat
    PROVE  /\ n % d \in 0 .. d - 1
           /\ (n + 1) % d = IF n % d = d - 1 THEN 0 ELSE (n % d) + 1
<1>1. /\ n % d \in 0 .. d - 1 /\ n \div d \in Int
      /\ n = (d * (n \div d)) + (n % d)
  OBVIOUS
<1>2. /\ (n + 1) % d \in 0 .. d - 1 /\ (n + 1) \div d \in Int
      /\ n + 1 = (d * ((n + 1) \div d)) + ((n + 1) % d)
  OBVIOUS
<1> DEFINE a == n % d
           b == (n + 1) % d
           q == n \div d
           s == (n + 1) \div d
<1>3. a \in 0 .. d - 1 /\ b \in 0 .. d - 1 /\ q \in Int /\ s \in Int
  BY <1>1, <1>2
<1>4. (d * s) + b = ((d * q) + a) + 1
  BY <1>1, <1>2
<1>5. a = n % d /\ b = (n + 1) % d
  OBVIOUS
<1> HIDE DEF a, b, q, s
<1>6. CASE a = d - 1
  <2>1. (d * s) + b = (d * (q + 1)) + 0
    BY <1>3, <1>4, <1>6
  <2>2. b = 0
    BY <1>3, <2>1, Remainder
  <2> QED BY <1>1, <1>5, <1>6, <2>2
<1>7. CASE a # d - 1
  <2>1. a + 1 \in 0 .. d - 1 /\ (d * s) + b = (d * q) + (a + 1)
    BY <1>3, <1>4, <1>7
  <2>2. b = a + 1
    BY <1>3, <2>1, Remainder
  <2> QED BY <1>1, <1>5, <1>7, <2>2
<1> QED BY <1>6, <1>7

(***************************************************************************)
(* Ranking a finite set                                                    *)
(***************************************************************************)

StrictTotalOrder(R, S) ==
    /\ \A p, q \in S : <<p, q>> \in R => <<q, p>> \notin R
    /\ \A p, q, r \in S : <<p, q>> \in R /\ <<q, r>> \in R => <<p, r>> \in R
    /\ \A p, q \in S : p # q => <<p, q>> \in R \/ <<q, p>> \in R

Before(R, S, p) == {q \in S : <<q, p>> \in R}

\* In a finite strict total order every element has a place of its own, and every
\* place from 1 to the number of elements is taken.
LEMMA Ranking ==
    ASSUME NEW S, IsFiniteSet(S), NEW R, StrictTotalOrder(R, S)
    PROVE  /\ \A p \in S : 1 + Cardinality(Before(R, S, p)) \in 1 .. Cardinality(S)
           /\ \A p, q \in S :
                <<p, q>> \in R => Cardinality(Before(R, S, p)) < Cardinality(Before(R, S, q))
           /\ \A k \in 1 .. Cardinality(S) :
                \E p \in S : 1 + Cardinality(Before(R, S, p)) = k
<1> DEFINE f == [p \in S |-> 1 + Cardinality(Before(R, S, p))]
<1>1. Cardinality(S) \in Nat
  BY FS_CardinalityType
<1>2. ASSUME NEW p \in S
      PROVE  IsFiniteSet(Before(R, S, p)) /\ Cardinality(Before(R, S, p)) \in Nat
  <2>1. Before(R, S, p) \in SUBSET S
    BY DEF Before
  <2> QED BY <2>1, FS_Subset, FS_CardinalityType
<1>3. ASSUME NEW p \in S PROVE 1 + Cardinality(Before(R, S, p)) \in 1 .. Cardinality(S)
  <2>1. Before(R, S, p) \in SUBSET (S \ {p})
    BY DEF Before, StrictTotalOrder
  <2>2. IsFiniteSet(S \ {p}) /\ Cardinality(S \ {p}) = Cardinality(S) - 1
    BY FS_RemoveElement
  <2>3. Cardinality(Before(R, S, p)) <= Cardinality(S) - 1
    BY <2>1, <2>2, FS_Subset
  <2> QED BY <1>1, <1>2, <2>3
<1>4. ASSUME NEW p \in S, NEW q \in S, <<p, q>> \in R
      PROVE  Cardinality(Before(R, S, p)) < Cardinality(Before(R, S, q))
  <2>1. Before(R, S, p) \in SUBSET Before(R, S, q)
    BY <1>4 DEF Before, StrictTotalOrder
  <2>2. p \in Before(R, S, q) /\ p \notin Before(R, S, p)
    BY <1>4 DEF Before, StrictTotalOrder
  <2>3. Cardinality(Before(R, S, p)) <= Cardinality(Before(R, S, q))
        /\ Cardinality(Before(R, S, p)) # Cardinality(Before(R, S, q))
    BY <1>2, <2>1, <2>2, FS_Subset
  <2> QED BY <1>2, <2>3
<1>5. f \in Injection(S, 1 .. Cardinality(S))
  <2>1. f \in [S -> 1 .. Cardinality(S)]
    BY <1>3
  <2>2. ASSUME NEW p \in S, NEW q \in S, p # q PROVE f[p] # f[q]
    <3>1. <<p, q>> \in R \/ <<q, p>> \in R
      BY <2>2 DEF StrictTotalOrder
    <3> QED BY <1>2, <1>4, <3>1
  <2> QED BY <2>1, <2>2 DEF Injection, IsInjective
<1>6. f \in Surjection(S, 1 .. Cardinality(S))
  <2>1. IsFiniteSet(1 .. Cardinality(S)) /\ Cardinality(1 .. Cardinality(S)) = Cardinality(S)
    BY <1>1, FS_Interval
  <2> QED BY <1>5, <2>1, FS_Injection
<1>7. \A k \in 1 .. Cardinality(S) : \E p \in S : f[p] = k
  BY <1>6 DEF Surjection
<1> QED BY <1>3, <1>4, <1>7

\* Therefore it has a first element.
LEMMA First ==
    ASSUME NEW S, IsFiniteSet(S), NEW R, StrictTotalOrder(R, S), S # {}
    PROVE  \E m \in S : \A q \in S : <<q, m>> \notin R
<1>1. Cardinality(S) \in Nat /\ Cardinality(S) # 0
  BY FS_CardinalityType, FS_EmptySet
<1>2. PICK m \in S : 1 + Cardinality(Before(R, S, m)) = 1
  BY <1>1, Ranking
<1>3. IsFiniteSet(Before(R, S, m))
  <2>1. Before(R, S, m) \in SUBSET S
    BY DEF Before
  <2> QED BY <2>1, FS_Subset
<1>4. Before(R, S, m) = {}
  BY <1>2, <1>3, FS_EmptySet, FS_CardinalityType
<1> QED BY <1>4 DEF Before
=============================================================================
