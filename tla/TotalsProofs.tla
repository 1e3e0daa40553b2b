---------------------------- MODULE TotalsProofs ----------------------------
(***************************************************************************)
(* The arithmetic of amounts.  Laws of the division of naturals, which     *)
(* truncates as Solidity's unsigned division does, and laws of Total: how  *)
(* the sum over a finite set changes when an element enters or leaves the  *)
(* set, and when amounts outside the set change.                           *)
(***************************************************************************)
EXTENDS Totals, FiniteSetTheorems, TLAPS

---------------------------------------------------------------------------
(* Division. *)

\* What division of naturals returns.
LEMMA DivBounds ==
    ASSUME NEW a \in Nat, NEW b \in Nat \ {0}
    PROVE  /\ a \div b \in Nat
           /\ (a \div b) * b <= a
           /\ a < (a \div b) * b + b
BY SMT

LEMMA DivAtLeast ==
    ASSUME NEW a \in Nat, NEW b \in Nat \ {0}, NEW k \in Nat, k * b <= a
    PROVE  a \div b >= k
BY SMT

LEMMA DivMonotone ==
    ASSUME NEW a \in Nat, NEW b \in Nat \ {0}, NEW c \in Nat, a <= c
    PROVE  a \div b <= c \div b
BY SMT

\* Two shares of an amount that are rounded down never exceed it together.
LEMMA SharesFit ==
    ASSUME NEW amount \in Nat, NEW whole \in Nat \ {0},
           NEW a \in Nat, NEW b \in Nat, a + b <= whole
    PROVE  /\ (amount * a) \div whole \in Nat
           /\ (amount * b) \div whole \in Nat
           /\ (amount * a) \div whole + (amount * b) \div whole <= amount
<1> DEFINE x == (amount * a) \div whole
           y == (amount * b) \div whole
<1>1. amount * a \in Nat /\ amount * b \in Nat
  BY SMT
<1>2. /\ x \in Nat /\ x * whole <= amount * a
      /\ y \in Nat /\ y * whole <= amount * b
  BY <1>1, DivBounds
<1> HIDE DEF x, y
<1>3. (x + y) * whole <= amount * (a + b)
  BY <1>2, SMT
<1>4. amount * (a + b) <= amount * whole
  BY SMT
<1>5. (x + y) * whole <= amount * whole
  BY <1>2, <1>3, <1>4, SMT
<1>6. x + y <= amount
  BY <1>2, <1>5, SMT
<1> QED
  BY <1>2, <1>6 DEF x, y

---------------------------------------------------------------------------
(* Sums. *)

\* The coins of one element are as many as its amount.
LEMMA CoinsOfElement ==
    ASSUME NEW amount, NEW x, amount[x] \in Nat
    PROVE  /\ IsFiniteSet(CoinsOf(amount, x))
           /\ Cardinality(CoinsOf(amount, x)) = amount[x]
<1> DEFINE n == amount[x]
<1>1. IsFiniteSet({x}) /\ Cardinality({x}) = 1
  BY FS_Singleton
<1>2. IsFiniteSet(1..n) /\ Cardinality(1..n) = n
  <2>1. /\ IsFiniteSet(1..n)
        /\ Cardinality(1..n) = IF 1 > n THEN 0 ELSE n - 1 + 1
    BY FS_Interval, SMTT(40)
  <2> QED
    BY <2>1
<1> HIDE DEF n
<1>3. /\ IsFiniteSet({x} \X (1..n))
      /\ Cardinality({x} \X (1..n)) = 1 * n
  <2> DEFINE A == {x}
             B == 1..n
  <2>1. IsFiniteSet(A) /\ Cardinality(A) = 1 /\ IsFiniteSet(B) /\ Cardinality(B) = n
    BY <1>1, <1>2
  <2> HIDE DEF A, B
  <2>2. IsFiniteSet(A \X B) /\ Cardinality(A \X B) = 1 * n
    BY <2>1, FS_Product, Zenon
  <2> QED
    BY <2>2 DEF A, B
<1>4. n \in Nat
  BY DEF n
<1>5. 1 * n = n
  BY <1>4
<1> QED
  BY <1>3, <1>5 DEF CoinsOf, n

\* A sum over a finite set is defined, and a natural number.
LEMMA TotalType ==
    ASSUME NEW amount, NEW S, IsFiniteSet(S), \A x \in S : amount[x] \in Nat
    PROVE  IsFiniteSet(Coins(amount, S)) /\ Total(amount, S) \in Nat
<1> DEFINE f == [x \in S |-> CoinsOf(amount, x)]
           T == {CoinsOf(amount, x) : x \in S}
<1>1. f \in Surjection(S, T)
  BY DEF Surjection
<1>2. IsFiniteSet(T)
  BY <1>1, FS_Surjection
<1>3. \A C \in T : IsFiniteSet(C)
  BY CoinsOfElement
<1> HIDE DEF T
<1>4. IsFiniteSet(UNION T)
  BY <1>2, <1>3, FS_UNION
<1> QED
  BY <1>4, FS_CardinalityType DEF Coins, Total, T

\* Nothing sums to nothing.
LEMMA TotalEmpty ==
    ASSUME NEW amount
    PROVE  Total(amount, {}) = 0
<1>1. Coins(amount, {}) = {}
  BY DEF Coins
<1> QED
  BY <1>1, FS_EmptySet DEF Total

\* An element that enters the set adds its amount.
LEMMA TotalAdd ==
    ASSUME NEW amount, NEW S, IsFiniteSet(S), \A x \in S : amount[x] \in Nat,
           NEW y, y \notin S, amount[y] \in Nat
    PROVE  Total(amount, S \cup {y}) = Total(amount, S) + amount[y]
<1> DEFINE C == Coins(amount, S)
           D == CoinsOf(amount, y)
<1>1. IsFiniteSet(C) /\ Cardinality(C) \in Nat
  BY TotalType DEF Total
<1>2. IsFiniteSet(D) /\ Cardinality(D) = amount[y]
  BY CoinsOfElement
<1>3. C \cap D = {}
  BY DEF Coins, CoinsOf
<1>4. Coins(amount, S \cup {y}) = C \cup D
  BY DEF Coins
<1> HIDE DEF C, D
<1>5. Cardinality(C \cup D) = Cardinality(C) + Cardinality(D) - Cardinality(C \cap D)
  BY <1>1, <1>2, FS_Union
<1>6. Cardinality(C \cap D) = 0
  BY <1>3, FS_EmptySet
<1> QED
  <2>1. Total(amount, S) = Cardinality(C) /\ Total(amount, S \cup {y}) = Cardinality(C \cup D)
    BY <1>4 DEF Total, C
  <2> QED
    BY <2>1, <1>1, <1>2, <1>5, <1>6

\* An element that leaves takes its amount away.
LEMMA TotalRemove ==
    ASSUME NEW amount, NEW S, IsFiniteSet(S), \A x \in S : amount[x] \in Nat, NEW y \in S
    PROVE  Total(amount, S) = Total(amount, S \ {y}) + amount[y]
<1>1. IsFiniteSet(S \ {y})
  BY FS_RemoveElement
<1>2. Total(amount, (S \ {y}) \cup {y}) = Total(amount, S \ {y}) + amount[y]
  BY <1>1, TotalAdd
<1>3. (S \ {y}) \cup {y} = S
  OBVIOUS
<1> QED
  BY <1>2, <1>3

\* A sum looks at nothing but the amounts of its elements.
LEMMA TotalSame ==
    ASSUME NEW a, NEW b, NEW S, \A x \in S : a[x] = b[x]
    PROVE  Total(a, S) = Total(b, S)
<1>1. Coins(a, S) = Coins(b, S)
  BY DEF Coins, CoinsOf
<1> QED
  BY <1>1 DEF Total

\* A part of a set sums to at most as much as the set.
LEMMA TotalSubset ==
    ASSUME NEW amount, NEW S, NEW T, S \subseteq T, IsFiniteSet(T), \A x \in T : amount[x] \in Nat
    PROVE  Total(amount, S) <= Total(amount, T) /\ Total(amount, S) \in Nat /\ Total(amount, T) \in Nat
<1>1. IsFiniteSet(S)
  BY FS_Subset
<1>2. /\ IsFiniteSet(Coins(amount, T)) /\ Total(amount, T) \in Nat /\ Total(amount, S) \in Nat
  BY <1>1, TotalType
<1>3. Coins(amount, S) \subseteq Coins(amount, T)
  BY DEF Coins
<1> QED
  BY <1>2, <1>3, FS_Subset DEF Total

\* A sum is at least each amount in it.
LEMMA TotalAtLeast ==
    ASSUME NEW amount, NEW S, IsFiniteSet(S), \A x \in S : amount[x] \in Nat, NEW y \in S
    PROVE  amount[y] <= Total(amount, S)
<1>1. IsFiniteSet(S \ {y})
  BY FS_RemoveElement
<1>2. Total(amount, S \ {y}) \in Nat
  BY <1>1, TotalType
<1> QED
  BY <1>2, TotalRemove

\* The two ways the sums of the protocol change: a new element enters, or an
\* element leaves, and the amounts of the others stay.
LEMMA TotalGrows ==
    ASSUME NEW a, NEW b, NEW S, IsFiniteSet(S), NEW y, y \notin S, b[y] \in Nat,
           \A x \in S : a[x] \in Nat /\ b[x] = a[x]
    PROVE  Total(b, S \cup {y}) = Total(a, S) + b[y]
<1>1. Total(b, S \cup {y}) = Total(b, S) + b[y]
  BY TotalAdd
<1>2. Total(b, S) = Total(a, S)
  BY TotalSame
<1> QED
  BY <1>1, <1>2

LEMMA TotalShrinks ==
    ASSUME NEW a, NEW b, NEW S, IsFiniteSet(S), NEW y \in S,
           \A x \in S : a[x] \in Nat /\ b[x] = a[x]
    PROVE  Total(b, S \ {y}) = Total(a, S) - a[y]
<1>1. Total(a, S) = Total(a, S \ {y}) + a[y]
  BY TotalRemove
<1>2. Total(b, S \ {y}) = Total(a, S \ {y})
  BY TotalSame
<1>3. Total(a, S \ {y}) \in Nat
  BY FS_RemoveElement, TotalType
<1> QED
  BY <1>1, <1>2, <1>3

\* One element's amount changes.
LEMMA TotalMoves ==
    ASSUME NEW a, NEW b, NEW S, IsFiniteSet(S), NEW y \in S,
           \A x \in S : a[x] \in Nat /\ b[x] \in Nat,
           \A x \in S \ {y} : b[x] = a[x]
    PROVE  /\ Total(b, S) = Total(a, S) + (b[y] - a[y])
           /\ Total(a, S) \in Nat /\ Total(b, S) \in Nat
<1>1. Total(a, S) = Total(a, S \ {y}) + a[y] /\ Total(b, S) = Total(b, S \ {y}) + b[y]
  BY TotalRemove
<1>2. Total(b, S \ {y}) = Total(a, S \ {y})
  BY TotalSame
<1>3. /\ Total(a, S \ {y}) \in Nat /\ Total(a, S) \in Nat /\ Total(b, S) \in Nat
  BY FS_RemoveElement, TotalType
<1> QED
  BY <1>1, <1>2, <1>3

=============================================================================
