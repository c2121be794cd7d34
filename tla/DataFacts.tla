------------------------------ MODULE DataFacts ------------------------------
(***************************************************************************)
(* Facts about numbers, finite sets and sums that the proofs of several    *)
(* components need.  The library's induction theorems take an operator,    *)
(* which no installed prover can instantiate; its theorem WFMin, on        *)
(* minimal elements of a well-founded relation, takes sets and yields the  *)
(* same results.                                                           *)
(***************************************************************************)
EXTENDS Integers, Functions, FiniteSets, FiniteSetTheorems, WellFoundedInduction,
        TLAPS

\* A set of natural numbers that is not empty has a least element.
LEMMA LeastNatural ==
  ASSUME NEW T, T \subseteq Nat, T # {}
  PROVE  \E m \in T : \A k \in T : m <= k
<1> DEFINE R == {p \in Nat \X Nat : p[1] < p[2]}
<1>1. IsWellFoundedOn(R, Nat)
  <2>1. R = OpToRel(<, Nat)
    BY DEF OpToRel
  <2> QED
    BY <2>1, NatLessThanWellFounded
<1>2. \A k, m \in Nat : <<k, m>> \in R <=> k < m
  OBVIOUS
<1> HIDE DEF R
<1>3. PICK m \in T : \A k \in T : ~(<<k, m>> \in R)
  BY <1>1, WFMin
<1>4. \A k \in T : ~(k < m)
  BY <1>2, <1>3
<1> QED
  BY <1>4

\* A set of subsets of a finite set D that holds the empty one, and with each
\* set the set with one more element, holds every subset of D.
LEMMA SubsetInduction ==
  ASSUME NEW D, IsFiniteSet(D), NEW P,
         {} \in P,
         \A S \in SUBSET D : (\A x \in S : S \ {x} \in P) /\ S # {} => S \in P
  PROVE  \A S \in SUBSET D : S \in P
<1> DEFINE R == StrictSubsetOrdering(D)
           T == {S \in SUBSET D : S \notin P}
<1>1. IsWellFoundedOn(R, SUBSET D)
  BY FS_StrictSubsetOrderingWellFounded, FS_FiniteSubsetsOfFinite
<1>2. \A S, U \in SUBSET D : U \subseteq S /\ U # S => <<U, S>> \in R
  BY DEF StrictSubsetOrdering
<1> HIDE DEF R
<1>3. SUFFICES ASSUME T # {} PROVE FALSE
  OBVIOUS
<1>4. PICK S \in T : \A U \in T : ~(<<U, S>> \in R)
  BY <1>1, <1>3, WFMin
<1>5. ASSUME NEW x \in S PROVE S \ {x} \in P
  <2>1. S \ {x} \in SUBSET D /\ S \ {x} \subseteq S /\ S \ {x} # S
    OBVIOUS
  <2>2. <<S \ {x}, S>> \in R
    BY <1>2, <2>1
  <2> QED
    BY <1>4, <2>1, <2>2
<1> QED
  BY <1>4, <1>5

-----------------------------------------------------------------------------
\* The sum of whole numbers as a count of units, those above zero less those
\* below: it shows that the recursion of SumFunctionOnSet has a solution, the
\* same whichever element it takes first.
Units(f, S) == {u \in S \X Nat : 1 <= u[2] /\ u[2] <= f[u[1]]}
Owed(f, S) == {u \in S \X Nat : 1 <= u[2] /\ u[2] <= -f[u[1]]}
Balance(f, S) == Cardinality(Units(f, S)) - Cardinality(Owed(f, S))

\* As many numbers from one to n as n says.
LEMMA CountTo ==
  ASSUME NEW n \in Int
  PROVE  /\ IsFiniteSet(1..n)
         /\ Cardinality(1..n) = IF n > 0 THEN n ELSE 0
<1>1. \A i \in Int : /\ IsFiniteSet(i..n)
                      /\ Cardinality(i..n) = IF i > n THEN 0 ELSE n - i + 1
  BY FS_Interval
<1>2. 1 \in Int
  OBVIOUS
<1>3. IsFiniteSet(1..n) /\ Cardinality(1..n) = IF 1 > n THEN 0 ELSE n - 1 + 1
  BY <1>1, <1>2, Zenon
<1> QED
  BY <1>3

\* One element's units on top of the others'.
LEMMA UnitsOfOne ==
  ASSUME NEW S, NEW x \in S, NEW f, NEW n \in Int, n = f[x],
         IsFiniteSet(Units(f, S \ {x}))
  PROVE  /\ IsFiniteSet(Units(f, S))
         /\ Cardinality(Units(f, S \ {x})) \in Nat
         /\ Cardinality(Units(f, S)) =
              Cardinality(Units(f, S \ {x})) + (IF n > 0 THEN n ELSE 0)
<1> DEFINE rest == Units(f, S \ {x})
           mine == {x} \X (1..n)
<1>1. /\ IsFiniteSet(mine)
      /\ Cardinality(mine) = IF n > 0 THEN n ELSE 0
  <2>1. IsFiniteSet(1..n) /\ Cardinality(1..n) = IF n > 0 THEN n ELSE 0
    BY CountTo
  <2>2. IsFiniteSet({x}) /\ Cardinality({x}) = 1
    BY FS_Singleton
  <2>3. IsFiniteSet(mine) /\ Cardinality(mine) = Cardinality({x}) * Cardinality(1..n)
    BY <2>1, <2>2, FS_Product
  <2> QED
    BY <2>1, <2>2, <2>3
<1>2. Units(f, S) = rest \cup mine
  BY DEF Units
<1>3. rest \cap mine = {}
  BY DEF Units
<1> HIDE DEF rest, mine
<1>4. /\ IsFiniteSet(rest \cup mine)
      /\ Cardinality(rest \cup mine) =
           Cardinality(rest) + Cardinality(mine) - Cardinality(rest \cap mine)
  BY <1>1, FS_Union DEF rest
<1>5. Cardinality(rest \cap mine) = 0 /\ Cardinality(rest) \in Nat
  BY <1>3, FS_EmptySet, FS_CardinalityType DEF rest
<1> QED
  BY <1>1, <1>2, <1>4, <1>5 DEF rest

\* The units of a finite set are finitely many.
LEMMA UnitsAreFinite ==
  ASSUME NEW D, IsFiniteSet(D), NEW f, \A x \in D : f[x] \in Int
  PROVE  \A S \in SUBSET D : IsFiniteSet(Units(f, S))
<1> DEFINE P == {S \in SUBSET D : IsFiniteSet(Units(f, S))}
<1>1. {} \in P
  <2>1. Units(f, {}) = {}
    BY DEF Units
  <2> QED
    BY <2>1, FS_EmptySet
<1>2. ASSUME NEW S \in SUBSET D, \A x \in S : S \ {x} \in P, S # {}
      PROVE  S \in P
  <2>1. PICK x \in S : TRUE
    BY <1>2
  <2>2. IsFiniteSet(Units(f, S \ {x}))
    BY <1>2
  <2>3. IsFiniteSet(Units(f, S))
    BY <2>2, UnitsOfOne
  <2> QED
    BY <2>3
<1> HIDE DEF P
<1>3. \A S \in SUBSET D : S \in P
  BY <1>1, <1>2, SubsetInduction
<1> QED
  BY <1>3 DEF P

Opposite(f, S) == [x \in S |-> -f[x]]

(* What is owed is what is held of the opposite amounts. *)
LEMMA OwedIsUnits ==
  ASSUME NEW D, NEW f, NEW S \in SUBSET D
  PROVE  Owed(f, S) = Units(Opposite(f, D), S)
BY DEF Owed, Units, Opposite

(* A balance over a set is one member's amount and the balance of the rest. *)
LEMMA BalanceOfOne ==
  ASSUME NEW D, IsFiniteSet(D), NEW f, \A x \in D : f[x] \in Int,
         NEW S \in SUBSET D
  PROVE  /\ Balance(f, S) \in Int
         /\ \A x \in S : Balance(f, S) = f[x] + Balance(f, S \ {x})
<1> DEFINE g == Opposite(f, D)
<1>1. \A x \in D : g[x] = -f[x] /\ g[x] \in Int
  BY DEF Opposite
<1>2. /\ \A U \in SUBSET D : IsFiniteSet(Units(f, U)) /\ IsFiniteSet(Units(g, U))
      /\ \A U \in SUBSET D : Owed(f, U) = Units(g, U)
  <2> HIDE DEF g
  <2>1. \A U \in SUBSET D : IsFiniteSet(Units(f, U)) /\ IsFiniteSet(Units(g, U))
    BY <1>1, UnitsAreFinite
  <2> QED
    BY <2>1, OwedIsUnits DEF g
<1> HIDE DEF g
<1>3. Balance(f, S) \in Int
  BY <1>2, FS_CardinalityType DEF Balance
<1>4. ASSUME NEW x \in S
      PROVE  Balance(f, S) = f[x] + Balance(f, S \ {x})
  <2>1. /\ Cardinality(Units(f, S \ {x})) \in Nat
        /\ Cardinality(Units(f, S)) =
             Cardinality(Units(f, S \ {x})) + (IF f[x] > 0 THEN f[x] ELSE 0)
    BY <1>2, UnitsOfOne
  <2>2. /\ Cardinality(Units(g, S \ {x})) \in Nat
        /\ Cardinality(Units(g, S)) =
             Cardinality(Units(g, S \ {x})) + (IF g[x] > 0 THEN g[x] ELSE 0)
    BY <1>1, <1>2, UnitsOfOne
  <2>3. f[x] \in Int /\ g[x] = -f[x]
    BY <1>1
  <2>4. Owed(f, S) = Units(g, S) /\ Owed(f, S \ {x}) = Units(g, S \ {x})
    BY <1>2
  <2> QED
    BY <2>1, <2>2, <2>3, <2>4 DEF Balance
<1> QED
  BY <1>3, <1>4

\* The recursion behind SumFunctionOnSet has one solution, the balance.
Recursion(f, D) ==
  CHOOSE g : g = [s \in SUBSET D |->
    IF s = {} THEN 0
    ELSE f[CHOOSE x \in s : TRUE] + g[s \ {CHOOSE x \in s : TRUE}]]

(* The community modules' sum over a finite set is a balance. *)
LEMMA SumIsBalance ==
  ASSUME NEW D, IsFiniteSet(D), NEW f, \A x \in D : f[x] \in Int
  PROVE  SumFunctionOnSet(f, D) = Balance(f, D)
<1> DEFINE F(g) == [s \in SUBSET D |->
             IF s = {} THEN 0
             ELSE f[CHOOSE x \in s : TRUE] + g[s \ {CHOOSE x \in s : TRUE}]]
           b == [s \in SUBSET D |-> Balance(f, s)]
           g == Recursion(f, D)
<1>1. SumFunctionOnSet(f, D) = g[D]
  BY DEF SumFunctionOnSet, FoldFunctionOnSet, MapThenFoldSet, Recursion
<1>2. Balance(f, {}) = 0
  <2>1. Units(f, {}) = {} /\ Owed(f, {}) = {}
    BY DEF Units, Owed
  <2> QED
    BY <2>1, FS_EmptySet DEF Balance
<1>3. \A s \in SUBSET D : s # {} =>
        Balance(f, s) = f[CHOOSE x \in s : TRUE]
                          + Balance(f, s \ {CHOOSE x \in s : TRUE})
  <2> SUFFICES ASSUME NEW s \in SUBSET D, s # {}
               PROVE  Balance(f, s) = f[CHOOSE x \in s : TRUE]
                                        + Balance(f, s \ {CHOOSE x \in s : TRUE})
    OBVIOUS
  <2>1. (CHOOSE x \in s : TRUE) \in s
    OBVIOUS
  <2>2. \A x \in s : Balance(f, s) = f[x] + Balance(f, s \ {x})
    BY BalanceOfOne
  <2> QED
    BY <2>1, <2>2
<1>4. b = F(b)
  BY <1>2, <1>3
<1>5. g = F(g)
  <2>1. \E h : h = F(h)
    BY <1>4
  <2> QED
    BY <2>1 DEF Recursion
<1> DEFINE P == {s \in SUBSET D : g[s] = b[s]}
<1>6. {} \in P
  <2>1. g[{}] = 0
    BY <1>5
  <2> QED
    BY <1>2, <2>1
<1>7. ASSUME NEW s \in SUBSET D, \A x \in s : s \ {x} \in P, s # {}
      PROVE  s \in P
  <2> DEFINE x == CHOOSE x \in s : TRUE
  <2>1. x \in s
    BY <1>7
  <2>2. g[s] = f[x] + g[s \ {x}]
    BY <1>5, <1>7
  <2>3. b[s] = f[x] + b[s \ {x}]
    BY <1>3, <1>7
  <2>4. g[s \ {x}] = b[s \ {x}]
    BY <1>7, <2>1
  <2> QED
    BY <2>2, <2>3, <2>4
<1> HIDE DEF P
<1>8. \A s \in SUBSET D : s \in P
  BY <1>6, <1>7, SubsetInduction
<1> QED
  BY <1>1, <1>8 DEF P

-----------------------------------------------------------------------------
\* What the proofs use of sums.
LEMMA SumOfNone ==
  ASSUME NEW f
  PROVE  SumFunctionOnSet(f, {}) = 0
<1>1. IsFiniteSet({})
  BY FS_EmptySet
<1>2. SumFunctionOnSet(f, {}) = Balance(f, {})
  BY <1>1, SumIsBalance
<1>3. Units(f, {}) = {} /\ Owed(f, {}) = {}
  BY DEF Units, Owed
<1> QED
  BY <1>2, <1>3, FS_EmptySet DEF Balance

\* A sum is a whole number, and any element can be taken out of it first.
LEMMA SumOfOneMore ==
  ASSUME NEW D, IsFiniteSet(D), NEW f, \A x \in D : f[x] \in Int
  PROVE  /\ SumFunctionOnSet(f, D) \in Int
         /\ \A x \in D : /\ SumFunctionOnSet(f, D \ {x}) \in Int
                         /\ SumFunctionOnSet(f, D)
                              = f[x] + SumFunctionOnSet(f, D \ {x})
<1>1. \A S \in SUBSET D : SumFunctionOnSet(f, S) = Balance(f, S)
  <2> SUFFICES ASSUME NEW S \in SUBSET D
               PROVE  SumFunctionOnSet(f, S) = Balance(f, S)
    OBVIOUS
  <2>1. IsFiniteSet(S)
    BY FS_Subset
  <2> QED
    BY <2>1, SumIsBalance
<1>2. \A S \in SUBSET D :
        /\ Balance(f, S) \in Int
        /\ \A x \in S : Balance(f, S) = f[x] + Balance(f, S \ {x})
  BY BalanceOfOne
<1>3. D \in SUBSET D /\ \A x \in D : D \ {x} \in SUBSET D
  OBVIOUS
<1> QED
  BY <1>1, <1>2, <1>3

\* Only the values at the elements matter.
LEMMA SumOfEquals ==
  ASSUME NEW D, IsFiniteSet(D), NEW f, NEW g,
         \A x \in D : f[x] \in Int /\ g[x] = f[x]
  PROVE  SumFunctionOnSet(g, D) = SumFunctionOnSet(f, D)
<1>1. Units(g, D) = Units(f, D) /\ Owed(g, D) = Owed(f, D)
  BY DEF Units, Owed
<1>2. /\ SumFunctionOnSet(g, D) = Balance(g, D)
      /\ SumFunctionOnSet(f, D) = Balance(f, D)
  BY SumIsBalance
<1> QED
  BY <1>1, <1>2 DEF Balance

(* A sum of zeros is zero. *)
LEMMA SumOfZeros ==
  ASSUME NEW D, IsFiniteSet(D), NEW f, \A x \in D : f[x] = 0
  PROVE  SumFunctionOnSet(f, D) = 0
<1>1. Units(f, D) = {} /\ Owed(f, D) = {}
  BY DEF Units, Owed
<1>2. SumFunctionOnSet(f, D) = Balance(f, D)
  BY SumIsBalance
<1> QED
  BY <1>1, <1>2, FS_EmptySet DEF Balance

\* One value changes: so does the sum, by as much.
LEMMA SumChanges ==
  ASSUME NEW D, IsFiniteSet(D), NEW f, NEW g, NEW k \in D,
         \A x \in D : f[x] \in Int /\ g[x] \in Int,
         \A x \in D \ {k} : g[x] = f[x]
  PROVE  SumFunctionOnSet(g, D) = SumFunctionOnSet(f, D) + g[k] - f[k]
<1>1. IsFiniteSet(D \ {k})
  BY FS_Subset
<1>2. SumFunctionOnSet(g, D \ {k}) = SumFunctionOnSet(f, D \ {k})
  BY <1>1, SumOfEquals
<1>3. /\ SumFunctionOnSet(f, D \ {k}) \in Int
      /\ SumFunctionOnSet(f, D) = f[k] + SumFunctionOnSet(f, D \ {k})
  BY SumOfOneMore
<1>4. SumFunctionOnSet(g, D) = g[k] + SumFunctionOnSet(g, D \ {k})
  BY SumOfOneMore
<1>5. f[k] \in Int /\ g[k] \in Int
  OBVIOUS
<1> QED
  BY <1>2, <1>3, <1>4, <1>5

\* Smaller values, smaller sum.
LEMMA SumGrows ==
  ASSUME NEW D, IsFiniteSet(D), NEW f, NEW g,
         \A x \in D : f[x] \in Int /\ g[x] \in Int /\ f[x] <= g[x]
  PROVE  SumFunctionOnSet(f, D) <= SumFunctionOnSet(g, D)
<1> DEFINE P == {S \in SUBSET D : SumFunctionOnSet(f, S) <= SumFunctionOnSet(g, S)}
<1>1. {} \in P
  BY SumOfNone
<1>2. ASSUME NEW S \in SUBSET D, \A x \in S : S \ {x} \in P, S # {}
      PROVE  S \in P
  <2>1. PICK x \in S : TRUE
    BY <1>2
  <2>2. IsFiniteSet(S)
    BY FS_Subset
  <2>3. /\ SumFunctionOnSet(f, S \ {x}) \in Int
        /\ SumFunctionOnSet(f, S) = f[x] + SumFunctionOnSet(f, S \ {x})
    BY <2>2, SumOfOneMore
  <2>4. /\ SumFunctionOnSet(g, S \ {x}) \in Int
        /\ SumFunctionOnSet(g, S) = g[x] + SumFunctionOnSet(g, S \ {x})
    BY <2>2, SumOfOneMore
  <2>5. SumFunctionOnSet(f, S \ {x}) <= SumFunctionOnSet(g, S \ {x})
    BY <1>2
  <2>6. f[x] \in Int /\ g[x] \in Int /\ f[x] <= g[x]
    OBVIOUS
  <2> QED
    BY <2>3, <2>4, <2>5, <2>6
<1> HIDE DEF P
<1>3. \A S \in SUBSET D : S \in P
  BY <1>1, <1>2, SubsetInduction
<1> QED
  BY <1>3 DEF P
=============================================================================
