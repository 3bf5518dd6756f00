-------------------------- MODULE ArithmeticLemmas --------------------------
(***************************************************************************)
(* Sums over finite sets, and quotients and rests.                         *)
(*                                                                         *)
(* The sums are those that the folds of the community modules compute:     *)
(* element by element, each one chosen from those that are left.  The      *)
(* value does not depend on the choice, and a sum grows by the element     *)
(* that joins the set.                                                     *)
(*                                                                         *)
(* These are facts about a recursive function, and each of them needs an   *)
(* induction.  It is done here without an induction theorem, as a descent: *)
(* the sizes of the sets that are exceptions are a set of natural numbers, *)
(* and a set of natural numbers has a least element unless it is empty.    *)
(***************************************************************************)
EXTENDS Integers, FiniteSets, FiniteSetTheorems, WellFoundedInduction, TLAPS

(* Every non-empty set of natural numbers has a least element. *)
LEMMA LeastNat ==
    ASSUME NEW T \in SUBSET Nat, T # {}
    PROVE  \E x \in T : \A y \in T : x <= y
  <1> DEFINE R == {ss \in Nat \X Nat : ss[1] < ss[2]}
  <1>1. R = OpToRel(<, Nat)
    BY DEF OpToRel
  <1>2. IsWellFoundedOn(R, Nat)
    BY <1>1, NatLessThanWellFounded
  <1>3. \A x, y \in Nat : y < x => <<y, x>> \in R
    OBVIOUS
  <1> HIDE DEF R
  <1>4. PICK x \in T : \A y \in T : ~(<<y, x>> \in R)
    BY <1>2, WFMin
  <1>5. ASSUME NEW y \in T PROVE x <= y
    <2>1. x \in Nat /\ y \in Nat /\ ~(y < x)
      BY <1>3, <1>4
    <2> QED BY <2>1
  <1> QED BY <1>5

(* Among the finite sets that are in a collection there is one that no     *)
(* other of them is smaller than.                                          *)
LEMMA SmallestSet ==
    ASSUME NEW C, C # {}, \A s \in C : IsFiniteSet(s)
    PROVE  \E s \in C : \A r \in C : Cardinality(s) <= Cardinality(r)
  <1> DEFINE sizes == {Cardinality(s) : s \in C}
  <1>1. sizes \in SUBSET Nat /\ sizes # {}
    BY FS_CardinalityType
  <1>2. PICK m \in sizes : \A n \in sizes : m <= n
    <2> HIDE DEF sizes
    <2> QED BY <1>1, LeastNat
  <1>3. PICK s \in C : m = Cardinality(s)
    OBVIOUS
  <1> QED BY <1>2, <1>3

(* What taking an element out of a finite set does to its size *)
LEMMA Smaller ==
    ASSUME NEW s, IsFiniteSet(s), NEW x \in s
    PROVE  /\ IsFiniteSet(s \ {x})
           /\ Cardinality(s) \in Nat /\ Cardinality(s \ {x}) \in Nat
           /\ Cardinality(s \ {x}) = Cardinality(s) - 1
  BY FS_RemoveElement, FS_CardinalityType

-----------------------------------------------------------------------------

Pick(s) == CHOOSE x \in s : TRUE

(* w is the sums of f over the subsets of S. *)
IsSum(w, f, S) ==
    w = [s \in SUBSET S |->
           IF s = {} THEN 0 ELSE f[Pick(s)] + w[s \ {Pick(s)}]]

Total(f, S) == (CHOOSE w : IsSum(w, f, S))[S]

(* What is picked from a set that is not empty is in it. *)
LEMMA PickType ==
    ASSUME NEW s, s # {}
    PROVE  Pick(s) \in s
  BY DEF Pick

(* The recursion has a solution.  The sets that are not larger than some n *)
(* have one for each n, or there were a least n for which they have none.  *)
LEMMA SumsExist ==
    ASSUME NEW f, NEW S, IsFiniteSet(S)
    PROVE  \E w : IsSum(w, f, S)
  <1> DEFINE Step(w, s) == IF s = {} THEN 0 ELSE f[Pick(s)] + w[s \ {Pick(s)}]
             UpTo(w, n) == \A s \in SUBSET S : Cardinality(s) <= n => w[s] = Step(w, s)
             None == {n \in Nat : ~(\E w : UpTo(w, n))}
  <1>0. \A s \in SUBSET S : IsFiniteSet(s) /\ Cardinality(s) \in Nat
    BY FS_Subset, FS_CardinalityType
  <1>1. None = {}
    <2> SUFFICES ASSUME None # {} PROVE FALSE
      OBVIOUS
    <2>1. PICK n \in None : \A m \in None : n <= m
      <3>1. None \in SUBSET Nat
        OBVIOUS
      <3> HIDE DEF None
      <3> QED BY <3>1, LeastNat
    <2>2. \E v : \A s \in SUBSET S : Cardinality(s) <= n - 1 => v[s] = Step(v, s)
      <3>1. CASE n = 0
        BY <1>0, <3>1
      <3>2. CASE n # 0
        <4>1. n - 1 \in Nat /\ ~(n <= n - 1)
          BY <3>2
        <4>2. n - 1 \notin None
          BY <2>1, <4>1
        <4> QED BY <4>1, <4>2
      <3> QED BY <3>1, <3>2
    <2>3. PICK v : \A s \in SUBSET S : Cardinality(s) <= n - 1 => v[s] = Step(v, s)
      BY <2>2
    <2> DEFINE w == [s \in SUBSET S |-> Step(v, s)]
    <2>4. ASSUME NEW s \in SUBSET S, Cardinality(s) <= n
          PROVE  w[s] = Step(w, s)
      <3>1. CASE s = {}
        BY <3>1
      <3>2. CASE s # {}
        <4> DEFINE r == s \ {Pick(s)}
        <4>1. r \in SUBSET S /\ Cardinality(r) <= n - 1
          BY <1>0, <2>4, <3>2, PickType, Smaller
        <4>2. v[r] = w[r]
          BY <2>3, <4>1
        <4> QED BY <3>2, <4>2
      <3> QED BY <3>1, <3>2
    <2>5. UpTo(w, n)
      BY <2>4
    <2> QED BY <2>5
  <1>2. PICK w : UpTo(w, Cardinality(S))
    <2>1. Cardinality(S) \in Nat /\ Cardinality(S) \notin None
      BY <1>0, <1>1
    <2> QED BY <2>1
  <1>3. \A s \in SUBSET S : Cardinality(s) <= Cardinality(S)
    BY FS_Subset
  <1> DEFINE v == [s \in SUBSET S |-> w[s]]
  <1>4. \A s \in SUBSET S : v[s] = Step(v, s)
    BY <1>2, <1>3
  <1>5. v = [s \in SUBSET S |-> Step(v, s)]
    <2> DEFINE u == [s \in SUBSET S |-> Step(v, s)]
    <2>1. \A s \in SUBSET S : v[s] = u[s]
      BY <1>4
    <2> QED BY <2>1
  <1> QED BY <1>5 DEF IsSum

(* What the sums of f over the subsets of a finite set are, one by one *)
LEMMA SumStep ==
    ASSUME NEW w, NEW f, NEW S, IsSum(w, f, S)
    PROVE  /\ w[{}] = 0
           /\ \A s \in SUBSET S : s # {} => w[s] = f[Pick(s)] + w[s \ {Pick(s)}]
  BY DEF IsSum

(* Two functions that agree on a finite set have the same sum over it,     *)
(* whatever sets the two recursions began with.                            *)
LEMMA SumsAgree ==
    ASSUME NEW w, NEW f, NEW S, IsFiniteSet(S), IsSum(w, f, S),
           NEW v, NEW g, NEW R, IsSum(v, g, R),
           NEW T, T \subseteq S, T \subseteq R, \A x \in T : f[x] = g[x]
    PROVE  w[T] = v[T]
  <1> DEFINE Bad == {s \in SUBSET T : w[s] # v[s]}
  <1>1. \A s \in SUBSET T : IsFiniteSet(s) /\ s \in SUBSET S /\ s \in SUBSET R
    BY FS_Subset
  <1>2. \A s \in SUBSET S : s # {} => w[s] = f[Pick(s)] + w[s \ {Pick(s)}]
    BY SumStep
  <1>3. \A s \in SUBSET R : s # {} => v[s] = g[Pick(s)] + v[s \ {Pick(s)}]
    BY SumStep
  <1>4. Bad = {}
    <2> SUFFICES ASSUME Bad # {} PROVE FALSE
      OBVIOUS
    <2>1. PICK s \in Bad : \A r \in Bad : Cardinality(s) <= Cardinality(r)
      <3>1. \A s \in Bad : IsFiniteSet(s)
        BY <1>1
      <3> HIDE DEF Bad
      <3> QED BY <3>1, SmallestSet
    <2>2. s # {}
      BY SumStep
    <2> DEFINE r == s \ {Pick(s)}
    <2>3. r \in SUBSET T /\ ~(Cardinality(s) <= Cardinality(r))
      BY <1>1, <2>2, PickType, Smaller
    <2>4. w[r] = v[r]
      BY <2>1, <2>3
    <2>5. f[Pick(s)] = g[Pick(s)]
      BY <2>2, PickType
    <2>6. w[s] = f[Pick(s)] + w[r]
      BY <1>1, <1>2, <2>1, <2>2
    <2>7. v[s] = g[Pick(s)] + v[r]
      BY <1>1, <1>3, <2>1, <2>2
    <2> QED BY <2>1, <2>4, <2>5, <2>6, <2>7
  <1> QED BY <1>4

(* Sums of natural numbers are natural numbers. *)
LEMMA SumsType ==
    ASSUME NEW w, NEW f, NEW S, IsFiniteSet(S), IsSum(w, f, S),
           \A x \in S : f[x] \in Nat
    PROVE  \A s \in SUBSET S : w[s] \in Nat
  <1> DEFINE Bad == {s \in SUBSET S : w[s] \notin Nat}
  <1>1. \A s \in SUBSET S : IsFiniteSet(s)
    BY FS_Subset
  <1>2. Bad = {}
    <2> SUFFICES ASSUME Bad # {} PROVE FALSE
      OBVIOUS
    <2>1. PICK s \in Bad : \A r \in Bad : Cardinality(s) <= Cardinality(r)
      <3>1. \A s \in Bad : IsFiniteSet(s)
        BY <1>1
      <3> HIDE DEF Bad
      <3> QED BY <3>1, SmallestSet
    <2>2. s # {}
      <3>1. w[{}] = 0
        BY SumStep
      <3> QED BY <3>1
    <2> DEFINE r == s \ {Pick(s)}
    <2>3. r \in SUBSET S /\ ~(Cardinality(s) <= Cardinality(r))
      BY <1>1, <2>2, PickType, Smaller
    <2>4. w[r] \in Nat
      BY <2>1, <2>3
    <2>5. f[Pick(s)] \in Nat
      BY <2>2, PickType
    <2>6. w[s] = f[Pick(s)] + w[r]
      BY <2>2, SumStep
    <2> QED BY <2>1, <2>4, <2>5, <2>6
  <1> QED BY <1>2

(* Any element can be taken out first, not only the one that is picked. *)
LEMMA SumsCommute ==
    ASSUME NEW w, NEW f, NEW S, IsFiniteSet(S), IsSum(w, f, S),
           \A x \in S : f[x] \in Nat
    PROVE  \A s \in SUBSET S : \A y \in s : w[s] = f[y] + w[s \ {y}]
  <1> DEFINE Bad == {s \in SUBSET S : \E y \in s : w[s] # f[y] + w[s \ {y}]}
  <1>1. \A s \in SUBSET S : IsFiniteSet(s)
    BY FS_Subset
  <1>2. \A s \in SUBSET S : s # {} => w[s] = f[Pick(s)] + w[s \ {Pick(s)}]
    BY SumStep
  <1>3. Bad = {}
    <2> SUFFICES ASSUME Bad # {} PROVE FALSE
      OBVIOUS
    <2>1. PICK s \in Bad : \A r \in Bad : Cardinality(s) <= Cardinality(r)
      <3>1. \A s \in Bad : IsFiniteSet(s)
        BY <1>1
      <3> HIDE DEF Bad
      <3> QED BY <3>1, SmallestSet
    <2>2. PICK y \in s : w[s] # f[y] + w[s \ {y}]
      BY <2>1
    <2> DEFINE x == Pick(s)
               r == s \ {x}
               q == s \ {y}
               both == r \ {y}
    <2>3. x \in s /\ w[s] = f[x] + w[r]
      <3>1. s # {} /\ s \in SUBSET S
        BY <2>2
      <3>2. x \in s
        BY <3>1, PickType
      <3>3. w[s] = f[x] + w[r]
        BY <3>1, <1>2
      <3> QED BY <3>2, <3>3
    <2>4. x # y
      BY <2>2, <2>3
    <2>5. /\ r \in SUBSET S /\ ~(Cardinality(s) <= Cardinality(r))
          /\ q \in SUBSET S /\ ~(Cardinality(s) <= Cardinality(q))
      <3> HIDE DEF x
      <3>1. \A z \in s : /\ Cardinality(s) \in Nat /\ Cardinality(s \ {z}) \in Nat
                         /\ Cardinality(s \ {z}) = Cardinality(s) - 1
        BY <1>1, Smaller
      <3>2. ASSUME NEW z \in s
            PROVE  ~(Cardinality(s) <= Cardinality(s \ {z}))
        BY <3>1
      <3> QED BY <2>2, <2>3, <3>2
    <2>6. w[r] = f[y] + w[both]
      BY <2>1, <2>2, <2>4, <2>5
    <2>7. w[q] = f[x] + w[q \ {x}]
      BY <2>1, <2>3, <2>4, <2>5
    <2>8. q \ {x} = both
      OBVIOUS
    <2>9. f[x] \in Nat /\ f[y] \in Nat /\ w[both] \in Nat
      BY <2>2, <2>3, SumsType
    <2>10. w[s] = f[x] + (f[y] + w[both]) /\ w[q] = f[x] + w[both]
      BY <2>3, <2>6, <2>7, <2>8
    <2> HIDE DEF x, q, both
    <2>11. w[s] = f[y] + w[q]
      BY <2>9, <2>10
    <2> QED BY <2>2, <2>11 DEF q
  <1> QED BY <1>3

-----------------------------------------------------------------------------
(* The same of Total, the sum over the whole of a finite set *)

(* It is the last of the sums over the subsets. *)
LEMMA TotalIsSum ==
    ASSUME NEW f, NEW S, IsFiniteSet(S)
    PROVE  \E w : IsSum(w, f, S) /\ Total(f, S) = w[S]
  BY SumsExist DEF Total

(* It is a natural number if the terms are. *)
LEMMA TotalType ==
    ASSUME NEW f, NEW S, IsFiniteSet(S), \A x \in S : f[x] \in Nat
    PROVE  Total(f, S) \in Nat
  <1>1. PICK w : IsSum(w, f, S) /\ Total(f, S) = w[S]
    BY TotalIsSum
  <1> QED BY <1>1, SumsType

(* Over nothing it is 0. *)
LEMMA TotalEmpty ==
    ASSUME NEW f
    PROVE  Total(f, {}) = 0
  <1>1. PICK w : IsSum(w, f, {}) /\ Total(f, {}) = w[{}]
    BY TotalIsSum, FS_EmptySet
  <1> QED BY <1>1, SumStep

(* It depends on the values of the function on the set only. *)
LEMMA TotalSame ==
    ASSUME NEW f, NEW g, NEW S, IsFiniteSet(S), \A x \in S : f[x] = g[x]
    PROVE  Total(f, S) = Total(g, S)
  <1>1. PICK w : IsSum(w, f, S) /\ Total(f, S) = w[S]
    BY TotalIsSum
  <1>2. PICK v : IsSum(v, g, S) /\ Total(g, S) = v[S]
    BY TotalIsSum
  <1> QED BY <1>1, <1>2, SumsAgree

(* Any element can be split off. *)
LEMMA TotalRemove ==
    ASSUME NEW f, NEW S, IsFiniteSet(S), \A x \in S : f[x] \in Nat, NEW y \in S
    PROVE  Total(f, S) = f[y] + Total(f, S \ {y})
  <1>1. PICK w : IsSum(w, f, S) /\ Total(f, S) = w[S]
    BY TotalIsSum
  <1>2. IsFiniteSet(S \ {y})
    BY FS_Subset
  <1>3. PICK v : IsSum(v, f, S \ {y}) /\ Total(f, S \ {y}) = v[S \ {y}]
    BY <1>2, TotalIsSum
  <1>4. w[S \ {y}] = v[S \ {y}]
    BY <1>1, <1>3, SumsAgree
  <1> QED BY <1>1, <1>3, <1>4, SumsCommute

(* A sum grows by what one of its terms grows by. *)
LEMMA TotalUpdate ==
    ASSUME NEW f, NEW g, NEW S, IsFiniteSet(S), NEW y \in S,
           \A x \in S : f[x] \in Nat /\ g[x] \in Nat,
           \A x \in S \ {y} : g[x] = f[x],
           NEW d \in Int, g[y] = f[y] + d
    PROVE  Total(g, S) = Total(f, S) + d
  <1>1. IsFiniteSet(S \ {y})
    BY FS_Subset
  <1>2. Total(f, S \ {y}) = Total(g, S \ {y})
    BY <1>1, TotalSame
  <1>3. Total(f, S \ {y}) \in Nat
    BY <1>1, TotalType
  <1> QED BY <1>2, <1>3, TotalRemove

(* A sum of zeros is 0. *)
LEMMA TotalZero ==
    ASSUME NEW f, NEW S, IsFiniteSet(S), \A x \in S : f[x] = 0
    PROVE  Total(f, S) = 0
  <1>1. PICK w : IsSum(w, f, S) /\ Total(f, S) = w[S]
    BY TotalIsSum
  <1> DEFINE Bad == {s \in SUBSET S : w[s] # 0}
  <1>2. \A s \in SUBSET S : IsFiniteSet(s)
    BY FS_Subset
  <1>3. Bad = {}
    <2> SUFFICES ASSUME Bad # {} PROVE FALSE
      OBVIOUS
    <2>1. PICK s \in Bad : \A r \in Bad : Cardinality(s) <= Cardinality(r)
      <3>1. \A s \in Bad : IsFiniteSet(s)
        BY <1>2
      <3> HIDE DEF Bad
      <3> QED BY <3>1, SmallestSet
    <2>2. s # {}
      BY <1>1, SumStep
    <2> DEFINE r == s \ {Pick(s)}
    <2>3. r \in SUBSET S /\ ~(Cardinality(s) <= Cardinality(r))
      <3>1. Pick(s) \in s /\ IsFiniteSet(s)
        BY <1>2, <2>2, PickType
      <3>2. /\ Cardinality(s) \in Nat /\ Cardinality(r) \in Nat
            /\ Cardinality(r) = Cardinality(s) - 1
        BY <3>1, Smaller
      <3> QED BY <3>2
    <2>4. w[r] = 0 /\ f[Pick(s)] = 0
      BY <2>1, <2>2, <2>3, PickType
    <2>5. w[s] = f[Pick(s)] + w[r]
      BY <1>1, <2>2, SumStep
    <2> QED BY <2>1, <2>4, <2>5
  <1> QED BY <1>1, <1>3

-----------------------------------------------------------------------------
(* Quotients and rests *)

(* A number lies between its whole multiples and one more. *)
LEMMA QuotientBounds ==
    ASSUME NEW x \in Int, NEW g \in Nat \ {0}
    PROVE  /\ x \div g \in Int
           /\ (x \div g) * g <= x
           /\ x < (x \div g) * g + g
           /\ x >= 0 => x \div g \in Nat
  OBVIOUS

(* Quotient and rest make up the number. *)
LEMMA QuotientAndRest ==
    ASSUME NEW x \in Int, NEW g \in Nat \ {0}
    PROVE  /\ x \div g \in Int /\ x % g \in 0..(g - 1)
           /\ x = (x \div g) * g + (x % g)
  <1>1. x \div g \in Int /\ x % g \in 0..(g - 1)
    OBVIOUS
  <1>2. x = g * (x \div g) + (x % g)
    OBVIOUS
  <1> DEFINE q == x \div g
  <1>3. g * q = q * g
    <2> HIDE DEF q
    <2>1. q \in Int
      BY <1>1 DEF q
    <2> QED BY <2>1
  <1> QED BY <1>1, <1>2, <1>3

(* Products of a granule are ordered as their factors. *)
LEMMA MultiplesOrdered ==
    ASSUME NEW a \in Int, NEW b \in Int, NEW g \in Nat \ {0}
    PROVE  /\ a * g \in Int /\ b * g \in Int
           /\ a <= b => a * g <= b * g
           /\ a < b => a * g + g <= b * g
           /\ a * g < b * g => a < b
           /\ (a + 1) * g = a * g + g
  <1>1. ASSUME NEW c \in Int, NEW d \in Int, c <= d
        PROVE  c * g <= d * g
    <2>1. /\ d * g = c * g + (d - c) * g
          /\ (d - c) * g >= 0
      BY <1>1
    <2> QED BY <2>1
  <1>2. (a + 1) * g = a * g + g /\ a * g \in Int /\ b * g \in Int
    OBVIOUS
  <1>3. a < b => a * g + g <= b * g
    BY <1>1, <1>2
  <1>4. b <= a => b * g <= a * g
    BY <1>1
  <1> QED BY <1>1, <1>2, <1>3, <1>4

(* The quotient is the only number of granules that fits. *)
LEMMA QuotientUnique ==
    ASSUME NEW x \in Int, NEW g \in Nat \ {0}, NEW q \in Int,
           q * g <= x, x < q * g + g
    PROVE  x \div g = q
  <1> DEFINE p == x \div g
  <1>1. p \in Int /\ p * g <= x /\ x < p * g + g
    BY QuotientBounds
  <1> HIDE DEF p
  <1>2. p * g < q * g + g /\ q * g < p * g + g /\ q * g \in Int /\ p * g \in Int
    BY <1>1
  <1>3. p * g < (q + 1) * g /\ q * g < (p + 1) * g
    BY <1>1, <1>2, MultiplesOrdered
  <1>4. p < q + 1 /\ q < p + 1
    BY <1>1, <1>3, MultiplesOrdered
  <1> QED BY <1>1, <1>4 DEF p

(* Dividing by a granule keeps the order. *)
LEMMA QuotientsOrdered ==
    ASSUME NEW x \in Int, NEW y \in Int, x <= y, NEW g \in Nat \ {0}
    PROVE  x \div g <= y \div g
  <1> DEFINE p == x \div g
             q == y \div g
  <1>1. p \in Int /\ q \in Int /\ p * g <= x /\ y < q * g + g
    BY QuotientBounds
  <1> HIDE DEF p, q
  <1>2. p * g < (q + 1) * g
    <2>1. p * g \in Int /\ (q + 1) * g = q * g + g /\ q * g \in Int
      BY <1>1, MultiplesOrdered
    <2> QED BY <1>1, <2>1
  <1>3. p < q + 1
    BY <1>1, <1>2, MultiplesOrdered
  <1> QED BY <1>1, <1>3 DEF p, q

=============================================================================
