------------------------------ MODULE DataProofs ------------------------------
(***************************************************************************)
(* What the sum of a function does when one value of it changes, when two  *)
(* functions are added, and how its values bound it.  A sum is defined by  *)
(* recursion over the subsets of the domain, each time without an element  *)
(* that is chosen of it: first such a function is shown to exist, then     *)
(* that the choice does not matter.                                        *)
(*                                                                         *)
(* And what sorting gives: every element once, those before it ahead of    *)
(* it, and no other sequence is so.                                        *)
(***************************************************************************)
EXTENDS Sums, Ordering, Sequences, FiniteSetTheorems, NaturalsInduction, WellFoundedInduction, TLAPS

Chosen(s) == CHOOSE x \in s : TRUE

\* What the sum of a part of the domain is, when it is g of smaller parts.
PartSum(g, f, s) == IF s = {} THEN 0 ELSE f[Chosen(s)] + g[s \ {Chosen(s)}]

IsPartialSum(g, f, S) == g = [s \in SUBSET S |-> PartSum(g, f, s)]

Partial(f) == CHOOSE g : IsPartialSum(g, f, DOMAIN f)

(***************************************************************************)
(* The sum is the value of that function for the whole domain.             *)
(***************************************************************************)
LEMMA SumIsPartial == ASSUME NEW f PROVE SumOf(f) = Partial(f)[DOMAIN f]
BY DEF SumOf, MapThenSumSet, MapThenFoldSet, Partial, IsPartialSum, PartSum, Chosen

(***************************************************************************)
(* Of a set of numbers one is the least, and of a set of parts of a finite *)
(* set one has none of the others within it.                               *)
(***************************************************************************)
LEMMA LeastNumber == ASSUME NEW S \in SUBSET Nat, S # {} PROVE \E n \in S : \A m \in S : n <= m
<1>1. \E n \in S : \A m \in S : <<m, n>> \notin OpToRel(<, Nat)
  BY WFMin, NatLessThanWellFounded
<1>2. PICK n \in S : \A m \in S : <<m, n>> \notin OpToRel(<, Nat)
  BY <1>1
<1>3. \A m \in S : ~(m < n)
  BY <1>2 DEF OpToRel
<1>4. QED BY <1>3

LEMMA LeastPart ==
  ASSUME NEW S, IsFiniteSet(S), NEW B \in SUBSET SUBSET S, B # {}
  PROVE  \E T \in B : \A U \in B : U \subseteq T => U = T
<1> DEFINE N == {Cardinality(T) : T \in B}
<1>1. \A T \in B : IsFiniteSet(T) /\ Cardinality(T) \in Nat
  BY FS_Subset, FS_CardinalityType
<1>2. N \in SUBSET Nat /\ N # {}
  BY <1>1
<1>3. PICK n \in N : \A m \in N : n <= m
  BY <1>2, LeastNumber
<1>4. PICK T \in B : Cardinality(T) = n
  BY <1>3
<1>5. ASSUME NEW U \in B, U \subseteq T, U # T PROVE FALSE
  <2>1. Cardinality(U) < Cardinality(T)
    BY <1>1, <1>5, FS_Subset
  <2>2. n <= Cardinality(U)
    BY <1>3
  <2> QED  BY <1>1, <1>4, <2>1, <2>2
<1> QED  BY <1>4, <1>5

(***************************************************************************)
(* Of finitely many numbers one is the greatest.                           *)
(***************************************************************************)
LEMMA GreatestExists ==
  ASSUME NEW S, IsFiniteSet(S)
  PROVE  S \subseteq Nat /\ S # {} => \E x \in S : \A y \in S : x >= y
<1> DEFINE Numbers(T) == T \subseteq Nat /\ T # {}
           Greatest(T) == \E x \in T : \A y \in T : x >= y
<1>1. PICK B : B = {T \in SUBSET S : Numbers(T) /\ ~Greatest(T)}
  OBVIOUS
<1>2. B = {}
  <2> SUFFICES ASSUME B # {} PROVE FALSE
    OBVIOUS
  <2>1. B \in SUBSET SUBSET S
    BY <1>1
  <2>2. PICK T \in B : \A U \in B : U \subseteq T => U = T
    BY <2>1, LeastPart
  <2>3. T \in SUBSET S /\ Numbers(T) /\ ~Greatest(T)
    BY <1>1, <2>2
  <2>4. PICK x \in T : TRUE
    BY <2>3
  <2>5. T \ {x} # {}
    BY <2>3, <2>4
  <2>6. T \ {x} \notin B
    BY <2>2, <2>3, <2>4
  <2>7. PICK m \in T \ {x} : \A y \in T \ {x} : m >= y
    BY <1>1, <2>3, <2>5, <2>6
  <2>8. x \in Nat /\ m \in Nat /\ \A y \in T : y \in Nat
    BY <2>3, <2>4, <2>7
  <2> QED  BY <2>3, <2>7, <2>8
<1>3. Numbers(S) => Greatest(S)
  BY <1>1, <1>2
<1> QED  BY <1>3

(***************************************************************************)
(* There is such a function.  It is built for the parts of at most n       *)
(* elements, one n after the other.                                        *)
(***************************************************************************)
Upto(S, n) == {s \in SUBSET S : Cardinality(s) <= n}
IsSumUpto(g, f, S, n) == g = [s \in Upto(S, n) |-> PartSum(g, f, s)]

LEMMA Smaller ==
  ASSUME NEW S, IsFiniteSet(S), NEW s \in SUBSET S, s # {}
  PROVE  /\ Chosen(s) \in s /\ Chosen(s) \in S
         /\ s \ {Chosen(s)} \in SUBSET S /\ IsFiniteSet(s)
         /\ Cardinality(s) \in Nat /\ Cardinality(s \ {Chosen(s)}) = Cardinality(s) - 1
<1>1. Chosen(s) \in s
  BY DEF Chosen
<1>2. IsFiniteSet(s) /\ Cardinality(s) \in Nat
  BY FS_Subset, FS_CardinalityType
<1>3. Cardinality(s \ {Chosen(s)}) = Cardinality(s) - 1
  BY <1>1, <1>2, FS_RemoveElement
<1> QED  BY <1>1, <1>2, <1>3

LEMMA PartialExists ==
  ASSUME NEW f, NEW S, IsFiniteSet(S)
  PROVE  \E g : IsPartialSum(g, f, S)
<1> DEFINE B == {n \in Nat : ~ \E g : IsSumUpto(g, f, S, n)}
<1>1. B = {}
  <2> SUFFICES ASSUME B # {} PROVE FALSE
    OBVIOUS
  <2>1. PICK n \in B : \A m \in B : n <= m
    BY LeastNumber
  <2>2. CASE n = 0
    <3>1. \A s \in Upto(S, 0) : s = {}
      BY FS_Subset, FS_EmptySet, FS_CardinalityType DEF Upto
    <3> DEFINE g == [s \in Upto(S, 0) |-> 0]
    <3>2. IsSumUpto(g, f, S, 0)
      BY <3>1 DEF IsSumUpto, PartSum
    <3> QED  BY <2>1, <2>2, <3>2
  <2>3. CASE n # 0
    <3>1. n - 1 \in Nat /\ n - 1 \notin B
      BY <2>1, <2>3
    <3>2. PICK g : IsSumUpto(g, f, S, n - 1)
      BY <3>1
    <3> DEFINE h == [s \in Upto(S, n) |-> PartSum(g, f, s)]
    <3>3. ASSUME NEW s \in Upto(S, n), s # {}
          PROVE  s \ {Chosen(s)} \in Upto(S, n - 1) /\ s \ {Chosen(s)} \in Upto(S, n)
      BY <2>1, <3>3, Smaller DEF Upto
    <3>4. ASSUME NEW s \in Upto(S, n - 1) PROVE g[s] = PartSum(g, f, s)
      BY <3>2 DEF IsSumUpto
    <3>5. ASSUME NEW s \in Upto(S, n), s # {} PROVE h[s \ {Chosen(s)}] = g[s \ {Chosen(s)}]
      BY <3>3, <3>4, <3>5
    <3>6. \A s \in Upto(S, n) : PartSum(g, f, s) = PartSum(h, f, s)
      BY <3>5 DEF PartSum
    <3>7. IsSumUpto(h, f, S, n)
      BY <3>6 DEF IsSumUpto
    <3> QED  BY <2>1, <3>7
  <2> QED  BY <2>2, <2>3
<1>2. Cardinality(S) \in Nat
  BY FS_CardinalityType
<1>3. PICK g : IsSumUpto(g, f, S, Cardinality(S))
  BY <1>1, <1>2
<1>4. Upto(S, Cardinality(S)) = SUBSET S
  BY FS_Subset DEF Upto
<1> QED  BY <1>3, <1>4 DEF IsSumUpto, IsPartialSum

----------------------------------------------------------------------------
(***************************************************************************)
(* What the function is: nothing of nothing, and of a part what is chosen  *)
(* of it and what is left.                                                 *)
(***************************************************************************)
Unfolds(f, S) ==
  /\ SumOf(f) = Partial(f)[S] /\ Partial(f)[{}] = 0
  /\ \A s \in SUBSET S :
       s # {} => Partial(f)[s] = f[Chosen(s)] + Partial(f)[s \ {Chosen(s)}]

LEMMA PartialUnfolds ==
  ASSUME NEW S, IsFiniteSet(S), NEW f \in [S -> Nat]
  PROVE  Unfolds(f, S)
<1>1. DOMAIN f = S
  OBVIOUS
<1>2. IsPartialSum(Partial(f), f, S)
  BY <1>1, PartialExists DEF Partial
<1>3. \A s \in SUBSET S : Partial(f)[s] = PartSum(Partial(f), f, s)
  BY <1>2 DEF IsPartialSum
<1>4. {} \in SUBSET S
  OBVIOUS
<1> QED  BY <1>1, <1>3, <1>4, SumIsPartial DEF PartSum, Unfolds

LEMMA PartialIsNumber ==
  ASSUME NEW S, IsFiniteSet(S), NEW f \in [S -> Nat]
  PROVE  \A s \in SUBSET S : Partial(f)[s] \in Nat
<1> DEFINE B == {s \in SUBSET S : Partial(f)[s] \notin Nat}
<1> SUFFICES ASSUME B # {} PROVE FALSE
  OBVIOUS
<1>0. B \in SUBSET SUBSET S
  OBVIOUS
<1>1. PICK T \in B : \A U \in B : U \subseteq T => U = T
  <2> HIDE DEF B
  <2> QED  BY <1>0, LeastPart
<1>unfolds. Unfolds(f, S)
  BY PartialUnfolds
<1>worst. T \in SUBSET S /\ Partial(f)[T] \notin Nat
  BY <1>1
<1>2. T # {}
  BY <1>unfolds, <1>worst DEF Unfolds
<1>chosen. Chosen(T) \in S /\ Chosen(T) \in T /\ T \ {Chosen(T)} \in SUBSET S
  BY <1>2, <1>worst, Smaller
<1>3. /\ Chosen(T) \in S /\ Chosen(T) \in T /\ T \ {Chosen(T)} \in SUBSET S
      /\ Partial(f)[T] = f[Chosen(T)] + Partial(f)[T \ {Chosen(T)}]
  BY <1>2, <1>chosen, <1>worst, <1>unfolds DEF Unfolds
<1>4. Partial(f)[T \ {Chosen(T)}] \in Nat
  BY <1>1, <1>3
<1>5. f[Chosen(T)] \in Nat
  BY <1>3
<1> QED  BY <1>worst, <1>3, <1>4, <1>5

(***************************************************************************)
(* It does not matter what is chosen.                                      *)
(***************************************************************************)
Splits(f, S) ==
  \A s \in SUBSET S : \A x \in s : Partial(f)[s] = f[x] + Partial(f)[s \ {x}]

LEMMA AnyMayBeChosen ==
  ASSUME NEW S, IsFiniteSet(S), NEW f \in [S -> Nat]
  PROVE  Splits(f, S)
<1> DEFINE B == {s \in SUBSET S : \E x \in s : Partial(f)[s] # f[x] + Partial(f)[s \ {x}]}
<1> SUFFICES ASSUME B # {} PROVE FALSE
  BY DEF Splits
<1>0. B \in SUBSET SUBSET S
  OBVIOUS
<1>1. PICK T \in B : \A U \in B : U \subseteq T => U = T
  <2> HIDE DEF B
  <2> QED  BY <1>0, LeastPart
<1>2. T \in SUBSET S /\ \E x \in T : Partial(f)[T] # f[x] + Partial(f)[T \ {x}]
  BY <1>1
<1>differs. PICK x \in T : Partial(f)[T] # f[x] + Partial(f)[T \ {x}]
  BY <1>2
<1>3. PICK c : c = Chosen(T)
  OBVIOUS
<1>4. /\ c \in S /\ c \in T /\ T \ {c} \in SUBSET S
      /\ Partial(f)[T] = f[c] + Partial(f)[T \ {c}]
  <2>1. T # {}
    BY <1>differs
  <2>2. Chosen(T) \in S /\ Chosen(T) \in T /\ T \ {Chosen(T)} \in SUBSET S
    BY <1>2, <2>1, Smaller
  <2>3. Unfolds(f, S)
    BY PartialUnfolds
  <2> QED  BY <1>2, <1>3, <2>1, <2>2, <2>3 DEF Unfolds
<1>5. x # c
  BY <1>differs, <1>4
<1>6. T \ {c} \notin B /\ T \ {x} \notin B /\ T \ {x} \in SUBSET S
  BY <1>1, <1>4
<1>7. Partial(f)[T \ {c}] = f[x] + Partial(f)[(T \ {c}) \ {x}]
  BY <1>4, <1>5, <1>6
<1>8. Partial(f)[T \ {x}] = f[c] + Partial(f)[(T \ {x}) \ {c}]
  BY <1>4, <1>5, <1>6
<1>9. (T \ {c}) \ {x} = (T \ {x}) \ {c} /\ (T \ {x}) \ {c} \in SUBSET S
  OBVIOUS
<1>10. PICK r : r = Partial(f)[(T \ {x}) \ {c}]
  OBVIOUS
<1>11. r \in Nat /\ f[x] \in Nat /\ f[c] \in Nat
  BY <1>4, <1>9, <1>10, PartialIsNumber
<1>12. Partial(f)[T] = f[c] + (f[x] + r) /\ Partial(f)[T \ {x}] = f[c] + r
  BY <1>4, <1>7, <1>8, <1>9, <1>10
<1> QED  BY <1>differs, <1>11, <1>12

(***************************************************************************)
(* Functions that agree on a part have the same sum of it.                 *)
(***************************************************************************)
LEMMA PartialIsLocal ==
  ASSUME NEW S, IsFiniteSet(S), NEW f \in [S -> Nat], NEW g \in [S -> Nat],
         NEW R \in SUBSET S, \A y \in R : g[y] = f[y]
  PROVE  Partial(g)[R] = Partial(f)[R]
<1> DEFINE B == {s \in SUBSET R : Partial(g)[s] # Partial(f)[s]}
<1>1. B = {}
  <2> SUFFICES ASSUME B # {} PROVE FALSE
    OBVIOUS
  <2>0. B \in SUBSET SUBSET R
    OBVIOUS
  <2>1. IsFiniteSet(R)
    BY FS_Subset
  <2>2. PICK T \in B : \A U \in B : U \subseteq T => U = T
    <3> HIDE DEF B
    <3> QED  BY <2>0, <2>1, LeastPart
  <2>3. T # {} /\ T \in SUBSET S
    <3>1. Partial(f)[{}] = 0 /\ Partial(g)[{}] = 0
      BY PartialUnfolds DEF Unfolds
    <3> QED  BY <2>2, <3>1
  <2>4. PICK c : c = Chosen(T)
    OBVIOUS
  <2>5. /\ c \in T /\ Partial(f)[T] = f[c] + Partial(f)[T \ {c}]
        /\ Partial(g)[T] = g[c] + Partial(g)[T \ {c}]
    <3>1. Chosen(T) \in T /\ Unfolds(f, S) /\ Unfolds(g, S)
      BY <2>3, Smaller, PartialUnfolds
    <3> QED  BY <2>3, <2>4, <3>1 DEF Unfolds
  <2>6. Partial(g)[T \ {c}] = Partial(f)[T \ {c}]
    BY <2>2, <2>5
  <2> QED  BY <2>5, <2>6
<1> QED  BY <1>1

----------------------------------------------------------------------------
(***************************************************************************)
(* The sum of numbers is a number.                                         *)
(***************************************************************************)
THEOREM SumIsNumber ==
  ASSUME NEW S, IsFiniteSet(S), NEW f \in [S -> Nat]
  PROVE  SumOf(f) \in Nat
<1>1. S \in SUBSET S
  OBVIOUS
<1> QED  BY <1>1, PartialUnfolds, PartialIsNumber DEF Unfolds

\* Any summand may be taken out of the sum of all.
LEMMA SumIsOneAndRest ==
  ASSUME NEW S, IsFiniteSet(S), NEW f \in [S -> Nat], NEW x \in S
  PROVE  SumOf(f) = f[x] + Partial(f)[S \ {x}]
<1>1. SumOf(f) = Partial(f)[S]
  <2>1. Unfolds(f, S)
    BY PartialUnfolds
  <2>2. QED BY <2>1 DEF Unfolds
<1>2. Splits(f, S)
  BY AnyMayBeChosen
<1>3. S \in SUBSET S
  OBVIOUS
<1>4. Partial(f)[S] = f[x] + Partial(f)[S \ {x}]
  BY <1>2, <1>3 DEF Splits
<1>5. QED BY <1>1, <1>4

(***************************************************************************)
(* When one value changes, the sum changes by as much: a charge added to a *)
(* row, a transaction's amounts dropped, a hit counted.                    *)
(***************************************************************************)
THEOREM SumChanges ==
  ASSUME NEW S, IsFiniteSet(S), NEW f \in [S -> Nat], NEW g \in [S -> Nat],
         NEW x \in S, \A y \in S \ {x} : g[y] = f[y]
  PROVE  SumOf(g) + f[x] = SumOf(f) + g[x]
<1>1. S \in SUBSET S /\ S \ {x} \in SUBSET S
  OBVIOUS
<1>2. SumOf(f) = f[x] + Partial(f)[S \ {x}] /\ SumOf(g) = g[x] + Partial(g)[S \ {x}]
  BY SumIsOneAndRest
<1>3. Partial(g)[S \ {x}] = Partial(f)[S \ {x}]
  BY <1>1, PartialIsLocal
<1>4. Partial(f)[S \ {x}] \in Nat /\ f[x] \in Nat /\ g[x] \in Nat
  BY <1>1, PartialIsNumber
<1> QED  BY <1>2, <1>3, <1>4

(***************************************************************************)
(* Sums of functions add up.                                               *)
(***************************************************************************)
THEOREM SumsAddUp ==
  ASSUME NEW S, IsFiniteSet(S), NEW f \in [S -> Nat], NEW g \in [S -> Nat],
         NEW h \in [S -> Nat], \A y \in S : h[y] = f[y] + g[y]
  PROVE  SumOf(h) = SumOf(f) + SumOf(g)
<1> DEFINE B == {s \in SUBSET S : Partial(h)[s] # Partial(f)[s] + Partial(g)[s]}
<1>1. B = {}
  <2> SUFFICES ASSUME B # {} PROVE FALSE
    OBVIOUS
  <2>0. B \in SUBSET SUBSET S
    OBVIOUS
  <2>1. PICK T \in B : \A U \in B : U \subseteq T => U = T
    <3> HIDE DEF B
    <3> QED  BY <2>0, LeastPart
  <2>unfolds. Unfolds(f, S) /\ Unfolds(g, S) /\ Unfolds(h, S)
    BY PartialUnfolds
  <2>worst. T \in SUBSET S /\ Partial(h)[T] # Partial(f)[T] + Partial(g)[T]
    BY <2>1
  <2>2. T # {} /\ T \in SUBSET S
    <3>1. Partial(f)[{}] = 0 /\ Partial(g)[{}] = 0 /\ Partial(h)[{}] = 0
      BY <2>unfolds DEF Unfolds
    <3> QED  BY SMTT(30), <2>worst, <3>1
  <2>3. PICK c : c = Chosen(T)
    OBVIOUS
  <2>4. /\ c \in T /\ c \in S /\ T \ {c} \in SUBSET S
        /\ Partial(f)[T] = f[c] + Partial(f)[T \ {c}]
        /\ Partial(g)[T] = g[c] + Partial(g)[T \ {c}]
        /\ Partial(h)[T] = h[c] + Partial(h)[T \ {c}]
    <3>1. Chosen(T) \in T /\ Chosen(T) \in S /\ T \ {Chosen(T)} \in SUBSET S
      BY <2>2, Smaller
    <3> QED  BY <2>2, <2>3, <2>unfolds, <3>1 DEF Unfolds
  <2>5. Partial(h)[T \ {c}] = Partial(f)[T \ {c}] + Partial(g)[T \ {c}]
    BY <2>1, <2>4
  <2>6. PICK a, b : a = Partial(f)[T \ {c}] /\ b = Partial(g)[T \ {c}]
    OBVIOUS
  <2>7. a \in Nat /\ b \in Nat /\ f[c] \in Nat /\ g[c] \in Nat
    BY <2>4, <2>6, PartialIsNumber
  <2>8. Partial(h)[T] = (f[c] + g[c]) + (a + b)
    BY <2>4, <2>5, <2>6
  <2>9. Partial(h)[T] # (f[c] + a) + (g[c] + b)
    BY <2>1, <2>4, <2>6
  <2> QED  BY <2>7, <2>8, <2>9
<1>2. S \in SUBSET S
  OBVIOUS
<1> QED  BY <1>1, <1>2, PartialUnfolds DEF Unfolds

(***************************************************************************)
(* Values that are at most k, one of them or two nothing, have a sum that  *)
(* is k less, or twice k less, than k for each.                            *)
(***************************************************************************)
LEMMA PartialIsBounded ==
  ASSUME NEW S, IsFiniteSet(S), NEW f \in [S -> Nat], NEW k \in Nat, NEW R \in SUBSET S,
         \A y \in R : f[y] <= k
  PROVE  Partial(f)[R] <= Cardinality(R) * k
<1> DEFINE B == {s \in SUBSET R : ~(Partial(f)[s] <= Cardinality(s) * k)}
<1>1. B = {}
  <2> SUFFICES ASSUME B # {} PROVE FALSE
    OBVIOUS
  <2>0. B \in SUBSET SUBSET R
    OBVIOUS
  <2>1. IsFiniteSet(R)
    BY FS_Subset
  <2>2. PICK T \in B : \A U \in B : U \subseteq T => U = T
    <3> HIDE DEF B
    <3> QED  BY <2>0, <2>1, LeastPart
  <2>3. Cardinality({}) = 0 /\ 0 * k = 0
    BY FS_EmptySet
  <2>4. T # {} /\ T \in SUBSET S
    <3>1. T \in SUBSET S /\ ~(Partial(f)[T] <= Cardinality(T) * k)
      BY <2>2
    <3>2. Partial(f)[{}] = 0
      BY PartialUnfolds DEF Unfolds
    <3> QED  BY <2>3, <3>1, <3>2
  <2>5. PICK c : c = Chosen(T)
    OBVIOUS
  <2>6. /\ c \in T /\ T \ {c} \in SUBSET S
        /\ Partial(f)[T] = f[c] + Partial(f)[T \ {c}]
        /\ Cardinality(T) \in Nat /\ Cardinality(T \ {c}) = Cardinality(T) - 1
    <3>1. /\ Chosen(T) \in T /\ T \ {Chosen(T)} \in SUBSET S
          /\ Cardinality(T) \in Nat /\ Cardinality(T \ {Chosen(T)}) = Cardinality(T) - 1
      BY <2>4, Smaller
    <3>2. Unfolds(f, S)
      BY PartialUnfolds
    <3> QED  BY <2>4, <2>5, <3>1, <3>2 DEF Unfolds
  <2>7. Partial(f)[T \ {c}] <= Cardinality(T \ {c}) * k
    BY <2>2, <2>6
  <2>8. (Cardinality(T) - 1) * k = Cardinality(T) * k - k
    BY <2>6
  <2>9. PICK n : n = Cardinality(T) * k
    OBVIOUS
  <2>10. n \in Nat /\ Partial(f)[T \ {c}] \in Nat /\ f[c] \in Nat /\ f[c] <= k
    BY <2>4, <2>6, <2>9, PartialIsNumber
  <2>11. Partial(f)[T] <= n
    BY <2>6, <2>7, <2>8, <2>9, <2>10
  <2> QED  BY <2>2, <2>9, <2>11
<1> QED  BY <1>1

(***************************************************************************)
(* A sum is bounded by the greatest summand times their number; one that   *)
(* is nothing, or two, leave that much less: the slack of a day's spend.   *)
(***************************************************************************)
THEOREM SumIsBounded ==
  ASSUME NEW S, IsFiniteSet(S), NEW f \in [S -> Nat], NEW k \in Nat, \A y \in S : f[y] <= k
  PROVE  /\ SumOf(f) <= Cardinality(S) * k
         /\ \A x \in S : f[x] = 0 => SumOf(f) <= Cardinality(S) * k - k
         /\ \A x, z \in S : x # z /\ f[x] = 0 /\ f[z] = 0 => SumOf(f) <= Cardinality(S) * k - 2 * k
<1>1. S \in SUBSET S /\ SumOf(f) = Partial(f)[S] /\ Cardinality(S) \in Nat
  BY PartialUnfolds, FS_CardinalityType DEF Unfolds
<1>2. ASSUME NEW x \in S
      PROVE  /\ SumOf(f) = f[x] + Partial(f)[S \ {x}] /\ S \ {x} \in SUBSET S
             /\ Partial(f)[S \ {x}] \in Nat /\ IsFiniteSet(S \ {x})
             /\ Cardinality(S \ {x}) = Cardinality(S) - 1
  BY <1>1, SumIsOneAndRest, PartialIsNumber, FS_RemoveElement
<1>3. PICK n : n = Cardinality(S) * k
  OBVIOUS
<1>4. n \in Nat
  BY <1>1, <1>3
<1>5. ASSUME NEW x \in S, f[x] = 0 PROVE SumOf(f) <= n - k
  <2>1. Partial(f)[S \ {x}] <= (Cardinality(S) - 1) * k
    BY <1>2, PartialIsBounded
  <2>2. (Cardinality(S) - 1) * k = n - k
    BY <1>1, <1>3
  <2> QED  BY <1>2, <1>4, <1>5, <2>1, <2>2
<1>6. ASSUME NEW x \in S, NEW z \in S, x # z, f[x] = 0, f[z] = 0 PROVE SumOf(f) <= n - 2 * k
  <2>1. z \in S \ {x} /\ S \ {x} \in SUBSET S /\ (S \ {x}) \ {z} \in SUBSET S
    BY <1>6
  <2>2. Partial(f)[S \ {x}] = f[z] + Partial(f)[(S \ {x}) \ {z}]
    <3>1. Splits(f, S)
      BY AnyMayBeChosen
    <3>2. QED BY <2>1, <3>1 DEF Splits
  <2>3. Cardinality((S \ {x}) \ {z}) = (Cardinality(S) - 1) - 1
    <3>1. PICK Q : Q = S \ {x}
      OBVIOUS
    <3>2. Cardinality(Q \ {z}) = Cardinality(Q) - 1
      BY <1>2, <2>1, <3>1, FS_RemoveElement
    <3> QED  BY <1>2, <3>1, <3>2
  <2>4. Partial(f)[(S \ {x}) \ {z}] <= ((Cardinality(S) - 1) - 1) * k
    BY <2>1, <2>3, PartialIsBounded
  <2>5. ((Cardinality(S) - 1) - 1) * k = n - 2 * k
    BY <1>1, <1>3
  <2>6. Partial(f)[(S \ {x}) \ {z}] \in Nat
    BY <2>1, PartialIsNumber
  <2> QED  BY <1>2, <1>4, <1>6, <2>2, <2>4, <2>5, <2>6
<1>7. SumOf(f) <= n
  BY <1>1, <1>3, PartialIsBounded
<1> QED  BY <1>3, <1>5, <1>6, <1>7

(***************************************************************************)
(* When all values but one are nothing, the sum is that one.               *)
(***************************************************************************)
THEOREM SumOfOne ==
  ASSUME NEW S, IsFiniteSet(S), NEW f \in [S -> Nat], NEW x \in S,
         \A y \in S \ {x} : f[y] = 0
  PROVE  SumOf(f) = f[x]
<1>1. S \in SUBSET S /\ S \ {x} \in SUBSET S /\ IsFiniteSet(S \ {x})
  BY FS_RemoveElement
<1>2. SumOf(f) = f[x] + Partial(f)[S \ {x}]
  BY SumIsOneAndRest
<1>3. PICK n : n = Cardinality(S \ {x})
  OBVIOUS
<1>4. n \in Nat /\ n * 0 = 0
  BY <1>1, <1>3, FS_CardinalityType
<1>5. Partial(f)[S \ {x}] <= n * 0
  BY <1>1, <1>3, PartialIsBounded
<1>6. Partial(f)[S \ {x}] \in Nat /\ f[x] \in Nat
  BY <1>1, PartialIsNumber
<1> QED  BY <1>2, <1>4, <1>5, <1>6

LEMMA SumOfNothing ==
  ASSUME NEW S, IsFiniteSet(S), NEW f \in [S -> Nat], \A y \in S : f[y] = 0
  PROVE  SumOf(f) = 0
<1>1. PICK n : n = Cardinality(S)
  OBVIOUS
<1>2. n \in Nat /\ n * 0 = 0
  BY <1>1, FS_CardinalityType
<1>3. SumOf(f) <= n * 0
  BY <1>1, SumIsBounded
<1>4. SumOf(f) \in Nat
  BY SumIsNumber
<1> QED  BY <1>2, <1>3, <1>4

\* The sum of a part of the domain is that of the function on it.
LEMMA PartialOfPart ==
  ASSUME NEW S, IsFiniteSet(S), NEW T \in SUBSET S,
         NEW f \in [S -> Nat], NEW g \in [T -> Nat], \A y \in T : g[y] = f[y]
  PROVE  SumOf(g) = Partial(f)[T]
<1>0. IsFiniteSet(T) /\ DOMAIN g = T
  BY FS_Subset
<1> DEFINE B == {s \in SUBSET T : Partial(g)[s] # Partial(f)[s]}
<1>1. B = {}
  <2> SUFFICES ASSUME B # {} PROVE FALSE
    OBVIOUS
  <2>0. B \in SUBSET SUBSET T
    OBVIOUS
  <2>2. PICK U \in B : \A V \in B : V \subseteq U => V = U
    <3> HIDE DEF B
    <3> QED  BY <1>0, <2>0, LeastPart
  <2>unfolds. Unfolds(f, S) /\ Unfolds(g, T)
    BY <1>0, PartialUnfolds
  <2>3. U # {} /\ U \in SUBSET S /\ U \in SUBSET T
    BY <2>2, <2>unfolds DEF Unfolds
  <2>4. PICK c : c = Chosen(U)
    OBVIOUS
  <2>5. /\ c \in U /\ Partial(f)[U] = f[c] + Partial(f)[U \ {c}]
        /\ Partial(g)[U] = g[c] + Partial(g)[U \ {c}]
    <3>1. Chosen(U) \in U
      BY <1>0, <2>3, Smaller
    <3> QED  BY <2>3, <2>4, <2>unfolds, <3>1 DEF Unfolds
  <2>6. Partial(g)[U \ {c}] = Partial(f)[U \ {c}]
    BY <2>2, <2>5
  <2> QED  BY <2>2, <2>3, <2>5, <2>6
<1>2. Unfolds(g, T)
  BY <1>0, PartialUnfolds
<1> QED  BY <1>1, <1>2 DEF Unfolds

(***************************************************************************)
(* The sum of a function is one value and the sum of the others.           *)
(***************************************************************************)
THEOREM SumWithout ==
  ASSUME NEW S, IsFiniteSet(S), NEW f \in [S -> Nat], NEW x \in S
  PROVE  SumOf(f) = f[x] + SumOf([y \in S \ {x} |-> f[y]])
<1> DEFINE g == [y \in S \ {x} |-> f[y]]
<1>1. SumOf(g) = Partial(f)[S \ {x}]
  <2>1. g \in [S \ {x} -> Nat] /\ (\A y \in S \ {x} : g[y] = f[y]) /\ S \ {x} \in SUBSET S
    OBVIOUS
  <2> HIDE DEF g
  <2> QED  BY <2>1, PartialOfPart
<1> QED  BY <1>1, SumIsOneAndRest

----------------------------------------------------------------------------
\* Every two elements are decided, and not in a circle.
StrictOrder(S, before) ==
  /\ \A x \in S : <<x, x>> \notin before
  /\ \A x, y, z \in S : <<x, y>> \in before /\ <<y, z>> \in before => <<x, z>> \in before
  /\ \A x, y \in S : x # y => <<x, y>> \in before \/ <<y, x>> \in before

(***************************************************************************)
(* Who comes earlier has fewer before it.                                  *)
(***************************************************************************)
LEMMA EarlierIsLower ==
  ASSUME NEW S, IsFiniteSet(S), NEW before, StrictOrder(S, before), NEW x \in S, NEW y \in S
  PROVE  /\ Place(S, before, x) \in 0..(Cardinality(S) - 1)
         /\ <<x, y>> \in before <=> Place(S, before, x) < Place(S, before, y)
<1> DEFINE Ahead(z) == {w \in S : <<w, z>> \in before}
<1>1. ASSUME NEW z \in S
      PROVE  /\ IsFiniteSet(Ahead(z)) /\ Cardinality(Ahead(z)) \in Nat
             /\ Cardinality(Ahead(z)) < Cardinality(S) /\ Cardinality(S) \in Nat
  <2>1. Ahead(z) \in SUBSET S /\ Ahead(z) # S
    BY DEF StrictOrder
  <2> HIDE DEF Ahead
  <2>2. IsFiniteSet(Ahead(z)) /\ Cardinality(Ahead(z)) <= Cardinality(S)
        /\ Cardinality(Ahead(z)) # Cardinality(S)
    BY <2>1, FS_Subset
  <2>3. Cardinality(Ahead(z)) \in Nat /\ Cardinality(S) \in Nat
    BY <2>2, FS_CardinalityType
  <2> QED  BY <2>2, <2>3
<1>2. ASSUME NEW v \in S, NEW w \in S, <<v, w>> \in before
      PROVE  Cardinality(Ahead(v)) < Cardinality(Ahead(w))
  <2>1. Ahead(v) \in SUBSET Ahead(w) /\ v \in Ahead(w) /\ v \notin Ahead(v)
    BY <1>2 DEF StrictOrder
  <2>2. /\ Cardinality(Ahead(v)) <= Cardinality(Ahead(w))
        /\ Cardinality(Ahead(w)) = Cardinality(Ahead(v)) => Ahead(w) = Ahead(v)
    BY <1>1, <2>1, FS_Subset
  <2>3. Ahead(v) # Ahead(w)
    BY <2>1
  <2> HIDE DEF Ahead
  <2> QED  BY <1>1, <2>2, <2>3
<1>3. \A z \in S : Place(S, before, z) = Cardinality(Ahead(z))
  BY DEF Place
<1>4. Place(S, before, x) \in 0..(Cardinality(S) - 1) /\ Place(S, before, y) \in Nat
  <2> HIDE DEF Ahead
  <2> QED  BY <1>1, <1>3
<1>5. <<x, y>> \in before => Place(S, before, x) < Place(S, before, y)
  BY <1>2, <1>3
<1>6. <<y, x>> \in before => Place(S, before, y) < Place(S, before, x)
  BY <1>2, <1>3
<1>7. x = y \/ <<x, y>> \in before \/ <<y, x>> \in before
  BY DEF StrictOrder
<1> HIDE DEF Ahead
<1>8. <<x, y>> \notin before => Place(S, before, y) < Place(S, before, x) \/ x = y
  BY <1>6, <1>7
<1>9. QED BY <1>4, <1>5, <1>8

(***************************************************************************)
(* Every place is taken, by one: there are as many places as elements, and *)
(* no two elements have the same.                                          *)
(***************************************************************************)
LEMMA EveryPlaceIsTaken ==
  ASSUME NEW S, IsFiniteSet(S), NEW before, StrictOrder(S, before),
         NEW i \in 1..Cardinality(S)
  PROVE  /\ InOrder(S, before)[i] \in S
         /\ Place(S, before, InOrder(S, before)[i]) = i - 1
<1> DEFINE N == 0..(Cardinality(S) - 1)
           f == [x \in S |-> Place(S, before, x)]
<1>1. Cardinality(S) \in Nat
  BY FS_CardinalityType
<1>2. IsFiniteSet(N) /\ Cardinality(N) = Cardinality(S)
  <2>1. 0 \in Int /\ Cardinality(S) - 1 \in Int
    BY <1>1
  <2> QED  BY <1>1, <2>1, FS_Interval
<1>3. f \in [S -> N]
  BY EarlierIsLower
<1>4. ASSUME NEW x \in S, NEW y \in S, f[x] = f[y] PROVE x = y
  <2>1. Place(S, before, x) = Place(S, before, y)
    BY <1>4
  <2>2. Place(S, before, x) \in Nat /\ Place(S, before, y) \in Nat
    BY <1>1, <1>3
  <2>3. <<x, y>> \notin before /\ <<y, x>> \notin before
    BY <2>1, <2>2, EarlierIsLower
  <2> QED  BY <2>3 DEF StrictOrder
<1>5. f \in Injection(S, N)
  <2> HIDE DEF f, N
  <2> QED  BY <1>3, <1>4 DEF Injection, IsInjective
<1>6. f \in Surjection(S, N)
  <2> HIDE DEF f, N
  <2> QED  BY <1>2, <1>5, FS_Injection
<1>7. i - 1 \in N
  BY <1>1
<1>8. \E x \in S : Place(S, before, x) = i - 1
  BY <1>6, <1>7 DEF Surjection
<1> QED  BY <1>8 DEF InOrder

(***************************************************************************)
(* Sorting loses nothing and repeats nothing, and the order of the result  *)
(* is the order it was sorted by.                                          *)
(***************************************************************************)
THEOREM InOrderIsSorted ==
  ASSUME NEW S, IsFiniteSet(S), NEW before, StrictOrder(S, before)
  PROVE  /\ Cardinality(S) \in Nat
         /\ InOrder(S, before) \in [1..Cardinality(S) -> S]
         /\ \A x \in S : \E i \in 1..Cardinality(S) : InOrder(S, before)[i] = x
         /\ \A i, j \in 1..Cardinality(S) :
              i < j <=> <<InOrder(S, before)[i], InOrder(S, before)[j]>> \in before
<1> DEFINE s == InOrder(S, before)
           n == Cardinality(S)
<1>1. n \in Nat
  BY FS_CardinalityType
<1>2. \A i \in 1..n : s[i] \in S /\ Place(S, before, s[i]) = i - 1
  BY EveryPlaceIsTaken
<1>3. s \in [1..n -> S]
  BY <1>2 DEF InOrder
<1>4. ASSUME NEW i \in 1..n, NEW j \in 1..n
      PROVE  i < j <=> <<s[i], s[j]>> \in before
  <2>1. s[i] \in S /\ s[j] \in S
    BY <1>2
  <2>2. <<s[i], s[j]>> \in before <=> Place(S, before, s[i]) < Place(S, before, s[j])
    BY <2>1, EarlierIsLower
  <2> HIDE DEF s, n
  <2> QED  BY <1>1, <1>2, <2>2
<1>5. ASSUME NEW x \in S PROVE \E i \in 1..n : s[i] = x
  <2> DEFINE i == Place(S, before, x) + 1
  <2>1. Place(S, before, x) \in 0..(n - 1)
    BY EarlierIsLower
  <2>2. i \in 1..n
    BY <1>1, <2>1
  <2>3. s[i] \in S /\ Place(S, before, s[i]) = Place(S, before, x)
    <3>1. s[i] \in S /\ Place(S, before, s[i]) = i - 1
      BY <1>2, <2>2
    <3> HIDE DEF s, n
    <3> QED  BY <1>1, <2>1, <3>1
  <2>4. <<s[i], x>> \notin before /\ <<x, s[i]>> \notin before
    <3>1. ~(Place(S, before, s[i]) < Place(S, before, x)) /\ ~(Place(S, before, x) < Place(S, before, s[i]))
      <4> HIDE DEF s, n
      <4> QED  BY <1>1, <2>1, <2>3
    <3> QED  BY <2>3, <3>1, EarlierIsLower
  <2>5. s[i] = x
    BY <2>3, <2>4 DEF StrictOrder
  <2> QED  BY <2>2, <2>5
<1> QED  BY <1>1, <1>3, <1>4, <1>5

(***************************************************************************)
(* There is no other such sequence, so that it does not matter in which    *)
(* order the elements come to be sorted.                                   *)
(***************************************************************************)
THEOREM OrderIsUnique ==
  ASSUME NEW S, IsFiniteSet(S), NEW before, StrictOrder(S, before),
         NEW n \in Nat, NEW s \in [1..n -> S], \A x \in S : \E i \in 1..n : s[i] = x,
         \A i, j \in 1..n : i < j => <<s[i], s[j]>> \in before
  PROVE  s = InOrder(S, before) /\ n = Cardinality(S)
<1>1. ASSUME NEW i \in 1..n, NEW j \in 1..n, s[i] = s[j] PROVE i = j
  <2>1. <<s[i], s[j]>> \notin before /\ <<s[j], s[i]>> \notin before
    BY <1>1 DEF StrictOrder
  <2>2. ~(i < j) /\ ~(j < i)
    BY <2>1
  <2> QED  BY <2>2
<1>2. n = Cardinality(S)
  <2>1. s \in Bijection(1..n, S)
    BY <1>1 DEF Bijection, Injection, Surjection, IsInjective
  <2> QED  BY <2>1, FS_CountingElements DEF ExistsBijection
<1>3. ASSUME NEW i \in 1..n PROVE s[i] = InOrder(S, before)[i]
  <2> DEFINE A == {y \in S : <<y, s[i]>> \in before}
             f == [j \in 1..(i - 1) |-> s[j]]
  <2>1. ASSUME NEW y \in A PROVE \E j \in 1..(i - 1) : f[j] = y
    <3>1. PICK j \in 1..n : s[j] = y
      OBVIOUS
    <3>2. <<s[j], s[i]>> \in before /\ s[i] \in S /\ s[j] \in S
      BY <3>1
    <3>3. <<s[i], s[j]>> \notin before /\ s[i] # s[j]
      BY <3>2 DEF StrictOrder
    <3>4. ~(i < j) /\ i # j
      BY <3>3
    <3>5. j \in 1..(i - 1)
      BY <3>4
    <3> QED  BY <3>1, <3>5
  <2>2. \A j \in 1..(i - 1) : j \in 1..n /\ f[j] = s[j] /\ <<s[j], s[i]>> \in before /\ s[j] \in S
    OBVIOUS
  <2>3. f \in Bijection(1..(i - 1), A)
    <3>1. f \in [1..(i - 1) -> A]
      BY <2>2
    <3>2. \A j, k \in 1..(i - 1) : f[j] = f[k] => j = k
      BY <1>1, <2>2
    <3> HIDE DEF f, A
    <3> QED  BY <2>1, <3>1, <3>2 DEF Bijection, Injection, Surjection, IsInjective
  <2>4. i - 1 \in Nat
    OBVIOUS
  <2>5. Cardinality(A) = i - 1
    <3> HIDE DEF f, A
    <3> QED  BY <2>3, <2>4, FS_CountingElements DEF ExistsBijection
  <2>6. Place(S, before, s[i]) = i - 1 /\ s[i] \in S
    BY <2>5 DEF Place
  <2> DEFINE t == InOrder(S, before)[i]
  <2>7. t \in S /\ Place(S, before, t) = i - 1
    BY <1>2, EveryPlaceIsTaken
  <2>8. <<s[i], t>> \notin before /\ <<t, s[i]>> \notin before
    <3>1. ~(Place(S, before, s[i]) < Place(S, before, t)) /\ ~(Place(S, before, t) < Place(S, before, s[i]))
      <4> HIDE DEF t
      <4> QED  BY <2>4, <2>6, <2>7
    <3> HIDE DEF t
    <3> QED  BY <2>6, <2>7, <3>1, EarlierIsLower
  <2> QED  BY <2>6, <2>7, <2>8 DEF StrictOrder
<1>4. InOrder(S, before) = [i \in 1..n |-> InOrder(S, before)[i]]
  BY <1>2 DEF InOrder
<1> QED  BY <1>2, <1>3, <1>4

(***************************************************************************)
(* A comprehension with a condition keeps the order, and all that meets    *)
(* the condition.                                                          *)
(***************************************************************************)
THEOREM FilteredIsPart ==
  ASSUME NEW X, NEW s \in Seq(X), NEW I \in SUBSET DOMAIN s
  PROVE  /\ Filtered(s, I) \in Seq(X) /\ Len(Filtered(s, I)) = Cardinality(I)
         /\ DOMAIN Filtered(s, I) = 1..Cardinality(I) /\ Cardinality(I) \in Nat
         /\ \A k \in 1..Cardinality(I) : \E i \in I : Filtered(s, I)[k] = s[i]
         /\ \A i \in I : \E k \in 1..Cardinality(I) : Filtered(s, I)[k] = s[i]
         /\ (\A i, j \in I : s[i] = s[j] => i = j) => IsInjective(Filtered(s, I))
<1> DEFINE before == OrderBy(I, LAMBDA i, j : i < j)
           p == InOrder(I, before)
           m == Cardinality(I)
           t == Filtered(s, I)
<1>1. Len(s) \in Nat /\ DOMAIN s = 1..Len(s)
  OBVIOUS
<1>2. IsFiniteSet(I) /\ I \in SUBSET Nat
  <2>1. IsFiniteSet(1..Len(s)) /\ 1..Len(s) \in SUBSET Nat
    BY <1>1, FS_Interval
  <2> QED  BY <1>1, <2>1, FS_Subset
<1>3. \A i, j \in I : <<i, j>> \in before <=> i < j
  BY DEF OrderBy
<1>4. Positions(I) = p
  BY DEF Positions
<1> HIDE DEF before, p
<1>5. StrictOrder(I, before)
  <2>1. \A i \in I : i \in Nat
    BY <1>2
  <2>2. \A i \in I : <<i, i>> \notin before
    BY <1>3, <2>1
  <2>3. \A i, j, k \in I : <<i, j>> \in before /\ <<j, k>> \in before => <<i, k>> \in before
    BY <1>3, <2>1
  <2>4. \A i, j \in I : i # j => <<i, j>> \in before \/ <<j, i>> \in before
    BY <1>3, <2>1
  <2> QED  BY <2>2, <2>3, <2>4 DEF StrictOrder
<1>6. /\ m \in Nat /\ p \in [1..m -> I] /\ \A i \in I : \E k \in 1..m : p[k] = i
      /\ \A k, l \in 1..m : k < l <=> <<p[k], p[l]>> \in before
  BY <1>2, <1>5, InOrderIsSorted DEF p
<1>7. t = [k \in 1..m |-> s[p[k]]]
  BY <1>4 DEF Filtered
<1> HIDE DEF m, t
<1>8. \A k \in 1..m : p[k] \in I /\ t[k] = s[p[k]] /\ s[p[k]] \in X
  BY <1>6, <1>7
<1>9. t \in Seq(X) /\ Len(t) = m /\ DOMAIN t = 1..m
  BY <1>6, <1>7, <1>8
<1>10. \A k, l \in 1..m : p[k] = p[l] => k = l
  <2> SUFFICES ASSUME NEW k \in 1..m, NEW l \in 1..m, p[k] = p[l] PROVE k = l
    OBVIOUS
  <2>1. p[k] \in Nat /\ p[l] \in Nat /\ p[k] \in I /\ p[l] \in I
    BY <1>2, <1>8
  <2>2. ~(k < l) /\ ~(l < k)
    <3>1. <<p[k], p[l]>> \notin before /\ <<p[l], p[k]>> \notin before
      BY <1>5, <2>1 DEF StrictOrder
    <3> QED  BY <1>6, <3>1
  <2> QED  BY <1>6, <2>2
<1>11. (\A i, j \in I : s[i] = s[j] => i = j) => IsInjective(t)
  BY <1>8, <1>9, <1>10 DEF IsInjective
<1>12. /\ \A k \in 1..m : \E i \in I : t[k] = s[i]
       /\ \A i \in I : \E k \in 1..m : t[k] = s[i]
  BY <1>6, <1>8
<1> QED  BY <1>6, <1>9, <1>11, <1>12 DEF m, t
=============================================================================
