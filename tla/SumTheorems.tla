---------------------------- MODULE SumTheorems -----------------------------
(***************************************************************************)
(* Facts about sums over finite sets, for the proofs about balances,       *)
(* stakes and bytes.  The induction principles are stated for sets, so     *)
(* that first-order provers can use them.                                  *)
(***************************************************************************)
EXTENDS Sums, FiniteSetTheorems, TLAPS

(* Induction on the natural numbers, for membership in a set. *)
LEMMA InductionOnNat ==
    ASSUME NEW T, 0 \in T, \A n \in Nat : n \in T => n + 1 \in T
    PROVE  Nat \subseteq T
<1> DEFINE Less == {ss \in Nat \X Nat : ss[1] < ss[2]}
<1>0. IsWellFoundedOn(Less, Nat)
  BY NatLessThanWellFounded DEF OpToRel
<1> HIDE DEF Less
<1>1. SUFFICES ASSUME Nat \ T # {} PROVE FALSE
  OBVIOUS
<1>2. PICK m \in Nat \ T : \A n \in Nat \ T : ~(<<n, m>> \in Less)
  BY <1>0, <1>1, WFMin, Zenon
<1>3. m # 0 /\ m - 1 \in Nat /\ m - 1 < m /\ m = (m - 1) + 1
  BY SMT
<1>4. m - 1 \notin T
  BY <1>3, SMT
<1>5. <<m - 1, m>> \in Less
  BY <1>3 DEF Less
<1>6. QED
  BY <1>2, <1>3, <1>4, <1>5

(* Induction on the subsets of a finite set: from {} to S, one element more *)
(* at a time.                                                               *)
LEMMA InductionOnSubsets ==
    ASSUME NEW S, IsFiniteSet(S), NEW T,
           {} \in T,
           \A s \in SUBSET S : \A x \in S \ s : s \in T => s \cup {x} \in T
    PROVE  SUBSET S \subseteq T
<1> DEFINE N == {n \in Nat : \A s \in SUBSET S : Cardinality(s) = n => s \in T}
<1>1. \A s \in SUBSET S : IsFiniteSet(s) /\ Cardinality(s) \in Nat
  BY FS_Subset, FS_CardinalityType
<1>2. 0 \in N
  BY <1>1, FS_EmptySet
<1>3. ASSUME NEW n \in Nat, n \in N PROVE n + 1 \in N
  <2>1. SUFFICES ASSUME NEW s \in SUBSET S, Cardinality(s) = n + 1 PROVE s \in T
    OBVIOUS
  <2>2. s # {}
    <3> SUFFICES ASSUME s = {} PROVE FALSE
      OBVIOUS
    <3>1. Cardinality(s) = 0
      BY FS_EmptySet
    <3> QED
      BY <2>1, <3>1
  <2>3. PICK x \in s : TRUE
    BY <2>2
  <2>4. Cardinality(s \ {x}) = Cardinality(s) - 1
    BY <1>1, FS_RemoveElement
  <2>5. s \ {x} \in T
    BY <1>3, <2>1, <2>4
  <2>6. s = (s \ {x}) \cup {x} /\ x \in S \ (s \ {x})
    OBVIOUS
  <2>7. QED
    BY <2>5, <2>6
<1>4. Nat \subseteq N
  <2> HIDE DEF N
  <2> QED BY <1>2, <1>3, InductionOnNat
<1>5. QED
  BY <1>1, <1>4

----------------------------------------------------------------------------
(* What SumOver computes. *)

Chosen(s) == CHOOSE x \in s : TRUE

NextSum(f, g, s) == IF s = {} THEN 0 ELSE f[Chosen(s)] + g[s \ {Chosen(s)}]

IsSum(g, f, S) == g = [s \in SUBSET S |-> NextSum(f, g, s)]

Sums(f, S) == CHOOSE g : IsSum(g, f, S)

(* The element that is chosen belongs to the set.                           *)
LEMMA ChosenIsIn == \A s : s # {} => Chosen(s) \in s
BY DEF Chosen

(* SumOver is the recursive function Sums.                                  *)
LEMMA SumOverUnfolded ==
    ASSUME NEW f, NEW S
    PROVE  SumOver(f, S) = Sums(f, S)[S]
BY DEF SumOver, MapThenSumSet, MapThenFoldSet, Sums, IsSum, NextSum, Chosen

(* There is a function that satisfies the recursive definition. *)
LEMMA SumExists ==
    ASSUME NEW S, IsFiniteSet(S), NEW f, \A x \in S : f[x] \in Int
    PROVE  \E g \in [SUBSET S -> Int] : IsSum(g, f, S)
<1> DEFINE UpTo(g, n) == \A s \in SUBSET S : Cardinality(s) <= n => g[s] = NextSum(f, g, s)
           N == {n \in Nat : \E g \in [SUBSET S -> Int] : UpTo(g, n)}
<1>1. \A s \in SUBSET S : IsFiniteSet(s) /\ Cardinality(s) \in Nat
  BY FS_Subset, FS_CardinalityType
<1>2. \A s \in SUBSET S : s # {} =>
        /\ Chosen(s) \in S /\ s \ {Chosen(s)} \in SUBSET S
        /\ Cardinality(s \ {Chosen(s)}) = Cardinality(s) - 1
  BY <1>1, ChosenIsIn, FS_RemoveElement
<1>3. \A g \in [SUBSET S -> Int], s \in SUBSET S : NextSum(f, g, s) \in Int
  <2> TAKE g \in [SUBSET S -> Int], s \in SUBSET S
  <2>1. CASE s = {}
    BY <2>1 DEF NextSum
  <2>2. CASE s # {}
    <3>1. f[Chosen(s)] \in Int /\ g[s \ {Chosen(s)}] \in Int
      BY <1>2, <2>2
    <3> QED
      BY <2>2, <3>1 DEF NextSum
  <2> QED
    BY <2>1, <2>2
<1>4. 0 \in N
  <2> DEFINE g0 == [s \in SUBSET S |-> 0]
  <2>1. g0 \in [SUBSET S -> Int]
    OBVIOUS
  <2>2. \A s \in SUBSET S : Cardinality(s) <= 0 => s = {}
    BY <1>1, FS_EmptySet
  <2>3. UpTo(g0, 0)
    BY <2>2 DEF NextSum
  <2> QED
    BY <2>1, <2>3
<1>5. ASSUME NEW n \in Nat, n \in N PROVE n + 1 \in N
  <2>1. PICK g \in [SUBSET S -> Int] : UpTo(g, n)
    BY <1>5
  <2> DEFINE h == [s \in SUBSET S |-> NextSum(f, g, s)]
  <2>2. h \in [SUBSET S -> Int]
    BY <1>3
  <2>3. \A s \in SUBSET S : Cardinality(s) <= n => h[s] = g[s]
    BY <2>1
  <2>4. ASSUME NEW s \in SUBSET S, Cardinality(s) <= n + 1
        PROVE  h[s] = NextSum(f, h, s)
    <3>1. CASE s = {}
      BY <3>1 DEF NextSum
    <3>2. CASE s # {}
      <4>1. s \ {Chosen(s)} \in SUBSET S /\ Cardinality(s \ {Chosen(s)}) <= n
        BY <1>1, <1>2, <2>4, <3>2
      <4>2. h[s \ {Chosen(s)}] = g[s \ {Chosen(s)}]
        BY <2>3, <4>1
      <4> QED
        BY <3>2, <4>2 DEF NextSum
    <3> QED
      BY <3>1, <3>2
  <2>5. UpTo(h, n + 1)
    BY <2>4
  <2> HIDE DEF h, UpTo
  <2> QED
    BY <2>2, <2>5
<1>6. Cardinality(S) \in N
  <2> HIDE DEF N
  <2> QED BY <1>1, <1>4, <1>5, InductionOnNat
<1>7. PICK g \in [SUBSET S -> Int] : UpTo(g, Cardinality(S))
  BY <1>6
<1>8. \A s \in SUBSET S : g[s] = NextSum(f, g, s)
  BY <1>7, FS_Subset
<1>9. IsSum(g, f, S)
  BY <1>8 DEF IsSum
<1>10. QED
  BY <1>9

(* Two sums of functions that agree are equal. *)
LEMMA SumsAgree ==
    ASSUME NEW S, IsFiniteSet(S), NEW f, NEW h, NEW A, NEW B,
           S \subseteq A, S \subseteq B,
           NEW g, NEW k, IsSum(g, f, A), IsSum(k, h, B),
           \A x \in S : f[x] = h[x]
    PROVE  \A s \in SUBSET S : g[s] = k[s]
<1> DEFINE N == {n \in Nat : \A s \in SUBSET S : Cardinality(s) <= n => g[s] = k[s]}
<1>1. \A s \in SUBSET S : IsFiniteSet(s) /\ Cardinality(s) \in Nat
  BY FS_Subset, FS_CardinalityType
<1>2. \A s \in SUBSET S : s # {} =>
        /\ Chosen(s) \in S /\ s \ {Chosen(s)} \in SUBSET S
        /\ Cardinality(s \ {Chosen(s)}) = Cardinality(s) - 1
  BY <1>1, ChosenIsIn, FS_RemoveElement
<1>3. \A s \in SUBSET S : g[s] = NextSum(f, g, s) /\ k[s] = NextSum(h, k, s)
  BY DEF IsSum
<1>4. 0 \in N
  <2>1. \A s \in SUBSET S : Cardinality(s) <= 0 => s = {}
    BY <1>1, FS_EmptySet
  <2> QED
    BY <1>3, <2>1 DEF NextSum
<1>5. ASSUME NEW n \in Nat, n \in N PROVE n + 1 \in N
  <2>1. ASSUME NEW s \in SUBSET S, Cardinality(s) <= n + 1, s # {}
        PROVE  g[s] = k[s]
    <3>1. s \ {Chosen(s)} \in SUBSET S /\ Cardinality(s \ {Chosen(s)}) <= n
      BY <1>1, <1>2, <2>1
    <3>2. g[s \ {Chosen(s)}] = k[s \ {Chosen(s)}]
      BY <1>5, <3>1
    <3>3. f[Chosen(s)] = h[Chosen(s)]
      BY <1>2, <2>1
    <3> QED
      BY <1>3, <2>1, <3>2, <3>3 DEF NextSum
  <2>2. \A s \in SUBSET S : s = {} => g[s] = k[s]
    BY <1>3 DEF NextSum
  <2>3. \A s \in SUBSET S : Cardinality(s) <= n + 1 => g[s] = k[s]
    BY <2>1, <2>2
  <2> QED
    BY <2>3
<1>6. Nat \subseteq N
  <2> HIDE DEF N
  <2> QED BY <1>4, <1>5, InductionOnNat
<1>7. QED
  BY <1>1, <1>6

(* Sums satisfies its recursive definition, with integer values.            *)
LEMMA SumsProperties ==
    ASSUME NEW S, IsFiniteSet(S), NEW f, \A x \in S : f[x] \in Int
    PROVE  IsSum(Sums(f, S), f, S) /\ Sums(f, S) \in [SUBSET S -> Int]
<1>1. PICK g \in [SUBSET S -> Int] : IsSum(g, f, S)
  BY SumExists
<1>2. IsSum(Sums(f, S), f, S)
  BY <1>1 DEF Sums
<1>3. Sums(f, S) = g
  <2>1. \A s \in SUBSET S : Sums(f, S)[s] = g[s]
    BY <1>1, <1>2, SumsAgree
  <2> QED
    BY <1>1, <1>2, <2>1 DEF IsSum
<1>4. QED
  BY <1>2, <1>3

----------------------------------------------------------------------------
(* The facts that the other proofs use. *)

(* A sum of integers is an integer. *)
LEMMA SumIsInt ==
    ASSUME NEW S, IsFiniteSet(S), NEW f, \A x \in S : f[x] \in Int
    PROVE  SumOver(f, S) \in Int
BY SumsProperties, SumOverUnfolded

(* The empty sum.                                                           *)
LEMMA SumOfNone == ASSUME NEW f PROVE SumOver(f, {}) = 0
<1>1. IsSum(Sums(f, {}), f, {})
  BY SumsProperties, FS_EmptySet
<1>2. Sums(f, {})[{}] = NextSum(f, Sums(f, {}), {})
  BY <1>1 DEF IsSum
<1>3. QED
  BY <1>2, SumOverUnfolded DEF NextSum

(* Functions that agree on S have the same sum. *)
LEMMA SumCongruence ==
    ASSUME NEW S, IsFiniteSet(S), NEW f, NEW h,
           \A x \in S : f[x] \in Int /\ h[x] = f[x]
    PROVE  SumOver(h, S) = SumOver(f, S)
<1>1. IsSum(Sums(f, S), f, S) /\ IsSum(Sums(h, S), h, S)
  BY SumsProperties
<1>2. \A s \in SUBSET S : Sums(f, S)[s] = Sums(h, S)[s]
  <2>1. S \subseteq S /\ \A x \in S : f[x] = h[x]
    OBVIOUS
  <2> DEFINE g == Sums(f, S)
             k == Sums(h, S)
  <2>2. IsSum(g, f, S) /\ IsSum(k, h, S)
    BY <1>1
  <2> HIDE DEF g, k
  <2>3. \A s \in SUBSET S : g[s] = k[s]
    BY <2>1, <2>2, SumsAgree
  <2> QED
    BY <2>3 DEF g, k
<1>3. QED
  BY <1>2, SumOverUnfolded

(* One step of the recursive definition.                                    *)
LEMMA SumWithoutChosen ==
    ASSUME NEW S, IsFiniteSet(S), S # {}, NEW f, \A x \in S : f[x] \in Int
    PROVE  SumOver(f, S) = f[Chosen(S)] + SumOver(f, S \ {Chosen(S)})
<1> DEFINE R == S \ {Chosen(S)}
<1>1. IsFiniteSet(R) /\ R \in SUBSET S
  BY FS_RemoveElement
<1>2. IsSum(Sums(f, S), f, S) /\ IsSum(Sums(f, R), f, R)
  BY <1>1, SumsProperties
<1>3. Sums(f, S)[S] = f[Chosen(S)] + Sums(f, S)[R]
  BY <1>2 DEF IsSum, NextSum
<1>4. \A s \in SUBSET R : Sums(f, S)[s] = Sums(f, R)[s]
  <2> HIDE DEF R
  <2> QED BY <1>1, <1>2, SumsAgree
<1>5. QED
  BY <1>3, <1>4, SumOverUnfolded

(* Any element may be taken out of a sum. *)
LEMMA SumSplit ==
    ASSUME NEW S, IsFiniteSet(S), NEW f, \A x \in S : f[x] \in Int, NEW e \in S
    PROVE  SumOver(f, S) = f[e] + SumOver(f, S \ {e})
<1> DEFINE Splits(s) == \A x \in s : SumOver(f, s) = f[x] + SumOver(f, s \ {x})
           N == {n \in Nat : \A s \in SUBSET S : Cardinality(s) <= n => Splits(s)}
<1>1. \A s \in SUBSET S : IsFiniteSet(s) /\ Cardinality(s) \in Nat
  BY FS_Subset, FS_CardinalityType
<1>2. \A s \in SUBSET S : \A x \in s :
        /\ f[x] \in Int /\ s \ {x} \in SUBSET S
        /\ Cardinality(s \ {x}) = Cardinality(s) - 1
  BY <1>1, FS_RemoveElement
<1>3. \A s \in SUBSET S : SumOver(f, s) \in Int
  BY <1>1, SumIsInt
<1>4. 0 \in N
  <2>1. \A s \in SUBSET S : Cardinality(s) <= 0 => s = {}
    BY <1>1, FS_EmptySet
  <2> QED
    BY <2>1
<1>5. ASSUME NEW n \in Nat, n \in N PROVE n + 1 \in N
  <2>1. ASSUME NEW s \in SUBSET S, Cardinality(s) <= n + 1, NEW x \in s
        PROVE  SumOver(f, s) = f[x] + SumOver(f, s \ {x})
    <3> DEFINE c == Chosen(s)
    <3>1. c \in s
      BY ChosenIsIn
    <3>2. SumOver(f, s) = f[c] + SumOver(f, s \ {c})
      BY <1>1, <1>2, SumWithoutChosen
    <3>3. CASE x = c
      BY <3>2, <3>3
    <3>4. CASE x # c
      <4> HIDE DEF c
      <4>1. s \ {c} \in SUBSET S /\ Cardinality(s \ {c}) <= n /\ x \in s \ {c}
        BY <1>1, <1>2, <2>1, <3>1, <3>4
      <4>2. s \ {x} \in SUBSET S /\ Cardinality(s \ {x}) <= n /\ c \in s \ {x}
        BY <1>1, <1>2, <2>1, <3>1, <3>4
      <4>3. SumOver(f, s \ {c}) = f[x] + SumOver(f, (s \ {c}) \ {x})
        BY <1>5, <4>1
      <4>4. SumOver(f, s \ {x}) = f[c] + SumOver(f, (s \ {x}) \ {c})
        BY <1>5, <4>2
      <4>5. (s \ {c}) \ {x} = (s \ {x}) \ {c} /\ (s \ {c}) \ {x} \in SUBSET S
        OBVIOUS
      <4>6. f[x] \in Int /\ f[c] \in Int /\ SumOver(f, (s \ {c}) \ {x}) \in Int
        BY <1>2, <1>3, <3>1, <4>5
      <4> DEFINE rest == (s \ {c}) \ {x}
                 withoutC == SumOver(f, s \ {c})
                 withoutX == SumOver(f, s \ {x})
      <4>7. withoutC = f[x] + SumOver(f, rest) /\ withoutX = f[c] + SumOver(f, rest)
        BY <4>3, <4>4, <4>5, Zenon
      <4>8. SumOver(f, s) = f[c] + withoutC
        BY <3>2
      <4> HIDE DEF rest, withoutC, withoutX
      <4>9. SumOver(f, s) = f[x] + withoutX
        BY <4>6, <4>7, <4>8 DEF rest
      <4> QED
        BY <4>9 DEF withoutX
    <3> QED
      BY <3>3, <3>4
  <2> QED
    BY <2>1
<1>6. Cardinality(S) \in N
  <2> HIDE DEF N
  <2> QED BY <1>1, <1>4, <1>5, InductionOnNat
<1>7. QED
  BY <1>1, <1>6

(* One element more. *)
LEMMA SumWithElement ==
    ASSUME NEW S, IsFiniteSet(S), NEW e, e \notin S,
           NEW f, \A x \in S \cup {e} : f[x] \in Int
    PROVE  SumOver(f, S \cup {e}) = f[e] + SumOver(f, S)
<1> DEFINE R == S \cup {e}
<1>1. IsFiniteSet(R) /\ R \ {e} = S /\ e \in R
  BY FS_AddElement
<1>2. SumOver(f, R) = f[e] + SumOver(f, R \ {e})
  <2> HIDE DEF R
  <2> QED BY <1>1, SumSplit DEF R
<1>3. QED
  BY <1>1, <1>2

(* Functions that differ in one element only. *)
LEMMA SumChanged ==
    ASSUME NEW S, IsFiniteSet(S), NEW e \in S, NEW f, NEW h,
           \A x \in S : f[x] \in Int /\ h[x] \in Int,
           \A x \in S \ {e} : h[x] = f[x]
    PROVE  SumOver(h, S) = SumOver(f, S) - f[e] + h[e]
<1> DEFINE R == S \ {e}
<1>1. IsFiniteSet(R) /\ R \subseteq S
  BY FS_RemoveElement
<1>2. SumOver(f, S) = f[e] + SumOver(f, R) /\ SumOver(h, S) = h[e] + SumOver(h, R)
  BY SumSplit
<1>3. SumOver(h, R) = SumOver(f, R) /\ SumOver(f, R) \in Int
  BY <1>1, SumCongruence, SumIsInt
<1>4. QED
  <2> DEFINE rest == SumOver(f, R)
  <2>1. rest \in Int /\ SumOver(f, S) = f[e] + rest /\ SumOver(h, S) = h[e] + rest
    BY <1>2, <1>3
  <2> HIDE DEF rest
  <2> QED
    BY <2>1

(* Sums of natural numbers. *)
LEMMA SumIsNat ==
    ASSUME NEW S, IsFiniteSet(S), NEW f, \A x \in S : f[x] \in Nat
    PROVE  SumOver(f, S) \in Nat
<1> DEFINE T == {s \in SUBSET S : SumOver(f, s) \in Nat}
<1>1. {} \in T
  BY SumOfNone
<1>2. ASSUME NEW s \in SUBSET S, NEW x \in S \ s, s \in T
      PROVE  s \cup {x} \in T
  <2>1. IsFiniteSet(s) /\ s \cup {x} \in SUBSET S /\ \A y \in s \cup {x} : f[y] \in Int
    BY FS_Subset
  <2>2. SumOver(f, s \cup {x}) = f[x] + SumOver(f, s)
    BY <2>1, SumWithElement
  <2>3. SumOver(f, s) \in Nat /\ f[x] \in Nat
    BY <1>2
  <2> QED
    BY <2>1, <2>2, <2>3
<1>3. SUBSET S \subseteq T
  <2> HIDE DEF T
  <2> QED BY <1>1, <1>2, InductionOnSubsets
<1>4. QED
  BY <1>3

(* Sums are monotone in their terms. *)
LEMMA SumMonotone ==
    ASSUME NEW S, IsFiniteSet(S), NEW f, NEW h,
           \A x \in S : f[x] \in Int /\ h[x] \in Int /\ f[x] <= h[x]
    PROVE  SumOver(f, S) <= SumOver(h, S)
<1> DEFINE T == {s \in SUBSET S : SumOver(f, s) <= SumOver(h, s)}
<1>1. {} \in T
  BY SumOfNone
<1>2. ASSUME NEW s \in SUBSET S, NEW x \in S \ s, s \in T
      PROVE  s \cup {x} \in T
  <2>1. IsFiniteSet(s) /\ s \cup {x} \in SUBSET S
    BY FS_Subset
  <2>2. SumOver(f, s \cup {x}) = f[x] + SumOver(f, s)
    BY <2>1, SumWithElement
  <2>3. SumOver(h, s \cup {x}) = h[x] + SumOver(h, s)
    BY <2>1, SumWithElement
  <2>4. SumOver(f, s) \in Int /\ SumOver(h, s) \in Int
    BY <2>1, SumIsInt
  <2>5. SumOver(f, s) <= SumOver(h, s) /\ f[x] <= h[x] /\ f[x] \in Int /\ h[x] \in Int
    BY <1>2
  <2>6. SumOver(f, s \cup {x}) <= SumOver(h, s \cup {x})
    <3> DEFINE F == SumOver(f, s)
               H == SumOver(h, s)
    <3> HIDE DEF F, H
    <3> QED BY <2>2, <2>3, <2>4, <2>5 DEF F, H
  <2> QED
    BY <2>1, <2>6
<1>3. SUBSET S \subseteq T
  <2> HIDE DEF T
  <2> QED BY <1>1, <1>2, InductionOnSubsets
<1>4. QED
  BY <1>3

(* A sum of sums. *)
LEMMA SumOfSums ==
    ASSUME NEW S, IsFiniteSet(S), NEW f, NEW g, NEW h,
           \A x \in S : f[x] \in Int /\ g[x] \in Int /\ h[x] = f[x] + g[x]
    PROVE  SumOver(h, S) = SumOver(f, S) + SumOver(g, S)
<1> DEFINE T == {s \in SUBSET S : SumOver(h, s) = SumOver(f, s) + SumOver(g, s)}
<1>1. {} \in T
  BY SumOfNone
<1>2. ASSUME NEW s \in SUBSET S, NEW x \in S \ s, s \in T
      PROVE  s \cup {x} \in T
  <2>1. IsFiniteSet(s) /\ s \cup {x} \in SUBSET S /\ \A y \in s \cup {x} : h[y] \in Int
    BY FS_Subset
  <2>2. SumOver(f, s \cup {x}) = f[x] + SumOver(f, s)
    BY <2>1, SumWithElement
  <2>3. SumOver(g, s \cup {x}) = g[x] + SumOver(g, s)
    BY <2>1, SumWithElement
  <2>4. SumOver(h, s \cup {x}) = h[x] + SumOver(h, s)
    BY <2>1, SumWithElement
  <2>5. SumOver(f, s) \in Int /\ SumOver(g, s) \in Int
    BY <2>1, SumIsInt
  <2>6. SumOver(h, s) = SumOver(f, s) + SumOver(g, s) /\ h[x] = f[x] + g[x]
        /\ f[x] \in Int /\ g[x] \in Int
    BY <1>2
  <2>7. SumOver(h, s \cup {x}) = SumOver(f, s \cup {x}) + SumOver(g, s \cup {x})
    <3> DEFINE F == SumOver(f, s)
               G == SumOver(g, s)
    <3> HIDE DEF F, G
    <3> QED BY <2>2, <2>3, <2>4, <2>5, <2>6 DEF F, G
  <2> QED
    BY <2>1, <2>7
<1>3. SUBSET S \subseteq T
  <2> HIDE DEF T
  <2> QED BY <1>1, <1>2, InductionOnSubsets
<1>4. QED
  BY <1>3

(* A sum of zeros. *)
LEMMA SumOfZeros ==
    ASSUME NEW S, IsFiniteSet(S), NEW f, \A x \in S : f[x] = 0
    PROVE  SumOver(f, S) = 0
<1> DEFINE T == {s \in SUBSET S : SumOver(f, s) = 0}
<1>1. {} \in T
  BY SumOfNone
<1>2. ASSUME NEW s \in SUBSET S, NEW x \in S \ s, s \in T
      PROVE  s \cup {x} \in T
  <2>1. IsFiniteSet(s) /\ s \cup {x} \in SUBSET S /\ \A y \in s \cup {x} : f[y] \in Int
    BY FS_Subset
  <2>2. SumOver(f, s \cup {x}) = f[x] + SumOver(f, s)
    BY <2>1, SumWithElement
  <2> QED
    BY <1>2, <2>1, <2>2
<1>3. SUBSET S \subseteq T
  <2> HIDE DEF T
  <2> QED BY <1>1, <1>2, InductionOnSubsets
<1>4. QED
  BY <1>3

(* The sum over a part of S is the sum over S that counts 0 outside it. *)
LEMMA SumOfPart ==
    ASSUME NEW S, IsFiniteSet(S), NEW A \in SUBSET S, NEW f, NEW g,
           \A x \in S : f[x] \in Int,
           \A x \in S : g[x] = IF x \in A THEN f[x] ELSE 0
    PROVE  SumOver(f, A) = SumOver(g, S)
<1> DEFINE T == {s \in SUBSET S : SumOver(f, A \cap s) = SumOver(g, s)}
<1>1. {} \in T
  <2>1. A \cap {} = {}
    OBVIOUS
  <2> QED BY <2>1, SumOfNone
<1>2. ASSUME NEW s \in SUBSET S, NEW x \in S \ s, s \in T
      PROVE  s \cup {x} \in T
  <2>1. IsFiniteSet(s) /\ x \notin s /\ \A y \in s \cup {x} : g[y] \in Int
    BY FS_Subset
  <2>2. SumOver(g, s \cup {x}) = g[x] + SumOver(g, s)
    BY <2>1, SumWithElement
  <2>3. SumOver(f, A \cap s) = SumOver(g, s) /\ SumOver(g, s) \in Int
    BY <1>2, <2>1, SumIsInt
  <2>4. CASE x \in A
    <3> DEFINE B == A \cap s
    <3>1. IsFiniteSet(B) /\ x \notin B /\ \A y \in B \cup {x} : f[y] \in Int
      BY <2>1, FS_Subset
    <3>2. A \cap (s \cup {x}) = B \cup {x}
      BY <2>4
    <3> HIDE DEF B
    <3>3. SumOver(f, B \cup {x}) = f[x] + SumOver(f, B)
      BY <3>1, SumWithElement
    <3>4. g[x] = f[x]
      BY <2>4
    <3> QED BY <2>2, <2>3, <3>2, <3>3, <3>4 DEF B
  <2>5. CASE x \notin A
    <3>1. A \cap (s \cup {x}) = A \cap s
      BY <2>5
    <3>2. g[x] = 0
      BY <2>5
    <3>3. SumOver(g, s \cup {x}) = SumOver(g, s)
      BY <2>2, <2>3, <3>2
    <3> QED BY <2>3, <3>1, <3>3
  <2> QED BY <2>4, <2>5
<1>3. A \cap S = A
  OBVIOUS
<1>4. S \in T
  <2> HIDE DEF T
  <2> QED BY <1>1, <1>2, InductionOnSubsets
<1> QED BY <1>3, <1>4

(* A sum is that of a part and of the rest. *)
LEMMA SumOfTwoParts ==
    ASSUME NEW S, IsFiniteSet(S), NEW A \in SUBSET S, NEW f, \A x \in S : f[x] \in Int
    PROVE  SumOver(f, S) = SumOver(f, A) + SumOver(f, S \ A)
<1> DEFINE g == [x \in S |-> IF x \in A THEN f[x] ELSE 0]
           k == [x \in S |-> IF x \in S \ A THEN f[x] ELSE 0]
           B == S \ A
<1>1. \A x \in S : g[x] = (IF x \in A THEN f[x] ELSE 0) /\ k[x] = (IF x \in B THEN f[x] ELSE 0)
  OBVIOUS
<1>2. B \in SUBSET S /\ \A x \in S : x \in B <=> x \notin A OBVIOUS
<1> HIDE DEF g, k, B
<1>3. \A x \in S : g[x] \in Int /\ k[x] \in Int /\ f[x] = g[x] + k[x]
  <2> TAKE x \in S
  <2>1. f[x] \in Int OBVIOUS
  <2>2. CASE x \in A BY <1>1, <1>2, <2>1, <2>2
  <2>3. CASE x \notin A BY <1>1, <1>2, <2>1, <2>3
  <2> QED BY <2>2, <2>3
<1>4. SumOver(f, S) = SumOver(g, S) + SumOver(k, S) BY <1>3, SumOfSums
<1>5. SumOver(f, A) = SumOver(g, S) BY <1>1, SumOfPart
<1>6. SumOver(f, B) = SumOver(k, S) BY <1>1, <1>2, SumOfPart
<1> QED BY <1>4, <1>5, <1>6 DEF B
=============================================================================
