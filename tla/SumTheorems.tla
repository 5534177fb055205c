----------------------------- MODULE SumTheorems -----------------------------
(***************************************************************************)
(* Sums of a function over a finite set, SumFunctionOnSet of module        *)
(* Functions.  The library folds over a set in an order CHOOSE picks; that *)
(* the fold is well defined and does not depend on that order needs        *)
(* induction.  The induction theorems of the library take an operator      *)
(* parameter; here induction is stated about a set instead, which follows  *)
(* from the existence of minimal elements (WFMin).                         *)
(***************************************************************************)
EXTENDS Functions, Integers, FiniteSetTheorems, WellFoundedInduction, TLAPS

NatLess == {ss \in Nat \X Nat : ss[1] < ss[2]}

(* A set that holds zero and every successor holds all naturals.           *)
LEMMA SetInduction ==
  ASSUME NEW T, T \subseteq Nat, 0 \in T, \A n \in T : n + 1 \in T
  PROVE  Nat \subseteq T
<1> DEFINE U == Nat \ T
<1> SUFFICES ASSUME U # {} PROVE FALSE OBVIOUS
<1>1. IsWellFoundedOn(NatLess, Nat)
  BY NatLessThanWellFounded DEF OpToRel, NatLess
<1>2. PICK x \in U : \A y \in U : <<y, x>> \notin NatLess BY <1>1, WFMin
<1>3. x # 0 /\ x - 1 \in Nat OBVIOUS
<1>4. <<x - 1, x>> \in NatLess BY <1>3 DEF NatLess
<1>5. (x - 1) + 1 \in T BY <1>2, <1>3, <1>4
<1>6. x \in Nat /\ (x - 1) + 1 = x OBVIOUS
<1> QED BY <1>5, <1>6

(* A set of subsets that holds each subset whose proper subsets it holds.  *)
LEMMA SubsetInduction ==
  ASSUME NEW S, IsFiniteSet(S), NEW Q,
         \A T \in SUBSET S : (\A U \in SUBSET T : U # T => U \in Q) => T \in Q
  PROVE  SUBSET S \subseteq Q
<1> DEFINE M == {n \in Nat : \A T \in SUBSET S : Cardinality(T) <= n => T \in Q}
<1>f. ASSUME NEW T \in SUBSET S
      PROVE  /\ IsFiniteSet(T) /\ Cardinality(T) \in Nat
             /\ \A U \in SUBSET T : U # T =>
                  Cardinality(U) \in Nat /\ Cardinality(U) < Cardinality(T)
  <2>1. IsFiniteSet(T) /\ Cardinality(T) \in Nat
    BY FS_Subset, FS_CardinalityType
  <2>2. ASSUME NEW U \in SUBSET T, U # T
        PROVE  Cardinality(U) \in Nat /\ Cardinality(U) < Cardinality(T)
    <3>1. IsFiniteSet(U) /\ Cardinality(U) <= Cardinality(T)
          /\ Cardinality(U) # Cardinality(T)
      BY <2>1, <2>2, FS_Subset
    <3> QED BY <2>1, <3>1, FS_CardinalityType
  <2> QED BY <2>1, <2>2
<1>1. 0 \in M
  <2>1. ASSUME NEW T \in SUBSET S, Cardinality(T) <= 0 PROVE T \in Q
    <3>1. \A U \in SUBSET T : U = T BY <1>f, <2>1
    <3> QED BY <3>1
  <2> QED BY <2>1
<1>2. ASSUME NEW n \in M PROVE n + 1 \in M
  <2>1. ASSUME NEW T \in SUBSET S, Cardinality(T) <= n + 1 PROVE T \in Q
    <3>1. ASSUME NEW U \in SUBSET T, U # T PROVE U \in Q
      <4>1. Cardinality(U) <= n BY <1>f, <2>1, <3>1
      <4> QED BY <4>1
    <3> QED BY <3>1
  <2> QED BY <2>1
<1> HIDE DEF M
<1>3. Nat \subseteq M
  <2>1. M \subseteq Nat BY DEF M
  <2> QED BY <1>1, <1>2, <2>1, SetInduction
<1>4. ASSUME NEW T \in SUBSET S PROVE T \in Q BY <1>f, <1>3 DEF M
<1> QED BY <1>4

-----------------------------------------------------------------------------
(* The recursion behind the fold.                                          *)

Pick(s) == CHOOSE x \in s : TRUE

Step(F, g, s) == IF s = {} THEN 0 ELSE F[Pick(s)] + g[s \ {Pick(s)}]

Folds(F, g, S) == g = [s \in SUBSET S |-> Step(F, g, s)]

Fold(F, S) == CHOOSE g : g = [s \in SUBSET S |-> Step(F, g, s)]

LEMMA SumIsFold ==
  ASSUME NEW F, NEW S
  PROVE  SumFunctionOnSet(F, S) = Fold(F, S)[S]
BY DEF SumFunctionOnSet, FoldFunctionOnSet, MapThenFoldSet, Fold, Step, Pick

LEMMA FoldExists ==
  ASSUME NEW S, IsFiniteSet(S), NEW F, \A x \in S : F[x] \in Int
  PROVE  Folds(F, Fold(F, S), S)
<1> DEFINE G == [SUBSET S -> Int]
           Upto(g, n) == \A s \in SUBSET S : Cardinality(s) <= n => g[s] = Step(F, g, s)
           M == {n \in Nat : \E g \in G : Upto(g, n)}
<1>f. ASSUME NEW s \in SUBSET S
      PROVE  /\ Cardinality(s) \in Nat /\ IsFiniteSet(s)
             /\ s = {} <=> Cardinality(s) = 0
             /\ s # {} => /\ Pick(s) \in s /\ s \ {Pick(s)} \in SUBSET S
                          /\ Cardinality(s \ {Pick(s)}) = Cardinality(s) - 1
  <2>1. IsFiniteSet(s) /\ Cardinality(s) \in Nat BY FS_Subset, FS_CardinalityType
  <2>2. s = {} <=> Cardinality(s) = 0 BY <2>1, FS_EmptySet
  <2>3. ASSUME s # {} PROVE Pick(s) \in s BY <2>3 DEF Pick
  <2> QED BY <2>1, <2>2, <2>3, FS_RemoveElement
<1>t. ASSUME NEW g \in G, NEW s \in SUBSET S PROVE Step(F, g, s) \in Int
  <2>1. CASE s = {} BY <2>1 DEF Step
  <2>2. CASE s # {}
    <3>1. Pick(s) \in S /\ s \ {Pick(s)} \in SUBSET S BY <1>f, <2>2
    <3>2. F[Pick(s)] \in Int /\ g[s \ {Pick(s)}] \in Int BY <3>1
    <3> QED BY <2>2, <3>2 DEF Step
  <2> QED BY <2>1, <2>2
<1>1. 0 \in M
  <2> DEFINE g == [s \in SUBSET S |-> 0]
  <2>1. ASSUME NEW s \in SUBSET S, Cardinality(s) <= 0 PROVE g[s] = Step(F, g, s)
    <3>1. Cardinality(s) \in Nat BY <1>f
    <3>2. Cardinality(s) = 0 BY <2>1, <3>1
    <3>3. s = {} BY <1>f, <3>2
    <3> QED BY <3>3 DEF Step
  <2>2. g \in G OBVIOUS
  <2> HIDE DEF g
  <2>3. Upto(g, 0) BY <2>1
  <2> QED BY <2>2, <2>3
<1>2. ASSUME NEW n \in M PROVE n + 1 \in M
  <2>1. PICK g \in G : Upto(g, n) OBVIOUS
  <2> DEFINE h == [s \in SUBSET S |-> IF Cardinality(s) <= n THEN g[s] ELSE Step(F, g, s)]
  <2>2. h \in G BY <1>t
  <2>3. ASSUME NEW s \in SUBSET S, Cardinality(s) <= n + 1 PROVE h[s] = Step(F, h, s)
    <3>1. h[s] = Step(F, g, s) BY <2>1
    <3>2. CASE s = {} BY <3>1, <3>2 DEF Step
    <3>3. CASE s # {}
      <4>1. s \ {Pick(s)} \in SUBSET S /\ Cardinality(s \ {Pick(s)}) <= n
        BY <1>f, <2>3, <3>3
      <4>2. h[s \ {Pick(s)}] = g[s \ {Pick(s)}] BY <4>1
      <4> HIDE DEF h
      <4> QED BY <3>1, <3>3, <4>2 DEF Step
    <3> QED BY <3>2, <3>3
  <2> HIDE DEF h
  <2>4. Upto(h, n + 1) BY <2>3
  <2> QED BY <2>2, <2>4
<1>3. Nat \subseteq M
  <2>1. M \subseteq Nat OBVIOUS
  <2> HIDE DEF M
  <2> QED BY <1>1, <1>2, <2>1, SetInduction
<1>4. PICK g \in G : Upto(g, Cardinality(S))
  <2>1. Cardinality(S) \in M BY <1>3, FS_CardinalityType
  <2> QED BY <2>1
<1>5. \A s \in SUBSET S : Cardinality(s) <= Cardinality(S) BY FS_Subset
<1>6. \A s \in SUBSET S : g[s] = Step(F, g, s) BY <1>4, <1>5
<1>7. g = [s \in SUBSET S |-> Step(F, g, s)] BY <1>6
<1> QED BY <1>7 DEF Fold, Folds

LEMMA FoldType ==
  ASSUME NEW S, IsFiniteSet(S), NEW F, \A x \in S : F[x] \in Int,
         NEW g, Folds(F, g, S)
  PROVE  \A s \in SUBSET S : g[s] \in Int
<1> DEFINE Q == {s \in SUBSET S : g[s] \in Int}
<1>1. ASSUME NEW T \in SUBSET S, \A U \in SUBSET T : U # T => U \in Q
      PROVE  T \in Q
  <2>1. g[T] = Step(F, g, T) BY DEF Folds
  <2>2. CASE T = {} BY <2>1, <2>2 DEF Step
  <2>3. CASE T # {}
    <3>1. Pick(T) \in T BY <2>3 DEF Pick
    <3>2. T \ {Pick(T)} \in Q BY <1>1, <3>1
    <3> QED BY <2>1, <2>3, <3>1, <3>2 DEF Step
  <2> QED BY <2>2, <2>3
<1> HIDE DEF Q
<1>2. SUBSET S \subseteq Q BY <1>1, SubsetInduction
<1> QED BY <1>2 DEF Q

(* Two folds agree on the subsets both speak of, when the functions do.    *)
LEMMA FoldUnique ==
  ASSUME NEW T, IsFiniteSet(T), NEW S, T \subseteq S, NEW F, NEW H,
         \A x \in T : F[x] = H[x],
         NEW g, Folds(F, g, S), NEW h, Folds(H, h, T)
  PROVE  g[T] = h[T]
<1> DEFINE Q == {s \in SUBSET T : g[s] = h[s]}
<1>1. ASSUME NEW U \in SUBSET T, \A V \in SUBSET U : V # U => V \in Q
      PROVE  U \in Q
  <2>1. g[U] = Step(F, g, U) /\ h[U] = Step(H, h, U) BY DEF Folds
  <2>2. CASE U = {} BY <2>1, <2>2 DEF Step
  <2>3. CASE U # {}
    <3>1. Pick(U) \in U BY <2>3 DEF Pick
    <3>2. U \ {Pick(U)} \in Q BY <1>1, <3>1
    <3>3. Pick(U) \in T BY <3>1
    <3> QED BY <2>1, <2>3, <3>2, <3>3 DEF Step
  <2> QED BY <2>2, <2>3
<1> HIDE DEF Q
<1>2. SUBSET T \subseteq Q BY <1>1, SubsetInduction
<1> QED BY <1>2 DEF Q

-----------------------------------------------------------------------------
(* What the sums of this project's modules rest on.                        *)

(* The empty sum is zero.                                                  *)
THEOREM SumEmpty ==
  ASSUME NEW F
  PROVE  SumFunctionOnSet(F, {}) = 0
<1>1. Folds(F, Fold(F, {}), {}) BY FoldExists, FS_EmptySet
<1> QED BY <1>1, SumIsFold DEF Folds, Step

(* A sum of integers is an integer.                                        *)
THEOREM SumType ==
  ASSUME NEW S, IsFiniteSet(S), NEW F, \A x \in S : F[x] \in Int
  PROVE  SumFunctionOnSet(F, S) \in Int
BY FoldExists, FoldType, SumIsFold

(* A sum depends only on the values it adds up.                            *)
THEOREM SumSame ==
  ASSUME NEW S, IsFiniteSet(S), NEW F, NEW H,
         \A x \in S : F[x] \in Int /\ F[x] = H[x]
  PROVE  SumFunctionOnSet(F, S) = SumFunctionOnSet(H, S)
<1>1. Folds(F, Fold(F, S), S) /\ Folds(H, Fold(H, S), S) BY FoldExists
<1>2. Fold(F, S)[S] = Fold(H, S)[S] BY <1>1, FoldUnique
<1> QED BY <1>2, SumIsFold

LEMMA SumPick ==
  ASSUME NEW S, IsFiniteSet(S), NEW F, \A x \in S : F[x] \in Int, S # {}
  PROVE  /\ Pick(S) \in S
         /\ SumFunctionOnSet(F, S) = F[Pick(S)] + SumFunctionOnSet(F, S \ {Pick(S)})
<1> DEFINE T == S \ {Pick(S)}
<1>1. IsFiniteSet(T) BY FS_RemoveElement
<1>2. Folds(F, Fold(F, S), S) /\ Folds(F, Fold(F, T), T) BY <1>1, FoldExists
<1>3. Fold(F, S)[T] = Fold(F, T)[T] BY <1>1, <1>2, FoldUnique
<1>4. Fold(F, S)[S] = Step(F, Fold(F, S), S) BY <1>2 DEF Folds
<1>5. Fold(F, S)[S] = F[Pick(S)] + Fold(F, S)[T] BY <1>4 DEF Step
<1>6. Pick(S) \in S BY DEF Pick
<1> QED BY <1>3, <1>5, <1>6, SumIsFold

(* Any element may be taken out first.                                     *)
THEOREM SumRemove ==
  ASSUME NEW S, IsFiniteSet(S), NEW F, \A x \in S : F[x] \in Int, NEW x \in S
  PROVE  SumFunctionOnSet(F, S) = SumFunctionOnSet(F, S \ {x}) + F[x]
<1> DEFINE Sum(T) == SumFunctionOnSet(F, T)
           Q == {T \in SUBSET S : \A y \in T : Sum(T) = Sum(T \ {y}) + F[y]}
<1>t. ASSUME NEW T \in SUBSET S
      PROVE  /\ IsFiniteSet(T) /\ Sum(T) \in Int
             /\ T # {} => Pick(T) \in T /\ Sum(T) = F[Pick(T)] + Sum(T \ {Pick(T)})
  <2>1. IsFiniteSet(T) /\ \A y \in T : F[y] \in Int BY FS_Subset
  <2> QED BY <2>1, SumType, SumPick
<1> HIDE DEF Sum
<1>1. ASSUME NEW T \in SUBSET S, \A U \in SUBSET T : U # T => U \in Q
      PROVE  T \in Q
  <2> SUFFICES ASSUME NEW y \in T PROVE Sum(T) = Sum(T \ {y}) + F[y] OBVIOUS
  <2> DEFINE p == Pick(T)
  <2>1. p \in T /\ Sum(T) = F[p] + Sum(T \ {p}) BY <1>t
  <2> HIDE DEF p
  <2>2. F[p] \in Int /\ F[y] \in Int BY <2>1
  <2>3. CASE p = y
    <3>1. T \ {y} \in SUBSET S OBVIOUS
    <3>2. Sum(T \ {y}) \in Int BY <1>t, <3>1
    <3>3. Sum(T) = F[y] + Sum(T \ {y}) BY <2>1, <2>3
    <3> QED BY <2>2, <3>2, <3>3
  <2>4. CASE p # y
    <3>1. T \ {p} \in Q /\ T \ {y} \in Q BY <1>1, <2>1
    <3>2. Sum(T \ {p}) = Sum((T \ {p}) \ {y}) + F[y] BY <2>4, <3>1
    <3>3. Sum(T \ {y}) = Sum((T \ {y}) \ {p}) + F[p] BY <2>1, <2>4, <3>1
    <3>4. (T \ {p}) \ {y} = (T \ {y}) \ {p} OBVIOUS
    <3> DEFINE rest == Sum((T \ {y}) \ {p})
    <3>5. rest \in Int
      <4>1. (T \ {y}) \ {p} \in SUBSET S OBVIOUS
      <4> QED BY <1>t, <4>1
    <3>6. Sum(T) = F[p] + (rest + F[y]) BY <2>1, <3>2, <3>4
    <3>7. Sum(T \ {y}) = rest + F[p] BY <3>3
    <3> HIDE DEF rest
    <3> QED BY <2>2, <3>5, <3>6, <3>7
  <2> QED BY <2>3, <2>4
<1> HIDE DEF Q
<1>2. SUBSET S \subseteq Q BY <1>1, SubsetInduction
<1> QED BY <1>2 DEF Q, Sum

(* Adding an element adds its value.                                       *)
THEOREM SumAdd ==
  ASSUME NEW S, IsFiniteSet(S), NEW F, \A x \in S : F[x] \in Int,
         NEW x, x \notin S, F[x] \in Int
  PROVE  SumFunctionOnSet(F, S \cup {x}) = SumFunctionOnSet(F, S) + F[x]
<1> DEFINE T == S \cup {x}
<1>1. IsFiniteSet(T) /\ \A y \in T : F[y] \in Int BY FS_AddElement
<1>2. T \ {x} = S OBVIOUS
<1> HIDE DEF T
<1>3. x \in T BY DEF T
<1> QED BY <1>1, <1>2, <1>3, SumRemove DEF T

(* Changing one value changes the sum by the difference.                   *)
THEOREM SumUpdate ==
  ASSUME NEW S, IsFiniteSet(S), NEW F, NEW H, NEW x, x \in S,
         \A y \in S : F[y] \in Int,
         \A y \in S : H[y] \in Int,
         \A y \in S : y # x => H[y] = F[y]
  PROVE  SumFunctionOnSet(H, S) = SumFunctionOnSet(F, S) - F[x] + H[x]
<1> DEFINE T == S \ {x}
<1>1. IsFiniteSet(T) BY FS_RemoveElement
<1>2. SumFunctionOnSet(H, T) = SumFunctionOnSet(F, T) BY <1>1, SumSame
<1>3. SumFunctionOnSet(F, T) \in Int BY <1>1, SumType
<1>4. SumFunctionOnSet(H, S) = SumFunctionOnSet(H, T) + H[x] BY SumRemove
<1>5. SumFunctionOnSet(F, S) = SumFunctionOnSet(F, T) + F[x] BY SumRemove
<1> QED BY <1>2, <1>3, <1>4, <1>5

(* Sums are monotone in the values.                                        *)
THEOREM SumMonotone ==
  ASSUME NEW S, IsFiniteSet(S), NEW F, NEW H,
         \A x \in S : F[x] \in Int /\ H[x] \in Int /\ F[x] <= H[x]
  PROVE  SumFunctionOnSet(F, S) <= SumFunctionOnSet(H, S)
<1> DEFINE Q == {T \in SUBSET S : SumFunctionOnSet(F, T) <= SumFunctionOnSet(H, T)}
<1>1. ASSUME NEW T \in SUBSET S, \A U \in SUBSET T : U # T => U \in Q
      PROVE  T \in Q
  <2>1. CASE T = {} BY <2>1, SumEmpty
  <2>2. CASE T # {}
    <3>1. PICK x \in T : TRUE BY <2>2
    <3>2. IsFiniteSet(T) /\ IsFiniteSet(T \ {x}) BY FS_Subset, FS_RemoveElement
    <3>3. /\ SumFunctionOnSet(F, T) = SumFunctionOnSet(F, T \ {x}) + F[x]
          /\ SumFunctionOnSet(H, T) = SumFunctionOnSet(H, T \ {x}) + H[x]
      BY <3>2, SumRemove
    <3>4. /\ SumFunctionOnSet(F, T \ {x}) \in Int
          /\ SumFunctionOnSet(H, T \ {x}) \in Int
      BY <3>2, SumType
    <3>5. T \ {x} \in Q BY <1>1
    <3> QED BY <3>3, <3>4, <3>5
  <2> QED BY <2>1, <2>2
<1> HIDE DEF Q
<1>2. SUBSET S \subseteq Q BY <1>1, SubsetInduction
<1> QED BY <1>2 DEF Q

(* A sum whose values are bounded by those of two others.                  *)
THEOREM SumBounded ==
  ASSUME NEW S, IsFiniteSet(S), NEW F, NEW G, NEW H,
         \A x \in S : F[x] \in Int /\ G[x] \in Int /\ H[x] \in Int,
         \A x \in S : F[x] <= G[x] + H[x]
  PROVE  SumFunctionOnSet(F, S) <= SumFunctionOnSet(G, S) + SumFunctionOnSet(H, S)
<1> DEFINE Q == {T \in SUBSET S :
                   SumFunctionOnSet(F, T) <=
                     SumFunctionOnSet(G, T) + SumFunctionOnSet(H, T)}
<1>1. ASSUME NEW T \in SUBSET S, \A U \in SUBSET T : U # T => U \in Q
      PROVE  T \in Q
  <2>1. CASE T = {}
    <3>1. /\ SumFunctionOnSet(F, T) = 0 /\ SumFunctionOnSet(G, T) = 0
          /\ SumFunctionOnSet(H, T) = 0
      BY <2>1, SumEmpty
    <3> QED BY <3>1
  <2>2. CASE T # {}
    <3>1. PICK x \in T : TRUE BY <2>2
    <3> DEFINE U == T \ {x}
    <3>2. IsFiniteSet(T) /\ IsFiniteSet(U) BY FS_Subset, FS_RemoveElement
    <3>3. /\ SumFunctionOnSet(F, T) = SumFunctionOnSet(F, U) + F[x]
          /\ SumFunctionOnSet(G, T) = SumFunctionOnSet(G, U) + G[x]
          /\ SumFunctionOnSet(H, T) = SumFunctionOnSet(H, U) + H[x]
      BY <3>2, SumRemove
    <3>4. /\ SumFunctionOnSet(F, U) \in Int /\ SumFunctionOnSet(G, U) \in Int
          /\ SumFunctionOnSet(H, U) \in Int
      BY <3>2, SumType
    <3>5. U \in Q BY <1>1
    <3> QED BY <3>3, <3>4, <3>5
  <2> QED BY <2>1, <2>2
<1> HIDE DEF Q
<1>2. SUBSET S \subseteq Q BY <1>1, SubsetInduction
<1> QED BY <1>2 DEF Q

(* A sum of naturals is a natural.                                         *)
THEOREM SumNat ==
  ASSUME NEW S, IsFiniteSet(S), NEW F, \A x \in S : F[x] \in Nat
  PROVE  SumFunctionOnSet(F, S) \in Nat
<1> DEFINE Q == {T \in SUBSET S : SumFunctionOnSet(F, T) \in Nat}
<1>1. ASSUME NEW T \in SUBSET S, \A U \in SUBSET T : U # T => U \in Q
      PROVE  T \in Q
  <2>1. CASE T = {} BY <2>1, SumEmpty
  <2>2. CASE T # {}
    <3>1. PICK x \in T : TRUE BY <2>2
    <3>2. IsFiniteSet(T) BY FS_Subset
    <3>3. SumFunctionOnSet(F, T) = SumFunctionOnSet(F, T \ {x}) + F[x]
      BY <3>2, SumRemove
    <3>4. T \ {x} \in Q BY <1>1
    <3> QED BY <3>3, <3>4
  <2> QED BY <2>1, <2>2
<1> HIDE DEF Q
<1>2. SUBSET S \subseteq Q BY <1>1, SubsetInduction
<1> QED BY <1>2 DEF Q

(* A sum of zeros is zero.                                                 *)
THEOREM SumZero ==
  ASSUME NEW S, IsFiniteSet(S), NEW F, \A x \in S : F[x] = 0
  PROVE  SumFunctionOnSet(F, S) = 0
<1> DEFINE Q == {T \in SUBSET S : SumFunctionOnSet(F, T) = 0}
<1>1. ASSUME NEW T \in SUBSET S, \A U \in SUBSET T : U # T => U \in Q
      PROVE  T \in Q
  <2>1. CASE T = {} BY <2>1, SumEmpty
  <2>2. CASE T # {}
    <3>1. PICK x \in T : TRUE BY <2>2
    <3>2. IsFiniteSet(T) /\ \A y \in T : F[y] \in Int BY FS_Subset
    <3>3. SumFunctionOnSet(F, T) = SumFunctionOnSet(F, T \ {x}) + F[x]
      BY <3>2, SumRemove
    <3>4. T \ {x} \in Q BY <1>1
    <3> QED BY <3>3, <3>4
  <2> QED BY <2>1, <2>2
<1> HIDE DEF Q
<1>2. SUBSET S \subseteq Q BY <1>1, SubsetInduction
<1> QED BY <1>2 DEF Q
=============================================================================
