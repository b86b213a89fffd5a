----------------------------- MODULE DataProofs -----------------------------
(***************************************************************************)
(* Lemmas about data, for every size of it: induction over the numbers,    *)
(* over a finite set and over what a fold of the community modules visits  *)
(* (the sets of good values stand for the predicates, as a lemma cannot    *)
(* take one), recursion along a range, the sums the model is written with, *)
(* and the splitters on every index and all label spans of a bounded       *)
(* history.                                                                *)
(***************************************************************************)
EXTENDS Splitters, Sequences, TLAPS, FiniteSetTheorems, WellFoundedInduction

(* A set of naturals has a least element. *)
LEMMA LeastNat ==
  ASSUME NEW T, T \subseteq Nat, T # {}
  PROVE  \E m \in T : \A k \in T : m <= k
<1> DEFINE Less == {ss \in Nat \X Nat : ss[1] < ss[2]}
<1>1. IsWellFoundedOn(Less, Nat)
  BY NatLessThanWellFounded DEF OpToRel
<1>2. PICK m \in T : \A k \in T : ~ (<<k, m>> \in Less)
  <2> HIDE DEF Less
  <2> QED BY <1>1, WFMin
<1>3. ASSUME NEW k \in T PROVE m <= k
  <2>1. m \in Nat /\ k \in Nat /\ <<k, m>> \in Nat \X Nat
    OBVIOUS
  <2>2. ~ (<<k, m>>[1] < <<k, m>>[2])
    BY <1>2, <2>1
  <2> QED BY <2>1, <2>2
<1> QED BY <1>3

(* Induction, for the set of the numbers that are good. *)
LEMMA NatSetInduction ==
  ASSUME NEW Good, 0 \in Good, \A n \in Nat : n \in Good => n + 1 \in Good
  PROVE  Nat \subseteq Good
<1> DEFINE Bad == {n \in Nat : n \notin Good}
<1> SUFFICES ASSUME Bad # {} PROVE FALSE
  OBVIOUS
<1>1. PICK m \in Bad : \A k \in Bad : m <= k
  <2>1. Bad \subseteq Nat /\ Bad # {}
    OBVIOUS
  <2> HIDE DEF Bad
  <2> QED BY <2>1, LeastNat
<1>2. m \in Nat /\ m # 0
  OBVIOUS
<1>3. m - 1 \in Nat /\ m - 1 \notin Bad
  BY <1>1, <1>2
<1>4. (m - 1) + 1 \in Good
  BY <1>3
<1> QED BY <1>2, <1>4

LEMMA FiniteSetInduction ==
  ASSUME NEW S, IsFiniteSet(S), NEW Good, {} \in Good,
         \A T \in SUBSET S : \A x \in S \ T : T \in Good => T \cup {x} \in Good
  PROVE  S \in Good
<1> DEFINE Sizes == {n \in Nat : \A T \in SUBSET S : Cardinality(T) = n => T \in Good}
<1>1. 0 \in Sizes
  <2> SUFFICES ASSUME NEW T \in SUBSET S, Cardinality(T) = 0 PROVE T \in Good
    OBVIOUS
  <2>1. IsFiniteSet(T)
    BY FS_Subset
  <2> QED BY <2>1, FS_EmptySet
<1>2. ASSUME NEW n \in Nat, n \in Sizes PROVE n + 1 \in Sizes
  <2> SUFFICES ASSUME NEW T \in SUBSET S, Cardinality(T) = n + 1 PROVE T \in Good
    OBVIOUS
  <2>1. IsFiniteSet(T) /\ T # {}
    BY FS_Subset, FS_EmptySet
  <2>2. PICK x \in T : TRUE
    BY <2>1
  <2>3. Cardinality(T \ {x}) = n
    <3>1. Cardinality(T \ {x}) = Cardinality(T) - 1
      BY <2>1, FS_RemoveElement
    <3> QED BY <3>1
  <2>4. T \ {x} \in Good
    BY <1>2, <2>3
  <2>5. T \ {x} \in SUBSET S /\ x \in S \ (T \ {x}) /\ (T \ {x}) \cup {x} = T
    OBVIOUS
  <2> QED BY <2>4, <2>5
<1>3. Nat \subseteq Sizes
  <2> HIDE DEF Sizes
  <2> QED BY <1>1, <1>2, NatSetInduction
<1>4. Cardinality(S) \in Nat
  BY FS_CardinalityType
<1> QED BY <1>3, <1>4

-----------------------------------------------------------------------------
(* Folds: step applied to an element that pick takes out of the set and    *)
(* to the fold of the rest, from base for the empty set.                   *)
Picks(pick, S) == \A s \in SUBSET S : s # {} => pick[s] \in s
Grows(Good, pick, S) ==
  {} \in Good /\ \A s \in SUBSET S : s # {} /\ s \ {pick[s]} \in Good => s \in Good

FoldOf(g, S, base, step, pick) ==
  g = [s \in SUBSET S |-> IF s = {} THEN base ELSE step[<<pick[s], g[s \ {pick[s]}]>>]]

LEMMA FoldExists ==
  ASSUME NEW S, IsFiniteSet(S), NEW V, NEW base \in V, NEW step \in [S \X V -> V],
         NEW pick, Picks(pick, S)
  PROVE  \E g \in [SUBSET S -> V] : FoldOf(g, S, base, step, pick)
<1> DEFINE D(n) == {s \in SUBSET S : Cardinality(s) <= n}
           IsFold(g, n) == /\ g \in [D(n) -> V]
                           /\ \A s \in D(n) : g[s] = IF s = {} THEN base
                                                   ELSE step[<<pick[s], g[s \ {pick[s]}]>>]
           Sizes == {n \in Nat : \E g : IsFold(g, n)}
<1> USE DEF Picks
<1>1. \A s \in SUBSET S : IsFiniteSet(s) /\ Cardinality(s) \in Nat
  BY FS_Subset, FS_CardinalityType
<1>2. 0 \in Sizes
  <2> DEFINE g == [s \in D(0) |-> base]
  <2>1. \A s \in D(0) : s = {}
    BY <1>1, FS_EmptySet
  <2>2. IsFold(g, 0)
    BY <2>1
  <2> QED BY <2>2
<1>3. ASSUME NEW n \in Nat, n \in Sizes PROVE n + 1 \in Sizes
  <2>1. PICK g : IsFold(g, n)
    BY <1>3
  <2> DEFINE h == [s \in D(n + 1) |-> IF s = {} THEN base ELSE step[<<pick[s], g[s \ {pick[s]}]>>]]
  <2>2. \A s \in D(n) : s \in D(n + 1) /\ h[s] = g[s]
    <3>1. \A s \in D(n) : s \in D(n + 1)
      BY <1>1
    <3> QED BY <2>1, <3>1
  <2>3. ASSUME NEW s \in D(n + 1), s # {} PROVE s \ {pick[s]} \in D(n) /\ pick[s] \in S
    <3>1. pick[s] \in s /\ IsFiniteSet(s) /\ Cardinality(s) \in Nat /\ Cardinality(s) <= n + 1
      BY <1>1, <2>3
    <3>2. Cardinality(s \ {pick[s]}) = Cardinality(s) - 1
      BY <3>1, FS_RemoveElement
    <3> QED BY <3>1, <3>2
  <2>4. IsFold(h, n + 1)
    <3>1. ASSUME NEW s \in D(n + 1)
          PROVE  h[s] \in V /\ h[s] = IF s = {} THEN base ELSE step[<<pick[s], h[s \ {pick[s]}]>>]
      <4>1. CASE s = {}
        BY <4>1
      <4>2. CASE s # {}
        <5> DEFINE r == s \ {pick[s]}
        <5>1. r \in D(n) /\ pick[s] \in S
          BY <2>3, <4>2
        <5>2. h[s] = step[<<pick[s], g[r]>>] /\ h[r] = g[r]
          BY <4>2, <5>1, <2>2
        <5>3. g[r] \in V
          BY <2>1, <5>1
        <5> HIDE DEF r, h, D
        <5>4. step[<<pick[s], g[r]>>] \in V
          BY <5>1, <5>3
        <5> QED BY <4>2, <5>2, <5>4 DEF r
      <4> QED BY <4>1, <4>2
    <3>2. h \in [D(n + 1) -> V]
      <4>1. h = [s \in D(n + 1) |-> h[s]]
        OBVIOUS
      <4> HIDE DEF h, D
      <4> QED BY <3>1, <4>1
    <3> QED BY <3>1, <3>2
  <2>5. \E f : IsFold(f, n + 1)
    <3> HIDE DEF h, IsFold
    <3> QED BY <2>4
  <2> HIDE DEF IsFold
  <2> QED BY <2>5
<1>4. Nat \subseteq Sizes
  <2> HIDE DEF Sizes
  <2> QED BY <1>2, <1>3, NatSetInduction
<1>5. D(Cardinality(S)) = SUBSET S
  BY FS_Subset, <1>1
<1>6. Cardinality(S) \in Sizes
  BY <1>1, <1>4
<1>7. PICK g : IsFold(g, Cardinality(S))
  BY <1>6
<1>8. g \in [SUBSET S -> V]
  BY <1>5, <1>7
<1>9. \A s \in SUBSET S : g[s] = IF s = {} THEN base ELSE step[<<pick[s], g[s \ {pick[s]}]>>]
  BY <1>5, <1>7
<1>10. FoldOf(g, S, base, step, pick)
  BY <1>8, <1>9 DEF FoldOf
<1> QED BY <1>8, <1>10

(* What a fold visits: sets that lose the picked element, one at a time. *)
LEMMA FoldInduction ==
  ASSUME NEW S, IsFiniteSet(S), NEW pick, Picks(pick, S), NEW Good, Grows(Good, pick, S)
  PROVE  SUBSET S \subseteq Good
<1> DEFINE Sizes == {n \in Nat : \A s \in SUBSET S : Cardinality(s) = n => s \in Good}
<1>1. \A s \in SUBSET S : IsFiniteSet(s) /\ Cardinality(s) \in Nat
  BY FS_Subset, FS_CardinalityType
<1> USE DEF Picks, Grows
<1>2. 0 \in Sizes
  BY <1>1, FS_EmptySet
<1>3. ASSUME NEW n \in Nat, n \in Sizes PROVE n + 1 \in Sizes
  <2> SUFFICES ASSUME NEW s \in SUBSET S, Cardinality(s) = n + 1 PROVE s \in Good
    OBVIOUS
  <2>1. s # {} /\ IsFiniteSet(s)
    BY <1>1, FS_EmptySet
  <2>2. Cardinality(s \ {pick[s]}) = Cardinality(s) - 1
    BY <2>1, FS_RemoveElement
  <2>3. Cardinality(s \ {pick[s]}) = n
    BY <2>2
  <2>4. s \ {pick[s]} \in Good
    BY <1>3, <2>3
  <2> QED BY <2>1, <2>4
<1>4. Nat \subseteq Sizes
  <2> HIDE DEF Sizes
  <2> QED BY <1>2, <1>3, NatSetInduction
<1> QED BY <1>1, <1>4

-----------------------------------------------------------------------------
(* Sums. *)

Pick(s) == CHOOSE x \in s : TRUE

IsSum(g, f, S) ==
  \A s \in SUBSET S : g[s] = IF s = {} THEN 0 ELSE f[Pick(s)] + g[s \ {Pick(s)}]

LEMMA SumIsFold ==
  ASSUME NEW S, IsFiniteSet(S), NEW f, \A x \in S : f[x] \in Int
  PROVE  \E g \in [SUBSET S -> Int] : IsSum(g, f, S) /\ SumFunctionOnSet(f, S) = g[S]
<1> DEFINE step == [xv \in S \X Int |-> f[xv[1]] + xv[2]]
           pick == [s \in SUBSET S |-> Pick(s)]
           Eqn(g) == g = [s \in SUBSET S |-> IF s = {} THEN 0 ELSE f[Pick(s)] + g[s \ {Pick(s)}]]
<1>1. step \in [S \X Int -> Int]
  OBVIOUS
<1>2. Picks(pick, S) /\ \A s \in SUBSET S : s # {} => Pick(s) \in s /\ pick[s] = Pick(s)
  BY DEF Pick, Picks
<1>3. PICK g \in [SUBSET S -> Int] : FoldOf(g, S, 0, step, pick)
  <2>1. 0 \in Int
    OBVIOUS
  <2> HIDE DEF step, pick, Eqn
  <2> QED BY <1>1, <1>2, <2>1, FoldExists, Zenon
<1>4. ASSUME NEW s \in SUBSET S
      PROVE  g[s] = IF s = {} THEN 0 ELSE f[Pick(s)] + g[s \ {Pick(s)}]
  <2>1. g[s] = IF s = {} THEN 0 ELSE step[<<pick[s], g[s \ {pick[s]}]>>]
    BY <1>3 DEF FoldOf
  <2>2. CASE s # {}
    <3>1. pick[s] = Pick(s) /\ Pick(s) \in S
      BY <1>2, <2>2
    <3>2. g[s \ {Pick(s)}] \in Int
      BY <1>3
    <3>3. step[<<Pick(s), g[s \ {Pick(s)}]>>] = f[Pick(s)] + g[s \ {Pick(s)}]
      BY <3>1, <3>2
    <3> QED BY <2>1, <2>2, <3>1, <3>3
  <2> QED BY <2>1, <2>2
<1>5. Eqn(g)
  BY <1>4
<1>6. Eqn(CHOOSE c : Eqn(c))
  <2> HIDE DEF Eqn
  <2> QED BY <1>5
<1> DEFINE c == CHOOSE c : Eqn(c)
<1>7. SumFunctionOnSet(f, S) = c[S]
  BY Zenon DEF SumFunctionOnSet, FoldFunctionOnSet, MapThenFoldSet, Pick
<1>8. \A s \in SUBSET S : c[s] = IF s = {} THEN 0 ELSE f[Pick(s)] + c[s \ {Pick(s)}]
  <2>1. Eqn(c)
    BY <1>6
  <2> HIDE DEF c
  <2> QED BY <2>1
<1> HIDE DEF c, Eqn
<1>9. \A s \in SUBSET S : c[s] = g[s]
  <2> DEFINE Good == {s \in SUBSET S : c[s] = g[s]}
  <2>1. Grows(Good, pick, S)
    BY <1>2, <1>4, <1>8 DEF Grows
  <2> HIDE DEF Good, pick
  <2>2. SUBSET S \subseteq Good
    BY <1>2, <2>1, FoldInduction
  <2> QED BY <2>2 DEF Good
<1> QED BY <1>4, <1>7, <1>9 DEF IsSum

LEMMA SumEmpty ==
  ASSUME NEW f
  PROVE  SumFunctionOnSet(f, {}) = 0
<1>1. IsFiniteSet({})
  BY FS_EmptySet
<1>2. PICK g \in [SUBSET {} -> Int] : IsSum(g, f, {}) /\ SumFunctionOnSet(f, {}) = g[{}]
  BY <1>1, SumIsFold
<1> QED BY <1>2 DEF IsSum

(* The picked element is nothing special: any can be taken out first. *)
AnyFirst(g, f, S) == \A s \in SUBSET S : \A y \in s : g[s] = f[y] + g[s \ {y}]

LEMMA SumAnyFirst ==
  ASSUME NEW S, IsFiniteSet(S), NEW f, \A x \in S : f[x] \in Int,
         NEW g \in [SUBSET S -> Int], IsSum(g, f, S)
  PROVE  AnyFirst(g, f, S)
<1> DEFINE Free(s) == \A y \in s : g[s] = f[y] + g[s \ {y}]
           Sizes == {n \in Nat : \A s \in SUBSET S : Cardinality(s) = n => Free(s)}
<1>1. \A s \in SUBSET S : IsFiniteSet(s) /\ Cardinality(s) \in Nat
  BY FS_Subset, FS_CardinalityType
<1>2. 0 \in Sizes
  BY <1>1, FS_EmptySet
<1>3. ASSUME NEW n \in Nat, n \in Sizes PROVE n + 1 \in Sizes
  <2> SUFFICES ASSUME NEW s \in SUBSET S, Cardinality(s) = n + 1, NEW y \in s
               PROVE  g[s] = f[y] + g[s \ {y}]
    OBVIOUS
  <2> DEFINE p == Pick(s)
  <2>1. p \in s /\ g[s] = f[p] + g[s \ {p}]
    BY DEF Pick, IsSum
  <2>2. CASE y = p
    BY <2>1, <2>2
  <2>3. CASE y # p
    <3> HIDE DEF p
    <3>1. \A z \in s : Cardinality(s \ {z}) = n
      <4> TAKE z \in s
      <4>1. Cardinality(s \ {z}) = Cardinality(s) - 1
        BY <1>1, FS_RemoveElement
      <4> QED BY <4>1
    <3>2. y \in s \ {p} /\ p \in s \ {y} /\ (s \ {p}) \ {y} = (s \ {y}) \ {p}
      BY <2>1, <2>3
    <3>3. Free(s \ {p}) /\ Free(s \ {y})
      BY <1>3, <2>1, <3>1
    <3> DEFINE rest == g[(s \ {p}) \ {y}]
    <3>4. g[s \ {p}] = f[y] + rest /\ g[s \ {y}] = f[p] + rest
      BY <3>2, <3>3
    <3>5. rest \in Int /\ f[y] \in Int /\ f[p] \in Int
      BY <2>1
    <3> HIDE DEF rest
    <3> QED BY <2>1, <3>4, <3>5
  <2> QED BY <2>2, <2>3
<1>4. Nat \subseteq Sizes
  <2> HIDE DEF Sizes
  <2> QED BY <1>2, <1>3, NatSetInduction
<1> QED BY <1>1, <1>4 DEF AnyFirst

(* A sum over a subset is the value of the same fold. *)
LEMMA SumRestricted ==
  ASSUME NEW S, IsFiniteSet(S), NEW f, \A x \in S : f[x] \in Int,
         NEW g \in [SUBSET S -> Int], IsSum(g, f, S), NEW T \in SUBSET S
  PROVE  SumFunctionOnSet(f, T) = g[T]
<1>1. IsFiniteSet(T) /\ \A x \in T : f[x] \in Int
  BY FS_Subset
<1>2. PICK h \in [SUBSET T -> Int] : IsSum(h, f, T) /\ SumFunctionOnSet(f, T) = h[T]
  BY <1>1, SumIsFold
<1> DEFINE pick == [s \in SUBSET T |-> Pick(s)]
           Good == {s \in SUBSET T : h[s] = g[s]}
<1>3. Picks(pick, T) /\ \A s \in SUBSET T : s # {} => Pick(s) \in s /\ pick[s] = Pick(s)
  BY DEF Pick, Picks
<1>4. Grows(Good, pick, T)
  <2>1. {} \in Good
    BY <1>2 DEF IsSum
  <2>2. ASSUME NEW s \in SUBSET T, s # {}, s \ {pick[s]} \in Good PROVE s \in Good
    <3>1. pick[s] = Pick(s) /\ s \in SUBSET S
      BY <1>3, <2>2
    <3>2. h[s \ {Pick(s)}] = g[s \ {Pick(s)}]
      BY <2>2, <3>1
    <3>3. h[s] = f[Pick(s)] + h[s \ {Pick(s)}] /\ g[s] = f[Pick(s)] + g[s \ {Pick(s)}]
      BY <1>2, <2>2, <3>1 DEF IsSum
    <3> QED BY <3>2, <3>3
  <2> QED BY <2>1, <2>2 DEF Grows
<1>5. SUBSET T \subseteq Good
  <2> HIDE DEF Good, pick
  <2> QED BY <1>1, <1>3, <1>4, FoldInduction
<1> QED BY <1>2, <1>5

LEMMA SumInt ==
  ASSUME NEW S, IsFiniteSet(S), NEW f, \A x \in S : f[x] \in Int
  PROVE  SumFunctionOnSet(f, S) \in Int
<1>1. PICK g \in [SUBSET S -> Int] : SumFunctionOnSet(f, S) = g[S]
  BY SumIsFold
<1> QED BY <1>1

LEMMA SumInsert ==
  ASSUME NEW S, IsFiniteSet(S), NEW x, x \notin S,
         NEW f, \A y \in S \cup {x} : f[y] \in Int
  PROVE  SumFunctionOnSet(f, S \cup {x}) = f[x] + SumFunctionOnSet(f, S)
<1> DEFINE U == S \cup {x}
<1>1. IsFiniteSet(U)
  BY FS_AddElement
<1>2. \A y \in U : f[y] \in Int
  OBVIOUS
<1> HIDE DEF U
<1>3. PICK g \in [SUBSET U -> Int] : IsSum(g, f, U) /\ SumFunctionOnSet(f, U) = g[U]
  BY <1>1, <1>2, SumIsFold
<1>4. S \in SUBSET U /\ x \in U /\ U \ {x} = S
  BY DEF U
<1>5. g[U] = f[x] + g[S]
  <2>1. AnyFirst(g, f, U)
    BY <1>1, <1>2, <1>3, SumAnyFirst
  <2> QED BY <2>1, <1>4 DEF AnyFirst
<1>6. SumFunctionOnSet(f, S) = g[S]
  BY <1>1, <1>2, <1>3, <1>4, SumRestricted
<1> QED BY <1>3, <1>5, <1>6 DEF U

LEMMA SumEqual ==
  ASSUME NEW S, IsFiniteSet(S), NEW f, NEW h,
         \A x \in S : f[x] \in Int /\ f[x] = h[x]
  PROVE  SumFunctionOnSet(f, S) = SumFunctionOnSet(h, S)
<1> DEFINE Good == {T \in SUBSET S : SumFunctionOnSet(f, T) = SumFunctionOnSet(h, T)}
<1>1. {} \in Good
  BY SumEmpty
<1>2. ASSUME NEW T \in SUBSET S, NEW x \in S \ T, T \in Good PROVE T \cup {x} \in Good
  <2>1. IsFiniteSet(T)
    BY FS_Subset
  <2>2. SumFunctionOnSet(f, T \cup {x}) = f[x] + SumFunctionOnSet(f, T)
    BY <2>1, SumInsert
  <2>3. SumFunctionOnSet(h, T \cup {x}) = h[x] + SumFunctionOnSet(h, T)
    BY <2>1, SumInsert
  <2> QED BY <1>2, <2>2, <2>3
<1>3. S \in Good
  <2> HIDE DEF Good
  <2> QED BY <1>1, <1>2, FiniteSetInduction
<1> QED BY <1>3

LEMMA SumMonotone ==
  ASSUME NEW S, IsFiniteSet(S), NEW f, NEW h,
         \A x \in S : f[x] \in Int /\ h[x] \in Int /\ f[x] <= h[x]
  PROVE  SumFunctionOnSet(f, S) <= SumFunctionOnSet(h, S)
<1> DEFINE Good == {T \in SUBSET S : SumFunctionOnSet(f, T) <= SumFunctionOnSet(h, T)}
<1>1. {} \in Good
  BY SumEmpty
<1>2. ASSUME NEW T \in SUBSET S, NEW x \in S \ T, T \in Good PROVE T \cup {x} \in Good
  <2>1. IsFiniteSet(T)
    BY FS_Subset
  <2>2. SumFunctionOnSet(f, T \cup {x}) = f[x] + SumFunctionOnSet(f, T)
    BY <2>1, SumInsert
  <2>3. SumFunctionOnSet(h, T \cup {x}) = h[x] + SumFunctionOnSet(h, T)
    BY <2>1, SumInsert
  <2>4. SumFunctionOnSet(f, T) \in Int /\ SumFunctionOnSet(h, T) \in Int
    BY <2>1, SumInt
  <2> QED BY <1>2, <2>2, <2>3, <2>4
<1>3. S \in Good
  <2> HIDE DEF Good
  <2> QED BY <1>1, <1>2, FiniteSetInduction
<1> QED BY <1>3

LEMMA SumPlus ==
  ASSUME NEW S, IsFiniteSet(S), NEW f, NEW h, NEW k,
         \A x \in S : f[x] \in Int /\ h[x] \in Int /\ k[x] = f[x] + h[x]
  PROVE  SumFunctionOnSet(k, S) = SumFunctionOnSet(f, S) + SumFunctionOnSet(h, S)
<1> DEFINE Good == {T \in SUBSET S : SumFunctionOnSet(k, T) = SumFunctionOnSet(f, T) + SumFunctionOnSet(h, T)}
<1>1. {} \in Good
  BY SumEmpty
<1>2. ASSUME NEW T \in SUBSET S, NEW x \in S \ T, T \in Good PROVE T \cup {x} \in Good
  <2>1. IsFiniteSet(T)
    BY FS_Subset
  <2>2. SumFunctionOnSet(f, T \cup {x}) = f[x] + SumFunctionOnSet(f, T)
    BY <2>1, SumInsert
  <2>3. SumFunctionOnSet(h, T \cup {x}) = h[x] + SumFunctionOnSet(h, T)
    BY <2>1, SumInsert
  <2>4. SumFunctionOnSet(k, T \cup {x}) = k[x] + SumFunctionOnSet(k, T)
    <3>1. \A y \in T \cup {x} : k[y] \in Int
      OBVIOUS
    <3> QED BY <2>1, <3>1, SumInsert
  <2>5. SumFunctionOnSet(f, T) \in Int /\ SumFunctionOnSet(h, T) \in Int
    BY <2>1, SumInt
  <2> QED BY <1>2, <2>2, <2>3, <2>4, <2>5
<1>3. S \in Good
  <2> HIDE DEF Good
  <2> QED BY <1>1, <1>2, FiniteSetInduction
<1> QED BY <1>3

LEMMA SumTimes ==
  ASSUME NEW S, IsFiniteSet(S), NEW c \in Int, NEW f, NEW k,
         \A x \in S : f[x] \in Int /\ k[x] = c * f[x]
  PROVE  SumFunctionOnSet(k, S) = c * SumFunctionOnSet(f, S)
<1> DEFINE Good == {T \in SUBSET S : SumFunctionOnSet(k, T) = c * SumFunctionOnSet(f, T)}
<1>1. {} \in Good
  BY SumEmpty
<1>2. ASSUME NEW T \in SUBSET S, NEW x \in S \ T, T \in Good PROVE T \cup {x} \in Good
  <2>1. IsFiniteSet(T)
    BY FS_Subset
  <2>2. SumFunctionOnSet(f, T \cup {x}) = f[x] + SumFunctionOnSet(f, T)
    BY <2>1, SumInsert
  <2>3. SumFunctionOnSet(k, T \cup {x}) = k[x] + SumFunctionOnSet(k, T)
    <3>1. \A y \in T \cup {x} : k[y] \in Int
      OBVIOUS
    <3> QED BY <2>1, <3>1, SumInsert
  <2>4. SumFunctionOnSet(f, T) \in Int
    BY <2>1, SumInt
  <2> QED BY <1>2, <2>2, <2>3, <2>4
<1>3. S \in Good
  <2> HIDE DEF Good
  <2> QED BY <1>1, <1>2, FiniteSetInduction
<1> QED BY <1>3

LEMMA SumConstant ==
  ASSUME NEW S, IsFiniteSet(S), NEW c \in Int, NEW f, \A x \in S : f[x] = c
  PROVE  SumFunctionOnSet(f, S) = c * Cardinality(S)
<1> DEFINE Good == {T \in SUBSET S : SumFunctionOnSet(f, T) = c * Cardinality(T)}
<1>1. {} \in Good
  BY SumEmpty, FS_EmptySet
<1>2. ASSUME NEW T \in SUBSET S, NEW x \in S \ T, T \in Good PROVE T \cup {x} \in Good
  <2>1. IsFiniteSet(T) /\ Cardinality(T) \in Nat
    BY FS_Subset, FS_CardinalityType
  <2>2. SumFunctionOnSet(f, T \cup {x}) = f[x] + SumFunctionOnSet(f, T)
    <3>1. \A y \in T \cup {x} : f[y] \in Int
      OBVIOUS
    <3> QED BY <2>1, <3>1, SumInsert
  <2>3. Cardinality(T \cup {x}) = Cardinality(T) + 1
    BY <2>1, FS_AddElement
  <2> QED BY <1>2, <2>1, <2>2, <2>3
<1>3. S \in Good
  <2> HIDE DEF Good
  <2> QED BY <1>1, <1>2, FiniteSetInduction
<1> QED BY <1>3

(* Elements that add nothing can be left out. *)
LEMMA SumSupport ==
  ASSUME NEW S, IsFiniteSet(S), NEW T \in SUBSET S, NEW f,
         \A x \in T : f[x] \in Int, \A x \in S \ T : f[x] = 0
  PROVE  SumFunctionOnSet(f, S) = SumFunctionOnSet(f, T)
<1> DEFINE Good == {R \in SUBSET (S \ T) : SumFunctionOnSet(f, T \cup R) = SumFunctionOnSet(f, T)}
<1>1. {} \in Good
  <2>1. T \cup {} = T
    OBVIOUS
  <2> QED BY <2>1
<1>2. ASSUME NEW R \in SUBSET (S \ T), NEW x \in (S \ T) \ R, R \in Good PROVE R \cup {x} \in Good
  <2>1. T \cup (R \cup {x}) = (T \cup R) \cup {x} /\ x \notin T \cup R
    OBVIOUS
  <2>2. IsFiniteSet(T \cup R) /\ \A y \in (T \cup R) \cup {x} : f[y] \in Int
    BY FS_Subset
  <2>3. SumFunctionOnSet(f, (T \cup R) \cup {x}) = f[x] + SumFunctionOnSet(f, T \cup R)
    BY <2>1, <2>2, SumInsert
  <2>4. SumFunctionOnSet(f, T \cup R) \in Int
    BY <2>2, SumInt
  <2> QED BY <1>2, <2>1, <2>3, <2>4
<1>3. S \ T \in Good
  <2> HIDE DEF Good
  <2>1. IsFiniteSet(S \ T)
    BY FS_Subset
  <2> QED BY <1>1, <1>2, <2>1, FiniteSetInduction
<1>4. T \cup (S \ T) = S
  OBVIOUS
<1> QED BY <1>3, <1>4

LEMMA SumPositive ==
  ASSUME NEW S, IsFiniteSet(S), NEW f, \A x \in S : f[x] \in Nat
  PROVE  /\ SumFunctionOnSet(f, S) \in Nat
         /\ \A x \in S : f[x] <= SumFunctionOnSet(f, S)
<1>1. \A T \in SUBSET S : SumFunctionOnSet(f, T) \in Nat
  <2> TAKE T \in SUBSET S
  <2> DEFINE zero == [x \in T |-> 0]
  <2>1. IsFiniteSet(T)
    BY FS_Subset
  <2>2. SumFunctionOnSet(zero, T) = 0 * Cardinality(T)
    BY <2>1, SumConstant
  <2>3. SumFunctionOnSet(zero, T) <= SumFunctionOnSet(f, T)
    <3>1. \A x \in T : zero[x] \in Int /\ f[x] \in Int /\ zero[x] <= f[x]
      OBVIOUS
    <3> HIDE DEF zero
    <3> QED BY <2>1, <3>1, SumMonotone
  <2>4. SumFunctionOnSet(f, T) \in Int /\ Cardinality(T) \in Nat
    BY <2>1, SumInt, FS_CardinalityType
  <2> QED BY <2>2, <2>3, <2>4
<1>2. ASSUME NEW x \in S PROVE f[x] <= SumFunctionOnSet(f, S)
  <2>1. IsFiniteSet(S \ {x}) /\ (S \ {x}) \cup {x} = S
    BY FS_Subset
  <2>2. SumFunctionOnSet(f, (S \ {x}) \cup {x}) = f[x] + SumFunctionOnSet(f, S \ {x})
    BY <2>1, SumInsert
  <2>3. SumFunctionOnSet(f, S \ {x}) \in Nat
    BY <1>1
  <2>4. SumFunctionOnSet(f, S) = f[x] + SumFunctionOnSet(f, S \ {x})
    BY <2>1, <2>2
  <2> QED BY <2>3, <2>4
<1> QED BY <1>1, <1>2

(* Double counting: a weight summed over every span that holds it.         *)
LEMMA DoubleCount ==
  ASSUME NEW E, IsFiniteSet(E), NEW B, IsFiniteSet(B), NEW w, \A b \in B : w[b] \in Int,
         NEW span, \A e \in E : span[e] \subseteq B,
         NEW inner, \A e \in E : inner[e] = SumFunctionOnSet(w, span[e]),
         NEW counted, \A b \in B : counted[b] = Cardinality({e \in E : b \in span[e]}) * w[b]
  PROVE  SumFunctionOnSet(inner, E) = SumFunctionOnSet(counted, B)
<1> DEFINE Holding(F, b) == {e \in F : b \in span[e]}
           Count(F) == [b \in B |-> Cardinality(Holding(F, b)) * w[b]]
           Good == {F \in SUBSET E : SumFunctionOnSet(inner, F) = SumFunctionOnSet(Count(F), B)}
<1>1. \A F \in SUBSET E : \A b \in B : IsFiniteSet(Holding(F, b)) /\ Cardinality(Holding(F, b)) \in Nat
  BY FS_Subset, FS_CardinalityType
<1>2. {} \in Good
  <2>1. \A b \in B : Count({})[b] = 0
    <3> TAKE b \in B
    <3>1. Holding({}, b) = {}
      OBVIOUS
    <3>2. Cardinality(Holding({}, b)) = 0
      BY <3>1, FS_EmptySet
    <3> QED BY <3>2
  <2>2. SumFunctionOnSet(Count({}), B) = 0 * Cardinality(B)
    <3> HIDE DEF Count
    <3> QED BY <2>1, SumConstant
  <2> QED BY <2>2, SumEmpty, FS_CardinalityType
<1>3. ASSUME NEW F \in SUBSET E, NEW x \in E \ F, F \in Good PROVE F \cup {x} \in Good
  <2> DEFINE on == [b \in B |-> IF b \in span[x] THEN w[b] ELSE 0]
  <2>1. IsFiniteSet(F) /\ span[x] \in SUBSET B /\ IsFiniteSet(span[x])
    BY FS_Subset
  <2>2. SumFunctionOnSet(inner, F \cup {x}) = inner[x] + SumFunctionOnSet(inner, F)
    <3>1. \A y \in F \cup {x} : inner[y] \in Int
      <4> TAKE y \in F \cup {x}
      <4>1. IsFiniteSet(span[y]) /\ \A b \in span[y] : w[b] \in Int
        BY FS_Subset
      <4> QED BY <4>1, SumInt
    <3> QED BY <2>1, <3>1, SumInsert
  <2>3. SumFunctionOnSet(on, B) = inner[x]
    <3>1. SumFunctionOnSet(on, B) = SumFunctionOnSet(on, span[x])
      <4>1. (\A b \in span[x] : on[b] \in Int) /\ \A b \in B \ span[x] : on[b] = 0
        OBVIOUS
      <4> HIDE DEF on
      <4> QED BY <2>1, <4>1, SumSupport
    <3>2. SumFunctionOnSet(on, span[x]) = SumFunctionOnSet(w, span[x])
      <4>1. \A b \in span[x] : on[b] \in Int /\ on[b] = w[b]
        OBVIOUS
      <4> HIDE DEF on
      <4> QED BY <2>1, <4>1, SumEqual
    <3> QED BY <3>1, <3>2
  <2>4. ASSUME NEW b \in B
        PROVE  Count(F)[b] \in Int /\ on[b] \in Int /\ Count(F \cup {x})[b] = Count(F)[b] + on[b]
    <3> DEFINE c == Cardinality(Holding(F, b))
    <3>1. c \in Nat /\ w[b] \in Int
      BY <1>1
    <3>2. CASE b \in span[x]
      <4>1. Holding(F \cup {x}, b) = Holding(F, b) \cup {x} /\ x \notin Holding(F, b)
        BY <3>2
      <4>2. Cardinality(Holding(F \cup {x}, b)) = c + 1
        <5> HIDE DEF Holding
        <5> QED BY <1>1, <4>1, FS_AddElement
      <4>3. (c + 1) * w[b] = c * w[b] + w[b]
        <5> DEFINE v == w[b]
        <5>1. v \in Int
          BY <3>1
        <5> HIDE DEF c, v
        <5>2. (c + 1) * v = c * v + v
          BY <3>1, <5>1
        <5> QED BY <5>2 DEF v
      <4>4. Count(F \cup {x})[b] = (c + 1) * w[b] /\ Count(F)[b] = c * w[b] /\ on[b] = w[b]
        BY <4>2, <3>2
      <4> HIDE DEF c, Count, on
      <4> QED BY <3>1, <4>3, <4>4
    <3>3. CASE b \notin span[x]
      <4>1. Holding(F \cup {x}, b) = Holding(F, b)
        BY <3>3
      <4>2. Count(F \cup {x})[b] = c * w[b] /\ Count(F)[b] = c * w[b] /\ on[b] = 0
        BY <4>1, <3>3
      <4> HIDE DEF c, Count, on
      <4> QED BY <3>1, <4>2
    <3> QED BY <3>2, <3>3
  <2>5. SumFunctionOnSet(Count(F \cup {x}), B)
          = SumFunctionOnSet(Count(F), B) + SumFunctionOnSet(on, B)
    <3> HIDE DEF Count, on
    <3> QED BY <2>4, SumPlus
  <2>6. SumFunctionOnSet(Count(F), B) \in Int /\ SumFunctionOnSet(on, B) \in Int
    <3> HIDE DEF Count, on
    <3> QED BY <2>4, SumInt
  <2>7. SumFunctionOnSet(inner, F \cup {x}) = SumFunctionOnSet(Count(F \cup {x}), B)
    <3>1. SumFunctionOnSet(inner, F) = SumFunctionOnSet(Count(F), B)
      BY <1>3
    <3> HIDE DEF Count, on
    <3> QED BY <2>2, <2>3, <2>5, <2>6, <3>1
  <2> HIDE DEF Count, on
  <2> QED BY <2>7
<1>4. E \in Good
  <2> HIDE DEF Good
  <2> QED BY <1>2, <1>3, FiniteSetInduction
<1>5. SumFunctionOnSet(Count(E), B) = SumFunctionOnSet(counted, B)
  <2>1. ASSUME NEW b \in B PROVE Count(E)[b] \in Int /\ Count(E)[b] = counted[b]
    <3> DEFINE c == Cardinality(Holding(E, b))
    <3>1. c \in Nat /\ w[b] \in Int
      BY <1>1
    <3>2. Count(E)[b] = c * w[b] /\ counted[b] = c * w[b]
      OBVIOUS
    <3> HIDE DEF c, Count
    <3> QED BY <3>1, <3>2
  <2> HIDE DEF Count
  <2> QED BY <2>1, SumEqual
<1> QED BY <1>4, <1>5

-----------------------------------------------------------------------------
(* Orders on products of whole numbers, for the sums of products below.    *)

LEMMA TimesMonotone ==
  ASSUME NEW a \in Int, NEW b \in Int, NEW c \in Nat, a <= b
  PROVE  a * c <= b * c
<1>1. (b - a) * c >= 0
  OBVIOUS
<1>2. (b - a) * c = b * c - a * c /\ a * c \in Int /\ b * c \in Int
  OBVIOUS
<1> QED BY <1>1, <1>2

LEMMA ProductMonotone ==
  ASSUME NEW a \in Nat, NEW b \in Nat, NEW c \in Nat, NEW d \in Nat, a <= b, c <= d
  PROVE  a * c <= b * d
<1>1. a * c <= b * c
  BY TimesMonotone
<1>2. c * b <= d * b
  BY TimesMonotone
<1>3. a * c \in Int /\ b * c \in Int /\ b * d \in Int /\ c * b = b * c /\ d * b = b * d
  OBVIOUS
<1> QED BY <1>1, <1>2, <1>3

LEMMA Cancel ==
  ASSUME NEW a \in Int, NEW b \in Int, NEW c \in Nat \ {0}, a * c <= b * c
  PROVE  a <= b
<1> SUFFICES ASSUME b < a PROVE FALSE
  OBVIOUS
<1>1. (b + 1) * c <= a * c
  BY TimesMonotone
<1>2. (b + 1) * c = b * c + c /\ b * c \in Int /\ a * c \in Int
  OBVIOUS
<1> QED BY <1>1, <1>2

(* The inequality of Cauchy and Schwarz: xx, xy and yy are the products of the integers x and y on S. *)
ProductsOf(S, x, y, xx, xy, yy) ==
  \A p \in S : /\ x[p] \in Int /\ y[p] \in Int
              /\ xx[p] = x[p] * x[p] /\ xy[p] = x[p] * y[p] /\ yy[p] = y[p] * y[p]

LEMMA SumSchwarz ==
  ASSUME NEW S, IsFiniteSet(S), NEW x, NEW y, NEW xx, NEW xy, NEW yy,
         ProductsOf(S, x, y, xx, xy, yy), 0 < SumFunctionOnSet(xx, S)
  PROVE  /\ SumFunctionOnSet(xx, S) \in Int /\ SumFunctionOnSet(xy, S) \in Int
         /\ SumFunctionOnSet(yy, S) \in Int
         /\ SumFunctionOnSet(xy, S) * SumFunctionOnSet(xy, S)
              <= SumFunctionOnSet(xx, S) * SumFunctionOnSet(yy, S)
<1> DEFINE a == SumFunctionOnSet(xx, S)
           b == SumFunctionOnSet(xy, S)
           c == SumFunctionOnSet(yy, S)
<1>1. \A p \in S : xx[p] \in Int /\ xy[p] \in Int /\ yy[p] \in Int
  BY DEF ProductsOf
<1>2. a \in Int /\ b \in Int /\ c \in Int
  BY <1>1, SumInt
<1> HIDE DEF a, b, c
<1> DEFINE dev == [p \in S |-> (a * y[p] - b * x[p]) * (a * y[p] - b * x[p])]
           first == [p \in S |-> (a * a) * yy[p]]
           second == [p \in S |-> ((-2) * (a * b)) * xy[p]]
           third == [p \in S |-> (b * b) * xx[p]]
           two == [p \in S |-> first[p] + second[p]]
<1>3. ASSUME NEW p \in S
      PROVE  /\ dev[p] \in Nat /\ dev[p] = two[p] + third[p] /\ two[p] = first[p] + second[p]
             /\ first[p] \in Int /\ second[p] \in Int /\ third[p] \in Int /\ two[p] \in Int
  <2> DEFINE d == a * y[p] - b * x[p]
  <2>1. d \in Int
    BY <1>2 DEF ProductsOf
  <2>2. d * d \in Nat
    <3> HIDE DEF d
    <3>1. CASE d >= 0
      BY <2>1, <3>1
    <3>2. CASE d < 0
      <4>1. -d \in Nat /\ (-d) * (-d) = d * d
        BY <2>1, <3>2
      <4>2. (-d) * (-d) \in Nat
        BY <4>1
      <4> QED BY <4>1, <4>2
    <3> QED BY <2>1, <3>1, <3>2
  <2>3. dev[p] \in Nat
    BY <2>2
  <2>4. PICK u \in Int : u = x[p]
    BY DEF ProductsOf
  <2>5. PICK v \in Int : v = y[p]
    BY DEF ProductsOf
  <2>6. xx[p] = u * u /\ xy[p] = u * v /\ yy[p] = v * v
    BY <2>4, <2>5 DEF ProductsOf
  <2>7. (a * v - b * u) * (a * v - b * u)
          = ((a * a) * (v * v) + ((-2) * (a * b)) * (u * v)) + (b * b) * (u * u)
    BY <1>2
  <2>8. /\ (a * a) * (v * v) \in Int /\ ((-2) * (a * b)) * (u * v) \in Int /\ (b * b) * (u * u) \in Int
    BY <1>2
  <2>9. dev[p] = (a * v - b * u) * (a * v - b * u)
    BY <2>4, <2>5
  <2>10. first[p] = (a * a) * (v * v) /\ second[p] = ((-2) * (a * b)) * (u * v) /\ third[p] = (b * b) * (u * u)
    BY <2>6
  <2>11. two[p] = first[p] + second[p]
    OBVIOUS
  <2> HIDE DEF dev, first, second, third, two
  <2>12. two[p] \in Int
    BY <2>8, <2>10, <2>11
  <2> QED BY <2>3, <2>7, <2>8, <2>9, <2>10, <2>11, <2>12
<1>4. \A p \in S : first[p] = (a * a) * yy[p] /\ second[p] = ((-2) * (a * b)) * xy[p] /\ third[p] = (b * b) * xx[p]
  OBVIOUS
<1> HIDE DEF dev, first, second, third, two
<1>5. a * a \in Int /\ (-2) * (a * b) \in Int /\ b * b \in Int
  BY <1>2
<1>6. SumFunctionOnSet(first, S) = (a * a) * c
  BY <1>1, <1>4, <1>5, SumTimes DEF c
<1>7. SumFunctionOnSet(second, S) = ((-2) * (a * b)) * b
  BY <1>1, <1>4, <1>5, SumTimes DEF b
<1>8. SumFunctionOnSet(third, S) = (b * b) * a
  BY <1>1, <1>4, <1>5, SumTimes DEF a
<1>9. SumFunctionOnSet(two, S) = SumFunctionOnSet(first, S) + SumFunctionOnSet(second, S)
  BY <1>3, SumPlus
<1>10. SumFunctionOnSet(dev, S) = SumFunctionOnSet(two, S) + SumFunctionOnSet(third, S)
  BY <1>3, SumPlus
<1>11. SumFunctionOnSet(dev, S) \in Nat
  BY <1>3, SumPositive
<1>12. (a * a) * c + ((-2) * (a * b)) * b + (b * b) * a = (a * c - b * b) * a
  BY <1>2
<1>13. 0 <= (a * c - b * b) * a
  BY <1>6, <1>7, <1>8, <1>9, <1>10, <1>11, <1>12
<1>14. a * c - b * b \in Int /\ a \in Nat \ {0} /\ 0 * a = 0
  BY <1>2 DEF a
<1>15. 0 <= a * c - b * b
  BY <1>13, <1>14, Cancel
<1>16. b * b <= a * c
  BY <1>2, <1>15
<1> QED BY <1>2, <1>16 DEF a, b, c

LEMMA SquareOrder ==
  ASSUME NEW a \in Nat, NEW b \in Nat
  PROVE  a <= b <=> a * a <= b * b
<1>1. a <= b => a * a <= b * b
  BY ProductMonotone
<1>2. ASSUME b < a PROVE b * b < a * a
  <2>1. (b + 1) * (b + 1) <= a * a
    BY <1>2, ProductMonotone
  <2>2. (b + 1) * (b + 1) = b * b + 2 * b + 1 /\ b * b \in Nat /\ a * a \in Nat
    OBVIOUS
  <2> QED BY <2>1, <2>2
<1>3. a * a \in Nat /\ b * b \in Nat
  OBVIOUS
<1> QED BY <1>1, <1>2, <1>3

(* Division rounds down. *)
LEMMA DivIs ==
  ASSUME NEW a \in Nat, NEW d \in Nat \ {0}
  PROVE  /\ a \div d \in Nat /\ (a \div d) * d <= a
         /\ \A i \in Nat : i * d <= a => i <= a \div d
<1> DEFINE q == a \div d
<1>1. a = d * q + (a % d) /\ a % d \in 0 .. d - 1 /\ q \in Int
  OBVIOUS
<1>2. q >= 0
  OBVIOUS
<1>3. d * q = q * d /\ q * d \in Int
  <2> HIDE DEF q
  <2> QED BY <1>1
<1>4. ASSUME NEW i \in Nat, i * d <= a, q < i PROVE FALSE
  <2> HIDE DEF q
  <2>1. (q + 1) * d <= i * d
    BY <1>1, <1>4, TimesMonotone
  <2>2. (q + 1) * d = q * d + d /\ i * d \in Int
    BY <1>1
  <2> QED BY <1>1, <1>3, <1>4, <2>1, <2>2
<1> HIDE DEF q
<1>5. q \in Nat /\ q * d <= a /\ \A i \in Nat : i * d <= a => i <= q
  BY <1>1, <1>2, <1>3, <1>4
<1> QED BY <1>5 DEF q

(* Bounds on two squares bound the product. *)
LEMMA RootProduct ==
  ASSUME NEW p \in Nat, NEW q \in Nat, NEW x \in Nat, NEW y \in Nat, NEW v \in Nat, NEW m \in Nat,
         p * p * v <= m * (x * x), q * q * v <= m * (y * y)
  PROVE  p * q * v <= m * (x * y)
<1>1. p * p * v \in Nat /\ m * (x * x) \in Nat /\ q * q * v \in Nat /\ m * (y * y) \in Nat
  OBVIOUS
<1>2. (p * p * v) * (q * q * v) <= (m * (x * x)) * (m * (y * y))
  BY <1>1, ProductMonotone
<1>3. (p * p * v) * (q * q * v) = (p * q * v) * (p * q * v)
  OBVIOUS
<1>4. (m * (x * x)) * (m * (y * y)) = (m * (x * y)) * (m * (x * y))
  OBVIOUS
<1>5. p * q * v \in Nat /\ m * (x * y) \in Nat
  OBVIOUS
<1> QED BY <1>2, <1>3, <1>4, <1>5, SquareOrder

(* A quadratic that grows at a grows on to b. *)
LEMMA QuadraticGrows ==
  ASSUME NEW a \in Nat, NEW b \in Nat, NEW e \in Int, a <= b, 10 * a + e >= 0
  PROVE  a * (10 * a + e) <= b * (10 * b + e)
<1>1. 10 * a + e \in Nat /\ 10 * b + e \in Nat /\ 10 * a + e <= 10 * b + e
  OBVIOUS
<1> QED BY <1>1, ProductMonotone

LEMMA PairHalf ==
  ASSUME NEW x \in Nat, NEW y \in Nat, NEW p \in Nat, NEW q \in Nat, NEW k \in Nat, NEW d \in Int,
         p * p * (10 * (x * x) + 10 * (y * y) + d * (x * y)) <= 10 * (x * x) * (k * k),
         p <= k, q <= k, p <= x, q * x <= p * y
  PROVE  10 * (p * p) + 10 * (q * q) + d * (p * q) <= 10 * (k * k)
<1> DEFINE r == 10 * (p * p) + 10 * (q * q) + d * (p * q)
           t == q * (10 * q + d * p)
<1>1. r = 10 * (p * p) + t /\ t \in Int /\ r \in Int /\ p * p \in Nat /\ k * k \in Nat
  OBVIOUS
<1>2. p * p <= k * k /\ q * q <= k * k
  BY SquareOrder
<1>3. CASE x = 0
  <2>1. p = 0
    BY <1>3
  <2>2. r = 10 * (q * q)
    BY <2>1
  <2>3. q * q \in Nat
    OBVIOUS
  <2> HIDE DEF r
  <2>4. r <= 10 * (k * k)
    BY <1>1, <1>2, <2>2, <2>3
  <2> QED BY <2>4 DEF r
<1>4. CASE t <= 0
  <2> HIDE DEF r, t
  <2>1. r <= 10 * (k * k)
    BY <1>1, <1>2, <1>4
  <2> QED BY <2>1 DEF r
<1>5. CASE x # 0 /\ t > 0
  <2> DEFINE a == q * x
             b == p * y
             e == d * (p * x)
             g == 10 * q + d * p
  <2>1. g > 0
    <3>1. g \in Int /\ q * g > 0
      BY <1>5
    <3> HIDE DEF g
    <3>2. ~ (g <= 0)
      <4> SUFFICES ASSUME g <= 0 PROVE FALSE
        OBVIOUS
      <4>1. (- g) * q >= 0
        BY <3>1
      <4>2. (- g) * q = - (q * g) /\ q * g \in Int
        BY <3>1
      <4> QED BY <3>1, <4>1, <4>2
    <3> QED BY <3>1, <3>2
  <2>2. a \in Nat /\ b \in Nat /\ e \in Int /\ a <= b
    OBVIOUS
  <2>3. 10 * a + e = g * x
    OBVIOUS
  <2>4. 10 * a + e >= 0
    <3>1. g \in Nat
      BY <2>1
    <3> HIDE DEF g, a, e
    <3>2. g * x \in Nat
      BY <3>1
    <3> QED BY <2>3, <3>2
  <2>5. a * (10 * a + e) <= b * (10 * b + e)
    <3> HIDE DEF a, b, e
    <3> QED BY <2>2, <2>4, QuadraticGrows
  <2>6. r * (x * x) = 10 * (p * p) * (x * x) + a * (10 * a + e)
    OBVIOUS
  <2>7. p * p * (10 * (x * x) + 10 * (y * y) + d * (x * y))
          = 10 * (p * p) * (x * x) + b * (10 * b + e)
    OBVIOUS
  <2>8. r * (x * x) <= (10 * (k * k)) * (x * x)
    <3>1. 10 * (x * x) * (k * k) = (10 * (k * k)) * (x * x)
      OBVIOUS
    <3>2. /\ 10 * (p * p) * (x * x) \in Int /\ a * (10 * a + e) \in Int /\ b * (10 * b + e) \in Int
          /\ (10 * (k * k)) * (x * x) \in Int
      OBVIOUS
    <3> DEFINE c1 == 10 * (p * p) * (x * x)
               c2 == a * (10 * a + e)
               c3 == b * (10 * b + e)
               c4 == (10 * (k * k)) * (x * x)
               c5 == p * p * (10 * (x * x) + 10 * (y * y) + d * (x * y))
               c6 == r * (x * x)
    <3>3. c6 = c1 + c2 /\ c5 = c1 + c3 /\ c5 <= c4 /\ c2 <= c3
      BY <2>5, <2>6, <2>7, <3>1
    <3>4. c1 \in Int /\ c2 \in Int /\ c3 \in Int /\ c4 \in Int
      BY <3>2
    <3> HIDE DEF c1, c2, c3, c4, c5, c6
    <3>5. c6 <= c4
      BY <3>3, <3>4
    <3> QED BY <3>5 DEF c4, c6
  <2>9. x * x \in Nat \ {0}
    BY <1>5
  <2>10. r <= 10 * (k * k)
    <3>1. 10 * (k * k) \in Int
      OBVIOUS
    <3> HIDE DEF r
    <3> QED BY <1>1, <2>8, <2>9, <3>1, Cancel
  <2> QED BY <2>10 DEF r
<1> QED BY <1>1, <1>3, <1>4, <1>5

-----------------------------------------------------------------------------
(* Bounded sets of naturals have least and greatest elements. *)
LEMMA MinIs ==
  ASSUME NEW S \in SUBSET Nat, S # {}
  PROVE  Min(S) \in S /\ \A y \in S : Min(S) <= y
BY LeastNat DEF Min

LEMMA MaxIs ==
  ASSUME NEW n \in Nat, NEW S \in SUBSET (0 .. n), S # {}
  PROVE  Max(S) \in S /\ \A y \in S : Max(S) >= y
<1> DEFINE Mirror == {n - x : x \in S}
<1>1. Mirror \subseteq Nat /\ Mirror # {}
  <2>1. ASSUME NEW x \in S PROVE n - x \in Nat
    OBVIOUS
  <2> QED BY <2>1
<1>2. Min(Mirror) \in Mirror /\ \A y \in Mirror : Min(Mirror) <= y
  <2> HIDE DEF Mirror
  <2> QED BY <1>1, MinIs
<1>3. PICK x \in S : Min(Mirror) = n - x
  BY <1>2
<1>4. ASSUME NEW y \in S PROVE x >= y
  <2>1. n - y \in Mirror
    OBVIOUS
  <2>2. n - x <= n - y
    BY <2>1, <1>2, <1>3
  <2> QED BY <2>2
<1>5. \E z \in S : \A y \in S : z >= y
  BY <1>4
<1> QED BY <1>5 DEF Max

(* A fold from the left over a sequence, as FoldLeft computes it: the last  *)
(* element of each initial set of positions is added to the fold of the    *)
(* others.                                                                 *)
Latest(seq) == [s \in SUBSET DOMAIN seq |-> Max(s)]

LeftFoldOf(g, seq, V, base, step) ==
  /\ g \in [SUBSET DOMAIN seq -> V]
  /\ \A s \in SUBSET DOMAIN seq :
       g[s] = IF s = {} THEN base ELSE step[<<seq[Max(s)], g[s \ {Max(s)}]>>]

LEMMA LeftFoldExists ==
  ASSUME NEW T, NEW seq \in Seq(T), NEW V, NEW base \in V, NEW step \in [T \X V -> V]
  PROVE  /\ IsFiniteSet(DOMAIN seq)
         /\ Picks(Latest(seq), DOMAIN seq)
         /\ \E g : LeftFoldOf(g, seq, V, base, step)
<1> DEFINE D == DOMAIN seq
           pick == [s \in SUBSET D |-> Max(s)]
           indexed == [iv \in D \X V |-> step[<<seq[iv[1]], iv[2]>>]]
<1>1. Len(seq) \in Nat /\ D = 1 .. Len(seq) /\ \A i \in D : seq[i] \in T
  OBVIOUS
<1>2. IsFiniteSet(D)
  BY <1>1, FS_Interval
<1>3. \A s \in SUBSET D : s # {} => Max(s) \in s
  <2> SUFFICES ASSUME NEW s \in SUBSET D, s # {} PROVE Max(s) \in s
    OBVIOUS
  <2>1. s \in SUBSET (0 .. Len(seq))
    BY <1>1
  <2> QED BY <1>1, <2>1, MaxIs
<1>4. Picks(pick, D)
  BY <1>3 DEF Picks
<1>5. indexed \in [D \X V -> V]
  BY <1>1
<1>6. PICK g \in [SUBSET D -> V] : FoldOf(g, D, base, indexed, pick)
  <2> HIDE DEF D, indexed, pick
  <2> QED BY <1>2, <1>4, <1>5, FoldExists, Zenon
<1>7. ASSUME NEW s \in SUBSET D
      PROVE  g[s] = IF s = {} THEN base ELSE step[<<seq[Max(s)], g[s \ {Max(s)}]>>]
  <2>1. g[s] = IF s = {} THEN base ELSE indexed[<<pick[s], g[s \ {pick[s]}]>>]
    BY <1>6 DEF FoldOf
  <2>2. CASE s # {}
    <3>1. pick[s] = Max(s) /\ Max(s) \in D
      BY <1>3, <2>2
    <3>2. g[s \ {Max(s)}] \in V
      BY <1>6
    <3>3. indexed[<<Max(s), g[s \ {Max(s)}]>>] = step[<<seq[Max(s)], g[s \ {Max(s)}]>>]
      BY <3>1, <3>2
    <3> QED BY <2>1, <2>2, <3>1, <3>3
  <2> QED BY <2>1, <2>2
<1>8. \E h \in [SUBSET D -> V] : \A s \in SUBSET D :
         h[s] = IF s = {} THEN base ELSE step[<<seq[Max(s)], h[s \ {Max(s)}]>>]
  <2> HIDE DEF D
  <2> QED BY <1>7
<1> QED BY <1>2, <1>4, <1>8 DEF Latest, LeftFoldOf

(* Induction along 1 .. n, upwards and downwards, and a function defined   *)
(* by recursion along it.                                                  *)
LEMMA UpTheRange ==
  ASSUME NEW n \in Nat, NEW Good, \A t \in 1 .. n : t = 1 \/ t - 1 \in Good => t \in Good
  PROVE  1 .. n \subseteq Good
<1> DEFINE Reached == {m \in Nat : \A t \in 1 .. n : t <= m => t \in Good}
<1>1. 0 \in Reached
  OBVIOUS
<1>2. ASSUME NEW m \in Nat, m \in Reached PROVE m + 1 \in Reached
  <2> SUFFICES ASSUME NEW t \in 1 .. n, t <= m + 1 PROVE t \in Good
    OBVIOUS
  <2>1. CASE t <= m
    BY <1>2, <2>1
  <2>2. CASE t = m + 1
    <3>1. t = 1 \/ t - 1 \in Good
      BY <1>2, <2>2
    <3> QED BY <3>1
  <2> QED BY <2>1, <2>2
<1>3. n \in Reached
  <2> HIDE DEF Reached
  <2>1. Nat \subseteq Reached
    BY <1>1, <1>2, NatSetInduction
  <2> QED BY <2>1
<1> QED BY <1>3

LEMMA DownTheRange ==
  ASSUME NEW n \in Nat, NEW Good, \A t \in 1 .. n : t = n \/ t + 1 \in Good => t \in Good
  PROVE  1 .. n \subseteq Good
<1> DEFINE Mirror == {t \in 1 .. n : n + 1 - t \in Good}
<1>1. ASSUME NEW t \in 1 .. n, t = 1 \/ t - 1 \in Mirror PROVE t \in Mirror
  <2>1. n + 1 - t \in 1 .. n
    OBVIOUS
  <2>2. n + 1 - t = n \/ (n + 1 - t) + 1 \in Good
    <3>1. CASE t = 1
      BY <3>1
    <3>2. CASE t - 1 \in Mirror
      <4>1. n + 1 - (t - 1) = (n + 1 - t) + 1
        OBVIOUS
      <4> QED BY <3>2, <4>1
    <3> QED BY <1>1, <3>1, <3>2
  <2> QED BY <2>1, <2>2
<1>2. 1 .. n \subseteq Mirror
  <2> HIDE DEF Mirror
  <2> QED BY <1>1, UpTheRange
<1>3. ASSUME NEW t \in 1 .. n PROVE t \in Good
  <2>1. n + 1 - t \in 1 .. n
    OBVIOUS
  <2>2. n + 1 - (n + 1 - t) \in Good
    BY <1>2, <2>1
  <2>3. n + 1 - (n + 1 - t) = t
    OBVIOUS
  <2> QED BY <2>2, <2>3
<1> QED BY <1>3

Recurs(a, n, V, base, step) ==
  a \in [1 .. n -> V] /\ \A t \in 1 .. n : a[t] = step[<<t, IF t = 1 THEN base ELSE a[t - 1]>>]

RecursDown(a, n, V, base, step) ==
  a \in [1 .. n -> V] /\ \A t \in 1 .. n : a[t] = step[<<t, IF t = n THEN base ELSE a[t + 1]>>]

LEMMA RecursionExists ==
  ASSUME NEW n \in Nat, NEW V, NEW base \in V, NEW step \in [(1 .. n) \X V -> V]
  PROVE  \E a : Recurs(a, n, V, base, step)
<1> DEFINE seq == [i \in 1 .. n |-> i]
<1>1. seq \in Seq(1 .. n) /\ DOMAIN seq = 1 .. n
  OBVIOUS
<1>2. PICK g : LeftFoldOf(g, seq, V, base, step)
  <2> HIDE DEF seq
  <2> QED BY <1>1, LeftFoldExists, Zenon
<1>3. \A s \in SUBSET (1 .. n) :
        g[s] \in V /\ g[s] = IF s = {} THEN base ELSE step[<<seq[Max(s)], g[s \ {Max(s)}]>>]
  BY <1>1, <1>2 DEF LeftFoldOf
<1> DEFINE a == [t \in 1 .. n |-> g[1 .. t]]
<1>4. a \in [1 .. n -> V]
  <2>1. \A t \in 1 .. n : 1 .. t \in SUBSET (1 .. n)
    OBVIOUS
  <2>2. \A t \in 1 .. n : g[1 .. t] \in V
    BY <1>3, <2>1
  <2> QED BY <2>2
<1>5. ASSUME NEW t \in 1 .. n PROVE a[t] = step[<<t, IF t = 1 THEN base ELSE a[t - 1]>>]
  <2> DEFINE s == 1 .. t
  <2>1. s \in SUBSET (1 .. n) /\ s # {} /\ s \in SUBSET (0 .. n)
    OBVIOUS
  <2>2. Max(s) \in s /\ \A y \in s : Max(s) >= y
    BY <2>1, MaxIs
  <2>3. Max(s) = t
    BY <2>2
  <2>4. g[s] = step[<<t, g[s \ {t}]>>]
    BY <1>3, <2>1, <2>3
  <2>5. g[s \ {t}] = IF t = 1 THEN base ELSE a[t - 1]
    <3>1. CASE t = 1
      <4>1. s \ {t} = {}
        BY <3>1
      <4> QED BY <1>3, <3>1, <4>1
    <3>2. CASE t # 1
      <4>1. s \ {t} = 1 .. (t - 1) /\ t - 1 \in 1 .. n
        BY <3>2
      <4> QED BY <3>2, <4>1
    <3> QED BY <3>1, <3>2
  <2> QED BY <2>4, <2>5
<1> QED BY <1>4, <1>5 DEF Recurs

LEMMA RecursionExistsDown ==
  ASSUME NEW n \in Nat, NEW V, NEW base \in V, NEW step \in [(1 .. n) \X V -> V]
  PROVE  \E a : RecursDown(a, n, V, base, step)
<1> DEFINE turned == [iv \in (1 .. n) \X V |-> step[<<n + 1 - iv[1], iv[2]>>]]
<1>1. turned \in [(1 .. n) \X V -> V]
  <2>1. \A iv \in (1 .. n) \X V : n + 1 - iv[1] \in 1 .. n /\ iv[2] \in V
    OBVIOUS
  <2>2. \A iv \in (1 .. n) \X V : step[<<n + 1 - iv[1], iv[2]>>] \in V
    BY <2>1
  <2> QED BY <2>2
<1>2. PICK b : /\ b \in [1 .. n -> V]
               /\ \A t \in 1 .. n : b[t] = turned[<<t, IF t = 1 THEN base ELSE b[t - 1]>>]
  <2> HIDE DEF turned
  <2>1. PICK b : Recurs(b, n, V, base, turned)
    BY Zenon, <1>1, RecursionExists
  <2> QED BY Zenon, <2>1 DEF Recurs
<1> DEFINE a == [t \in 1 .. n |-> b[n + 1 - t]]
<1>3. a \in [1 .. n -> V]
  <2>1. \A t \in 1 .. n : n + 1 - t \in 1 .. n
    OBVIOUS
  <2>2. \A t \in 1 .. n : b[n + 1 - t] \in V
    BY <1>2, <2>1
  <2> QED BY <2>2
<1>4. ASSUME NEW t \in 1 .. n PROVE a[t] = step[<<t, IF t = n THEN base ELSE a[t + 1]>>]
  <2> DEFINE i == n + 1 - t
             v == IF i = 1 THEN base ELSE b[i - 1]
  <2>1. i \in 1 .. n /\ n + 1 - i = t /\ (i = 1 <=> t = n)
    OBVIOUS
  <2>2. v \in V
    <3>1. i # 1 => i - 1 \in 1 .. n
      BY <2>1
    <3> QED BY <1>2, <3>1
  <2>3. b[i] = turned[<<i, v>>]
    BY <1>2, <2>1
  <2>4. turned[<<i, v>>] = step[<<t, v>>]
    <3> HIDE DEF i, v
    <3> QED BY <2>1, <2>2
  <2>5. v = IF t = n THEN base ELSE a[t + 1]
    <3>1. CASE t = n
      BY <2>1, <3>1
    <3>2. CASE t # n
      <4>1. t + 1 \in 1 .. n /\ n + 1 - (t + 1) = i - 1 /\ i # 1
        BY <2>1, <3>2
      <4> QED BY <3>2, <4>1
    <3> QED BY <3>1, <3>2
  <2> QED BY <2>3, <2>4, <2>5
<1> QED BY <1>3, <1>4 DEF RecursDown

(* A sum taken fibre by fibre. *)
Fibres(inner, f, S, q, K) ==
  /\ IsFiniteSet(S) /\ IsFiniteSet(K)
  /\ \A x \in S : q[x] \in K /\ f[x] \in Int
  /\ \A k \in K : inner[k] = SumFunctionOnSet(f, {x \in S : q[x] = k})

LEMMA SumFibres ==
  ASSUME NEW S, NEW K, NEW q, NEW f, NEW inner, Fibres(inner, f, S, q, K)
  PROVE  SumFunctionOnSet(f, S) = SumFunctionOnSet(inner, K)
<1>0. IsFiniteSet(S) /\ IsFiniteSet(K) /\ \A x \in S : q[x] \in K /\ f[x] \in Int
  BY DEF Fibres
<1> DEFINE Fibre(T, k) == {x \in T : q[x] = k}
           Parts(T) == [k \in K |-> SumFunctionOnSet(f, Fibre(T, k))]
           Good == {T \in SUBSET S : SumFunctionOnSet(f, T) = SumFunctionOnSet(Parts(T), K)}
<1>1. ASSUME NEW T \in SUBSET S, NEW k \in K PROVE IsFiniteSet(Fibre(T, k)) /\ Parts(T)[k] \in Int
  <2>1. Fibre(T, k) \subseteq S
    OBVIOUS
  <2>2. IsFiniteSet(Fibre(T, k)) /\ \A x \in Fibre(T, k) : f[x] \in Int
    BY <1>0, <2>1, FS_Subset
  <2>3. SumFunctionOnSet(f, Fibre(T, k)) \in Int
    <3> HIDE DEF Fibre
    <3> QED BY <2>2, SumInt
  <2> HIDE DEF Fibre
  <2> QED BY <2>2, <2>3
<1>2. {} \in Good
  <2> DEFINE none == Parts({})
  <2>1. \A k \in K : none[k] = 0
    <3> TAKE k \in K
    <3>1. Fibre({}, k) = {}
      OBVIOUS
    <3> QED BY <3>1, SumEmpty
  <2>2. SumFunctionOnSet(none, K) = 0 * Cardinality(K)
    <3> HIDE DEF none
    <3> QED BY <1>0, <2>1, SumConstant
  <2>3. Cardinality(K) \in Nat
    BY <1>0, FS_CardinalityType
  <2>4. SumFunctionOnSet(f, {}) = 0
    BY SumEmpty
  <2> QED BY <2>2, <2>3, <2>4
<1>3. ASSUME NEW T \in SUBSET S, NEW y \in S \ T, T \in Good PROVE T \cup {y} \in Good
  <2> DEFINE U == T \cup {y}
             old == Parts(T)
             new == Parts(U)
             one == [k \in K |-> IF k = q[y] THEN f[y] ELSE 0]
  <2>1. IsFiniteSet(T) /\ f[y] \in Int /\ q[y] \in K /\ U \in SUBSET S
    BY <1>0, FS_Subset
  <2>2. SumFunctionOnSet(f, U) = f[y] + SumFunctionOnSet(f, T)
    BY <1>0, <2>1, SumInsert
  <2>3. ASSUME NEW k \in K PROVE old[k] \in Int /\ one[k] \in Int /\ new[k] = old[k] + one[k]
    <3>1. CASE k = q[y]
      <4>1. Fibre(U, k) = Fibre(T, k) \cup {y} /\ y \notin Fibre(T, k)
        BY <3>1
      <4>2. IsFiniteSet(Fibre(T, k)) /\ \A x \in Fibre(T, k) \cup {y} : f[x] \in Int
        BY <1>0, <1>1, <2>1
      <4>3. SumFunctionOnSet(f, Fibre(T, k) \cup {y}) = f[y] + SumFunctionOnSet(f, Fibre(T, k))
        <5> HIDE DEF Fibre
        <5> QED BY <4>1, <4>2, SumInsert
      <4>4. new[k] = f[y] + old[k]
        BY <4>1, <4>3
      <4>5. old[k] \in Int /\ one[k] = f[y]
        BY <1>1, <3>1
      <4> HIDE DEF new, old, one
      <4> QED BY <2>1, <4>4, <4>5
    <3>2. CASE k # q[y]
      <4>1. Fibre(U, k) = Fibre(T, k)
        BY <3>2
      <4>2. new[k] = old[k]
        BY <4>1
      <4>3. old[k] \in Int /\ one[k] = 0
        BY <1>1, <3>2
      <4> HIDE DEF new, old, one
      <4> QED BY <4>2, <4>3
    <3> QED BY <3>1, <3>2
  <2>4. SumFunctionOnSet(one, K) = f[y]
    <3>1. {q[y]} \in SUBSET K /\ IsFiniteSet({}) /\ q[y] \notin {} /\ {} \cup {q[y]} = {q[y]}
      BY <2>1, FS_EmptySet
    <3>2. \A k \in K \ {q[y]} : one[k] = 0
      OBVIOUS
    <3>3. \A k \in {q[y]} : one[k] \in Int /\ one[q[y]] = f[y]
      BY <2>1
    <3> HIDE DEF one
    <3>4. SumFunctionOnSet(one, K) = SumFunctionOnSet(one, {q[y]})
      BY <1>0, <3>1, <3>2, <3>3, SumSupport
    <3>5. SumFunctionOnSet(one, {} \cup {q[y]}) = one[q[y]] + SumFunctionOnSet(one, {})
      BY <3>1, <3>3, SumInsert
    <3>6. SumFunctionOnSet(one, {}) = 0
      BY SumEmpty
    <3> QED BY <2>1, <3>1, <3>3, <3>4, <3>5, <3>6
  <2>5. SumFunctionOnSet(new, K) = SumFunctionOnSet(old, K) + SumFunctionOnSet(one, K)
    <3> HIDE DEF new, old, one
    <3> QED BY <1>0, <2>3, SumPlus
  <2>6. SumFunctionOnSet(old, K) \in Int
    <3> HIDE DEF old
    <3> QED BY <1>0, <2>3, SumInt
  <2>7. SumFunctionOnSet(f, T) = SumFunctionOnSet(old, K)
    BY <1>3
  <2>8. SumFunctionOnSet(f, U) = SumFunctionOnSet(new, K)
    <3> HIDE DEF old, new, one, U
    <3> QED BY <2>1, <2>2, <2>4, <2>5, <2>6, <2>7
  <2> QED BY <2>1, <2>8
<1>4. S \in Good
  <2> HIDE DEF Good
  <2> QED BY <1>0, <1>2, <1>3, FiniteSetInduction
<1>5. SumFunctionOnSet(f, S) = SumFunctionOnSet(Parts(S), K)
  BY <1>4
<1> DEFINE all == Parts(S)
<1>6. \A k \in K : all[k] \in Int /\ all[k] = inner[k]
  BY <1>1 DEF Fibres
<1>7. SumFunctionOnSet(all, K) = SumFunctionOnSet(inner, K)
  <2> HIDE DEF all
  <2> QED BY <1>0, <1>6, SumEqual
<1> QED BY <1>5, <1>7

LEMMA SumOne ==
  ASSUME NEW x, NEW f, f[x] \in Int
  PROVE  SumFunctionOnSet(f, {x}) = f[x]
<1>1. SumFunctionOnSet(f, {} \cup {x}) = f[x] + SumFunctionOnSet(f, {})
  <2>1. IsFiniteSet({}) /\ x \notin {} /\ \A y \in {} \cup {x} : f[y] \in Int
    BY FS_EmptySet
  <2> QED BY <2>1, SumInsert
<1>2. SumFunctionOnSet(f, {}) = 0 /\ {} \cup {x} = {x}
  BY SumEmpty
<1> QED BY <1>1, <1>2

LEMMA FunctionsFinite ==
  ASSUME NEW S, IsFiniteSet(S), NEW T, IsFiniteSet(T)
  PROVE  IsFiniteSet([S -> T])
<1> DEFINE Pairs == SUBSET (S \X T)
           graph == [f \in [S -> T] |-> {st \in S \X T : f[st[1]] = st[2]}]
<1>1. IsFiniteSet(Pairs)
  BY FS_Product, FS_SUBSET
<1>2. graph \in [[S -> T] -> Pairs]
  OBVIOUS
<1>3. ASSUME NEW f \in [S -> T], NEW g \in [S -> T], graph[f] = graph[g] PROVE f = g
  <2>1. ASSUME NEW s \in S PROVE f[s] = g[s]
    <3>1. <<s, f[s]>> \in S \X T
      OBVIOUS
    <3>2. <<s, f[s]>> \in graph[f]
      BY <3>1
    <3>3. <<s, f[s]>> \in graph[g]
      BY <1>3, <3>2
    <3> QED BY <3>3
  <2> QED BY <2>1
<1>4. graph \in Injection([S -> T], Pairs)
  <2> HIDE DEF graph, Pairs
  <2> QED BY <1>2, <1>3 DEF Injection, IsInjective
<1> HIDE DEF graph, Pairs
<1> QED BY <1>1, <1>4, FS_Injection

-----------------------------------------------------------------------------
(* Merged intervals.                                                       *)

Labels(t1, I, n) == I \subseteq 0 .. n /\ t1 \in [I -> 0 .. n] /\ \A e \in I : e <= t1[e]

(* Every test event lies in the segment of a merged start at or before it. *)
LEMMA MergedOfIs ==
  ASSUME NEW n \in Nat, NEW I, NEW t1, Labels(t1, I, n),
         NEW test \in SUBSET I, NEW e \in test
  PROVE  /\ MergedOf(t1, test, e) \in MergedStarts(t1, test)
         /\ MergedOf(t1, test, e) <= e
         /\ \A s \in MergedStarts(t1, test) : s <= e => s <= MergedOf(t1, test, e)
<1>1. test \subseteq 0 .. n /\ test \subseteq Nat /\ t1 \in [I -> 0 .. n]
  BY DEF Labels
<1>2. Min(test) \in test /\ \A y \in test : Min(test) <= y
  BY <1>1, MinIs
<1> DEFINE before == {s \in MergedStarts(t1, test) : s <= e}
<1>3. Min(test) \in before
  <2> DEFINE m == Min(test)
  <2>1. m \in test /\ m \in Nat /\ e \in Nat /\ m <= e /\ \A r \in test : r \in Nat /\ m <= r
    BY <1>1, <1>2
  <2> HIDE DEF m
  <2>2. \A r \in test : ~ (r < m)
    BY <2>1
  <2> QED BY <2>1, <2>2 DEF MergedStarts, m
<1>4. before \in SUBSET (0 .. n)
  BY <1>1 DEF MergedStarts
<1>5. Max(before) \in before /\ \A s \in before : Max(before) >= s
  <2> HIDE DEF before
  <2> QED BY <1>3, <1>4, MaxIs
<1>6. MergedOf(t1, test, e) = Max(before)
  BY DEF MergedOf
<1>7. \A s \in before : s \in Nat
  BY <1>4
<1> QED BY <1>5, <1>6, <1>7

LEMMA MergedEndIs ==
  ASSUME NEW n \in Nat, NEW I, NEW t1, Labels(t1, I, n),
         NEW test \in SUBSET I, NEW s \in MergedStarts(t1, test)
  PROVE  /\ \E e \in test : MergedOf(t1, test, e) = s /\ MergedEnd(t1, test, s) = t1[e]
         /\ \A e \in test : MergedOf(t1, test, e) = s => t1[e] <= MergedEnd(t1, test, s)
         /\ MergedOf(t1, test, s) = s
<1>1. test \subseteq 0 .. n /\ test \subseteq Nat /\ t1 \in [I -> 0 .. n]
  BY DEF Labels
<1>2. s \in test
  BY DEF MergedStarts
<1>3. /\ MergedOf(t1, test, s) \in MergedStarts(t1, test)
      /\ MergedOf(t1, test, s) <= s
      /\ s <= s => s <= MergedOf(t1, test, s)
  BY <1>2, MergedOfIs
<1>4. MergedOf(t1, test, s) = s
  <2> DEFINE m == MergedOf(t1, test, s)
  <2>1. m \in Nat /\ s \in Nat
    BY <1>1, <1>2, <1>3 DEF MergedStarts
  <2>2. m <= s /\ s <= m
    BY <1>3, <2>1
  <2> HIDE DEF m
  <2>3. m = s
    BY <2>1, <2>2
  <2> QED BY <2>3 DEF m
<1> DEFINE segment == {f \in test : MergedOf(t1, test, f) = s}
           ends == {t1[e] : e \in segment}
<1>5. ends \in SUBSET (0 .. n) /\ t1[s] \in ends
  BY <1>1, <1>2, <1>4
<1>6. Max(ends) \in ends /\ \A y \in ends : Max(ends) >= y
  <2> HIDE DEF ends
  <2> QED BY <1>5, MaxIs
<1>7. MergedEnd(t1, test, s) = Max(ends)
  BY DEF MergedEnd
<1>8. ASSUME NEW e \in segment PROVE t1[e] <= Max(ends)
  <2>1. t1[e] \in ends /\ Max(ends) \in 0 .. n /\ t1[e] \in 0 .. n
    BY <1>1, <1>5, <1>6
  <2> HIDE DEF ends
  <2> QED BY <2>1, <1>6
<1> QED BY <1>4, <1>6, <1>7, <1>8

-----------------------------------------------------------------------------
(* purge_train_times drops exactly the labels that overlap a test label:   *)
(* cpcv.py's merge-and-look-up equals the pairwise definition of AFML 7.1. *)
THEOREM PurgeExact ==
  ASSUME NEW n \in Nat, NEW I, NEW t1, Labels(t1, I, n),
         NEW test \in SUBSET I, NEW a \in I
  PROVE  Stabbed(t1, test, a) <=> \E b \in test : Overlap(t1, a, b)
<1> DEFINE starts == MergedStarts(t1, test)
           started == {s \in starts : s <= t1[a]}
           last == Max(started)
<1>1. /\ test \subseteq 0 .. n /\ test \subseteq Nat /\ t1 \in [I -> 0 .. n]
      /\ I \subseteq 0 .. n /\ \A e \in I : e <= t1[e]
  BY DEF Labels
<1>2. starts \subseteq test /\ started \in SUBSET (0 .. n)
  BY <1>1 DEF MergedStarts
<1>3. ASSUME started # {}
      PROVE  last \in started /\ \A s \in started : last >= s
  <2> HIDE DEF started
  <2> QED BY <1>2, <1>3, MaxIs
<1>4. ASSUME NEW b \in test, Overlap(t1, a, b) PROVE Stabbed(t1, test, a)
  <2> DEFINE m == MergedOf(t1, test, b)
  <2>1. m \in starts /\ m <= b /\ \A s \in starts : s <= b => s <= m
    BY <1>1, MergedOfIs
  <2>2. a <= t1[b] /\ b <= t1[a]
    BY <1>4 DEF Overlap
  <2>3. m \in started
    <3>1. m \in Nat /\ b \in Nat /\ t1[a] \in Nat
      <4>1. m \in test
        BY <1>2, <2>1
      <4> HIDE DEF m
      <4> QED BY <1>1, <4>1
    <3> HIDE DEF m
    <3>2. m <= t1[a]
      BY <2>1, <2>2, <3>1
    <3> QED BY <2>1, <3>2
  <2>4. last \in started /\ last >= m
    BY <1>3, <2>3
  <2>5. last \in starts /\ last \in Nat /\ m \in Nat
    BY <1>1, <1>2, <2>3, <2>4
  <2>6. MergedEnd(t1, test, last) >= a
    <3>1. /\ \A e \in test : MergedOf(t1, test, e) = last => t1[e] <= MergedEnd(t1, test, last)
          /\ MergedOf(t1, test, last) = last
          /\ MergedEnd(t1, test, last) \in Nat
      <4> HIDE DEF last
      <4>1. /\ \E e \in test : MergedOf(t1, test, e) = last
                              /\ MergedEnd(t1, test, last) = t1[e]
            /\ \A e \in test : MergedOf(t1, test, e) = last
                              => t1[e] <= MergedEnd(t1, test, last)
            /\ MergedOf(t1, test, last) = last
        BY <2>5, MergedEndIs
      <4> QED BY <1>1, <4>1
    <3>2. CASE last <= b
      <4>1. last = m
        BY <2>1, <2>4, <2>5, <3>2
      <4> HIDE DEF last, m
      <4>2. t1[b] <= MergedEnd(t1, test, last)
        BY <3>1, <4>1 DEF m
      <4> QED BY <1>1, <2>2, <3>1, <4>2
    <3>3. CASE ~ (last <= b)
      <4>1. b < last
        BY <1>1, <2>5, <3>3
      <4>2. t1[b] < last
        BY <2>5, <4>1 DEF MergedStarts
      <4>3. last \in test /\ last <= t1[last] /\ t1[last] <= MergedEnd(t1, test, last)
        BY <1>1, <1>2, <2>5, <3>1
      <4> HIDE DEF last
      <4> QED BY <1>1, <2>2, <2>5, <3>1, <4>2, <4>3
    <3> QED BY <3>2, <3>3
  <2>7. Stabbed(t1, test, a) <=> started # {} /\ MergedEnd(t1, test, last) >= a
    BY DEF Stabbed
  <2> QED BY <2>3, <2>6, <2>7
<1>5. ASSUME Stabbed(t1, test, a) PROVE \E b \in test : Overlap(t1, a, b)
  <2>1. started # {} /\ MergedEnd(t1, test, last) >= a
    BY <1>5 DEF Stabbed
  <2>2. last \in starts /\ last <= t1[a] /\ last \in Nat /\ \A s \in started : last >= s
    BY <1>1, <1>2, <1>3, <2>1
  <2> HIDE DEF last
  <2>3. PICK e \in test : MergedOf(t1, test, e) = last /\ t1[e] >= a
    BY <1>1, <2>1, <2>2, MergedEndIs
  <2>4. CASE e <= t1[a]
    BY <1>1, <2>3, <2>4 DEF Overlap
  <2>5. CASE ~ (e <= t1[a])
    <3> DEFINE later == {f \in test : f > t1[a] /\ MergedOf(t1, test, f) = last}
               first == Min(later)
    <3>1. later \in SUBSET Nat /\ e \in later
      <4>1. e > t1[a]
        BY <1>1, <2>5
      <4>2. later \subseteq test
        OBVIOUS
      <4>3. later \in SUBSET Nat
        BY <1>1, <4>2
      <4>4. e \in later
        BY <2>3, <4>1
      <4> QED BY <4>3, <4>4
    <3>2. first \in later /\ \A f \in later : first <= f
      <4> HIDE DEF later
      <4> QED BY <3>1, MinIs
    <3>3. first \in test /\ first > t1[a] /\ MergedOf(t1, test, first) = last /\ first \in Nat
      BY <1>1, <3>2
    <3> HIDE DEF first
    <3>4. first \notin starts
      <4>1. last < first
        BY <1>1, <2>2, <3>3
      <4>2. \A s \in starts : s <= first => s <= last
        BY <3>3, MergedOfIs
      <4> QED BY <2>2, <3>3, <4>1, <4>2
    <3>5. PICK r \in test : r < first /\ ~ (t1[r] < first)
      BY <3>3, <3>4 DEF MergedStarts
    <3>6. t1[r] >= a
      BY <1>1, <3>3, <3>5
    <3>7. r <= t1[a]
      <4> SUFFICES ASSUME r > t1[a] PROVE FALSE
        BY <1>1
      <4> DEFINE m == MergedOf(t1, test, r)
      <4>1. m \in starts /\ m <= r /\ \A s \in starts : s <= r => s <= m
        BY <1>1, MergedOfIs
      <4>2. m \in Nat /\ r \in Nat
        BY <1>1, <1>2, <4>1
      <4>3. last <= m
        BY <1>1, <2>2, <4>1, <4>2
      <4>4. m <= last
        <5>1. \A s \in starts : s <= first => s <= last
          BY <1>1, <3>3, MergedOfIs
        <5> QED BY <3>3, <3>5, <4>1, <4>2, <5>1
      <4>5. m = last
        BY <2>2, <4>2, <4>3, <4>4
      <4>6. r \in later
        BY <4>5
      <4> QED BY <3>2, <3>3, <3>5, <4>2, <4>6 DEF first
    <3> QED BY <3>6, <3>7 DEF Overlap
  <2> QED BY <2>4, <2>5
<1> QED BY <1>4, <1>5
-----------------------------------------------------------------------------
(* Ranks.                                                                  *)

LEMMA Counted ==
  ASSUME NEW n \in Nat, NEW S \in SUBSET (0 .. n)
  PROVE  IsFiniteSet(S) /\ Cardinality(S) \in Nat
<1>1. IsFiniteSet(0 .. n)
  BY FS_Interval
<1>2. IsFiniteSet(S)
  BY <1>1, FS_Subset
<1> QED BY <1>2, FS_CardinalityType

LEMMA RankMonotone ==
  ASSUME NEW n \in Nat, NEW I \in SUBSET (0 .. n), NEW a \in 0 .. n, NEW b \in 0 .. n
  PROVE  /\ Rank(I, a) \in Nat /\ Rank(I, b) \in Nat
         /\ Rank(I, a) < Rank(I, b) => a < b
<1> DEFINE A == {f \in I : f < a}
           B == {f \in I : f < b}
<1>1. IsFiniteSet(B) /\ Cardinality(B) \in Nat /\ Cardinality(A) \in Nat
  BY Counted
<1>2. ASSUME ~ (a < b) PROVE Cardinality(B) <= Cardinality(A)
  <2>1. B \subseteq A
    <3> SUFFICES ASSUME NEW f \in I, f < b PROVE f < a
      OBVIOUS
    <3>1. f \in 0 .. n /\ b <= a
      BY <1>2
    <3> QED BY <3>1
  <2>2. IsFiniteSet(A)
    BY Counted
  <2> QED BY <2>1, <2>2, FS_Subset
<1>3. Rank(I, a) = Cardinality(A) /\ Rank(I, b) = Cardinality(B)
  BY DEF Rank
<1> HIDE DEF A, B
<1> QED BY <1>1, <1>2, <1>3

LEMMA RankBounded ==
  ASSUME NEW n \in Nat, NEW I \in SUBSET (0 .. n), NEW a \in I
  PROVE  Rank(I, a) < Cardinality(I)
<1> DEFINE A == {f \in I : f < a}
<1>1. IsFiniteSet(I) /\ Cardinality(I) \in Nat /\ Cardinality(A) \in Nat
  BY Counted
<1>2. A \in SUBSET I /\ a \notin A
  OBVIOUS
<1>3. Rank(I, a) = Cardinality(A)
  BY DEF Rank
<1> HIDE DEF A
<1>4. Cardinality(A) <= Cardinality(I) /\ Cardinality(A) # Cardinality(I)
  BY <1>1, <1>2, FS_Subset
<1> QED BY <1>1, <1>3, <1>4

(* The events of an index that lie after one of its events c, up to        *)
(* another one a, are counted by the difference of their ranks.            *)
LEMMA RanksBetween ==
  ASSUME NEW n \in Nat, NEW I \in SUBSET (0 .. n), NEW a \in I, NEW c \in I, c < a
  PROVE  Cardinality({e \in I : c < e /\ e <= a}) = Rank(I, a) - Rank(I, c)
<1> DEFINE C == {f \in I : f < c}
           A == {f \in I : f < a}
           M == {f \in I : c < f /\ f < a}
           H == {e \in I : c < e /\ e <= a}
<1>1. /\ IsFiniteSet(C) /\ IsFiniteSet(M)
      /\ Cardinality(C) \in Nat /\ Cardinality(M) \in Nat
  BY Counted
<1>0. \A f \in I : f \in Nat
  OBVIOUS
<1>2. H = M \cup {a} /\ a \notin M
  <2>1. \A f \in I : (c < f /\ f <= a) <=> (f = a \/ (c < f /\ f < a))
    BY <1>0
  <2>2. ~ (a < a)
    BY <1>0
  <2> QED BY <2>1, <2>2
<1>3. A = (C \cup {c}) \cup M /\ c \notin C /\ (C \cup {c}) \cap M = {}
  <2>1. \A f \in I : f < a <=> (f < c \/ f = c \/ (c < f /\ f < a))
    BY <1>0
  <2>2. A = (C \cup {c}) \cup M
    BY <2>1
  <2>3. ~ (c < c) /\ \A f \in I : ~ (f < c /\ c < f)
    BY <1>0
  <2>4. c \notin C /\ (C \cup {c}) \cap M = {}
    BY <2>3
  <2> QED BY <2>2, <2>4
<1>4. Rank(I, a) = Cardinality(A) /\ Rank(I, c) = Cardinality(C)
  BY DEF Rank
<1> SUFFICES Cardinality(H) = Cardinality(A) - Cardinality(C)
  BY <1>4
<1> HIDE DEF C, A, M, H
<1>5. Cardinality(H) = Cardinality(M) + 1
  BY <1>1, <1>2, FS_AddElement
<1>6. IsFiniteSet(C \cup {c}) /\ Cardinality(C \cup {c}) = Cardinality(C) + 1
  BY <1>1, <1>3, FS_AddElement
<1>7. Cardinality(A) = Cardinality(C \cup {c}) + Cardinality(M) - Cardinality({})
  BY <1>1, <1>3, <1>6, FS_Union
<1>8. Cardinality({}) = 0
  BY FS_EmptySet
<1> QED BY <1>1, <1>5, <1>6, <1>7, <1>8

-----------------------------------------------------------------------------
(* np.array_split partitions an index.                                     *)

From(n, k, g) == g * (n \div k) + Smaller(g, n % k)

LEMMA GroupIs ==
  ASSUME NEW I, NEW k, NEW g
  PROVE  Group(I, k, g) =
           {e \in I : Rank(I, e) \in From(Cardinality(I), k, g) .. From(Cardinality(I), k, g + 1) - 1}
  BY DEF Group, From

LEMMA FromIs ==
  ASSUME NEW n \in Nat, NEW k \in Nat \ {0}
  PROVE  /\ \A g \in Nat : From(n, k, g) \in Nat
         /\ \A g, h \in Nat : g <= h => From(n, k, g) <= From(n, k, h)
         /\ From(n, k, 0) = 0 /\ From(n, k, k) = n
<1> DEFINE q == n \div k
           r == n % k
<1>1. q \in Nat /\ r \in Nat /\ r < k /\ n = k * q + r
  OBVIOUS
<1> HIDE DEF q, r
<1>2. \A g : From(n, k, g) = g * q + Smaller(g, r)
  BY DEF From, q, r
<1>3. \A g \in Nat : g * q \in Nat /\ Smaller(g, r) \in Nat
  BY <1>1 DEF Smaller
<1>4. ASSUME NEW g \in Nat, NEW h \in Nat, g <= h
      PROVE  From(n, k, g) <= From(n, k, h)
  <2>1. PICK d \in Nat : h = g + d
    BY <1>4
  <2>2. h * q = g * q + d * q /\ d * q \in Nat
    BY <1>1, <2>1
  <2>3. Smaller(g, r) <= Smaller(h, r)
    BY <1>1, <1>4 DEF Smaller
  <2> QED BY <1>2, <1>3, <2>2, <2>3
<1>5. From(n, k, 0) = 0
  BY <1>1, <1>2 DEF Smaller
<1>6. From(n, k, k) = n
  BY <1>1, <1>2 DEF Smaller
<1>7. ASSUME NEW g \in Nat PROVE From(n, k, g) \in Nat
  BY <1>2, <1>3
<1> QED BY <1>4, <1>5, <1>6, <1>7

(* No event is in two folds, and every event is in one. *)
LEMMA GroupsPartition ==
  ASSUME NEW n \in Nat, NEW I \in SUBSET (0 .. n), NEW k \in Nat \ {0}
  PROVE  /\ \A g, h \in Nat : g # h => Group(I, k, g) \cap Group(I, k, h) = {}
         /\ \A e \in I : \E g \in 0 .. k - 1 : e \in Group(I, k, g)
<1> DEFINE N == Cardinality(I)
<1>1. N \in Nat /\ \A e \in I : Rank(I, e) \in Nat /\ Rank(I, e) < N
  BY Counted, RankMonotone, RankBounded
<1> HIDE DEF N
<1>2. /\ \A g \in Nat : From(N, k, g) \in Nat
      /\ \A g, h \in Nat : g <= h => From(N, k, g) <= From(N, k, h)
      /\ From(N, k, 0) = 0 /\ From(N, k, k) = N
  BY <1>1, FromIs
<1>3. \A g : Group(I, k, g) = {e \in I : Rank(I, e) \in From(N, k, g) .. From(N, k, g + 1) - 1}
  BY GroupIs DEF N
<1>4. ASSUME NEW g \in Nat, NEW h \in Nat, g < h
      PROVE  Group(I, k, g) \cap Group(I, k, h) = {}
  <2>1. From(N, k, g + 1) <= From(N, k, h)
    BY <1>2, <1>4
  <2>2. From(N, k, g + 1) \in Nat /\ From(N, k, h) \in Nat
    BY <1>2
  <2> SUFFICES ASSUME NEW e \in I, e \in Group(I, k, g), e \in Group(I, k, h) PROVE FALSE
    BY <1>3
  <2>3. Rank(I, e) \in Nat
    BY <1>1
  <2>4. Rank(I, e) < From(N, k, g + 1) /\ Rank(I, e) >= From(N, k, h)
    <3>1. From(N, k, g) \in Nat /\ From(N, k, h + 1) \in Nat
      BY <1>2
    <3>2. /\ Rank(I, e) \in From(N, k, g) .. From(N, k, g + 1) - 1
          /\ Rank(I, e) \in From(N, k, h) .. From(N, k, h + 1) - 1
      BY <1>3
    <3> QED BY <2>2, <3>1, <3>2
  <2> QED BY <2>1, <2>2, <2>3, <2>4
<1>5. ASSUME NEW e \in I PROVE \E g \in 0 .. k - 1 : e \in Group(I, k, g)
  <2> DEFINE started == {g \in 0 .. k - 1 : From(N, k, g) <= Rank(I, e)}
             last == Max(started)
  <2>1. started \in SUBSET (0 .. k) /\ 0 \in started
    BY <1>1, <1>2
  <2>2. last \in started /\ \A g \in started : last >= g
    <3> HIDE DEF started
    <3> QED BY <2>1, MaxIs
  <2>3. last \in 0 .. k - 1 /\ From(N, k, last) <= Rank(I, e)
    BY <2>2
  <2>4. last + 1 \notin started
    BY <2>2, <2>3
  <2> HIDE DEF last
  <2>5. Rank(I, e) < From(N, k, last + 1)
    <3>1. CASE last + 1 \in 0 .. k - 1
      <4>1. From(N, k, last + 1) \in Nat /\ Rank(I, e) \in Nat
        BY <1>1, <1>2, <2>3
      <4> QED BY <2>4, <3>1, <4>1
    <3>2. CASE last + 1 \notin 0 .. k - 1
      <4>1. last + 1 = k
        BY <2>3, <3>2
      <4> QED BY <1>1, <1>2, <4>1
    <3> QED BY <3>1, <3>2
  <2>6. Rank(I, e) \in From(N, k, last) .. From(N, k, last + 1) - 1
    BY <1>1, <1>2, <2>3, <2>5
  <2> QED BY <1>3, <2>3, <2>6
<1>6. \A g, h \in Nat : g # h => Group(I, k, g) \cap Group(I, k, h) = {}
  BY <1>4
<1> QED BY <1>5, <1>6

-----------------------------------------------------------------------------
(* One split.                                                              *)

LEMMA PortionNat ==
  ASSUME NEW n \in Nat, NEW I \in SUBSET (0 .. n), NEW pct \in 0 .. 100
  PROVE  Portion(I, pct) \in Nat
<1> DEFINE c == Cardinality(I)
<1>1. c \in Nat
  BY Counted
<1> HIDE DEF c
<1>2. c * pct \in Nat
  BY <1>1
<1> DEFINE x == c * pct
<1>3. x \in Nat
  BY <1>2
<1> HIDE DEF x
<1>4. x \div 100 \in Nat
  BY <1>3
<1> QED BY <1>4 DEF Portion, c, x

(* What is left after purging shares no bar with what it is tested on.     *)
LEMMA PurgeClean ==
  ASSUME NEW n \in Nat, NEW I, NEW t, Labels(t, I, n),
         NEW train \in SUBSET I, NEW test \in SUBSET I
  PROVE  /\ Purge(t, train, test) \subseteq train
         /\ \A a \in Purge(t, train, test), b \in test : ~ Overlap(t, a, b)
<1>1. ASSUME NEW a \in Purge(t, train, test), NEW b \in test PROVE ~ Overlap(t, a, b)
  <2>1. a \in I /\ ~ Stabbed(t, test, a)
    BY DEF Purge
  <2> QED BY <2>1, PurgeExact
<1> QED BY <1>1 DEF Purge

(* A label that overlaps none of the later events ended before they start. *)
LEMMA EndedBefore ==
  ASSUME NEW n \in Nat, NEW I, NEW t, Labels(t, I, n), NEW a \in I, NEW b \in I,
         a < b, ~ Overlap(t, a, b)
  PROVE  t[a] < b
<1>1. a \in Nat /\ b \in Nat /\ t[a] \in Nat /\ t[b] \in Nat /\ b <= t[b]
  BY DEF Labels
<1> QED BY <1>1 DEF Overlap

LEMMA HoldoutAfter ==
  ASSUME NEW n \in Nat, NEW I, NEW t, Labels(t, I, n), NEW pct \in 0 .. 100
  PROVE  LET h == HoldoutSplit(t, I, pct) IN
         /\ h.train \subseteq I /\ h.test \subseteq I
         /\ \A a \in h.train, b \in h.test : t[a] < b
<1> DEFINE cut == Portion(I, 100 - pct)
           kept == {e \in I : Rank(I, e) >= cut}
           rest == Purge(t, I \ kept, kept)
<1>1. I \in SUBSET (0 .. n)
  BY DEF Labels
<1>2. cut \in Nat
  <2>1. 100 - pct \in 0 .. 100
    OBVIOUS
  <2> QED BY <1>1, <2>1, PortionNat
<1>3. rest \subseteq I \ kept /\ \A a \in rest, b \in kept : ~ Overlap(t, a, b)
  <2>1. kept \in SUBSET I /\ I \ kept \in SUBSET I
    OBVIOUS
  <2> HIDE DEF kept
  <2> QED BY <2>1, PurgeClean
<1>4. ASSUME NEW a \in rest, NEW b \in kept PROVE t[a] < b
  <2>1. a \in I /\ b \in I /\ a \notin kept
    BY <1>3
  <2>2. Rank(I, a) \in Nat /\ Rank(I, b) \in Nat /\ (Rank(I, a) < Rank(I, b) => a < b)
    <3>1. a \in 0 .. n /\ b \in 0 .. n
      BY <1>1, <2>1
    <3> QED BY <1>1, <3>1, RankMonotone
  <2>3. Rank(I, a) < cut /\ Rank(I, b) >= cut
    <3> HIDE DEF cut
    <3> QED BY <1>2, <2>1, <2>2
  <2>4. a < b
    <3> HIDE DEF cut
    <3> QED BY <1>2, <2>2, <2>3
  <2> QED BY <1>3, <2>1, <2>4, EndedBefore
<1>5. HoldoutSplit(t, I, pct) = [train |-> rest, test |-> kept]
  BY DEF HoldoutSplit, Split
<1> HIDE DEF rest, kept
<1>6. rest \subseteq I /\ kept \subseteq I
  BY <1>3 DEF kept
<1> QED BY <1>4, <1>5, <1>6

LEMMA WalkAfter ==
  ASSUME NEW n \in Nat, NEW I, NEW t, Labels(t, I, n), NEW D \in SUBSET I,
         NEW k, NEW i, NEW pct \in 0 .. 100, NEW anchored
  PROVE  LET w == WalkSplit(t, D, k, i, pct, anchored) IN
         /\ w.train \subseteq D /\ w.test \subseteq D
         /\ \A a \in w.train, b \in w.test : t[a] < b
<1> DEFINE test == Group(D, k + 1, i)
           before == {e \in D : /\ test # {} /\ Rank(D, e) < Rank(D, Min(test)) - Portion(D, pct)
                                /\ anchored \/ e >= Min(Group(D, k + 1, i - 1))}
           train == Purge(t, before, test)
<1>1. I \in SUBSET (0 .. n) /\ D \in SUBSET (0 .. n) /\ D \subseteq Nat
  BY DEF Labels
<1>2. test \subseteq D /\ before \subseteq D
  BY DEF Group
<1>3. Portion(D, pct) \in Nat
  BY <1>1, PortionNat
<1>4. train \subseteq before /\ \A a \in train, b \in test : ~ Overlap(t, a, b)
  <2>1. test \in SUBSET I /\ before \in SUBSET I
    BY <1>2
  <2> HIDE DEF test, before
  <2> QED BY <2>1, PurgeClean
<1>5. ASSUME NEW a \in train, NEW b \in test PROVE t[a] < b
  <2>1. a \in before /\ a \in D /\ b \in D
    BY <1>2, <1>4
  <2>2. Rank(D, a) < Rank(D, Min(test)) - Portion(D, pct)
    BY <2>1
  <2>3. Min(test) \in test /\ Min(test) <= b
    <3>1. test \in SUBSET Nat /\ test # {}
      BY <1>1, <1>2
    <3> HIDE DEF test
    <3> QED BY <3>1, MinIs
  <2> HIDE DEF test, before, train
  <2>4. Min(test) \in D /\ Min(test) \in 0 .. n /\ a \in 0 .. n /\ b \in 0 .. n
    BY <1>1, <1>2, <2>1, <2>3
  <2>5. /\ Rank(D, a) \in Nat /\ Rank(D, Min(test)) \in Nat
        /\ Rank(D, a) < Rank(D, Min(test)) => a < Min(test)
    BY <1>1, <2>4, RankMonotone
  <2>6. a < b
    <3>1. a < Min(test)
      BY <1>3, <2>2, <2>5
    <3> QED BY <2>3, <2>4, <3>1
  <2> QED BY <1>4, <2>1, <2>6, EndedBefore
<1>6. WalkSplit(t, D, k, i, pct, anchored) = [train |-> train, test |-> test]
  BY DEF WalkSplit, Split
<1> HIDE DEF train, test, before
<1>7. train \subseteq D /\ test \subseteq D
  BY <1>2, <1>4
<1> QED BY <1>5, <1>6, <1>7

(* Every event of the index is tested, trained on, leaking or embargoed.   *)
Excused(t, D, pct, s) ==
  \A a \in D \ (s.train \cup s.test) : \E b \in s.test :
    \/ Overlap(t, a, b)
    \/ /\ t[b] < a
       /\ Cardinality({e \in D : t[b] < e /\ e <= a}) <= Portion(D, pct)

LEMMA PurgedSplitExact ==
  ASSUME NEW n \in Nat, NEW I, NEW t, Labels(t, I, n), NEW D \in SUBSET I,
         NEW test \in SUBSET D, NEW pct \in 0 .. 100
  PROVE  LET s == PurgedSplit(t, D, test, pct) IN
         /\ s.train \subseteq D /\ s.test = test
         /\ \A a \in s.train, b \in s.test : ~ Overlap(t, a, b)
         /\ Excused(t, D, pct, s)
<1> DEFINE left == Purge(t, D, test)
           bars == Portion(D, pct)
           train == Embargo(t, D, left, test, bars)
<1>1. D \in SUBSET (0 .. n) /\ t \in [I -> 0 .. n] /\ D \subseteq I
  BY DEF Labels
<1>2. left \subseteq D /\ \A a \in left, b \in test : ~ Overlap(t, a, b)
  BY PurgeClean
<1>3. train \subseteq left
  BY DEF Embargo
<1>4. ASSUME NEW a \in D, a \notin train
      PROVE  \E b \in test : \/ Overlap(t, a, b)
                             \/ /\ t[b] < a
                                /\ Cardinality({e \in D : t[b] < e /\ e <= a}) <= bars
  <2>1. CASE a \notin left
    <3>1. Stabbed(t, test, a)
      BY <2>1 DEF Purge
    <3> QED BY <1>1, <3>1, PurgeExact
  <2>2. CASE a \in left
    <3>1. Rank(D, a) \in Embargoed(t, D, test, bars)
      BY <1>4, <2>2 DEF Embargo
    <3>2. PICK b \in test : /\ t[b] \in D
                            /\ Rank(D, a) \in Rank(D, t[b]) + 1 .. Rank(D, t[b]) + bars
      BY <3>1 DEF Embargoed
    <3>3. bars \in Nat
      BY <1>1, PortionNat
    <3>4. a \in 0 .. n /\ t[b] \in 0 .. n
      BY <1>1, <3>2
    <3>5. /\ Rank(D, a) \in Nat /\ Rank(D, t[b]) \in Nat
          /\ Rank(D, t[b]) < Rank(D, a) => t[b] < a
      BY <1>1, <3>4, RankMonotone
    <3> HIDE DEF bars
    <3>6. t[b] < a /\ Rank(D, a) - Rank(D, t[b]) <= bars
      BY <3>2, <3>3, <3>5
    <3>7. Cardinality({e \in D : t[b] < e /\ e <= a}) = Rank(D, a) - Rank(D, t[b])
      BY <1>1, <3>2, <3>6, RanksBetween
    <3> QED BY <3>6, <3>7
  <2> QED BY <2>1, <2>2
<1>5. PurgedSplit(t, D, test, pct) = [train |-> train, test |-> test]
  BY DEF PurgedSplit, Split
<1> HIDE DEF train, left, bars
<1>6. train \subseteq D /\ \A a \in train, b \in test : ~ Overlap(t, a, b)
  BY <1>2, <1>3
<1> DEFINE s == PurgedSplit(t, D, test, pct)
<1>7. s.train = train /\ s.test = test
  BY <1>5
<1> HIDE DEF s
<1>8. s.train \subseteq D /\ s.test = test /\ \A a \in s.train, b \in s.test : ~ Overlap(t, a, b)
  BY <1>6, <1>7
<1>9. \A a \in D \ (s.train \cup s.test) : \E b \in test :
        \/ Overlap(t, a, b)
        \/ /\ t[b] < a
           /\ Cardinality({e \in D : t[b] < e /\ e <= a}) <= Portion(D, pct)
  BY <1>4, <1>7 DEF bars
<1>10. Excused(t, D, pct, s)
  BY <1>7, <1>9 DEF Excused
<1> QED BY <1>8, <1>10 DEF s
=============================================================================
