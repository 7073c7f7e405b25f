----------------------------- MODULE SumTheorems -----------------------------
(***************************************************************************)
(* Sums over finite sets, for every set: what MapThenSumSet of the         *)
(* community modules computes.                                             *)
(***************************************************************************)
EXTENDS Integers, FiniteSetsExt, FiniteSetTheorems, TLAPS

\* The sum of a function over a set.
SumOver(F, S) == MapThenSumSet(LAMBDA x : F[x], S)

-----------------------------------------------------------------------------
(* Induction. *)

LessThan == {p \in Nat \X Nat : p[1] < p[2]}

\* A set of naturals has a least element.
LEMMA Smallest ==
    ASSUME NEW T \in SUBSET Nat, T # {}
    PROVE  \E x \in T : \A y \in T : x <= y
<1>1. OpToRel(<, Nat) = LessThan
  BY Zenon DEF OpToRel, LessThan
<1>2. IsWellFoundedOn(LessThan, Nat)
  BY <1>1, NatLessThanWellFounded, Zenon
<1>3. PICK x \in T : \A y \in T : ~ (<<y, x>> \in LessThan)
  BY <1>2, WFMin
<1>4. \A y \in T : ~(y < x)
  BY <1>3 DEF LessThan
<1> QED BY <1>4

\* What holds of the empty set and of a set with one element more than one it
\* holds of, holds of every finite set.
LEMMA SetInduction ==
    ASSUME NEW S, IsFiniteSet(S), NEW Good, {} \in Good,
           \A T \in SUBSET S : \A x \in S \ T : T \in Good => T \cup {x} \in Good
    PROVE  S \in Good
<1> SUFFICES ASSUME S \notin Good PROVE FALSE
  OBVIOUS
<1> DEFINE Bad == {T \in SUBSET S : T \notin Good}
           Sizes == {n \in Nat : \E T \in Bad : Cardinality(T) = n}
<1>1. \A T \in SUBSET S : IsFiniteSet(T) /\ Cardinality(T) \in Nat
  BY FS_Subset, FS_CardinalityType
<1>2. Sizes \in SUBSET Nat /\ Sizes # {}
  BY <1>1
<1>3. PICK n \in Sizes : \A m \in Sizes : n <= m
  BY <1>2, Smallest
<1>4. PICK T \in Bad : Cardinality(T) = n
  BY <1>3
<1>5. PICK x \in T : TRUE
  BY <1>4
<1>6. IsFiniteSet(T) /\ T \ {x} \in SUBSET S /\ x \in S \ (T \ {x}) /\ (T \ {x}) \cup {x} = T
  BY <1>1, <1>4, <1>5
<1>7. Cardinality(T \ {x}) = n - 1
  BY <1>4, <1>5, <1>6, FS_RemoveElement
<1>8. T \ {x} \in Good
  BY <1>1, <1>3, <1>6, <1>7
<1> QED BY <1>4, <1>6, <1>8

-----------------------------------------------------------------------------
(* The recursion behind the sum. *)

\* The function whose value at S is the sum of F over S.
Sums(F, S) ==
    CHOOSE g : g = [T \in SUBSET S |->
        IF T = {} THEN 0 ELSE F[CHOOSE x \in T : TRUE] + g[T \ {CHOOSE x \in T : TRUE}]]

\* A function that adds up F over every subset of S.
Adds(g, F, S) ==
    g = [T \in SUBSET S |->
        IF T = {} THEN 0 ELSE F[CHOOSE x \in T : TRUE] + g[T \ {CHOOSE x \in T : TRUE}]]

\* If some function adds up F, Sums does.
LEMMA SumsAdd ==
    ASSUME NEW F, NEW S, NEW h, Adds(h, F, S)
    PROVE  Adds(Sums(F, S), F, S)
<1> DEFINE P(g) == g = [T \in SUBSET S |->
                      IF T = {} THEN 0 ELSE F[CHOOSE x \in T : TRUE] + g[T \ {CHOOSE x \in T : TRUE}]]
<1>1. P(h) /\ Sums(F, S) = (CHOOSE g : P(g)) /\ (P(CHOOSE g : P(g)) => Adds(CHOOSE g : P(g), F, S))
  BY Zenon DEF Adds, Sums
<1>2. P(CHOOSE g : P(g))
  <2> HIDE DEF P
  <2> QED BY <1>1, Zenon
<1> HIDE DEF P
<1> QED BY <1>1, <1>2, Zenon

LEMMA SumOverDef ==
    ASSUME NEW F, NEW S
    PROVE  SumOver(F, S) = Sums(F, S)[S]
BY Zenon DEF SumOver, MapThenSumSet, MapThenFoldSet, Sums

\* There is one.
LEMMA AddsExists ==
    ASSUME NEW F, NEW S, IsFiniteSet(S)
    PROVE  \E g : Adds(g, F, S)
<1> DEFINE Next(g) == [T \in SUBSET S |->
        IF T = {} THEN 0 ELSE F[CHOOSE x \in T : TRUE] + g[T \ {CHOOSE x \in T : TRUE}]]
           UpTo(n) == {T \in SUBSET S : Cardinality(T) <= n}
           Fails == {n \in Nat : ~ \E g : /\ g = [T \in SUBSET S |-> g[T]]
                                         /\ \A T \in UpTo(n) : g[T] = Next(g)[T]}
<1>1. \A T \in SUBSET S : IsFiniteSet(T) /\ Cardinality(T) \in Nat
  BY FS_Subset, FS_CardinalityType
<1>2. \A T \in SUBSET S : T # {} =>
          /\ T \ {CHOOSE x \in T : TRUE} \in SUBSET S
          /\ Cardinality(T \ {CHOOSE x \in T : TRUE}) = Cardinality(T) - 1
  BY <1>1, FS_RemoveElement
<1>3. 0 \notin Fails
  <2> DEFINE z == [T \in SUBSET S |-> 0]
  <2>1. \A T \in UpTo(0) : T = {}
    BY <1>1, FS_EmptySet
  <2>2. \A T \in UpTo(0) : z[T] = Next(z)[T]
    BY <2>1
  <2> QED BY <2>2
<1>4. ASSUME NEW n \in Nat, n \notin Fails PROVE n + 1 \notin Fails
  <2>1. PICK g : g = [T \in SUBSET S |-> g[T]] /\ \A T \in UpTo(n) : g[T] = Next(g)[T]
    BY <1>4
  <2> DEFINE h == Next(g)
  <2>2. \A T \in UpTo(n) : h[T] = g[T]
    BY <2>1
  <2>3. \A T \in UpTo(n + 1) : T # {} => T \ {CHOOSE x \in T : TRUE} \in UpTo(n)
    BY <1>1, <1>2
  <2>4. ASSUME NEW T \in UpTo(n + 1) PROVE h[T] = Next(h)[T]
    <3>1. T # {} => g[T \ {CHOOSE x \in T : TRUE}] = h[T \ {CHOOSE x \in T : TRUE}]
      BY <2>2, <2>3
    <3> QED BY <3>1
  <2>5. h = [T \in SUBSET S |-> h[T]]
    OBVIOUS
  <2> HIDE DEF h
  <2> QED BY <2>4, <2>5
<1>5. Fails = {}
  <2>0. Fails \in SUBSET Nat
    OBVIOUS
  <2> HIDE DEF Fails
  <2> SUFFICES ASSUME Fails # {} PROVE FALSE
    OBVIOUS
  <2>1. PICK n \in Fails : \A m \in Fails : n <= m
    BY <2>0, Smallest
  <2>2. n # 0 /\ n - 1 \in Nat /\ n - 1 \notin Fails
    BY <1>3, <2>0, <2>1
  <2>3. (n - 1) + 1 \notin Fails
    BY <1>4, <2>2
  <2> QED BY <2>0, <2>1, <2>2, <2>3
<1>6. Cardinality(S) \in Nat /\ \A T \in SUBSET S : T \in UpTo(Cardinality(S))
  BY <1>1, FS_Subset, FS_CardinalityType
<1>7. PICK g : g = [T \in SUBSET S |-> g[T]] /\ \A T \in UpTo(Cardinality(S)) : g[T] = Next(g)[T]
  BY <1>5, <1>6
<1>8. g = Next(g)
  BY <1>6, <1>7
<1> QED BY <1>8 DEF Adds

\* There is one only, and a larger set's agrees with it.
LEMMA AddsUnique ==
    ASSUME NEW F, NEW S, IsFiniteSet(S), NEW R, S \subseteq R, NEW g, Adds(g, F, S), NEW h, Adds(h, F, R)
    PROVE  g[S] = h[S]
<1> DEFINE Alike == {T \in SUBSET S : g[T] = h[T]}
           Sizes == {n \in Nat : \E T \in SUBSET S : g[T] # h[T] /\ Cardinality(T) = n}
<1>1. \A T \in SUBSET S : IsFiniteSet(T) /\ Cardinality(T) \in Nat
  BY FS_Subset, FS_CardinalityType
<1>2. SUFFICES ASSUME Sizes # {} PROVE FALSE
  BY <1>1
<1>3. PICK n \in Sizes : \A m \in Sizes : n <= m
  BY <1>2, Smallest
<1>4. PICK T \in SUBSET S : g[T] # h[T] /\ Cardinality(T) = n
  BY <1>3
<1> DEFINE c == CHOOSE x \in T : TRUE
<1>5. g[{}] = 0 /\ h[{}] = 0
  BY DEF Adds
<1>6. T # {} /\ c \in T /\ T \ {c} \in SUBSET S /\ T \in SUBSET R
  BY <1>4, <1>5
<1>7. g[T] = F[c] + g[T \ {c}] /\ h[T] = F[c] + h[T \ {c}]
  BY <1>4, <1>6 DEF Adds
<1>8. Cardinality(T \ {c}) = n - 1
  BY <1>1, <1>4, <1>6, FS_RemoveElement
<1>9. g[T \ {c}] = h[T \ {c}]
  BY <1>1, <1>3, <1>6, <1>8
<1> QED BY <1>4, <1>7, <1>9

\* What the fold takes from the set first is as good as any other element.
LEMMA SumChosen ==
    ASSUME NEW F, NEW S, IsFiniteSet(S)
    PROVE  /\ S = {} => SumOver(F, S) = 0
           /\ S # {} => LET c == CHOOSE x \in S : TRUE IN
                           SumOver(F, S) = F[c] + SumOver(F, S \ {c})
<1> DEFINE c == CHOOSE x \in S : TRUE
<1>1. PICK g : Adds(g, F, S)
  BY AddsExists
<1>2. Adds(Sums(F, S), F, S)
  BY <1>1, SumsAdd
<1>3. CASE S = {}
  BY <1>2, <1>3, SumOverDef DEF Adds
<1>4. CASE S # {}
  <2>1. c \in S /\ IsFiniteSet(S \ {c}) /\ S \ {c} \subseteq S
    BY <1>4, FS_RemoveElement
  <2>2. PICK h : Adds(h, F, S \ {c})
    BY <2>1, AddsExists
  <2>3. Adds(Sums(F, S \ {c}), F, S \ {c})
    BY <2>2, SumsAdd
  <2>4. Adds(Sums(F, S \ {c}), F, S \ {c}) /\ Adds(Sums(F, S), F, S)
    BY <1>2, <2>3
  <2>5. SumOver(F, S \ {c}) = Sums(F, S \ {c})[S \ {c}]
    BY SumOverDef
  <2>6. Sums(F, S)[S] = F[c] + Sums(F, S)[S \ {c}]
    BY <1>2, <1>4 DEF Adds
  <2>7. \A g1, h1 : Adds(g1, F, S \ {c}) /\ Adds(h1, F, S) => g1[S \ {c}] = h1[S \ {c}]
    <3> TAKE g1, h1
    <3> HAVE Adds(g1, F, S \ {c}) /\ Adds(h1, F, S)
    <3> DEFINE k == [T \in SUBSET (S \ {c}) |-> h1[T]]
    <3>1. Adds(k, F, S \ {c})
      BY DEF Adds
    <3> QED BY <2>1, AddsUnique
  <2> QED BY <1>4, <2>4, <2>5, <2>6, <2>7, SumOverDef
<1> QED BY <1>3, <1>4

\* However the sum is computed.
LEMMA SumIs ==
    ASSUME NEW F, NEW S, IsFiniteSet(S), NEW g, Adds(g, F, S)
    PROVE  SumOver(F, S) = g[S]
<1>1. Adds(Sums(F, S), F, S)
  BY SumsAdd
<1> QED BY <1>1, AddsUnique, SumOverDef

\* The sum over no elements.
THEOREM SumEmpty ==
    ASSUME NEW F
    PROVE  SumOver(F, {}) = 0
BY SumChosen, FS_EmptySet

\* A sum of integers is one.
THEOREM SumInt ==
    ASSUME NEW S, IsFiniteSet(S), NEW F, \A x \in S : F[x] \in Int
    PROVE  SumOver(F, S) \in Int
<1> DEFINE Sizes == {n \in Nat : \E T \in SUBSET S : SumOver(F, T) \notin Int /\ Cardinality(T) = n}
<1>1. \A T \in SUBSET S : IsFiniteSet(T) /\ Cardinality(T) \in Nat
  BY FS_Subset, FS_CardinalityType
<1>2. SUFFICES ASSUME Sizes # {} PROVE FALSE
  BY <1>1
<1>3. PICK n \in Sizes : \A m \in Sizes : n <= m
  BY <1>2, Smallest
<1>4. PICK T \in SUBSET S : SumOver(F, T) \notin Int /\ Cardinality(T) = n
  BY <1>3
<1> DEFINE c == CHOOSE x \in T : TRUE
<1>5. T # {} /\ c \in T /\ IsFiniteSet(T) /\ T \ {c} \in SUBSET S
  BY <1>1, <1>4, SumEmpty
<1>6. SumOver(F, T) = F[c] + SumOver(F, T \ {c})
  BY <1>5, SumChosen
<1>7. Cardinality(T \ {c}) = n - 1
  BY <1>4, <1>5, FS_RemoveElement
<1>8. SumOver(F, T \ {c}) \in Int
  BY <1>1, <1>3, <1>5, <1>7
<1> QED BY <1>4, <1>5, <1>6, <1>8

\* Any element may be taken out.
THEOREM SumRemove ==
    ASSUME NEW S, IsFiniteSet(S), NEW F, \A y \in S : F[y] \in Int, NEW x \in S
    PROVE  SumOver(F, S) = F[x] + SumOver(F, S \ {x})
<1> DEFINE Bad(T) == \E y \in T : SumOver(F, T) # F[y] + SumOver(F, T \ {y})
           Sizes == {n \in Nat : \E T \in SUBSET S : Bad(T) /\ Cardinality(T) = n}
<1>1. \A T \in SUBSET S : IsFiniteSet(T) /\ Cardinality(T) \in Nat
  BY FS_Subset, FS_CardinalityType
<1>2. SUFFICES ASSUME Sizes # {} PROVE FALSE
  BY <1>1
<1>3. PICK n \in Sizes : \A m \in Sizes : n <= m
  BY <1>2, Smallest
<1>4. PICK T \in SUBSET S : Bad(T) /\ Cardinality(T) = n
  BY <1>3
<1>5. PICK y \in T : SumOver(F, T) # F[y] + SumOver(F, T \ {y})
  BY <1>4
<1> DEFINE c == CHOOSE z \in T : TRUE
<1>6. c \in T /\ IsFiniteSet(T) /\ T \ {c} \in SUBSET S /\ T \ {y} \in SUBSET S
  BY <1>1, <1>4, <1>5
<1>7. SumOver(F, T) = F[c] + SumOver(F, T \ {c})
  BY <1>5, <1>6, SumChosen
<1>8. c # y
  BY <1>5, <1>7
<1>9. Cardinality(T \ {c}) = n - 1 /\ Cardinality(T \ {y}) = n - 1
  <2>1. Cardinality(T) = n
    BY <1>4
  <2> HIDE DEF c, Bad, Sizes
  <2>2. Cardinality(T \ {c}) = n - 1
    BY <1>6, <2>1, FS_RemoveElement
  <2>3. Cardinality(T \ {y}) = n - 1
    BY <1>5, <1>6, <2>1, FS_RemoveElement
  <2> QED BY <2>2, <2>3
<1>10. ~Bad(T \ {c}) /\ ~Bad(T \ {y})
  <2> HIDE DEF Bad
  <2> QED BY <1>1, <1>3, <1>6, <1>9
<1> DEFINE both == (T \ {c}) \ {y}
<1>11. (T \ {y}) \ {c} = both /\ both \in SUBSET S /\ c \in T \ {y} /\ y \in T \ {c}
  BY <1>6, <1>8
<1>12. SumOver(F, T \ {c}) = F[y] + SumOver(F, both) /\ SumOver(F, T \ {y}) = F[c] + SumOver(F, both)
  BY <1>10, <1>11
<1>13. SumOver(F, both) \in Int /\ F[c] \in Int /\ F[y] \in Int
  <2>1. IsFiniteSet(both) /\ \A z \in both : F[z] \in Int
    BY <1>1, <1>11
  <2> QED BY <2>1, <1>4, <1>5, <1>6, SumInt
<1> QED BY <1>5, <1>7, <1>12, <1>13

\* A new element adds its value.
THEOREM SumAdd ==
    ASSUME NEW S, IsFiniteSet(S), NEW x, x \notin S, NEW F, \A y \in S \cup {x} : F[y] \in Int
    PROVE  SumOver(F, S \cup {x}) = F[x] + SumOver(F, S)
<1>1. IsFiniteSet(S \cup {x}) /\ (S \cup {x}) \ {x} = S
  BY FS_AddElement
<1>2. SumOver(F, S \cup {x}) = F[x] + SumOver(F, (S \cup {x}) \ {x})
  BY <1>1, SumRemove
<1> QED BY <1>1, <1>2

\* Only the values over the set matter.
THEOREM SumSame ==
    ASSUME NEW S, IsFiniteSet(S), NEW F, NEW G, \A x \in S : F[x] = G[x] /\ F[x] \in Int
    PROVE  SumOver(F, S) = SumOver(G, S)
<1> DEFINE Good == {T \in SUBSET S : SumOver(F, T) = SumOver(G, T)}
<1>1. {} \in Good
  BY SumEmpty
<1>2. ASSUME NEW T \in SUBSET S, NEW x \in S \ T, T \in Good PROVE T \cup {x} \in Good
  <2>1. IsFiniteSet(T) /\ T \cup {x} \in SUBSET S
    BY FS_Subset
  <2>2. SumOver(F, T \cup {x}) = F[x] + SumOver(F, T)
    BY <2>1, SumAdd
  <2>3. SumOver(G, T \cup {x}) = G[x] + SumOver(G, T)
    BY <2>1, SumAdd
  <2> QED BY <1>2, <2>1, <2>2, <2>3
<1>3. S \in Good
  <2> HIDE DEF Good
  <2> QED BY <1>1, <1>2, SetInduction
<1> QED BY <1>3

\* A sum of naturals is one.
THEOREM SumNat ==
    ASSUME NEW S, IsFiniteSet(S), NEW F, \A x \in S : F[x] \in Nat
    PROVE  SumOver(F, S) \in Nat
<1> DEFINE Good == {T \in SUBSET S : SumOver(F, T) \in Nat}
<1>1. {} \in Good
  BY SumEmpty
<1>2. ASSUME NEW T \in SUBSET S, NEW x \in S \ T, T \in Good PROVE T \cup {x} \in Good
  <2>1. IsFiniteSet(T) /\ T \cup {x} \in SUBSET S
    BY FS_Subset
  <2>2. SumOver(F, T \cup {x}) = F[x] + SumOver(F, T)
    BY <2>1, SumAdd
  <2> QED BY <1>2, <2>1, <2>2
<1>3. S \in Good
  <2> HIDE DEF Good
  <2> QED BY <1>1, <1>2, SetInduction
<1> QED BY <1>3

\* Two sums over sets with nothing in common.
LEMMA SumDisjoint ==
    ASSUME NEW S, IsFiniteSet(S), NEW R, IsFiniteSet(R), R \cap S = {},
           NEW F, \A x \in R \cup S : F[x] \in Int
    PROVE  SumOver(F, R \cup S) = SumOver(F, R) + SumOver(F, S)
<1> DEFINE Good == {T \in SUBSET S : SumOver(F, R \cup T) = SumOver(F, R) + SumOver(F, T)}
<1>1. {} \in Good
  <2>1. R \cup {} = R
    OBVIOUS
  <2> QED BY <2>1, SumEmpty, SumInt
<1>2. ASSUME NEW T \in SUBSET S, NEW x \in S \ T, T \in Good PROVE T \cup {x} \in Good
  <2>1. IsFiniteSet(T) /\ IsFiniteSet(R \cup T) /\ T \cup {x} \in SUBSET S
    BY FS_Subset, FS_Union
  <2>2. SumOver(F, T \cup {x}) = F[x] + SumOver(F, T)
    BY <2>1, SumAdd
  <2>3. SumOver(F, (R \cup T) \cup {x}) = F[x] + SumOver(F, R \cup T)
    BY <2>1, SumAdd
  <2>4. (R \cup T) \cup {x} = R \cup (T \cup {x})
    OBVIOUS
  <2>5. SumOver(F, T) \in Int /\ SumOver(F, R) \in Int /\ F[x] \in Int
    BY <2>1, SumInt
  <2>6. SumOver(F, R \cup (T \cup {x})) = F[x] + (SumOver(F, R) + SumOver(F, T))
    BY <1>2, <2>3, <2>4
  <2>7. SumOver(F, R \cup (T \cup {x})) = SumOver(F, R) + SumOver(F, T \cup {x})
    BY <2>2, <2>5, <2>6
  <2> QED BY <2>1, <2>7
<1>3. S \in Good
  <2> HIDE DEF Good
  <2> QED BY <1>1, <1>2, SetInduction
<1> QED BY <1>3

\* Of naturals, a part sums up to no more than the whole.
THEOREM SumPart ==
    ASSUME NEW S, IsFiniteSet(S), NEW R \in SUBSET S, NEW F, \A x \in S : F[x] \in Nat
    PROVE  SumOver(F, R) <= SumOver(F, S)
<1>1. IsFiniteSet(R) /\ IsFiniteSet(S \ R) /\ R \cup (S \ R) = S /\ R \cap (S \ R) = {}
  BY FS_Subset
<1>2. SumOver(F, R) \in Nat /\ SumOver(F, S \ R) \in Nat
  BY <1>1, SumNat
<1>3. SumOver(F, R \cup (S \ R)) = SumOver(F, R) + SumOver(F, S \ R)
  BY <1>1, SumDisjoint
<1>4. \A m, n \in Nat : m <= m + n
  OBVIOUS
<1>5. SumOver(F, R) <= SumOver(F, R) + SumOver(F, S \ R)
  BY <1>2, <1>4
<1> QED BY <1>1, <1>3, <1>5

\* Larger values have a larger sum.
THEOREM SumAtMost ==
    ASSUME NEW S, IsFiniteSet(S), NEW F, NEW G,
           \A x \in S : F[x] \in Int /\ G[x] \in Int /\ F[x] <= G[x]
    PROVE  SumOver(F, S) <= SumOver(G, S)
<1> DEFINE Good == {T \in SUBSET S : SumOver(F, T) <= SumOver(G, T)}
<1>1. {} \in Good
  BY SumEmpty
<1>2. ASSUME NEW T \in SUBSET S, NEW x \in S \ T, T \in Good PROVE T \cup {x} \in Good
  <2>1. IsFiniteSet(T) /\ T \cup {x} \in SUBSET S
    BY FS_Subset
  <2>2. SumOver(F, T \cup {x}) = F[x] + SumOver(F, T)
    BY <2>1, SumAdd
  <2>3. SumOver(G, T \cup {x}) = G[x] + SumOver(G, T)
    BY <2>1, SumAdd
  <2>4. SumOver(F, T) \in Int /\ SumOver(G, T) \in Int
    BY <2>1, SumInt
  <2> QED BY <1>2, <2>1, <2>2, <2>3, <2>4
<1>3. S \in Good
  <2> HIDE DEF Good
  <2> QED BY <1>1, <1>2, SetInduction
<1> QED BY <1>3

\* The sum of two functions.
THEOREM SumPlus ==
    ASSUME NEW S, IsFiniteSet(S), NEW F, NEW G, NEW H,
           \A x \in S : F[x] \in Int /\ G[x] \in Int /\ H[x] = F[x] + G[x]
    PROVE  SumOver(H, S) = SumOver(F, S) + SumOver(G, S)
<1> DEFINE Good == {T \in SUBSET S : SumOver(H, T) = SumOver(F, T) + SumOver(G, T)}
<1>1. {} \in Good
  BY SumEmpty
<1>2. ASSUME NEW T \in SUBSET S, NEW x \in S \ T, T \in Good PROVE T \cup {x} \in Good
  <2>1. IsFiniteSet(T) /\ T \cup {x} \in SUBSET S
    BY FS_Subset
  <2>2. SumOver(F, T \cup {x}) = F[x] + SumOver(F, T)
    BY <2>1, SumAdd
  <2>3. SumOver(G, T \cup {x}) = G[x] + SumOver(G, T)
    BY <2>1, SumAdd
  <2>4. SumOver(H, T \cup {x}) = H[x] + SumOver(H, T)
    <3>1. \A y \in S : H[y] \in Int
      OBVIOUS
    <3> QED BY <2>1, <3>1, SumAdd
  <2>5. SumOver(F, T) \in Int /\ SumOver(G, T) \in Int
    BY <2>1, SumInt
  <2> QED BY <1>2, <2>1, <2>2, <2>3, <2>4, <2>5
<1>3. S \in Good
  <2> HIDE DEF Good
  <2> QED BY <1>1, <1>2, SetInduction
<1> QED BY <1>3

\* Sums over two sets whose elements correspond.
THEOREM SumRenamed ==
    ASSUME NEW S, IsFiniteSet(S), NEW R, NEW f \in Bijection(S, R), NEW F, NEW G,
           \A x \in S : F[x] \in Int /\ G[f[x]] = F[x]
    PROVE  IsFiniteSet(R) /\ SumOver(G, R) = SumOver(F, S)
<1>0. /\ f \in [S -> R] /\ \A y \in R : \E x \in S : f[x] = y
      /\ \A x, y \in S : f[x] = f[y] => x = y
  BY DEF Bijection, Injection, Surjection, IsInjective
<1> DEFINE Image(T) == {f[x] : x \in T}
           Good == {T \in SUBSET S : IsFiniteSet(Image(T)) /\ SumOver(G, Image(T)) = SumOver(F, T)}
<1>1. {} \in Good
  <2>1. Image({}) = {}
    OBVIOUS
  <2> QED BY <2>1, SumEmpty, FS_EmptySet
<1>2. ASSUME NEW T \in SUBSET S, NEW x \in S \ T, T \in Good PROVE T \cup {x} \in Good
  <2>1. IsFiniteSet(T) /\ T \cup {x} \in SUBSET S
    BY FS_Subset
  <2>2. Image(T \cup {x}) = Image(T) \cup {f[x]} /\ f[x] \notin Image(T)
    BY <1>0, <1>2
  <2>3. IsFiniteSet(Image(T)) /\ SumOver(G, Image(T)) = SumOver(F, T)
    BY <1>2
  <2>4. \A y \in Image(T) \cup {f[x]} : G[y] \in Int
    BY <1>2
  <2>5. IsFiniteSet(Image(T) \cup {f[x]}) /\ G[f[x]] = F[x]
    BY <2>3, FS_AddElement
  <2>6. \A y \in T \cup {x} : F[y] \in Int
    BY <1>2
  <2>7. SumOver(F, T \cup {x}) = F[x] + SumOver(F, T)
    BY <1>2, <2>1, <2>6, SumAdd
  <2> HIDE DEF Image
  <2>8. SumOver(G, Image(T) \cup {f[x]}) = G[f[x]] + SumOver(G, Image(T))
    BY <2>2, <2>3, <2>4, SumAdd
  <2> QED BY <2>1, <2>2, <2>3, <2>5, <2>7, <2>8
<1>3. S \in Good
  <2> HIDE DEF Good
  <2> QED BY <1>1, <1>2, SetInduction
<1>4. Image(S) = R
  BY <1>0
<1> HIDE DEF Image
<1> QED BY <1>3, <1>4

\* Zeros add up to zero.
THEOREM SumZero ==
    ASSUME NEW S, IsFiniteSet(S), NEW F, \A x \in S : F[x] = 0
    PROVE  SumOver(F, S) = 0
<1> DEFINE Good == {T \in SUBSET S : SumOver(F, T) = 0}
<1>1. {} \in Good
  BY SumEmpty
<1>2. ASSUME NEW T \in SUBSET S, NEW x \in S \ T, T \in Good PROVE T \cup {x} \in Good
  <2>1. IsFiniteSet(T) /\ \A y \in T \cup {x} : F[y] \in Int
    BY FS_Subset
  <2>2. SumOver(F, T \cup {x}) = F[x] + SumOver(F, T)
    BY <2>1, SumAdd
  <2> QED BY <1>2, <2>2
<1>3. S \in Good
  <2> HIDE DEF Good
  <2> QED BY <1>1, <1>2, SetInduction
<1> QED BY <1>3

\* A sum of positive numbers is no less than how many they are.
THEOREM SumCounts ==
    ASSUME NEW S, IsFiniteSet(S), NEW F, \A x \in S : F[x] \in Nat /\ F[x] >= 1
    PROVE  Cardinality(S) <= SumOver(F, S)
<1> DEFINE Good == {T \in SUBSET S : Cardinality(T) <= SumOver(F, T)}
<1>1. {} \in Good
  BY SumEmpty, FS_EmptySet
<1>2. ASSUME NEW T \in SUBSET S, NEW x \in S \ T, T \in Good PROVE T \cup {x} \in Good
  <2>1. IsFiniteSet(T) /\ T \cup {x} \in SUBSET S /\ \A y \in T \cup {x} : F[y] \in Int
    BY FS_Subset
  <2>2. SumOver(F, T \cup {x}) = F[x] + SumOver(F, T)
    BY <2>1, SumAdd
  <2>3. Cardinality(T \cup {x}) = Cardinality(T) + 1 /\ Cardinality(T) \in Nat
    BY <2>1, FS_AddElement, FS_CardinalityType
  <2>4. SumOver(F, T) \in Int /\ F[x] \in Nat /\ F[x] >= 1 /\ Cardinality(T) <= SumOver(F, T)
    BY <1>2, <2>1, SumInt
  <2>5. Cardinality(T \cup {x}) <= SumOver(F, T \cup {x})
    BY <2>2, <2>3, <2>4
  <2> QED BY <2>1, <2>5
<1> HIDE DEF Good
<1>3. S \in Good
  BY <1>1, <1>2, SetInduction
<1> QED BY <1>3 DEF Good

\* A multiple of a sum.
THEOREM SumScaled ==
    ASSUME NEW S, IsFiniteSet(S), NEW k \in Int, NEW F, NEW G,
           \A x \in S : F[x] \in Int /\ G[x] = k * F[x]
    PROVE  SumOver(G, S) = k * SumOver(F, S)
<1> DEFINE Good == {T \in SUBSET S : SumOver(G, T) = k * SumOver(F, T)}
<1>1. {} \in Good
  BY SumEmpty
<1>2. ASSUME NEW T \in SUBSET S, NEW x \in S \ T, T \in Good PROVE T \cup {x} \in Good
  <2>1. IsFiniteSet(T) /\ T \cup {x} \in SUBSET S /\ \A y \in T \cup {x} : F[y] \in Int /\ G[y] \in Int
    BY FS_Subset
  <2>2. SumOver(F, T \cup {x}) = F[x] + SumOver(F, T) /\ SumOver(G, T \cup {x}) = G[x] + SumOver(G, T)
    BY <2>1, SumAdd
  <2>3. SumOver(F, T) \in Int /\ F[x] \in Int /\ G[x] = k * F[x] /\ SumOver(G, T) = k * SumOver(F, T)
    BY <1>2, <2>1, SumInt
  <2>4. \A m, n \in Int : k * (m + n) = k * m + k * n
    OBVIOUS
  <2>5. SumOver(G, T \cup {x}) = k * SumOver(F, T \cup {x})
    BY <2>2, <2>3, <2>4
  <2> QED BY <2>1, <2>5
<1> HIDE DEF Good
<1>3. S \in Good
  BY <1>1, <1>2, SetInduction
<1> QED BY <1>3 DEF Good

\* The same number for every element.
THEOREM SumConstant ==
    ASSUME NEW S, IsFiniteSet(S), NEW k \in Int, NEW F, \A x \in S : F[x] = k
    PROVE  SumOver(F, S) = k * Cardinality(S)
<1> DEFINE Good == {T \in SUBSET S : SumOver(F, T) = k * Cardinality(T)}
<1>1. {} \in Good
  BY SumEmpty, FS_EmptySet
<1>2. ASSUME NEW T \in SUBSET S, NEW x \in S \ T, T \in Good PROVE T \cup {x} \in Good
  <2>1. IsFiniteSet(T) /\ T \cup {x} \in SUBSET S /\ \A y \in T \cup {x} : F[y] \in Int
    BY FS_Subset
  <2>2. SumOver(F, T \cup {x}) = k + SumOver(F, T)
    BY <2>1, SumAdd
  <2>3. Cardinality(T \cup {x}) = Cardinality(T) + 1 /\ Cardinality(T) \in Nat
    BY <2>1, FS_AddElement, FS_CardinalityType
  <2>4. \A n \in Nat : k * (n + 1) = k + k * n
    OBVIOUS
  <2>5. SumOver(F, T \cup {x}) = k * Cardinality(T \cup {x})
    BY <1>2, <2>2, <2>3, <2>4
  <2> QED BY <2>1, <2>5
<1> HIDE DEF Good
<1>3. S \in Good
  BY <1>1, <1>2, SetInduction
<1> QED BY <1>3 DEF Good

\* A sum by groups: of x \in S by the member of D that f assigns to it.
Groups(S, D, f, F, G) ==
    /\ f \in [S -> D] /\ \A x \in S : F[x] \in Int
    /\ \A d \in D : G[d] = SumOver(F, {x \in S : f[x] = d})

THEOREM SumGrouped ==
    ASSUME NEW S, IsFiniteSet(S), NEW D, IsFiniteSet(D), NEW f, NEW F, NEW G, Groups(S, D, f, F, G)
    PROVE  SumOver(F, S) = SumOver(G, D)
<1>0. /\ f \in [S -> D] /\ \A x \in S : F[x] \in Int
      /\ \A d \in D : G[d] = SumOver(F, {x \in S : f[x] = d})
  BY DEF Groups
<1> DEFINE Into(T) == {x \in S : f[x] \in T}
           Good == {T \in SUBSET D : SumOver(F, Into(T)) = SumOver(G, T)}
<1>1. {} \in Good
  <2>1. Into({}) = {}
    OBVIOUS
  <2> QED BY <2>1, SumEmpty
<1>2. ASSUME NEW T \in SUBSET D, NEW d \in D \ T, T \in Good PROVE T \cup {d} \in Good
  <2> DEFINE P == {x \in S : f[x] = d}
  <2>1. /\ Into(T \cup {d}) = Into(T) \cup P /\ Into(T) \cap P = {}
        /\ Into(T) \in SUBSET S /\ P \in SUBSET S
    OBVIOUS
  <2>2. IsFiniteSet(Into(T)) /\ IsFiniteSet(P) /\ IsFiniteSet(T) /\ T \cup {d} \in SUBSET D
    BY <2>1, FS_Subset
  <2>3. SumOver(F, Into(T)) = SumOver(G, T) /\ G[d] = SumOver(F, P)
    BY <1>0, <1>2
  <2>4. \A e \in T \cup {d} : G[e] \in Int
    <3> SUFFICES ASSUME NEW e \in D PROVE G[e] \in Int
      OBVIOUS
    <3> DEFINE Q == {x \in S : f[x] = e}
    <3>1. Q \in SUBSET S /\ G[e] = SumOver(F, Q)
      BY <1>0
    <3> HIDE DEF Q
    <3> QED BY <1>0, <3>1, FS_Subset, SumInt
  <2> HIDE DEF Into, P
  <2>5. SumOver(F, Into(T) \cup P) = SumOver(F, Into(T)) + SumOver(F, P)
    BY <1>0, <2>1, <2>2, SumDisjoint
  <2>6. SumOver(G, T \cup {d}) = G[d] + SumOver(G, T)
    BY <2>2, <2>4, SumAdd
  <2>7. SumOver(F, Into(T)) \in Int /\ SumOver(F, P) \in Int
    BY <1>0, <2>1, <2>2, SumInt
  <2>8. SumOver(F, Into(T \cup {d})) = SumOver(G, T \cup {d})
    <3>1. SumOver(F, Into(T \cup {d})) = SumOver(F, Into(T)) + SumOver(F, P)
      BY <2>1, <2>5
    <3>2. SumOver(G, T \cup {d}) = SumOver(F, P) + SumOver(F, Into(T))
      BY <2>3, <2>6
    <3> QED BY <2>7, <3>1, <3>2
  <2> QED BY <2>2, <2>8
<1>3. D \in Good
  <2> HIDE DEF Good
  <2> QED BY <1>1, <1>2, SetInduction
<1>4. Into(D) = S
  BY <1>0
<1> QED BY <1>3, <1>4

\* Only what is not zero counts.
THEOREM SumSupport ==
    ASSUME NEW S, IsFiniteSet(S), NEW R \in SUBSET S, NEW F,
           \A x \in S : F[x] \in Int, \A x \in S \ R : F[x] = 0
    PROVE  IsFiniteSet(R) /\ SumOver(F, S) = SumOver(F, R)
<1>1. IsFiniteSet(R) /\ IsFiniteSet(S \ R) /\ R \cup (S \ R) = S /\ R \cap (S \ R) = {}
  BY FS_Subset
<1>2. SumOver(F, R \cup (S \ R)) = SumOver(F, R) + SumOver(F, S \ R)
  <2>1. \A x \in R \cup (S \ R) : F[x] \in Int
    OBVIOUS
  <2> QED BY <1>1, <2>1, SumDisjoint
<1>3. SumOver(F, S \ R) = 0
  BY <1>1, SumZero
<1>4. SumOver(F, R) \in Int
  <2>1. \A x \in R : F[x] \in Int
    OBVIOUS
  <2> QED BY <1>1, <2>1, SumInt
<1>5. SumOver(F, R) + 0 = SumOver(F, R)
  BY <1>4
<1>6. SumOver(F, S) = SumOver(F, R \cup (S \ R))
  BY <1>1
<1> QED BY <1>1, <1>2, <1>3, <1>5, <1>6

=============================================================================
