-------------------------------- MODULE Sums --------------------------------
(***************************************************************************)
(* Lemmas about finite sums: SumFunctionOnSet(f, S) is the sum of f[x] over *)
(* the x in S.  Induction over finite sets is stated with a set of good    *)
(* sets instead of a predicate, so that it can be cited.                   *)
(***************************************************************************)
EXTENDS Functions, FiniteSetTheorems, TLAPS

\* A nonempty collection of subsets of a finite set has a minimal element.
LEMMA MinimalSubset ==
    ASSUME NEW S, IsFiniteSet(S), NEW B, B \subseteq SUBSET S, B # {}
    PROVE  \E T \in B : \A U \in B : U \subseteq T => U = T
<1>1. IsWellFoundedOn(StrictSubsetOrdering(S), SUBSET S)
  BY FS_StrictSubsetOrderingWellFounded, FS_FiniteSubsetsOfFinite
<1>2. PICK T \in B : \A U \in B : ~ (<<U, T>> \in StrictSubsetOrdering(S))
  BY <1>1, WFMin
<1>3. ASSUME NEW U \in B, U \subseteq T, U # T PROVE FALSE
  <2>1. <<U, T>> \in StrictSubsetOrdering(S)
    BY <1>3 DEF StrictSubsetOrdering
  <2> QED
    BY <1>2, <2>1
<1> QED
  BY <1>3

\* Induction over a finite set: what holds of the empty set, and of T with one
\* more element if it holds of T, holds of the whole set.
LEMMA SetInduction ==
    ASSUME NEW S, IsFiniteSet(S), NEW Good, {} \in Good,
           \A T \in SUBSET S, x \in S : T \in Good /\ x \notin T => T \cup {x} \in Good
    PROVE  S \in Good
<1> SUFFICES ASSUME S \notin Good PROVE FALSE
  OBVIOUS
<1> DEFINE B == {T \in SUBSET S : T \notin Good}
<1>1. B \subseteq SUBSET S /\ S \in B
  OBVIOUS
<1>2. PICK T \in B : \A U \in B : U \subseteq T => U = T
  <2> HIDE DEF B
  <2> QED
    BY <1>1, MinimalSubset
<1>3. T # {}
  OBVIOUS
<1>4. PICK x \in T : TRUE
  BY <1>3
<1>5. T \ {x} \in Good
  BY <1>2, <1>4
<1>6. (T \ {x}) \cup {x} = T
  BY <1>4
<1> QED
  BY <1>4, <1>5, <1>6

-----------------------------------------------------------------------------
(* The recursion behind SumFunctionOnSet.                                  *)

Some(s) == CHOOSE x \in s : TRUE

IsSum(f, S, g) ==
    g = [s \in SUBSET S |-> IF s = {} THEN 0 ELSE f[Some(s)] + g[s \ {Some(s)}]]

LEMMA SomeElement == ASSUME NEW s, s # {} PROVE Some(s) \in s
BY DEF Some

\* A function that satisfies the recursion gives the sum.
LEMMA SumIsIter ==
    ASSUME NEW f, NEW S, \E g : IsSum(f, S, g)
    PROVE  \E g : IsSum(f, S, g) /\ SumFunctionOnSet(f, S) = g[S]
<1> DEFINE it == CHOOSE g : IsSum(f, S, g)
<1>1. IsSum(f, S, it)
  OBVIOUS
<1>2. SumFunctionOnSet(f, S) = it[S]
  BY DEF IsSum, Some, SumFunctionOnSet, FoldFunctionOnSet, MapThenFoldSet
<1> QED
  BY <1>1, <1>2

\* Two such functions agree wherever both are defined.
LEMMA IterUnique ==
    ASSUME NEW f, NEW S, NEW T, NEW g, NEW h, IsSum(f, S, g), IsSum(f, T, h),
           NEW U, U \subseteq S, U \subseteq T, IsFiniteSet(U)
    PROVE  g[U] = h[U]
<1> SUFFICES ASSUME g[U] # h[U] PROVE FALSE
  OBVIOUS
<1> DEFINE B == {s \in SUBSET U : g[s] # h[s]}
<1>1. B \subseteq SUBSET U /\ U \in B
  OBVIOUS
<1>2. PICK s \in B : \A V \in B : V \subseteq s => V = s
  <2> HIDE DEF B
  <2> QED
    BY <1>1, MinimalSubset
<1>3. s \in SUBSET S /\ s \in SUBSET T
  OBVIOUS
<1>4. /\ g[s] = IF s = {} THEN 0 ELSE f[Some(s)] + g[s \ {Some(s)}]
      /\ h[s] = IF s = {} THEN 0 ELSE f[Some(s)] + h[s \ {Some(s)}]
  BY <1>3 DEF IsSum
<1>5. s # {} /\ Some(s) \in s
  BY <1>4, SomeElement
<1>6. g[s \ {Some(s)}] = h[s \ {Some(s)}]
  BY <1>2, <1>5
<1> QED
  BY <1>4, <1>6

\* There is one for every finite set.
LEMMA IterExists ==
    ASSUME NEW f, NEW S, IsFiniteSet(S)
    PROVE  \E g : IsSum(f, S, g)
<1> SUFFICES ASSUME ~ \E g : IsSum(f, S, g) PROVE FALSE
  OBVIOUS
<1> DEFINE B == {s \in SUBSET S : ~ \E g : IsSum(f, s, g)}
<1>1. B \subseteq SUBSET S /\ S \in B
  OBVIOUS
<1>2. PICK T \in B : \A V \in B : V \subseteq T => V = T
  <2> HIDE DEF B
  <2> QED
    BY <1>1, MinimalSubset
<1>0. T \subseteq S /\ IsFiniteSet(T) /\ ~ \E g : IsSum(f, T, g)
  BY FS_Subset
<1>3. ASSUME NEW s \in SUBSET T, s # T PROVE \E g : IsSum(f, s, g)
  BY <1>2, <1>3
<1> DEFINE It(s) == CHOOSE g : IsSum(f, s, g)
           Less(s) == s \ {Some(s)}
           G == [s \in SUBSET T |-> IF s = {} THEN 0 ELSE f[Some(s)] + It(Less(s))[Less(s)]]
<1>4. ASSUME NEW s \in SUBSET T, s # T PROVE IsSum(f, s, It(s))
  <2> HIDE DEF IsSum
  <2> QED
    BY <1>3, <1>4
<1>5. ASSUME NEW s \in SUBSET T, s # {} PROVE G[Less(s)] = It(Less(s))[Less(s)]
  <2> DEFINE u == Less(s)
  <2>1. u \in SUBSET T /\ u # T /\ IsFiniteSet(u)
    BY <1>0, <1>5, SomeElement, FS_Subset
  <2>2. IsSum(f, u, It(u))
    BY <1>4, <2>1
  <2>3. It(u)[u] = IF u = {} THEN 0 ELSE f[Some(u)] + It(u)[Less(u)]
    <3> HIDE DEF It, u
    <3> QED
      BY <2>2 DEF IsSum
  <2>4. ASSUME u # {} PROVE It(u)[Less(u)] = It(Less(u))[Less(u)]
    <3>1. Less(u) \subseteq u /\ Less(u) \in SUBSET T /\ Less(u) # T /\ IsFiniteSet(Less(u))
      BY <2>1, <2>4, SomeElement, FS_Subset
    <3>2. IsSum(f, Less(u), It(Less(u)))
      BY <1>4, <3>1
    <3> HIDE DEF It, Less, u
    <3> QED
      BY <2>2, <3>1, <3>2, IterUnique
  <2>5. G[u] = IF u = {} THEN 0 ELSE f[Some(u)] + It(Less(u))[Less(u)]
    <3> HIDE DEF It, u, Less
    <3> QED
      BY <2>1
  <2> HIDE DEF It, G, u, Less
  <2>6. G[u] = It(u)[u]
    BY <2>3, <2>4, <2>5
  <2> QED
    BY <2>6 DEF u
<1>6. IsSum(f, T, G)
  <2>1. \A s \in SUBSET T : s # {} => G[s \ {Some(s)}] = It(Less(s))[Less(s)]
    <3> HIDE DEF G, It
    <3> QED
      BY <1>5
  <2>2. G = [s \in SUBSET T |-> IF s = {} THEN 0 ELSE f[Some(s)] + G[s \ {Some(s)}]]
    <3> HIDE DEF It, Less
    <3> QED
      BY <2>1
  <2> HIDE DEF G
  <2> QED
    BY <2>2 DEF IsSum
<1> QED
  BY <1>0, <1>6

-----------------------------------------------------------------------------
(* The sum of a set from the sum of a smaller one.                         *)

\* The sum takes some element first.
LEMMA SumUnfold ==
    ASSUME NEW f, NEW S, IsFiniteSet(S)
    PROVE  SumFunctionOnSet(f, S) =
             IF S = {} THEN 0 ELSE f[Some(S)] + SumFunctionOnSet(f, S \ {Some(S)})
<1>1. PICK g : IsSum(f, S, g) /\ SumFunctionOnSet(f, S) = g[S]
  BY IterExists, SumIsIter
<1>2. g[S] = IF S = {} THEN 0 ELSE f[Some(S)] + g[S \ {Some(S)}]
  BY <1>1 DEF IsSum
<1> DEFINE R == S \ {Some(S)}
<1>3. IsFiniteSet(R) /\ R \subseteq S
  BY FS_Subset
<1>4. PICK h : IsSum(f, R, h) /\ SumFunctionOnSet(f, R) = h[R]
  BY <1>3, IterExists, SumIsIter
<1>5. g[R] = h[R]
  BY <1>1, <1>3, <1>4, IterUnique
<1> QED
  BY <1>1, <1>2, <1>4, <1>5

\* The sum over nothing.
LEMMA SumEmpty == ASSUME NEW f PROVE SumFunctionOnSet(f, {}) = 0
BY SumUnfold, FS_EmptySet

\* A sum of integers is one.
LEMMA SumInt ==
    ASSUME NEW S, IsFiniteSet(S), NEW f, \A x \in S : f[x] \in Int
    PROVE  SumFunctionOnSet(f, S) \in Int
<1> SUFFICES ASSUME SumFunctionOnSet(f, S) \notin Int PROVE FALSE
  OBVIOUS
<1> DEFINE B == {s \in SUBSET S : SumFunctionOnSet(f, s) \notin Int}
<1>1. B \subseteq SUBSET S /\ S \in B
  OBVIOUS
<1>2. PICK T \in B : \A V \in B : V \subseteq T => V = T
  <2> HIDE DEF B
  <2> QED
    BY <1>1, MinimalSubset
<1>3. IsFiniteSet(T)
  BY FS_Subset
<1>4. T # {}
  BY SumEmpty
<1>5. Some(T) \in T
  BY <1>4, SomeElement
<1>6. SumFunctionOnSet(f, T \ {Some(T)}) \in Int
  BY <1>2, <1>5
<1> QED
  BY <1>3, <1>4, <1>5, <1>6, SumUnfold

\* One more element adds its value, whichever the fold takes first.
LEMMA SumAdd ==
    ASSUME NEW S, IsFiniteSet(S), NEW y, y \notin S,
           NEW f, \A x \in S \cup {y} : f[x] \in Int
    PROVE  SumFunctionOnSet(f, S \cup {y}) = f[y] + SumFunctionOnSet(f, S)
<1> DEFINE Sum(s) == SumFunctionOnSet(f, s)
           Fits(s, x) == Sum(s \cup {x}) = f[x] + Sum(s)
           W == S \cup {y}
           B == {s \in SUBSET W : \E x \in W \ s : ~ Fits(s, x)}
<1> SUFFICES ASSUME ~ Fits(S, y) PROVE FALSE
  OBVIOUS
<1>0. IsFiniteSet(W)
  BY FS_AddElement
<1>1. B \subseteq SUBSET W /\ S \in B
  OBVIOUS
<1>2. PICK T \in B : \A V \in B : V \subseteq T => V = T
  <2> HIDE DEF B, W
  <2> QED
    BY <1>0, <1>1, MinimalSubset
<1>3. PICK x \in W \ T : ~ Fits(T, x)
  OBVIOUS
<1> DEFINE U == T \cup {x}
           z == Some(U)
           R == T \ {z}
<1>4. /\ T \subseteq W /\ U \subseteq W /\ R \subseteq W
      /\ IsFiniteSet(T) /\ IsFiniteSet(U) /\ IsFiniteSet(R)
  <2>1. T \subseteq W /\ U \subseteq W /\ R \subseteq W
    BY <1>3
  <2> QED
    BY <1>0, <2>1, FS_Subset
<1>5. z \in U /\ U # {} /\ Sum(U) = f[z] + Sum(U \ {z})
  <2>1. U # {}
    OBVIOUS
  <2> QED
    BY <1>4, <2>1, SomeElement, SumUnfold
<1>6. z # x
  <2>1. z = x => U \ {z} = T
    BY <1>3
  <2> QED
    BY <1>3, <1>5, <2>1
<1>7. z \in T /\ x \notin R /\ z \notin R /\ R \subseteq T /\ R # T
  BY <1>3, <1>5, <1>6
<1>8. R \notin B
  BY <1>2, <1>7
<1>9. Fits(R, x) /\ Fits(R, z)
  <2>1. x \in W \ R /\ z \in W \ R /\ R \in SUBSET W
    BY <1>3, <1>4, <1>7
  <2> HIDE DEF Fits, W, R, z
  <2> QED
    BY <1>8, <2>1
<1>10. U \ {z} = R \cup {x} /\ T = R \cup {z}
  BY <1>3, <1>6, <1>7
<1>11. f[x] \in Int /\ f[z] \in Int /\ Sum(R) \in Int
  <2>1. \A v \in R : f[v] \in Int
    BY <1>4
  <2>2. Sum(R) \in Int
    <3> HIDE DEF R
    <3> QED
      BY <1>4, <2>1, SumInt
  <2> QED
    BY <1>3, <1>4, <1>7, <2>2
<1>12. Sum(U) = f[z] + (f[x] + Sum(R)) /\ Sum(T) = f[z] + Sum(R)
  <2> HIDE DEF Sum, U, R, z
  <2> QED
    BY <1>5, <1>9, <1>10
<1>13. Sum(T \cup {x}) = f[x] + Sum(T)
  <2> HIDE DEF Sum, R, z
  <2> QED
    BY <1>11, <1>12
<1> QED
  BY <1>3, <1>13

\* The sum of the others, without the value of y.
LEMMA SumRemove ==
    ASSUME NEW S, IsFiniteSet(S), NEW y \in S, NEW f, \A x \in S : f[x] \in Int
    PROVE  /\ SumFunctionOnSet(f, S) = f[y] + SumFunctionOnSet(f, S \ {y})
           /\ SumFunctionOnSet(f, S \ {y}) \in Int
<1> DEFINE R == S \ {y}
<1>1. IsFiniteSet(R) /\ y \notin R /\ S = R \cup {y}
  BY FS_RemoveElement
<1>2. \A x \in R \cup {y} : f[x] \in Int
  OBVIOUS
<1> HIDE DEF R
<1>3. SumFunctionOnSet(f, R \cup {y}) = f[y] + SumFunctionOnSet(f, R)
  BY <1>1, <1>2, SumAdd
<1>4. SumFunctionOnSet(f, R) \in Int
  BY <1>1, <1>2, SumInt
<1> QED
  BY <1>1, <1>3, <1>4 DEF R

-----------------------------------------------------------------------------
(* Sums of two functions.                                                  *)

\* Functions that agree on a set have the same sum.
LEMMA SumSame ==
    ASSUME NEW S, IsFiniteSet(S), NEW f, NEW g, \A x \in S : f[x] = g[x]
    PROVE  SumFunctionOnSet(f, S) = SumFunctionOnSet(g, S)
<1> SUFFICES ASSUME SumFunctionOnSet(f, S) # SumFunctionOnSet(g, S) PROVE FALSE
  OBVIOUS
<1> DEFINE B == {s \in SUBSET S : SumFunctionOnSet(f, s) # SumFunctionOnSet(g, s)}
<1>1. B \subseteq SUBSET S /\ S \in B
  OBVIOUS
<1>2. PICK T \in B : \A V \in B : V \subseteq T => V = T
  <2> HIDE DEF B
  <2> QED
    BY <1>1, MinimalSubset
<1>3. IsFiniteSet(T)
  BY FS_Subset
<1>4. T # {}
  BY SumEmpty
<1>5. Some(T) \in T
  BY <1>4, SomeElement
<1>6. SumFunctionOnSet(f, T \ {Some(T)}) = SumFunctionOnSet(g, T \ {Some(T)})
  BY <1>2, <1>5
<1> QED
  BY <1>3, <1>4, <1>5, <1>6, SumUnfold

\* A sum of natural numbers is one.
LEMMA SumNat ==
    ASSUME NEW S, IsFiniteSet(S), NEW f, \A x \in S : f[x] \in Nat
    PROVE  SumFunctionOnSet(f, S) \in Nat
<1> SUFFICES ASSUME SumFunctionOnSet(f, S) \notin Nat PROVE FALSE
  OBVIOUS
<1> DEFINE B == {s \in SUBSET S : SumFunctionOnSet(f, s) \notin Nat}
<1>1. B \subseteq SUBSET S /\ S \in B
  OBVIOUS
<1>2. PICK T \in B : \A V \in B : V \subseteq T => V = T
  <2> HIDE DEF B
  <2> QED
    BY <1>1, MinimalSubset
<1>3. IsFiniteSet(T)
  BY FS_Subset
<1>4. T # {}
  BY SumEmpty
<1>5. Some(T) \in T
  BY <1>4, SomeElement
<1>6. SumFunctionOnSet(f, T \ {Some(T)}) \in Nat
  BY <1>2, <1>5
<1> QED
  BY <1>3, <1>4, <1>5, <1>6, SumUnfold

\* A sum changes by as much as the one value that changes.
LEMMA SumChange ==
    ASSUME NEW S, IsFiniteSet(S), NEW y \in S, NEW f, NEW g,
           \A x \in S : f[x] \in Int /\ g[x] \in Int,
           \A x \in S : x # y => f[x] = g[x]
    PROVE  SumFunctionOnSet(g, S) = SumFunctionOnSet(f, S) + (g[y] - f[y])
<1>1. /\ SumFunctionOnSet(f, S) = f[y] + SumFunctionOnSet(f, S \ {y})
      /\ SumFunctionOnSet(f, S \ {y}) \in Int
  BY SumRemove
<1>2. SumFunctionOnSet(g, S) = g[y] + SumFunctionOnSet(g, S \ {y})
  BY SumRemove
<1>3. SumFunctionOnSet(f, S \ {y}) = SumFunctionOnSet(g, S \ {y})
  <2> DEFINE R == S \ {y}
  <2>1. IsFiniteSet(R) /\ \A x \in R : f[x] = g[x]
    BY FS_RemoveElement
  <2> HIDE DEF R
  <2> QED
    BY <2>1, SumSame DEF R
<1> QED
  BY <1>1, <1>2, <1>3

-----------------------------------------------------------------------------
(* Sums over parts of a set.                                               *)

\* The sum over two sets without a common element is the sum of their sums.
LEMMA SumUnion ==
    ASSUME NEW S, IsFiniteSet(S), NEW R, IsFiniteSet(R), S \cap R = {},
           NEW f, \A x \in S \cup R : f[x] \in Int
    PROVE  SumFunctionOnSet(f, S \cup R) = SumFunctionOnSet(f, S) + SumFunctionOnSet(f, R)
<1> DEFINE Sum(s) == SumFunctionOnSet(f, s)
           Good == {T \in SUBSET R : Sum(S \cup T) = Sum(S) + Sum(T)}
<1>1. Sum(S) \in Int
  BY SumInt
<1>2. {} \in Good
  <2>1. S \cup {} = S /\ Sum({}) = 0
    BY SumEmpty
  <2> QED
    BY <1>1, <2>1
<1>3. ASSUME NEW T \in SUBSET R, NEW x \in R, T \in Good, x \notin T
      PROVE  T \cup {x} \in Good
  <2>1. IsFiniteSet(T) /\ IsFiniteSet(S \cup T) /\ x \notin S \cup T
    BY <1>3, FS_Subset, FS_Union
  <2>2. Sum(T \cup {x}) = f[x] + Sum(T) /\ Sum(T) \in Int
    BY <2>1, <1>3, SumAdd, SumInt
  <2>3. Sum((S \cup T) \cup {x}) = f[x] + Sum(S \cup T)
    <3> DEFINE U == S \cup T
    <3>1. \A y \in U \cup {x} : f[y] \in Int
      OBVIOUS
    <3> HIDE DEF U
    <3>2. Sum(U \cup {x}) = f[x] + Sum(U)
      BY <2>1, <3>1, SumAdd DEF U
    <3> QED
      BY <3>2 DEF U
  <2>4. (S \cup T) \cup {x} = S \cup (T \cup {x}) /\ f[x] \in Int
    OBVIOUS
  <2>5. Sum(S \cup T) = Sum(S) + Sum(T)
    BY <1>3
  <2> HIDE DEF Sum
  <2>7. Sum(S \cup (T \cup {x})) = f[x] + Sum(S \cup T)
    BY <2>3, <2>4, Zenon
  <2>6. Sum(S \cup (T \cup {x})) = Sum(S) + Sum(T \cup {x})
    <3> HIDE DEF Good
    <3> QED
      BY <1>1, <2>2, <2>4, <2>5, <2>7
  <2> QED
    BY <2>6, <1>3
<1>4. R \in Good
  <2> HIDE DEF Good
  <2> QED
    BY <1>2, <1>3, SetInduction
<1> QED
  BY <1>4

\* A part of natural numbers has no larger a sum than the whole.
LEMMA SumOfPart ==
    ASSUME NEW S, IsFiniteSet(S), NEW R \in SUBSET S, NEW f, \A x \in S : f[x] \in Nat
    PROVE  SumFunctionOnSet(f, R) <= SumFunctionOnSet(f, S)
<1> DEFINE Q == S \ R
<1>1. IsFiniteSet(R) /\ IsFiniteSet(Q) /\ R \cap Q = {} /\ R \cup Q = S
  BY FS_Subset
<1>2. \A x \in R \cup Q : f[x] \in Int
  OBVIOUS
<1>3. SumFunctionOnSet(f, R) \in Nat /\ SumFunctionOnSet(f, Q) \in Nat
  BY <1>1, SumNat
<1> HIDE DEF Q
<1>4. SumFunctionOnSet(f, R \cup Q) = SumFunctionOnSet(f, R) + SumFunctionOnSet(f, Q)
  BY <1>1, <1>2, SumUnion
<1>5. SumFunctionOnSet(f, S) = SumFunctionOnSet(f, R) + SumFunctionOnSet(f, Q)
  BY <1>1, <1>4, Zenon
<1> QED
  BY <1>3, <1>5

\* The sum of differences is the difference of the sums.
LEMMA SumMinus ==
    ASSUME NEW S, IsFiniteSet(S), NEW f, NEW g, \A x \in S : f[x] \in Int /\ g[x] \in Int
    PROVE  SumFunctionOnSet([x \in S |-> f[x] - g[x]], S)
             = SumFunctionOnSet(f, S) - SumFunctionOnSet(g, S)
<1> DEFINE h == [x \in S |-> f[x] - g[x]]
           F(s) == SumFunctionOnSet(f, s)
           G(s) == SumFunctionOnSet(g, s)
           H(s) == SumFunctionOnSet(h, s)
           Good == {T \in SUBSET S : H(T) = F(T) - G(T)}
<1>1. {} \in Good
  <2>1. F({}) = 0 /\ G({}) = 0 /\ H({}) = 0
    BY SumEmpty
  <2> HIDE DEF F, G, H
  <2> QED
    BY <2>1
<1>2. ASSUME NEW T \in SUBSET S, NEW x \in S, T \in Good, x \notin T
      PROVE  T \cup {x} \in Good
  <2>1. IsFiniteSet(T)
    BY FS_Subset
  <2>2. \A y \in T \cup {x} : h[y] \in Int /\ f[y] \in Int /\ g[y] \in Int
    OBVIOUS
  <2>3. h[x] = f[x] - g[x] /\ f[x] \in Int /\ g[x] \in Int /\ H(T) = F(T) - G(T)
    BY <1>2
  <2> HIDE DEF h
  <2>4. /\ F(T \cup {x}) = f[x] + F(T)
        /\ G(T \cup {x}) = g[x] + G(T)
        /\ H(T \cup {x}) = h[x] + H(T)
    BY <1>2, <2>1, <2>2, SumAdd
  <2>5. F(T) \in Int /\ G(T) \in Int
    BY <2>1, <2>2, SumInt
  <2> HIDE DEF F, G, H
  <2>6. H(T \cup {x}) = F(T \cup {x}) - G(T \cup {x})
    BY <2>3, <2>4, <2>5
  <2> QED
    BY <2>6, <1>2
<1>3. S \in Good
  <2> HIDE DEF Good
  <2> QED
    BY <1>1, <1>2, SetInduction
<1> QED
  BY <1>3

\* Summed owner by owner, a set gives the sum over what any of them owns.
LEMMA SumByOwner ==
    ASSUME NEW S, IsFiniteSet(S), NEW Owners, IsFiniteSet(Owners), NEW own,
           NEW f, \A x \in S : f[x] \in Int
    PROVE  SumFunctionOnSet([u \in Owners |-> SumFunctionOnSet(f, {x \in S : own[x] = u})], Owners)
             = SumFunctionOnSet(f, {x \in S : own[x] \in Owners})
<1> DEFINE Of(T) == {x \in S : own[x] \in T}
           Part(u) == {x \in S : own[x] = u}
           g == [u \in Owners |-> SumFunctionOnSet(f, Part(u))]
           Good == {T \in SUBSET Owners : SumFunctionOnSet(g, T) = SumFunctionOnSet(f, Of(T))}
<1>1. {} \in Good
  <2>1. Of({}) = {}
    OBVIOUS
  <2> HIDE DEF g, Of
  <2> QED
    BY <2>1, SumEmpty
<1>2. ASSUME NEW u \in Owners PROVE g[u] = SumFunctionOnSet(f, Part(u)) /\ g[u] \in Int
  <2>1. IsFiniteSet(Part(u)) /\ \A x \in Part(u) : f[x] \in Int
    BY FS_Subset
  <2> HIDE DEF Part
  <2> QED
    BY <2>1, SumInt
<1>3. ASSUME NEW T \in SUBSET Owners, NEW u \in Owners, T \in Good, u \notin T
      PROVE  T \cup {u} \in Good
  <2>1. /\ IsFiniteSet(T)
        /\ IsFiniteSet(Of(T)) /\ IsFiniteSet(Part(u))
        /\ \A x \in Of(T) \cup Part(u) : f[x] \in Int
    BY FS_Subset
  <2>2. Of(T \cup {u}) = Of(T) \cup Part(u) /\ Of(T) \cap Part(u) = {}
    BY <1>3
  <2>3. SumFunctionOnSet(f, Of(T) \cup Part(u))
          = SumFunctionOnSet(f, Of(T)) + SumFunctionOnSet(f, Part(u))
    <3> HIDE DEF Of, Part
    <3> QED
      BY <2>1, <2>2, SumUnion
  <2>4. SumFunctionOnSet(g, T \cup {u}) = g[u] + SumFunctionOnSet(g, T)
    <3>1. \A v \in T \cup {u} : g[v] \in Int
      BY <1>2
    <3> HIDE DEF g
    <3> QED
      BY <1>3, <2>1, <3>1, SumAdd
  <2>5. SumFunctionOnSet(g, T) = SumFunctionOnSet(f, Of(T))
    BY <1>3
  <2>6. g[u] = SumFunctionOnSet(f, Part(u)) /\ g[u] \in Int
    BY <1>2
  <2>7. SumFunctionOnSet(f, Of(T)) \in Int
    <3>1. IsFiniteSet(Of(T)) /\ \A x \in Of(T) : f[x] \in Int
      BY <2>1
    <3> HIDE DEF Of
    <3> QED
      BY <3>1, SumInt
  <2> HIDE DEF g, Of, Part
  <2>9. SumFunctionOnSet(f, Of(T \cup {u}))
          = SumFunctionOnSet(f, Of(T)) + SumFunctionOnSet(f, Part(u))
    BY <2>2, <2>3, Zenon
  <2>8. SumFunctionOnSet(g, T \cup {u}) = SumFunctionOnSet(f, Of(T \cup {u}))
    <3> HIDE DEF Good
    <3> QED
      BY <2>4, <2>5, <2>6, <2>7, <2>9
  <2> QED
    BY <2>8
<1>4. Owners \in Good
  <2> HIDE DEF Good
  <2> QED
    BY <1>1, <1>3, SetInduction
<1> HIDE DEF g
<1> QED
  BY <1>4 DEF g

\* What adds nothing may be left out of a sum.
LEMMA SumOfNonzero ==
    ASSUME NEW S, IsFiniteSet(S), NEW R \in SUBSET S, NEW f, \A x \in S : f[x] \in Int,
           \A x \in S \ R : f[x] = 0
    PROVE  SumFunctionOnSet(f, R) = SumFunctionOnSet(f, S)
<1> DEFINE Q == S \ R
           Good == {T \in SUBSET Q : SumFunctionOnSet(f, T) = 0}
<1>1. IsFiniteSet(R) /\ IsFiniteSet(Q) /\ R \cap Q = {} /\ R \cup Q = S
  BY FS_Subset
<1>2. {} \in Good
  BY SumEmpty
<1>3. ASSUME NEW T \in SUBSET Q, NEW x \in Q, T \in Good, x \notin T
      PROVE  T \cup {x} \in Good
  <2>1. IsFiniteSet(T) /\ (\A y \in T \cup {x} : f[y] \in Int) /\ f[x] = 0
    BY <1>1, FS_Subset
  <2>2. SumFunctionOnSet(f, T) = 0
    BY <1>3
  <2> HIDE DEF Good, Q
  <2>3. SumFunctionOnSet(f, T \cup {x}) = f[x] + SumFunctionOnSet(f, T)
    BY <1>3, <2>1, SumAdd
  <2>4. SumFunctionOnSet(f, T \cup {x}) = 0
    BY <2>1, <2>2, <2>3
  <2> QED
    BY <1>3, <2>4 DEF Good
<1>4. Q \in Good
  <2> HIDE DEF Good, Q
  <2> QED
    BY <1>1, <1>2, <1>3, SetInduction
<1>5. SumFunctionOnSet(f, Q) = 0
  BY <1>4
<1>6. SumFunctionOnSet(f, R) \in Int /\ \A x \in R \cup Q : f[x] \in Int
  BY <1>1, SumInt
<1> HIDE DEF Q, Good
<1>7. SumFunctionOnSet(f, R \cup Q) = SumFunctionOnSet(f, R) + SumFunctionOnSet(f, Q)
  BY <1>1, <1>6, SumUnion
<1>8. SumFunctionOnSet(f, R \cup Q) = SumFunctionOnSet(f, S)
  BY <1>1
<1> QED
  BY <1>5, <1>6, <1>7, <1>8
=============================================================================
