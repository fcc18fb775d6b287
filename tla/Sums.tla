-------------------------------- MODULE Sums --------------------------------
(***************************************************************************)
(* Sums over finite sets, as SumFunctionOnSet of Functions defines them by *)
(* recursion on the set: they do not depend on the order in which elements *)
(* are picked, so one element can be taken out or added at a time.         *)
(*                                                                         *)
(* Induction over subsets is the existence of a minimal counterexample;    *)
(* that a finite set has a largest element follows in the same way.        *)
(***************************************************************************)
EXTENDS Integers, Functions, FiniteSetTheorems, WellFoundedInduction, TLAPS

Pick(T) == CHOOSE x \in T : TRUE

\* g is the recursive function behind the sum of f over the subsets of S.
Unfolds(g, f, S) ==
    g = [T \in SUBSET S |->
           IF T = {} THEN 0 ELSE f[Pick(T)] + g[T \ {Pick(T)}]]
-----------------------------------------------------------------------------

\* Among any subsets of a finite set there is one with none of the others inside it.
LEMMA SmallestSubset ==
    ASSUME NEW S, IsFiniteSet(S), NEW F, F \subseteq SUBSET S, F # {}
    PROVE  \E T \in F : \A U \in F : U \subseteq T => U = T
<1>1. F \subseteq FiniteSubsetsOf(S)
    BY FS_Subset DEF FiniteSubsetsOf
<1>2. PICK T \in F : \A U \in F : <<U, T>> \notin StrictSubsetOrdering(S)
    BY <1>1, FS_StrictSubsetOrderingWellFounded, WFMin
<1>3. ASSUME NEW U \in F, U \subseteq T PROVE U = T
    BY <1>2, <1>3 DEF StrictSubsetOrdering
<1> QED BY <1>3

\* A function to numbers has a largest value on a finite set.
LEMMA LargestExists ==
    ASSUME NEW S, IsFiniteSet(S), S # {}, NEW f, \A x \in S : f[x] \in Int
    PROVE  \E m \in S : \A n \in S : f[n] <= f[m]
<1> DEFINE Bad == {T \in SUBSET S : T # {} /\ ~\E m \in T : \A n \in T : f[n] <= f[m]}
<1> SUFFICES ASSUME Bad # {} PROVE FALSE
    OBVIOUS
<1>0. Bad \subseteq SUBSET S
    OBVIOUS
<1>1. PICK T \in Bad : \A U \in Bad : U \subseteq T => U = T
  <2> HIDE DEF Bad
  <2> QED BY <1>0, SmallestSubset
<1>2. PICK x \in T : TRUE
    OBVIOUS
<1>3. CASE T = {x}
    BY <1>3
<1>4. CASE T # {x}
  <2> PICK U : U = T \ {x}
      OBVIOUS
  <2>1. U # {} /\ U # T /\ U \subseteq T
      BY <1>2, <1>4
  <2>2. PICK m \in U : \A n \in U : f[n] <= f[m]
      BY <1>1, <2>1
  <2>3. CASE f[x] <= f[m]
      BY <2>1, <2>2, <2>3
  <2>4. CASE ~(f[x] <= f[m])
    <3>1. f[x] \in Int /\ f[m] \in Int /\ \A n \in U : f[n] \in Int
        BY <2>1
    <3>2. \A n \in T : f[n] <= f[x]
        BY <2>2, <2>4, <3>1
    <3> QED BY <3>2
  <2> QED BY <2>3, <2>4
<1> QED BY <1>3, <1>4

LEMMA PickIn == ASSUME NEW T, T # {} PROVE Pick(T) \in T
BY DEF Pick

\* The recursion has at most one solution ...
LEMMA UnfoldsOnce ==
    ASSUME NEW S, IsFiniteSet(S), NEW f, NEW A, NEW B, S \subseteq A, S \subseteq B,
           NEW g, Unfolds(g, f, A), NEW h, Unfolds(h, f, B)
    PROVE  g[S] = h[S]
<1> DEFINE Differ == {T \in SUBSET S : g[T] # h[T]}
<1> SUFFICES ASSUME Differ # {} PROVE FALSE
    OBVIOUS
<1>0. Differ \subseteq SUBSET S
    OBVIOUS
<1>1. PICK T \in Differ : \A U \in Differ : U \subseteq T => U = T
  <2> HIDE DEF Differ
  <2> QED BY <1>0, SmallestSubset
<1>2. /\ g[T] = IF T = {} THEN 0 ELSE f[Pick(T)] + g[T \ {Pick(T)}]
      /\ h[T] = IF T = {} THEN 0 ELSE f[Pick(T)] + h[T \ {Pick(T)}]
  <2>1. T \in SUBSET A /\ T \in SUBSET B
    OBVIOUS
  <2> QED BY <2>1 DEF Unfolds
<1>3. T # {}
    BY <1>2
<1>4. T \ {Pick(T)} \notin Differ
    BY <1>1, <1>3, PickIn
<1> QED BY <1>2, <1>3, <1>4

\* ... and it has one.
LEMMA UnfoldsSomehow ==
    ASSUME NEW S, IsFiniteSet(S), NEW f
    PROVE  \E g : Unfolds(g, f, S)
<1> DEFINE Good(T) == \E g : Unfolds(g, f, T)
           Bad == {T \in SUBSET S : ~Good(T)}
<1> SUFFICES ASSUME Bad # {} PROVE FALSE
    OBVIOUS
<1>0. Bad \subseteq SUBSET S
    OBVIOUS
<1>1. PICK T \in Bad : \A U \in Bad : U \subseteq T => U = T
  <2> HIDE DEF Bad
  <2> QED BY <1>0, SmallestSubset
<1> DEFINE G(U) == CHOOSE g : Unfolds(g, f, U)
           V(U) == IF U = {} THEN 0 ELSE f[Pick(U)] + G(U \ {Pick(U)})[U \ {Pick(U)}]
           v == [U \in SUBSET T |-> V(U)]
<1>2. ASSUME NEW U \in SUBSET T, U # T PROVE Unfolds(G(U), f, U)
    BY <1>1, <1>2
<1>3. ASSUME NEW U \in SUBSET T, U # {}
      PROVE  v[U \ {Pick(U)}] = G(U \ {Pick(U)})[U \ {Pick(U)}]
  <2> DEFINE W == U \ {Pick(U)}
  <2>1. W \in SUBSET T /\ W # T
    BY <1>3, PickIn
  <2>2. Unfolds(G(W), f, W)
    BY <1>2, <2>1
  <2>3. G(W)[W] = IF W = {} THEN 0 ELSE f[Pick(W)] + G(W)[W \ {Pick(W)}]
    BY <2>2 DEF Unfolds
  <2>4. v[W] = V(W)
    BY <2>1
  <2>5. CASE W = {}
    BY <2>3, <2>4, <2>5
  <2>6. CASE W # {}
    <3> DEFINE X == W \ {Pick(W)}
    <3>1. X \in SUBSET T /\ X # T /\ X \subseteq W
      BY <2>1, <2>6, PickIn
    <3>2. Unfolds(G(X), f, X) /\ IsFiniteSet(X)
      BY <1>2, <3>1, FS_Subset
    <3>3. G(X)[X] = G(W)[X]
      BY <2>2, <3>1, <3>2, UnfoldsOnce
    <3> QED BY <2>3, <2>4, <2>6, <3>3
  <2> QED BY <2>5, <2>6
<1>4. Unfolds(v, f, T)
  <2>1. ASSUME NEW U \in SUBSET T
        PROVE  V(U) = IF U = {} THEN 0 ELSE f[Pick(U)] + v[U \ {Pick(U)}]
    <3>1. CASE U = {}
      BY <3>1
    <3>2. CASE U # {}
      <4>1. v[U \ {Pick(U)}] = G(U \ {Pick(U)})[U \ {Pick(U)}]
        BY <1>3, <3>2
      <4> HIDE DEF v, G
      <4> QED BY <3>2, <4>1
    <3> QED BY <3>1, <3>2
  <2> HIDE DEF V
  <2> QED BY <2>1 DEF Unfolds
<1> QED BY <1>4

LEMMA SumIsUnfolded ==
    ASSUME NEW S, IsFiniteSet(S), NEW f
    PROVE  \E g : Unfolds(g, f, S) /\ SumFunctionOnSet(f, S) = g[S]
<1> DEFINE g == CHOOSE g : Unfolds(g, f, S)
<1>1. SumFunctionOnSet(f, S) = g[S]
    BY DEF SumFunctionOnSet, FoldFunctionOnSet, MapThenFoldSet, Unfolds, Pick
<1>2. Unfolds(g, f, S)
    BY UnfoldsSomehow
<1> QED BY <1>1, <1>2

LEMMA SumPicks ==
    ASSUME NEW S, IsFiniteSet(S), NEW f
    PROVE  SumFunctionOnSet(f, S) =
             IF S = {} THEN 0
             ELSE f[Pick(S)] + SumFunctionOnSet(f, S \ {Pick(S)})
<1>1. PICK g : Unfolds(g, f, S) /\ SumFunctionOnSet(f, S) = g[S]
    BY SumIsUnfolded
<1>2. g[S] = IF S = {} THEN 0 ELSE f[Pick(S)] + g[S \ {Pick(S)}]
    BY <1>1 DEF Unfolds
<1> DEFINE T == S \ {Pick(S)}
<1>3. IsFiniteSet(T)
    BY FS_Subset
<1>4. PICK h : Unfolds(h, f, T) /\ SumFunctionOnSet(f, T) = h[T]
    BY <1>3, SumIsUnfolded
<1>5. g[T] = h[T]
    BY <1>1, <1>3, <1>4, UnfoldsOnce
<1> QED BY <1>1, <1>2, <1>4, <1>5
-----------------------------------------------------------------------------
(* What the sums of the specifications need *)

LEMMA SumOfNothing == ASSUME NEW f PROVE SumFunctionOnSet(f, {}) = 0
BY SumPicks, FS_EmptySet

LEMMA SumOfInts ==
    ASSUME NEW S, IsFiniteSet(S), NEW f, \A x \in S : f[x] \in Int
    PROVE  SumFunctionOnSet(f, S) \in Int
<1> DEFINE Bad == {T \in SUBSET S : SumFunctionOnSet(f, T) \notin Int}
<1> SUFFICES ASSUME Bad # {} PROVE FALSE
    OBVIOUS
<1>0. Bad \subseteq SUBSET S
    OBVIOUS
<1>1. PICK T \in Bad : \A U \in Bad : U \subseteq T => U = T
  <2> HIDE DEF Bad
  <2> QED BY <1>0, SmallestSubset
<1>2. SumFunctionOnSet(f, T) =
        IF T = {} THEN 0 ELSE f[Pick(T)] + SumFunctionOnSet(f, T \ {Pick(T)})
    BY SumPicks, FS_Subset
<1>3. T # {} /\ Pick(T) \in S
    BY <1>2, PickIn
<1>4. SumFunctionOnSet(f, T \ {Pick(T)}) \in Int
    BY <1>1, <1>3, PickIn
<1> QED BY <1>2, <1>3, <1>4

\* Functions that agree on the set have one sum.
LEMMA SumsAgree ==
    ASSUME NEW S, IsFiniteSet(S), NEW f, NEW g, \A x \in S : f[x] = g[x]
    PROVE  SumFunctionOnSet(f, S) = SumFunctionOnSet(g, S)
<1> DEFINE Bad == {T \in SUBSET S : SumFunctionOnSet(f, T) # SumFunctionOnSet(g, T)}
<1> SUFFICES ASSUME Bad # {} PROVE FALSE
    OBVIOUS
<1>0. Bad \subseteq SUBSET S
    OBVIOUS
<1>1. PICK T \in Bad : \A U \in Bad : U \subseteq T => U = T
  <2> HIDE DEF Bad
  <2> QED BY <1>0, SmallestSubset
<1>2. /\ SumFunctionOnSet(f, T) =
           IF T = {} THEN 0 ELSE f[Pick(T)] + SumFunctionOnSet(f, T \ {Pick(T)})
      /\ SumFunctionOnSet(g, T) =
           IF T = {} THEN 0 ELSE g[Pick(T)] + SumFunctionOnSet(g, T \ {Pick(T)})
    BY SumPicks, FS_Subset
<1>3. T # {} /\ Pick(T) \in T
    BY <1>2, PickIn
<1>4. SumFunctionOnSet(f, T \ {Pick(T)}) = SumFunctionOnSet(g, T \ {Pick(T)})
    BY <1>1, <1>3
<1> QED BY <1>2, <1>3, <1>4

\* Any element may be taken out first.
LEMMA SumWithout ==
    ASSUME NEW S, IsFiniteSet(S), NEW f, \A y \in S : f[y] \in Int, NEW x \in S
    PROVE  SumFunctionOnSet(f, S) = f[x] + SumFunctionOnSet(f, S \ {x})
<1> DEFINE Sum(T) == SumFunctionOnSet(f, T)
           Bad == {T \in SUBSET S : \E y \in T : Sum(T) # f[y] + Sum(T \ {y})}
<1> SUFFICES ASSUME Bad # {} PROVE FALSE
    OBVIOUS
<1>0. Bad \subseteq SUBSET S
    OBVIOUS
<1>1. PICK T \in Bad : \A U \in Bad : U \subseteq T => U = T
  <2> HIDE DEF Bad
  <2> QED BY <1>0, SmallestSubset
<1>2. PICK y \in T : Sum(T) # f[y] + Sum(T \ {y})
    OBVIOUS
<1> DEFINE p == Pick(T)
           V == T \ {p}
           W == T \ {y}
<1>3. ASSUME NEW U \in SUBSET S
      PROVE  Sum(U) \in Int /\ (U # {} => Sum(U) = f[Pick(U)] + Sum(U \ {Pick(U)}))
    BY SumPicks, SumOfInts, FS_Subset
<1>4. p \in T /\ y \in T /\ T \subseteq S
    BY PickIn
<1>5. Sum(T) = f[p] + Sum(V) /\ p # y
    BY <1>2, <1>3, <1>4
<1>6. Sum(V) = f[y] + Sum(V \ {y})
  <2>1. V \notin Bad
    BY <1>1, <1>4
  <2> HIDE DEF Sum
  <2> QED BY <1>4, <1>5, <2>1
<1>7. Sum(W) = f[p] + Sum(W \ {p})
  <2>1. W \notin Bad
    BY <1>1, <1>4
  <2> HIDE DEF Sum, p
  <2> QED BY <1>4, <1>5, <2>1
<1>8. V \ {y} = W \ {p} /\ W \ {p} \in SUBSET S /\ f[p] \in Int /\ f[y] \in Int
    BY <1>4
<1>9. Sum(W \ {p}) \in Int
    BY <1>3, <1>8
<1>10. Sum(V \ {y}) = Sum(W \ {p})
    BY <1>8
<1>11. Sum(T) = f[y] + Sum(W)
  <2> HIDE DEF Sum, p, V, W
  <2> QED BY <1>5, <1>6, <1>7, <1>8, <1>9, <1>10
<1> QED BY <1>2, <1>11

-----------------------------------------------------------------------------
(* What the specifications need: sums of functions on finite sets *)

LEMMA SumOfNone == ASSUME NEW f, DOMAIN f = {} PROVE SumFunction(f) = 0
<1>1. SumFunctionOnSet(f, {}) = 0
    BY SumPicks, FS_EmptySet
<1> QED BY <1>1 DEF SumFunction

LEMMA SumOfZeros ==
    ASSUME NEW f, IsFiniteSet(DOMAIN f), \A x \in DOMAIN f : f[x] = 0
    PROVE  SumFunction(f) = 0
<1> DEFINE S == DOMAIN f
           Bad == {T \in SUBSET S : SumFunctionOnSet(f, T) # 0}
<1> SUFFICES ASSUME Bad # {} PROVE FALSE
    BY DEF SumFunction
<1>0. Bad \subseteq SUBSET S
    OBVIOUS
<1>1. PICK T \in Bad : \A U \in Bad : U \subseteq T => U = T
  <2> HIDE DEF Bad
  <2> QED BY <1>0, SmallestSubset
<1>2. SumFunctionOnSet(f, T) =
        IF T = {} THEN 0 ELSE f[Pick(T)] + SumFunctionOnSet(f, T \ {Pick(T)})
    BY SumPicks, FS_Subset
<1>3. T # {} /\ Pick(T) \in T
    BY <1>2, PickIn
<1>4. SumFunctionOnSet(f, T \ {Pick(T)}) = 0
    BY <1>1, <1>3
<1> QED BY <1>2, <1>3, <1>4

LEMMA SumType ==
    ASSUME NEW f, IsFiniteSet(DOMAIN f), \A x \in DOMAIN f : f[x] \in Int
    PROVE  SumFunction(f) \in Int
BY SumOfInts DEF SumFunction

\* One more summand.
LEMMA SumGrows ==
    ASSUME NEW f, IsFiniteSet(DOMAIN f), \A y \in DOMAIN f : f[y] \in Int,
           NEW x, x \notin DOMAIN f,
           NEW g, DOMAIN g = DOMAIN f \cup {x}, g[x] \in Int,
           \A y \in DOMAIN f : g[y] = f[y]
    PROVE  SumFunction(g) = SumFunction(f) + g[x]
<1> DEFINE S == DOMAIN f
           T == DOMAIN g
<1>1. IsFiniteSet(T) /\ x \in T /\ T \ {x} = S
    BY FS_AddElement
<1>2. SumFunctionOnSet(g, T) = g[x] + SumFunctionOnSet(g, T \ {x})
  <2>1. \A y \in T : g[y] \in Int
    OBVIOUS
  <2> HIDE DEF T, S
  <2> QED BY <1>1, <2>1, SumWithout
<1>3. SumFunctionOnSet(g, T \ {x}) = SumFunctionOnSet(g, S)
    BY <1>1
<1>4. SumFunctionOnSet(g, S) = SumFunctionOnSet(f, S)
    BY SumsAgree
<1>5. SumFunctionOnSet(f, S) \in Int
    BY SumOfInts
<1> QED BY <1>2, <1>3, <1>4, <1>5 DEF SumFunction

\* One summand changes, and the sum by as much.
LEMMA SumMoves ==
    ASSUME NEW f, IsFiniteSet(DOMAIN f), \A y \in DOMAIN f : f[y] \in Int,
           NEW x \in DOMAIN f,
           NEW g, DOMAIN g = DOMAIN f, g[x] \in Int,
           \A y \in DOMAIN f \ {x} : g[y] = f[y]
    PROVE  SumFunction(g) = SumFunction(f) + (g[x] - f[x])
<1> DEFINE S == DOMAIN f
<1>1. IsFiniteSet(S \ {x})
    BY FS_Subset
<1>2. SumFunctionOnSet(g, S \ {x}) = SumFunctionOnSet(f, S \ {x})
    BY <1>1, SumsAgree
<1>3. SumFunctionOnSet(f, S) = f[x] + SumFunctionOnSet(f, S \ {x})
    BY SumWithout
<1>4. SumFunctionOnSet(g, S) = g[x] + SumFunctionOnSet(g, S \ {x})
    BY SumWithout
<1>5. SumFunctionOnSet(f, S \ {x}) \in Int
    BY <1>1, SumOfInts
<1> QED BY <1>2, <1>3, <1>4, <1>5 DEF SumFunction
=============================================================================
