----------------------------- MODULE WordProofs -----------------------------
(***************************************************************************)
(* The banned-word check, for every library, table of replacements, set of *)
(* rules and text.                                                         *)
(*                                                                         *)
(* The automaton finds every word and nothing else: after what was read    *)
(* its state is the longest end of it that begins a word (AtIsRight),      *)
(* because the link of a state leads to its longest shorter end            *)
(* (LinksAreRight).                                                        *)
(*                                                                         *)
(* A hit is reported at the place of its first character, because what a   *)
(* text gives from the place of a character on is an end of what the whole *)
(* text gives (AloneFrom), and cutting places off commutes with replacing  *)
(* (AloneCut).  Where it has several places it does not stay as it was:    *)
(* its second character becomes a star and the segments that are masked    *)
(* later lie further to the front (AllMasked).                             *)
(***************************************************************************)
EXTENDS WordCheck, SequenceTheorems, Sums
-----------------------------------------------------------------------------
(* Extremes of numbers and lengths                                         *)

\* A function to the natural numbers has a smallest value on any set.
LEMMA LeastExists ==
    ASSUME NEW S, S # {}, NEW f, \A x \in S : f[x] \in Nat
    PROVE  \E x \in S : \A y \in S : f[x] <= f[y]
<1> PICK z \in S : TRUE
  OBVIOUS
<1> DEFINE N == {f[x] : x \in {y \in S : f[y] <= f[z]}}
<1> DEFINE down == [n \in N |-> -n]
<1>1. N \subseteq 0..f[z] /\ f[z] \in N
  OBVIOUS
<1>2. IsFiniteSet(N)
  <2>1. IsFiniteSet(0..f[z])
    BY FS_Interval
  <2> QED BY <1>1, <2>1, FS_Subset
<1>3. \A n \in N : n \in Nat /\ down[n] = -n /\ down[n] \in Int
  BY <1>1
<1>4. \E m \in N : \A n \in N : down[n] <= down[m]
  <2> HIDE DEF N, down
  <2> QED BY <1>1, <1>2, <1>3, LargestExists
<1>5. PICK m \in N : \A n \in N : m <= n
  <2> HIDE DEF N, down
  <2> QED BY <1>3, <1>4
<1>6. PICK x \in S : f[x] = m
  OBVIOUS
<1>7. ASSUME NEW y \in S PROVE f[x] <= f[y]
  <2>1. CASE f[y] <= f[z]
    BY <2>1, <1>5, <1>6
  <2>2. CASE ~(f[y] <= f[z])
    BY <2>2, <1>1, <1>5, <1>6
  <2> QED BY <2>1, <2>2
<1> QED BY <1>7

\* So has a set of natural numbers ...
LEMMA LeastNumber ==
    ASSUME NEW S, S \subseteq Nat, S # {}
    PROVE  \E x \in S : \A y \in S : x <= y
<1> DEFINE f == [x \in S |-> x]
<1>1. \A x \in S : f[x] \in Nat /\ f[x] = x
  OBVIOUS
<1>2. \E x \in S : \A y \in S : f[x] <= f[y]
  <2> HIDE DEF f
  <2> QED BY <1>1, LeastExists
<1> QED BY <1>1, <1>2

\* ... and one that is bounded has a largest.
LEMMA LargestNumber ==
    ASSUME NEW n \in Nat, NEW S, S \subseteq 0..n, S # {}
    PROVE  \E x \in S : \A y \in S : y <= x
<1> DEFINE f == [x \in S |-> n - x]
<1>1. \A x \in S : f[x] \in Nat /\ f[x] = n - x /\ x \in Nat
  OBVIOUS
<1>2. \E x \in S : \A y \in S : f[x] <= f[y]
  <2> HIDE DEF f
  <2> QED BY <1>1, LeastExists
<1>3. PICK x \in S : \A y \in S : f[x] <= f[y]
  BY <1>2
<1>4. \A y \in S : y <= x
  <2> HIDE DEF f
  <2> QED BY <1>1, <1>3
<1> QED BY <1>4

\* Among texts there is a shortest ...
LEMMA ShortestExists ==
    ASSUME NEW S, S # {}, \A x \in S : Len(x) \in Nat
    PROVE  \E x \in S : \A y \in S : Len(x) <= Len(y)
<1> DEFINE f == [x \in S |-> Len(x)]
<1>1. \A x \in S : f[x] \in Nat /\ f[x] = Len(x)
  OBVIOUS
<1>2. \E x \in S : \A y \in S : f[x] <= f[y]
  <2> HIDE DEF f
  <2> QED BY <1>1, LeastExists
<1> QED BY <1>1, <1>2

\* ... and, if their lengths are bounded, a longest.
LEMMA LongestExists ==
    ASSUME NEW S, S # {}, NEW n \in Nat, \A x \in S : Len(x) \in 0..n
    PROVE  \E x \in S : \A y \in S : Len(y) <= Len(x)
<1> DEFINE f == [x \in S |-> n - Len(x)]
<1>1. \A x \in S : f[x] \in Nat /\ f[x] = n - Len(x) /\ Len(x) \in Nat
  OBVIOUS
<1>2. \E x \in S : \A y \in S : f[x] <= f[y]
  <2> HIDE DEF f
  <2> QED BY <1>1, LeastExists
<1>3. PICK x \in S : \A y \in S : f[x] <= f[y]
  BY <1>2
<1>4. \A y \in S : Len(y) <= Len(x)
  <2> HIDE DEF f
  <2> QED BY <1>1, <1>3
<1> QED BY <1>4
-----------------------------------------------------------------------------
(* The ends of texts *)

\* The text x is an end of the text y.
EndOf(x, y) ==
    /\ Len(x) <= Len(y)
    /\ \A i \in 1..Len(x) : x[i] = y[Len(y) - Len(x) + i]

\* Every text is an end of itself, and so is the empty one.
LEMMA EndsSelf ==
    ASSUME NEW C, NEW x \in Seq(C)
    PROVE  EndOf(x, x) /\ EndOf(<<>>, x)
BY DEF EndOf

\* An end of an end is an end.
LEMMA EndsChain ==
    ASSUME NEW C, NEW x \in Seq(C), NEW y \in Seq(C), NEW z \in Seq(C),
           EndOf(x, y), EndOf(y, z)
    PROVE  EndOf(x, z)
<1>1. ASSUME NEW i \in 1..Len(x) PROVE x[i] = z[Len(z) - Len(x) + i]
  <2>1. /\ Len(y) - Len(x) + i \in 1..Len(y)
        /\ Len(z) - Len(y) + (Len(y) - Len(x) + i) = Len(z) - Len(x) + i
    BY DEF EndOf
  <2> QED BY <2>1 DEF EndOf
<1> QED BY <1>1 DEF EndOf

\* Of two ends of a text the shorter is an end of the longer.
LEMMA EndsOfOne ==
    ASSUME NEW C, NEW x \in Seq(C), NEW y \in Seq(C), NEW z \in Seq(C),
           EndOf(x, z), EndOf(y, z), Len(x) <= Len(y)
    PROVE  EndOf(x, y)
<1>1. ASSUME NEW i \in 1..Len(x) PROVE x[i] = y[Len(y) - Len(x) + i]
  <2>1. /\ Len(y) - Len(x) + i \in 1..Len(y)
        /\ Len(z) - Len(y) + (Len(y) - Len(x) + i) = Len(z) - Len(x) + i
    BY DEF EndOf
  <2> QED BY <2>1 DEF EndOf
<1> QED BY <1>1 DEF EndOf

\* An end as long as the whole is the whole.
LEMMA EndsEqual ==
    ASSUME NEW C, NEW x \in Seq(C), NEW y \in Seq(C), EndOf(x, y), Len(x) = Len(y)
    PROVE  x = y
<1>1. \A i \in 1..Len(x) : x[i] = y[i]
  BY DEF EndOf
<1> QED BY <1>1, SeqEqual

\* What the prover should know of Append.
LEMMA AppendParts ==
    ASSUME NEW C, NEW x \in Seq(C), NEW c \in C
    PROVE  /\ Append(x, c) \in Seq(C) /\ Len(Append(x, c)) = Len(x) + 1
           /\ Append(x, c)[Len(x) + 1] = c
           /\ \A i \in 1..Len(x) : Append(x, c)[i] = x[i]
OBVIOUS

\* a is x with c after it.
Then(a, x, c) == a = Append(x, c)

\* Ends of texts with one more character: the same character, after ends.
LEMMA EndsAppend ==
    ASSUME NEW C, NEW x \in Seq(C), NEW y \in Seq(C), NEW c \in C, NEW d \in C,
           NEW a, Then(a, x, c), NEW b, Then(b, y, d)
    PROVE  EndOf(a, b) <=> (c = d /\ EndOf(x, y))
<1>0. a = Append(x, c) /\ b = Append(y, d)
  BY DEF Then
<1>1. /\ a \in Seq(C) /\ Len(a) = Len(x) + 1 /\ a[Len(x) + 1] = c
      /\ b \in Seq(C) /\ Len(b) = Len(y) + 1 /\ b[Len(y) + 1] = d
  BY <1>0
<1>2. \A i \in 1..Len(x) : a[i] = x[i]
  BY <1>0
<1>3. \A i \in 1..Len(y) : b[i] = y[i]
  BY <1>0
<1>4. ASSUME EndOf(a, b) PROVE c = d /\ EndOf(x, y)
  <2>1. a[Len(x) + 1] = b[Len(y) + 1]
    BY <1>1, <1>4 DEF EndOf
  <2>2. ASSUME NEW i \in 1..Len(x) PROVE x[i] = y[Len(y) - Len(x) + i]
    <3>1. a[i] = b[Len(b) - Len(a) + i]
      BY <1>1, <1>4 DEF EndOf
    <3>2. Len(b) - Len(a) + i \in 1..Len(y) /\ Len(b) - Len(a) = Len(y) - Len(x)
      BY <1>1, <1>4 DEF EndOf
    <3> QED BY <3>1, <3>2, <1>2, <1>3
  <2>3. Len(x) <= Len(y) /\ c = d
    BY <2>1, <1>1, <1>4, SMTT(30) DEF EndOf
  <2> QED BY <2>2, <2>3 DEF EndOf
<1>5. ASSUME c = d, EndOf(x, y) PROVE EndOf(a, b)
  <2>0. Len(x) \in Nat /\ Len(y) \in Nat /\ Len(x) <= Len(y)
    BY <1>5 DEF EndOf
  <2>1. ASSUME NEW i \in 1..Len(a) PROVE a[i] = b[Len(b) - Len(a) + i]
    <3>1. CASE i = Len(x) + 1
      <4>1. Len(b) - Len(a) + i = Len(y) + 1
        BY <3>1, <1>1, <2>0
      <4> QED BY <4>1, <3>1, <1>1, <1>5
    <3>2. CASE i \in 1..Len(x)
      <4>1. Len(b) - Len(a) + i = Len(y) - Len(x) + i /\ Len(y) - Len(x) + i \in 1..Len(y)
        BY <3>2, <1>1, <2>0
      <4>2. a[i] = x[i] /\ b[Len(y) - Len(x) + i] = y[Len(y) - Len(x) + i]
        BY <4>1, <3>2, <1>2, <1>3
      <4>3. x[i] = y[Len(y) - Len(x) + i]
        BY <3>2, <1>5 DEF EndOf
      <4> QED BY <4>1, <4>2, <4>3
    <3>3. i \in 1..Len(x) \/ i = Len(x) + 1
      BY <1>1, <2>0
    <3> QED BY <3>1, <3>2, <3>3
  <2>2. Len(a) <= Len(b)
    BY <2>0, <1>1
  <2> QED BY <2>1, <2>2 DEF EndOf
<1> QED BY <1>4, <1>5

\* Every text but the empty one is a shorter one and a last character.
LEMMA FrontAndLast ==
    ASSUME NEW C, NEW x \in Seq(C), x # <<>>
    PROVE  /\ Front(x) \in Seq(C) /\ Last(x) \in C /\ Len(Front(x)) = Len(x) - 1
           /\ x = Append(Front(x), Last(x))
<1> PICK p : p = SubSeq(x, 1, Len(x) - 1)
  OBVIOUS
<1>0. Len(x) \in Nat \ {0}
  BY EmptySeq
<1>1. p \in Seq(C) /\ Len(p) = Len(x) - 1 /\ \A i \in 1..Len(p) : p[i] = x[i]
  <2>1. \A i \in 1..(Len(x) - 1) : x[i] \in C
    BY <1>0
  <2>2. /\ p \in Seq(C)
        /\ Len(p) = (IF 1 <= Len(x) - 1 THEN (Len(x) - 1) - 1 + 1 ELSE 0)
        /\ \A i \in 1..(Len(x) - 1 - 1 + 1) : p[i] = x[1 + i - 1]
    BY <1>0, <2>1, SubSeqProperties
  <2>3. Len(p) = Len(x) - 1
    <3> PICK n \in Nat : n = Len(x) - 1
      BY <1>0
    <3>1. Len(p) = (IF 1 <= n THEN n - 1 + 1 ELSE 0)
      BY <2>2
    <3> QED BY <3>1
  <2>4. ASSUME NEW i \in 1..Len(p) PROVE p[i] = x[i]
    <3>1. i \in 1..(Len(x) - 1 - 1 + 1) /\ 1 + i - 1 = i
      BY <1>0, <2>3
    <3> QED BY <2>2, <3>1
  <2> QED BY <2>2, <2>3, <2>4
<1>2. x[Len(x)] \in C
  BY <1>0
<1>3. x = Append(p, x[Len(x)])
  <2>1. /\ Append(p, x[Len(x)]) \in Seq(C) /\ Len(Append(p, x[Len(x)])) = Len(x)
        /\ \A i \in 1..Len(x) : Append(p, x[Len(x)])[i] = x[i]
    BY <1>0, <1>1, <1>2
  <2> QED BY <2>1, SeqEqual
<1> QED BY <1>1, <1>2, <1>3 DEF Front, Last
-----------------------------------------------------------------------------
(* The automaton of word-matcher.js.  Each of its recursive functions is   *)
(* named by the equation it solves; a solution exists because one can be   *)
(* written down, and where the links are right all solutions agree.        *)

\* Its states: the texts that begin a word.
Trie(Q, C) ==
    /\ Q \subseteq Seq(C) /\ <<>> \in Q
    /\ \A x \in Seq(C), c \in C : Append(x, c) \in Q => x \in Q

\* x is the longest state that ends y.
LongestEnd(Q, y, x) ==
    /\ x \in Q /\ EndOf(x, y)
    /\ \A z \in Q : EndOf(z, y) => Len(z) <= Len(x)

\* x is the longest state that ends s and is shorter.
Falls(Q, s, x) ==
    /\ x \in Q /\ EndOf(x, s) /\ (s # <<>> => Len(x) < Len(s))
    /\ \A z \in Q : EndOf(z, s) /\ Len(z) < Len(s) => Len(z) <= Len(x)

\* The functions behind Read, Fail and Reported.
BackIs(Q, fail, c, back) ==
    back = [f \in Q |-> IF f = <<>> \/ Append(f, c) \in Q THEN f ELSE back[fail[f]]]

FailIs(Q, fail) ==
    fail = [s \in Q |->
              IF Len(s) <= 1 THEN <<>> ELSE Read(Q, fail, fail[Front(s)], Last(s))]

OutIs(Q, fail, out) ==
    out = [s \in Q |-> {s} \cup IF s = <<>> THEN {} ELSE out[fail[s]]]

AtIs(Q, fail, letters, at) ==
    at = [i \in 0..Len(letters) |->
            IF i = 0 THEN <<>> ELSE Read(Q, fail, at[i - 1], letters[i])]

\* The longest end is one ...
LEMMA ReachedOnce ==
    ASSUME NEW C, NEW Q, Trie(Q, C), NEW y \in Seq(C), NEW x, NEW z,
           LongestEnd(Q, y, x), LongestEnd(Q, y, z)
    PROVE  x = z
<1>1. x \in Seq(C) /\ z \in Seq(C) /\ EndOf(x, y) /\ EndOf(z, y)
  BY DEF Trie, LongestEnd
<1>2. Len(x) = Len(z)
  <2>1. Len(x) <= Len(z) /\ Len(z) <= Len(x)
    BY <1>1 DEF LongestEnd
  <2> QED BY <2>1, <1>1
<1>3. EndOf(x, z)
  BY <1>1, <1>2, EndsOfOne
<1> QED BY <1>1, <1>2, <1>3, EndsEqual

\* ... so is the longest that is shorter ...
LEMMA FallsOnce ==
    ASSUME NEW C, NEW Q, Trie(Q, C), NEW s \in Q, NEW x, NEW z,
           Falls(Q, s, x), Falls(Q, s, z)
    PROVE  x = z
<1>1. x \in Seq(C) /\ z \in Seq(C) /\ s \in Seq(C) /\ EndOf(x, s) /\ EndOf(z, s)
  BY DEF Trie, Falls
<1>2. Len(x) = Len(z)
  <2>1. CASE s = <<>>
    BY <2>1, <1>1 DEF EndOf
  <2>2. CASE s # <<>>
    <3>1. Len(x) <= Len(z) /\ Len(z) <= Len(x)
      BY <2>2 DEF Falls
    <3> QED BY <3>1, <1>1
  <2> QED BY <2>1, <2>2
<1>3. EndOf(x, z)
  BY <1>1, <1>2, EndsOfOne
<1> QED BY <1>1, <1>2, <1>3, EndsEqual

\* ... and there is one.
LEMMA FallsSomewhere ==
    ASSUME NEW C, NEW Q, Trie(Q, C), NEW s \in Q
    PROVE  \E x : Falls(Q, s, x)
<1>0. Q \subseteq Seq(C) /\ <<>> \in Q /\ s \in Seq(C) /\ EndOf(<<>>, s)
  BY EndsSelf DEF Trie
<1>1. CASE s = <<>>
  <2>1. Falls(Q, s, <<>>)
    BY <1>0, <1>1 DEF Falls
  <2> QED BY <2>1
<1>2. CASE s # <<>>
  <2> DEFINE S == {z \in Q : EndOf(z, s) /\ Len(z) < Len(s)}
  <2>1. Len(s) \in Nat /\ Len(s) > 0 /\ \A z \in Q : Len(z) \in Nat
    BY <1>0, <1>2, EmptySeq
  <2>2. <<>> \in S /\ \A z \in S : Len(z) \in 0..Len(s)
    BY <1>0, <2>1
  <2>3. PICK x \in S : \A z \in S : Len(z) <= Len(x)
    <3> HIDE DEF S
    <3> QED BY <2>1, <2>2, LongestExists
  <2>4. Falls(Q, s, x)
    BY <2>3 DEF Falls
  <2> QED BY <2>4
<1> QED BY <1>1, <1>2

\* Falling back is a function even where the links run in circles: all that the
\* links lead through from f comes to the same stops.
LEMMA BackExists ==
    ASSUME NEW Q, NEW fail \in [Q -> Q], NEW c
    PROVE  \E back : BackIs(Q, fail, c, back)
<1> DEFINE Stop(f) == f = <<>> \/ Append(f, c) \in Q
<1> DEFINE Closed == {S \in SUBSET Q : \A f \in S : Stop(f) \/ fail[f] \in S}
<1> DEFINE Chain(f) == {g \in Q : \A S \in Closed : f \in S => g \in S}
<1> DEFINE Ends1(f) == {g \in Chain(f) : Stop(g)}
<1> DEFINE back == [f \in Q |-> IF Stop(f) THEN f ELSE CHOOSE g : g \in Ends1(f)]
<1>1. ASSUME NEW f \in Q, ~Stop(f) PROVE Ends1(f) = Ends1(fail[f])
  <2>1. ASSUME NEW g \in Q, Stop(g), NEW S \in Closed, fail[f] \in S,
               \A T \in Closed : f \in T => g \in T
        PROVE  g \in S
    <3>1. S \cup {f} \in Closed
      BY <2>1
    <3>2. g \in S \cup {f}
      BY <3>1, <2>1
    <3> QED BY <3>2, <2>1, <1>1
  <2>2. ASSUME NEW g \in Q, NEW S \in Closed, f \in S,
               \A T \in Closed : fail[f] \in T => g \in T
        PROVE  g \in S
    BY <1>1, <2>2
  <2> QED BY <2>1, <2>2
<1>2. ASSUME NEW f \in Q, Stop(f) PROVE Ends1(f) = {f}
  <2>1. {f} \in Closed
    BY <1>2
  <2> QED BY <2>1, <1>2
<1>3. ASSUME NEW f \in Q PROVE back[f] = IF Stop(f) THEN f ELSE back[fail[f]]
  <2>1. CASE Stop(f)
    BY <2>1
  <2>2. CASE ~Stop(f)
    <3>1. back[f] = CHOOSE g : g \in Ends1(f)
      BY <2>2
    <3>2. Ends1(f) = Ends1(fail[f])
      BY <1>1, <2>2
    <3>3. CASE Stop(fail[f])
      <4>1. Ends1(fail[f]) = {fail[f]} /\ back[fail[f]] = fail[f]
        BY <1>2, <3>3
      <4> HIDE DEF Ends1
      <4> QED BY <4>1, <3>1, <3>2, <2>2
    <3>4. CASE ~Stop(fail[f])
      <4>1. back[fail[f]] = CHOOSE g : g \in Ends1(fail[f])
        BY <3>4
      <4> HIDE DEF Ends1
      <4> QED BY <4>1, <3>1, <3>2, <2>2
    <3> QED BY <3>3, <3>4
  <2> QED BY <2>1, <2>2
<1>4. BackIs(Q, fail, c, back)
  <2> PICK b : b = back
    OBVIOUS
  <2>1. DOMAIN b = Q /\ b = [f \in Q |-> b[f]]
    OBVIOUS
  <2>2. \A f \in Q : b[f] = IF Stop(f) THEN f ELSE b[fail[f]]
    <3> HIDE DEF back
    <3> QED BY <1>3
  <2>3. b = [f \in Q |-> IF Stop(f) THEN f ELSE b[fail[f]]]
    <3> DEFINE h == [f \in Q |-> IF Stop(f) THEN f ELSE b[fail[f]]]
    <3>1. \A f \in Q : h[f] = b[f]
      BY <2>2
    <3>2. h = [f \in Q |-> h[f]]
      OBVIOUS
    <3>3. b = [f \in Q |-> b[f]]
      BY <2>1
    <3>4. b = h
      <4> HIDE DEF h, back, Ends1, Chain, Closed, Stop
      <4>1. [f \in Q |-> b[f]] = [f \in Q |-> h[f]]
        BY <3>1
      <4> QED BY <4>1, <3>2, <3>3, Zenon
    <3> QED BY <3>4
  <2> QED BY <2>3 DEF BackIs
<1> QED BY <1>4

\* So Read falls back with some such function.
LEMMA ReadIs ==
    ASSUME NEW Q, NEW fail \in [Q -> Q], NEW s, NEW c
    PROVE  \E back : /\ BackIs(Q, fail, c, back)
                     /\ Read(Q, fail, s, c) =
                          IF Append(back[s], c) \in Q THEN Append(back[s], c) ELSE <<>>
<1> DEFINE back == CHOOSE b : BackIs(Q, fail, c, b)
<1>1. BackIs(Q, fail, c, back)
  BY BackExists
<1>2. Read(Q, fail, s, c) = IF Append(back[s], c) \in Q THEN Append(back[s], c) ELSE <<>>
  BY Zenon DEF Read, BackIs
<1> QED BY <1>1, <1>2

\* b is the longest end of s from which c can be read.
StopsAt(Q, c, s, b) ==
    /\ b \in Q /\ EndOf(b, s) /\ (b = <<>> \/ Append(b, c) \in Q)
    /\ \A z \in Q : EndOf(z, s) /\ Append(z, c) \in Q => Len(z) <= Len(b)

\* Falling back along links that are right comes to the longest end.
LEMMA FallingBack ==
    ASSUME NEW C, NEW Q, Trie(Q, C), NEW fail \in [Q -> Q], NEW c \in C,
           NEW back, BackIs(Q, fail, c, back), NEW s \in Q,
           \A f \in Q : Len(f) <= Len(s) => Falls(Q, f, fail[f])
    PROVE  StopsAt(Q, c, s, back[s])
<1> DEFINE Bad == {f \in Q : Len(f) <= Len(s) /\ ~StopsAt(Q, c, f, back[f])}
<1> SUFFICES ASSUME Bad # {} PROVE FALSE
  BY DEF Trie
<1>0. Q \subseteq Seq(C) /\ <<>> \in Q /\ \A f \in Q : Len(f) \in Nat
  BY DEF Trie
<1>1. PICK f \in Bad : \A g \in Bad : Len(f) <= Len(g)
  <2>1. \A g \in Bad : Len(g) \in Nat
    BY <1>0
  <2> HIDE DEF Bad
  <2> QED BY <2>1, ShortestExists
<1>2. f \in Q /\ f \in Seq(C) /\ Len(f) <= Len(s) /\ Falls(Q, f, fail[f])
  BY <1>0, <1>1
<1>3. back[f] = IF f = <<>> \/ Append(f, c) \in Q THEN f ELSE back[fail[f]]
  BY <1>2 DEF BackIs
<1>4. CASE f = <<>> \/ Append(f, c) \in Q
  <2>1. back[f] = f /\ EndOf(f, f)
    BY <1>2, <1>3, <1>4, EndsSelf
  <2>2. \A z \in Q : EndOf(z, f) => Len(z) <= Len(f)
    BY DEF EndOf
  <2>3. StopsAt(Q, c, f, back[f])
    BY <1>2, <1>4, <2>1, <2>2 DEF StopsAt
  <2> QED BY <2>3, <1>1
<1>5. CASE ~(f = <<>> \/ Append(f, c) \in Q)
  <2> PICK g : g = fail[f]
    OBVIOUS
  <2>1. /\ g \in Q /\ g \in Seq(C) /\ EndOf(g, f) /\ Len(g) < Len(f)
        /\ \A z \in Q : EndOf(z, f) /\ Len(z) < Len(f) => Len(z) <= Len(g)
    BY <1>0, <1>2, <1>5 DEF Falls
  <2>2. StopsAt(Q, c, g, back[g]) /\ back[f] = back[g]
    <3>1. Len(g) \in Nat /\ Len(f) \in Nat /\ Len(s) \in Nat
      BY <1>0, <1>2, <2>1
    <3>2. Len(g) <= Len(s) /\ ~(Len(f) <= Len(g))
      BY <3>1, <1>2, <2>1
    <3>3. g \notin Bad
      BY <3>2, <1>1
    <3> QED BY <3>2, <3>3, <2>1, <1>3, <1>5
  <2> PICK b : b = back[g]
    OBVIOUS
  <2>3. /\ b \in Q /\ b \in Seq(C) /\ EndOf(b, g) /\ (b = <<>> \/ Append(b, c) \in Q)
        /\ \A z \in Q : EndOf(z, g) /\ Append(z, c) \in Q => Len(z) <= Len(b)
    BY <1>0, <2>2 DEF StopsAt
  <2>4. EndOf(b, f)
    BY <1>2, <2>1, <2>3, EndsChain
  <2>5. ASSUME NEW z \in Q, EndOf(z, f), Append(z, c) \in Q PROVE Len(z) <= Len(b)
    <3>1. z \in Seq(C) /\ Len(z) \in Nat /\ Len(f) \in Nat /\ Len(z) <= Len(f)
      BY <1>0, <1>2, <2>5 DEF EndOf
    <3>2. Len(z) # Len(f)
      BY <3>1, <1>2, <1>5, <2>5, EndsEqual
    <3>3. Len(z) <= Len(g)
      BY <3>1, <3>2, <2>1, <2>5
    <3>4. EndOf(z, g)
      BY <3>1, <3>3, <1>2, <2>1, <2>5, EndsOfOne
    <3> QED BY <3>4, <2>3, <2>5
  <2>6. StopsAt(Q, c, f, b)
    BY <2>3, <2>4, <2>5 DEF StopsAt
  <2> QED BY <2>2, <2>6, <1>1
<1> QED BY <1>4, <1>5

\* Reading c in a state leads to the longest state that ends what was read.
LEMMA ReadReaches ==
    ASSUME NEW C, NEW Q, Trie(Q, C), NEW fail \in [Q -> Q], NEW c \in C, NEW s \in Q,
           \A f \in Q : Len(f) <= Len(s) => Falls(Q, f, fail[f])
    PROVE  LongestEnd(Q, Append(s, c), Read(Q, fail, s, c))
<1>1. PICK back : /\ BackIs(Q, fail, c, back)
                  /\ Read(Q, fail, s, c) =
                       IF Append(back[s], c) \in Q THEN Append(back[s], c) ELSE <<>>
  BY ReadIs
<1> PICK b : b = back[s]
  OBVIOUS
<1>2. StopsAt(Q, c, s, b)
  BY <1>1, FallingBack
<1>3. Q \subseteq Seq(C) /\ <<>> \in Q /\ s \in Seq(C) /\ b \in Seq(C) /\ EndOf(b, s)
  BY <1>2 DEF Trie, StopsAt
<1> PICK t, a : t = Append(s, c) /\ a = Append(b, c)
  OBVIOUS
<1>4. t \in Seq(C) /\ a \in Seq(C) /\ Len(a) = Len(b) + 1 /\ EndOf(a, t)
  <2>1. Then(t, s, c) /\ Then(a, b, c)
    BY DEF Then
  <2> QED BY <2>1, <1>3, EndsAppend
<1>5. ASSUME NEW z \in Q, z # <<>>, EndOf(z, t)
      PROVE  /\ Append(Front(z), c) \in Q /\ Len(Front(z)) <= Len(b)
             /\ Len(z) = Len(Front(z)) + 1 /\ Front(z) \in Seq(C)
  <2>1. /\ Front(z) \in Seq(C) /\ Last(z) \in C /\ Len(Front(z)) = Len(z) - 1
        /\ z = Append(Front(z), Last(z))
    BY <1>3, <1>5, FrontAndLast
  <2> PICK x, d : x = Front(z) /\ d = Last(z)
    OBVIOUS
  <2>2. x \in Seq(C) /\ d \in C /\ z = Append(x, d)
    BY <2>1
  <2>3. d = c /\ EndOf(x, s)
    <3>1. Then(z, x, d) /\ Then(t, s, c)
      BY <2>2 DEF Then
    <3> QED BY <3>1, <2>2, <1>3, <1>5, EndsAppend
  <2>4. x \in Q
    BY <2>2 DEF Trie
  <2>5. Append(x, c) \in Q /\ Len(x) <= Len(b)
    BY <2>2, <2>3, <2>4, <1>2 DEF StopsAt
  <2> QED BY <2>1, <2>5, <1>3
<1>6. CASE a \in Q
  <2>2. ASSUME NEW z \in Q, EndOf(z, t) PROVE Len(z) <= Len(a)
    <3>1. CASE z = <<>>
      BY <3>1, <1>3, <1>4
    <3>2. CASE z # <<>>
      BY <3>2, <2>2, <1>3, <1>4, <1>5
    <3> QED BY <3>1, <3>2
  <2> QED BY <1>1, <1>4, <1>6, <2>2 DEF LongestEnd
<1>7. CASE a \notin Q
  <2>1. b = <<>>
    BY <1>2, <1>7 DEF StopsAt
  <2>2. ASSUME NEW z \in Q, EndOf(z, t) PROVE z = <<>>
    <3> SUFFICES ASSUME z # <<>> PROVE FALSE
      OBVIOUS
    <3>1. Append(Front(z), c) \in Q /\ Len(Front(z)) <= 0 /\ Front(z) \in Seq(C)
      BY <2>1, <2>2, <1>5
    <3>2. Front(z) = <<>>
      BY <3>1, EmptySeq
    <3> QED BY <3>1, <3>2, <2>1, <1>7
  <2>3. EndOf(<<>>, t)
    BY <1>4, EndsSelf
  <2> QED BY <1>1, <1>3, <1>7, <2>2, <2>3 DEF LongestEnd
<1> QED BY <1>6, <1>7

\* build: the link of a state is read from the link of its parent.
LEMMA LinkOfParent ==
    ASSUME NEW C, NEW Q, Trie(Q, C), NEW fail \in [Q -> Q], NEW s \in Q, Len(s) >= 2,
           \A f \in Q : Len(f) < Len(s) => Falls(Q, f, fail[f])
    PROVE  Falls(Q, s, Read(Q, fail, fail[Front(s)], Last(s)))
<1>0. /\ Q \subseteq Seq(C) /\ <<>> \in Q /\ s \in Seq(C) /\ s # <<>>
      /\ \A f \in Q : Len(f) \in Nat
  BY DEF Trie
<1> PICK p, c : p = Front(s) /\ c = Last(s)
  OBVIOUS
<1>1. p \in Seq(C) /\ c \in C /\ Len(p) = Len(s) - 1 /\ s = Append(p, c)
  BY <1>0, FrontAndLast
<1>2. p \in Q /\ p # <<>>
  <2>1. p \in Q
    BY <1>1 DEF Trie
  <2>2. Len(p) # 0
    BY <1>0, <1>1
  <2> QED BY <2>1, <2>2
<1> PICK f : f = fail[p]
  OBVIOUS
<1>3. /\ f \in Q /\ f \in Seq(C) /\ EndOf(f, p) /\ Len(f) < Len(p)
      /\ \A z \in Q : EndOf(z, p) /\ Len(z) < Len(p) => Len(z) <= Len(f)
  <2>1. Falls(Q, p, f)
    BY <1>0, <1>1, <1>2
  <2> QED BY <2>1, <1>0, <1>2 DEF Falls
<1>4. \A g \in Q : Len(g) <= Len(f) => Falls(Q, g, fail[g])
  BY <1>0, <1>1, <1>3
<1> PICK r : r = Read(Q, fail, f, c)
  OBVIOUS
<1> PICK a : a = Append(f, c)
  OBVIOUS
<1>5. LongestEnd(Q, a, r)
  BY <1>1, <1>3, <1>4, ReadReaches
<1>6. /\ r \in Q /\ r \in Seq(C) /\ EndOf(r, a)
      /\ \A z \in Q : EndOf(z, a) => Len(z) <= Len(r)
  BY <1>0, <1>5 DEF LongestEnd
<1>7. a \in Seq(C) /\ Len(a) = Len(f) + 1 /\ EndOf(a, s)
  <2>1. Then(s, p, c) /\ Then(a, f, c)
    BY <1>1 DEF Then
  <2>2. EndOf(a, s)
    BY <2>1, <1>1, <1>3, EndsAppend
  <2> QED BY <2>2, <1>1, <1>3
<1>8. EndOf(r, s) /\ Len(r) < Len(s)
  <2>1. Len(r) <= Len(f) + 1
    BY <1>6, <1>7 DEF EndOf
  <2>2. Len(r) < Len(s)
    BY <2>1, <1>0, <1>1, <1>2, <1>3, <1>6
  <2>3. EndOf(r, s)
    BY <1>0, <1>6, <1>7, EndsChain
  <2> QED BY <2>2, <2>3
<1>9. ASSUME NEW z \in Q, EndOf(z, s), Len(z) < Len(s) PROVE Len(z) <= Len(r)
  <2>1. CASE z = <<>>
    BY <2>1, <1>0, <1>6
  <2>2. CASE z # <<>>
    <3> PICK x, d : x = Front(z) /\ d = Last(z)
      OBVIOUS
    <3>1. x \in Seq(C) /\ d \in C /\ Len(x) = Len(z) - 1 /\ z = Append(x, d)
      BY <2>2, <1>0, FrontAndLast
    <3>2. d = c /\ EndOf(x, p)
      <4>1. Then(z, x, d) /\ Then(s, p, c)
        BY <3>1, <1>1 DEF Then
      <4> QED BY <4>1, <3>1, <1>1, <1>9, EndsAppend
    <3>3. x \in Q /\ Len(x) < Len(p)
      <4>1. x \in Q
        BY <3>1 DEF Trie
      <4>2. Len(z) \in Nat /\ Len(s) \in Nat
        BY <1>0
      <4> QED BY <4>1, <4>2, <3>1, <1>1, <1>9
    <3>4. Len(x) <= Len(f)
      BY <3>2, <3>3, <1>3
    <3>5. EndOf(x, f)
      BY <3>1, <3>2, <3>4, <1>1, <1>3, EndsOfOne
    <3>6. EndOf(z, a)
      <4>1. Then(z, x, c) /\ Then(a, f, c)
        BY <3>1, <3>2 DEF Then
      <4> QED BY <4>1, <3>1, <3>5, <1>1, <1>3, EndsAppend
    <3> QED BY <3>6, <1>6
  <2> QED BY <2>1, <2>2
<1> QED BY <1>6, <1>8, <1>9 DEF Falls

\* Reading leads to a state.
LEMMA ReadIn ==
    ASSUME NEW Q, <<>> \in Q, NEW fail, NEW s, NEW c
    PROVE  Read(Q, fail, s, c) \in Q
BY DEF Read

\* build: a state of one letter falls to the root.
LEMMA RootLink ==
    ASSUME NEW C, NEW Q, Trie(Q, C), NEW s \in Q, Len(s) <= 1
    PROVE  Falls(Q, s, <<>>)
<1>1. Q \subseteq Seq(C) /\ <<>> \in Q /\ s \in Seq(C) /\ EndOf(<<>>, s)
  BY EndsSelf DEF Trie
<1>2. s # <<>> => 0 < Len(s)
  BY <1>1, EmptySeq
<1>3. \A z \in Q : EndOf(z, s) /\ Len(z) < Len(s) => Len(z) <= 0
  BY <1>1
<1> QED BY <1>1, <1>2, <1>3 DEF Falls

\* build: the longest shorter ends solve the equation of the links.
LEMMA FailExists ==
    ASSUME NEW C, NEW Q, Trie(Q, C)
    PROVE  \E fail : FailIs(Q, fail)
<1> PICK fail : fail = [s \in Q |-> CHOOSE x : Falls(Q, s, x)]
  OBVIOUS
<1>1. \A s \in Q : Falls(Q, s, fail[s])
  BY FallsSomewhere
<1>2. fail \in [Q -> Q]
  <2>1. \A s \in Q : fail[s] \in Q
    BY <1>1 DEF Falls
  <2> QED BY <2>1
<1>3. ASSUME NEW s \in Q
      PROVE  fail[s] = IF Len(s) <= 1 THEN <<>> ELSE Read(Q, fail, fail[Front(s)], Last(s))
  <2>1. CASE Len(s) <= 1
    <3>1. fail[s] = <<>>
      BY <2>1, <1>1, RootLink, FallsOnce
    <3> QED BY <3>1, <2>1
  <2>2. CASE ~(Len(s) <= 1)
    <3>1. Len(s) >= 2
      BY <2>2 DEF Trie
    <3>2. Falls(Q, s, Read(Q, fail, fail[Front(s)], Last(s)))
      BY <3>1, <1>1, <1>2, LinkOfParent
    <3>3. fail[s] = Read(Q, fail, fail[Front(s)], Last(s))
      BY <3>2, <1>1, FallsOnce
    <3> QED BY <3>3, <2>2
  <2> QED BY <2>1, <2>2
<1>4. [s \in Q |-> fail[s]] =
      [s \in Q |-> IF Len(s) <= 1 THEN <<>> ELSE Read(Q, fail, fail[Front(s)], Last(s))]
  BY <1>3
<1>5. fail = [s \in Q |-> fail[s]]
  BY <1>2
<1>6. FailIs(Q, fail)
  BY <1>4, <1>5, Zenon DEF FailIs
<1> QED BY <1>6

\* Every link leads to the longest state that ends its own state.
LEMMA LinksAreRight ==
    ASSUME NEW C, NEW Q, Trie(Q, C), NEW fail, FailIs(Q, fail)
    PROVE  fail \in [Q -> Q] /\ \A s \in Q : Falls(Q, s, fail[s])
<1>0. Q \subseteq Seq(C) /\ <<>> \in Q /\ \A f \in Q : Len(f) \in Nat
  BY DEF Trie
<1>1. \A s \in Q :
        fail[s] = IF Len(s) <= 1 THEN <<>> ELSE Read(Q, fail, fail[Front(s)], Last(s))
  BY DEF FailIs
<1>2. fail \in [Q -> Q]
  <2>1. \A s \in Q : fail[s] \in Q
    BY <1>0, <1>1, ReadIn
  <2>2. fail = [s \in Q |-> fail[s]]
    BY DEF FailIs
  <2> QED BY <2>1, <2>2
<1> DEFINE Bad == {s \in Q : ~Falls(Q, s, fail[s])}
<1>3. ASSUME Bad # {} PROVE FALSE
  <2>1. PICK s \in Bad : \A z \in Bad : Len(s) <= Len(z)
    <3>1. \A z \in Bad : Len(z) \in Nat
      BY <1>0
    <3> HIDE DEF Bad
    <3> QED BY <3>1, <1>3, ShortestExists
  <2>2. \A f \in Q : Len(f) < Len(s) => Falls(Q, f, fail[f])
    <3>1. ASSUME NEW f \in Q, Len(f) < Len(s) PROVE f \notin Bad
      <4>1. Len(f) \in Nat /\ Len(s) \in Nat
        BY <1>0
      <4> HIDE DEF Bad
      <4> QED BY <4>1, <3>1, <2>1
    <3> QED BY <3>1
  <2>3. CASE Len(s) <= 1
    BY <2>3, <1>1, RootLink
  <2>4. CASE ~(Len(s) <= 1)
    <3>1. Len(s) >= 2
      BY <2>4, <1>0
    <3>2. Falls(Q, s, Read(Q, fail, fail[Front(s)], Last(s)))
      BY <3>1, <2>2, <1>2, LinkOfParent
    <3> QED BY <3>2, <2>4, <1>1
  <2> QED BY <2>3, <2>4
<1> QED BY <1>2, <1>3

\* What ends a state is the state itself and what ends the state its link leads to.
LEMMA EndsByLink ==
    ASSUME NEW C, NEW Q, Trie(Q, C), NEW s \in Q, NEW f, Falls(Q, s, f), NEW x \in Q
    PROVE  EndOf(x, s) <=> (x = s \/ (s # <<>> /\ EndOf(x, f)))
<1>0. x \in Seq(C) /\ s \in Seq(C) /\ f \in Seq(C) /\ EndOf(f, s) /\ EndOf(s, s)
  BY EndsSelf DEF Trie, Falls
<1>1. ASSUME EndOf(x, s), x # s PROVE s # <<>> /\ EndOf(x, f)
  <2>1. Len(x) <= Len(s) /\ Len(x) # Len(s)
    BY <1>0, <1>1, EndsEqual DEF EndOf
  <2>2. s # <<>> /\ Len(x) < Len(s)
    BY <1>0, <2>1
  <2>3. Len(x) <= Len(f)
    BY <2>2, <1>1 DEF Falls
  <2> QED BY <2>2, <2>3, <1>0, <1>1, EndsOfOne
<1>2. ASSUME EndOf(x, f) PROVE EndOf(x, s)
  BY <1>0, <1>2, EndsChain
<1> QED BY <1>0, <1>1, <1>2

\* build: the states that end a state solve the equation of the reports.
LEMMA OutExists ==
    ASSUME NEW C, NEW Q, Trie(Q, C), NEW fail \in [Q -> Q],
           \A s \in Q : Falls(Q, s, fail[s])
    PROVE  \E out : OutIs(Q, fail, out)
<1> PICK out : out = [s \in Q |-> {x \in Q : EndOf(x, s)}]
  OBVIOUS
<1>1. ASSUME NEW s \in Q
      PROVE  out[s] = {s} \cup IF s = <<>> THEN {} ELSE out[fail[s]]
  <2> PICK f : f = fail[s]
    OBVIOUS
  <2>1. f \in Q /\ Falls(Q, s, f)
    OBVIOUS
  <2>2. \A x \in Q : EndOf(x, s) <=> (x = s \/ (s # <<>> /\ EndOf(x, f)))
    BY <2>1, EndsByLink
  <2>3. out[s] = {x \in Q : EndOf(x, s)} /\ out[f] = {x \in Q : EndOf(x, f)}
    BY <2>1
  <2> QED BY <2>2, <2>3
<1>2. [s \in Q |-> out[s]] = [s \in Q |-> {s} \cup IF s = <<>> THEN {} ELSE out[fail[s]]]
  BY <1>1
<1>3. out = [s \in Q |-> out[s]]
  OBVIOUS
<1> QED BY <1>2, <1>3, Zenon DEF OutIs

\* A state reports all states that end it.
LEMMA ReportsAreRight ==
    ASSUME NEW C, NEW Q, Trie(Q, C), NEW fail \in [Q -> Q],
           \A s \in Q : Falls(Q, s, fail[s]), NEW out, OutIs(Q, fail, out), NEW t \in Q
    PROVE  out[t] = {x \in Q : EndOf(x, t)}
<1>0. Q \subseteq Seq(C) /\ \A f \in Q : Len(f) \in Nat
  BY DEF Trie
<1> DEFINE Bad == {s \in Q : out[s] # {x \in Q : EndOf(x, s)}}
<1> SUFFICES ASSUME Bad # {} PROVE FALSE
  OBVIOUS
<1>1. PICK s \in Bad : \A z \in Bad : Len(s) <= Len(z)
  <2>1. \A z \in Bad : Len(z) \in Nat
    BY <1>0
  <2> HIDE DEF Bad
  <2> QED BY <2>1, ShortestExists
<1> PICK f : f = fail[s]
  OBVIOUS
<1>2. s \in Q /\ f \in Q /\ Falls(Q, s, f)
  OBVIOUS
<1>3. \A x \in Q : EndOf(x, s) <=> (x = s \/ (s # <<>> /\ EndOf(x, f)))
  BY <1>2, EndsByLink
<1>4. out[s] = {s} \cup IF s = <<>> THEN {} ELSE out[f]
  BY <1>2 DEF OutIs
<1>5. ASSUME s # <<>> PROVE out[f] = {x \in Q : EndOf(x, f)}
  <2>1. Len(f) < Len(s) /\ Len(f) \in Nat /\ Len(s) \in Nat
    BY <1>0, <1>2, <1>5 DEF Falls
  <2>2. f \notin Bad
    <3> HIDE DEF Bad
    <3> QED BY <2>1, <1>1
  <2> QED BY <2>2, <1>2
<1>6. out[s] = {x \in Q : EndOf(x, s)}
  BY <1>2, <1>3, <1>4, <1>5
<1> QED BY <1>6, <1>1

\* Every text has a longest end that is a state.
LEMMA ReachedSomewhere ==
    ASSUME NEW C, NEW Q, Trie(Q, C), NEW y \in Seq(C)
    PROVE  \E x : LongestEnd(Q, y, x)
<1> DEFINE S == {z \in Q : EndOf(z, y)}
<1>0. Q \subseteq Seq(C) /\ <<>> \in Q /\ EndOf(<<>>, y)
  BY EndsSelf DEF Trie
<1>1. <<>> \in S /\ Len(y) \in Nat /\ \A z \in S : Len(z) \in 0..Len(y)
  BY <1>0 DEF EndOf
<1>2. PICK x \in S : \A z \in S : Len(z) <= Len(x)
  <2> HIDE DEF S
  <2> QED BY <1>1, LongestExists
<1>3. LongestEnd(Q, y, x)
  BY <1>2 DEF LongestEnd
<1> QED BY <1>3

\* search: the state is the longest one that ends what was read so far.
LEMMA ReadOn ==
    ASSUME NEW C, NEW Q, Trie(Q, C), NEW fail \in [Q -> Q],
           \A f \in Q : Falls(Q, f, fail[f]),
           NEW y \in Seq(C), NEW s, LongestEnd(Q, y, s), NEW c \in C, NEW t, Then(t, y, c)
    PROVE  LongestEnd(Q, t, Read(Q, fail, s, c))
<1>0. /\ Q \subseteq Seq(C) /\ <<>> \in Q /\ s \in Q /\ s \in Seq(C) /\ EndOf(s, y)
      /\ \A z \in Q : EndOf(z, y) => Len(z) <= Len(s)
  BY DEF Trie, LongestEnd
<1> PICK a, r : a = Append(s, c) /\ r = Read(Q, fail, s, c)
  OBVIOUS
<1>1. Then(a, s, c) /\ t \in Seq(C) /\ a \in Seq(C) /\ EndOf(a, t)
  <2>1. Then(a, s, c) /\ t \in Seq(C) /\ a \in Seq(C)
    BY <1>0 DEF Then
  <2> QED BY <2>1, <1>0, EndsAppend
<1>2. LongestEnd(Q, a, r)
  BY <1>0, ReadReaches
<1>3. /\ r \in Q /\ r \in Seq(C) /\ EndOf(r, a) /\ \A z \in Q : EndOf(z, a) => Len(z) <= Len(r)
  BY <1>0, <1>2 DEF LongestEnd
<1>4. EndOf(r, t)
  BY <1>1, <1>3, EndsChain
<1>5. ASSUME NEW z \in Q, EndOf(z, t) PROVE Len(z) <= Len(r)
  <2>1. CASE z = <<>>
    BY <2>1, <1>0, <1>3
  <2>2. CASE z # <<>>
    <3> PICK x, d : x = Front(z) /\ d = Last(z)
      OBVIOUS
    <3>1. z \in Seq(C) /\ x \in Seq(C) /\ d \in C /\ z = Append(x, d) /\ Then(z, x, d)
      BY <2>2, <1>0, FrontAndLast DEF Then
    <3>2. d = c /\ EndOf(x, y) /\ x \in Q
      <4>1. d = c /\ EndOf(x, y)
        BY <3>1, <1>5, EndsAppend
      <4>2. x \in Q
        BY <3>1 DEF Trie
      <4> QED BY <4>1, <4>2
    <3>3. EndOf(x, s)
      BY <3>1, <3>2, <1>0, EndsOfOne
    <3>4. EndOf(z, a)
      BY <3>1, <3>2, <3>3, <1>0, <1>1, EndsAppend
    <3> QED BY <3>4, <1>3
  <2> QED BY <2>1, <2>2
<1> QED BY <1>3, <1>4, <1>5 DEF LongestEnd

\* The first i letters of a text ...
LEMMA FirstLetters ==
    ASSUME NEW C, NEW letters \in Seq(C), NEW i \in 0..Len(letters)
    PROVE  /\ SubSeq(letters, 1, i) \in Seq(C) /\ Len(SubSeq(letters, 1, i)) = i
           /\ \A j \in 1..i : SubSeq(letters, 1, i)[j] = letters[j]
<1>1. \A j \in 1..i : letters[j] \in C
  OBVIOUS
<1>2. /\ SubSeq(letters, 1, i) \in Seq(C)
      /\ Len(SubSeq(letters, 1, i)) = (IF 1 <= i THEN i - 1 + 1 ELSE 0)
      /\ \A j \in 1..(i - 1 + 1) : SubSeq(letters, 1, i)[j] = letters[1 + j - 1]
  BY <1>1, SubSeqProperties
<1>3. Len(SubSeq(letters, 1, i)) = i
  BY <1>2
<1>4. ASSUME NEW j \in 1..i PROVE SubSeq(letters, 1, i)[j] = letters[j]
  <2>1. j \in 1..(i - 1 + 1) /\ 1 + j - 1 = j
    OBVIOUS
  <2> QED BY <2>1, <1>2
<1> QED BY <1>2, <1>3, <1>4

\* ... are those before them and one more.
LEMMA OneMoreLetter ==
    ASSUME NEW C, NEW letters \in Seq(C), NEW i \in 1..Len(letters)
    PROVE  Then(SubSeq(letters, 1, i), SubSeq(letters, 1, i - 1), letters[i])
<1> PICK p, q : p = SubSeq(letters, 1, i - 1) /\ q = SubSeq(letters, 1, i)
  OBVIOUS
<1>1. /\ p \in Seq(C) /\ Len(p) = i - 1 /\ \A j \in 1..(i - 1) : p[j] = letters[j]
  BY FirstLetters
<1>2. /\ q \in Seq(C) /\ Len(q) = i /\ \A j \in 1..i : q[j] = letters[j]
  BY FirstLetters
<1> PICK a : a = Append(p, letters[i])
  OBVIOUS
<1>3. /\ a \in Seq(C) /\ Len(a) = i /\ \A j \in 1..i : a[j] = letters[j]
  BY <1>1
<1>4. a = q
  BY <1>2, <1>3, SeqEqual
<1> QED BY <1>4 DEF Then

\* search: the longest ends of what was read solve its equation ...
LEMMA AtExists ==
    ASSUME NEW C, NEW Q, Trie(Q, C), NEW fail \in [Q -> Q],
           \A f \in Q : Falls(Q, f, fail[f]), NEW letters \in Seq(C)
    PROVE  \E at : AtIs(Q, fail, letters, at)
<1> PICK at : at = [i \in 0..Len(letters) |->
                      CHOOSE x : LongestEnd(Q, SubSeq(letters, 1, i), x)]
  OBVIOUS
<1>1. ASSUME NEW i \in 0..Len(letters) PROVE LongestEnd(Q, SubSeq(letters, 1, i), at[i])
  <2>1. \E x : LongestEnd(Q, SubSeq(letters, 1, i), x)
    BY FirstLetters, ReachedSomewhere
  <2> QED BY <2>1
<1>2. ASSUME NEW i \in 0..Len(letters)
      PROVE  at[i] = IF i = 0 THEN <<>> ELSE Read(Q, fail, at[i - 1], letters[i])
  <2> PICK p, q, c : /\ p = SubSeq(letters, 1, i - 1) /\ q = SubSeq(letters, 1, i)
                     /\ c = letters[i]
    OBVIOUS
  <2>0. q \in Seq(C) /\ Len(q) = i
    BY FirstLetters
  <2>1. CASE i = 0
    <3>1. q = <<>> /\ <<>> \in Q /\ EndOf(<<>>, <<>>)
      BY <2>0, <2>1, EmptySeq DEF Trie, EndOf
    <3>2. at[i] \in Q /\ at[i] \in Seq(C) /\ EndOf(at[i], q)
      BY <1>1 DEF LongestEnd, Trie
    <3>3. at[i] = <<>>
      <4> PICK x : x = at[i]
        OBVIOUS
      <4>1. x \in Seq(C) /\ Len(x) <= 0
        BY <3>1, <3>2 DEF EndOf
      <4> QED BY <4>1, EmptySeq
    <3> QED BY <3>3, <2>1
  <2>2. CASE i # 0
    <3>1. i \in 1..Len(letters) /\ i - 1 \in 0..Len(letters)
      BY <2>2
    <3>2. LongestEnd(Q, p, at[i - 1]) /\ p \in Seq(C) /\ c \in C
      BY <3>1, <1>1, FirstLetters
    <3>3. Then(q, p, c)
      BY <3>1, OneMoreLetter
    <3>4. LongestEnd(Q, q, Read(Q, fail, at[i - 1], c))
      BY <3>2, <3>3, ReadOn
    <3>5. at[i] = Read(Q, fail, at[i - 1], c)
      BY <3>4, <2>0, <1>1, ReachedOnce
    <3> QED BY <3>5, <2>2
  <2> QED BY <2>1, <2>2
<1>3. [i \in 0..Len(letters) |-> at[i]] =
      [i \in 0..Len(letters) |->
         IF i = 0 THEN <<>> ELSE Read(Q, fail, at[i - 1], letters[i])]
  BY <1>2
<1>4. at = [i \in 0..Len(letters) |-> at[i]]
  OBVIOUS
<1>5. AtIs(Q, fail, letters, at)
  BY <1>3, <1>4, Zenon DEF AtIs
<1> QED BY <1>5

\* ... and nothing else does.
LEMMA AtIsRight ==
    ASSUME NEW C, NEW Q, Trie(Q, C), NEW fail \in [Q -> Q],
           \A f \in Q : Falls(Q, f, fail[f]), NEW letters \in Seq(C),
           NEW at, AtIs(Q, fail, letters, at), NEW k \in 0..Len(letters)
    PROVE  LongestEnd(Q, SubSeq(letters, 1, k), at[k])
<1> DEFINE Bad == {i \in 0..Len(letters) : ~LongestEnd(Q, SubSeq(letters, 1, i), at[i])}
<1> SUFFICES ASSUME Bad # {} PROVE FALSE
  OBVIOUS
<1>1. PICK i \in Bad : \A j \in Bad : i <= j
  <2>1. Bad \subseteq Nat
    OBVIOUS
  <2> HIDE DEF Bad
  <2> QED BY <2>1, LeastNumber
<1>2. i \in 0..Len(letters)
  OBVIOUS
<1>3. at[i] = IF i = 0 THEN <<>> ELSE Read(Q, fail, at[i - 1], letters[i])
  BY <1>2 DEF AtIs
<1>4. CASE i = 0
  <2>1. SubSeq(letters, 1, 0) = <<>>
    BY SubSeqEmpty
  <2>2. LongestEnd(Q, <<>>, <<>>)
    BY DEF Trie, LongestEnd, EndOf
  <2> QED BY <2>1, <2>2, <1>1, <1>3, <1>4
<1>5. CASE i # 0
  <2> PICK p, q, c : /\ p = SubSeq(letters, 1, i - 1) /\ q = SubSeq(letters, 1, i)
                     /\ c = letters[i]
    OBVIOUS
  <2>1. i \in 1..Len(letters) /\ i - 1 \in 0..Len(letters)
    BY <1>2, <1>5
  <2>2. i - 1 \notin Bad
    <3> HIDE DEF Bad
    <3> QED BY <2>1, <1>1
  <2>3. LongestEnd(Q, p, at[i - 1]) /\ p \in Seq(C) /\ c \in C
    BY <2>1, <2>2, FirstLetters
  <2>4. Then(q, p, c)
    BY <2>1, OneMoreLetter
  <2>5. LongestEnd(Q, q, Read(Q, fail, at[i - 1], c))
    BY <2>3, <2>4, ReadOn
  <2> QED BY <2>5, <1>1, <1>3, <1>5
<1> QED BY <1>4, <1>5

-----------------------------------------------------------------------------
(* The search *)

\* What CHOOSE takes for the links is a solution of their equation.
LEMMA FailChosen ==
    ASSUME NEW C, NEW Q, Trie(Q, C)
    PROVE  FailIs(Q, Fail(Q))
<1> DEFINE fail == CHOOSE f : FailIs(Q, f)
<1>1. FailIs(Q, fail)
  BY FailExists
<1>2. Fail(Q) = fail
  BY Zenon DEF Fail, FailIs
<1> QED BY <1>1, <1>2

\* The same of the reports.
LEMMA ReportedChosen ==
    ASSUME NEW C, NEW Q, Trie(Q, C), NEW fail \in [Q -> Q],
           \A s \in Q : Falls(Q, s, fail[s])
    PROVE  OutIs(Q, fail, Reported(Q, fail))
<1> DEFINE out == CHOOSE o : OutIs(Q, fail, o)
<1>1. OutIs(Q, fail, out)
  BY OutExists
<1>2. Reported(Q, fail) = out
  BY Zenon DEF Reported, OutIs
<1> QED BY <1>1, <1>2

\* What is before the last letter of a beginning of n is a beginning of n.
LEMMA BeforeThat ==
    ASSUME NEW C, NEW n \in Seq(C), NEW l \in 0..Len(n), NEW x \in Seq(C), NEW c \in C,
           Append(x, c) = SubSeq(n, 1, l)
    PROVE  l > 0 /\ x = SubSeq(n, 1, l - 1)
<1>1. Len(x) + 1 = l
  BY AppendParts, FirstLetters
<1>2. l \in 1..Len(n) /\ l - 1 \in 0..Len(n) /\ n[l] \in C
  BY <1>1
<1>3. ASSUME NEW i \in 1..Len(x) PROVE x[i] = n[i]
  <2>1. Append(x, c)[i] = x[i]
    BY AppendParts
  <2>2. SubSeq(n, 1, l)[i] = n[i]
    BY <1>1, FirstLetters
  <2> QED BY <2>1, <2>2
<1> PICK p : p = SubSeq(n, 1, l - 1)
  OBVIOUS
<1>4. p \in Seq(C) /\ Len(p) = l - 1 /\ \A i \in 1..(l - 1) : p[i] = n[i]
  BY <1>2, FirstLetters
<1>5. x = p
  BY <1>1, <1>3, <1>4, SeqEqual
<1> QED BY <1>1, <1>5

\* The beginnings of words are closed under beginnings, and the words are of them.
LEMMA StatesTrie ==
    ASSUME NEW C, NEW needles, needles \subseteq Seq(C)
    PROVE  Trie(States(needles), C) /\ needles \subseteq States(needles)
<1> PICK Q : Q = States(needles)
  OBVIOUS
<1>1. \A x : x \in Q <=>
               x = <<>> \/ \E n \in needles : \E l \in 0..Len(n) : x = SubSeq(n, 1, l)
  BY DEF States, Prefixes
<1>2. ASSUME NEW n \in needles, NEW l \in 0..Len(n)
      PROVE  /\ SubSeq(n, 1, l) \in Seq(C) /\ Len(SubSeq(n, 1, l)) = l
             /\ l > 0 => Then(SubSeq(n, 1, l), SubSeq(n, 1, l - 1), n[l]) /\ n[l] \in C
  <2>1. n \in Seq(C)
    OBVIOUS
  <2>2. ASSUME l > 0 PROVE l \in 1..Len(n) /\ n[l] \in C
    BY <2>1, <2>2
  <2> QED BY <2>1, <2>2, FirstLetters, OneMoreLetter
<1>3. Q \subseteq Seq(C) /\ <<>> \in Q
  <2>1. ASSUME NEW x \in Q, x # <<>> PROVE x \in Seq(C)
    <3>1. PICK n \in needles : \E l \in 0..Len(n) : x = SubSeq(n, 1, l)
      BY <2>1, <1>1
    <3> QED BY <3>1, <1>2
  <2>2. <<>> \in Seq(C) /\ <<>> \in Q
    BY <1>1
  <2> QED BY <2>1, <2>2
<1>4. needles \subseteq Q
  <2>1. ASSUME NEW n \in needles PROVE n \in Q
    <3>1. n \in Seq(C) /\ Len(n) \in 0..Len(n) /\ SubSeq(n, 1, Len(n)) = n
      BY SubSeqFull
    <3> QED BY <3>1, <1>1
  <2> QED BY <2>1
<1>5. ASSUME NEW x \in Seq(C), NEW c \in C, Append(x, c) \in Q PROVE x \in Q
  <2>1. Append(x, c) # <<>>
    BY AppendParts
  <2>2. PICK n \in needles : \E l \in 0..Len(n) : Append(x, c) = SubSeq(n, 1, l)
    BY <1>1, <1>5, <2>1
  <2>3. PICK l \in 0..Len(n) : Append(x, c) = SubSeq(n, 1, l)
    BY <2>2
  <2>4. l > 0 /\ x = SubSeq(n, 1, l - 1)
    BY <2>3, BeforeThat
  <2>5. l - 1 \in 0..Len(n)
    BY <2>4
  <2> QED BY <2>4, <2>5, <1>1
<1> QED BY <1>3, <1>4, <1>5 DEF Trie

\* To end the first i letters is to stand before their end.
LEMMA EndsThere ==
    ASSUME NEW C, NEW letters \in Seq(C), NEW i \in 1..Len(letters), NEW n \in Seq(C), n # <<>>
    PROVE  EndOf(n, SubSeq(letters, 1, i)) <=>
             Len(n) <= i /\ SubSeq(letters, i - Len(n) + 1, i) = n
<1> PICK q, m : q = SubSeq(letters, 1, i) /\ m = i - Len(n) + 1
  OBVIOUS
<1>1. q \in Seq(C) /\ Len(q) = i /\ \A j \in 1..i : q[j] = letters[j]
  BY FirstLetters
<1>2. Len(n) \in Nat /\ Len(n) >= 1 /\ m \in Int /\ m <= i
  BY EmptySeq
<1>3. ASSUME Len(n) <= i
      PROVE  EndOf(n, q) <=> SubSeq(letters, m, i) = n
  <2> PICK r : r = SubSeq(letters, m, i)
    OBVIOUS
  <2>1. /\ r \in Seq(C) /\ Len(r) = Len(n) /\ \A j \in 1..Len(n) : r[j] = letters[m + j - 1]
    <3>1. \A j \in m..i : letters[j] \in C
      BY <1>2, <1>3
    <3>2. /\ r \in Seq(C) /\ Len(r) = (IF m <= i THEN i - m + 1 ELSE 0)
          /\ \A j \in 1..(i - m + 1) : r[j] = letters[m + j - 1]
      BY <3>1, <1>2, SubSeqProperties
    <3>3. i - m + 1 = Len(n)
      BY <1>2
    <3> QED BY <3>2, <3>3, <1>2
  <2>2. ASSUME NEW j \in 1..Len(n) PROVE q[Len(q) - Len(n) + j] = r[j]
    <3>1. Len(q) - Len(n) + j \in 1..i /\ Len(q) - Len(n) + j = m + j - 1
      BY <1>1, <1>2, <1>3
    <3> QED BY <3>1, <1>1, <2>1
  <2>3. EndOf(n, q) <=> \A j \in 1..Len(n) : n[j] = r[j]
    <3>1. EndOf(n, q) <=> \A j \in 1..Len(n) : n[j] = q[Len(q) - Len(n) + j]
      BY <1>1, <1>3 DEF EndOf
    <3> QED BY <3>1, <2>2
  <2>4. (\A j \in 1..Len(n) : n[j] = r[j]) <=> r = n
    <3>1. ASSUME \A j \in 1..Len(n) : n[j] = r[j] PROVE r = n
      BY <3>1, <2>1, SeqEqual
    <3> QED BY <3>1
  <2> QED BY <2>3, <2>4
<1>4. EndOf(n, q) => Len(n) <= i
  BY <1>1 DEF EndOf
<1> QED BY <1>3, <1>4

\* What the automaton is built of.
Needles == {Needle(e) : e \in Keywords} \ {<<>>}

\* What is found if at[i] is the state after i letters.
FoundBy(letters, out, at) ==
    UNION {{[entry |-> e, start |-> i - Len(Needle(e)) + 1, end |-> i] :
              e \in {w \in Keywords : Needle(w) \in out[at[i]] \cap Needles}} :
           i \in 1..Len(letters)}

\* KeywordHits is what some solution of its equation finds.
LEMMA SearchIs ==
    ASSUME NEW letters, NEW Q, Q = States(Needles), NEW fail, fail = Fail(Q),
           NEW out, out = Reported(Q, fail), \E at : AtIs(Q, fail, letters, at)
    PROVE  \E at : /\ AtIs(Q, fail, letters, at)
                   /\ KeywordHits(letters) = FoundBy(letters, out, at)
<1> DEFINE at == CHOOSE a : AtIs(States(Needles), Fail(States(Needles)), letters, a)
<1>1. AtIs(States(Needles), Fail(States(Needles)), letters, at)
  OBVIOUS
<1>2. KeywordHits(letters) =
        FoundBy(letters, Reported(States(Needles), Fail(States(Needles))), at)
  BY Zenon DEF KeywordHits, AtIs, Needles, FoundBy
<1> HIDE DEF at
<1> QED BY <1>1, <1>2

\* The search finds the places where a word stands, and no others.
LEMMA SearchIsExact ==
    ASSUME NEW C, NEW letters \in Seq(C), \A e \in Keywords : Needle(e) \in Seq(C)
    PROVE  KeywordHits(letters) =
             {h \in [entry : Keywords, start : 1..Len(letters), end : 1..Len(letters)] :
                h.start <= h.end /\ Piece(letters, h) = Needle(h.entry)}
<1> PICK Q, fail, out : Q = States(Needles) /\ fail = Fail(Q) /\ out = Reported(Q, fail)
  OBVIOUS
<1>1. Trie(Q, C) /\ Needles \subseteq Q /\ Needles \subseteq Seq(C)
  <2>1. Needles \subseteq Seq(C)
    BY DEF Needles
  <2> QED BY <2>1, StatesTrie
<1>2. fail \in [Q -> Q] /\ \A s \in Q : Falls(Q, s, fail[s])
  BY <1>1, FailChosen, LinksAreRight
<1>3. \A s \in Q : out[s] = {x \in Q : EndOf(x, s)}
  <2>1. OutIs(Q, fail, out)
    BY <1>1, <1>2, ReportedChosen
  <2> QED BY <2>1, <1>1, <1>2, ReportsAreRight
<1>4. \E at : AtIs(Q, fail, letters, at)
  BY <1>1, <1>2, AtExists
<1>5. PICK at :
        /\ AtIs(Q, fail, letters, at)
        /\ KeywordHits(letters) = FoundBy(letters, out, at)
  BY <1>4, SearchIs
<1>6. \A i \in 1..Len(letters) : LongestEnd(Q, SubSeq(letters, 1, i), at[i])
  <2>1. \A i \in 1..Len(letters) : i \in 0..Len(letters)
    OBVIOUS
  <2> QED BY <2>1, <1>1, <1>2, <1>5, AtIsRight
<1>7. ASSUME NEW i \in 1..Len(letters), NEW n \in Needles
      PROVE  n \in out[at[i]] <=> Len(n) <= i /\ SubSeq(letters, i - Len(n) + 1, i) = n
  <2> PICK q, s : q = SubSeq(letters, 1, i) /\ s = at[i]
    OBVIOUS
  <2>1. /\ n \in Q /\ n \in Seq(C) /\ n # <<>>
        /\ s \in Q /\ s \in Seq(C) /\ EndOf(s, q)
        /\ \A z \in Q : EndOf(z, q) => Len(z) <= Len(s)
    BY <1>1, <1>6 DEF LongestEnd, Trie, Needles
  <2>2. q \in Seq(C)
    <3>1. i \in 0..Len(letters)
      OBVIOUS
    <3> QED BY <3>1, FirstLetters
  <2>3. n \in out[s] <=> EndOf(n, s)
    BY <2>1, <1>3
  <2>4. EndOf(n, s) <=> EndOf(n, q)
    <3>1. ASSUME EndOf(n, s) PROVE EndOf(n, q)
      BY <3>1, <2>1, <2>2, EndsChain
    <3>2. ASSUME EndOf(n, q) PROVE EndOf(n, s)
      BY <3>2, <2>1, <2>2, EndsOfOne
    <3> QED BY <3>1, <3>2
  <2>5. EndOf(n, q) <=> Len(n) <= i /\ SubSeq(letters, i - Len(n) + 1, i) = n
    BY <2>1, EndsThere
  <2> QED BY <2>3, <2>4, <2>5
<1> DEFINE Occurs(e, i) == /\ Needle(e) # <<>> /\ Len(Needle(e)) <= i
                           /\ SubSeq(letters, i - Len(Needle(e)) + 1, i) = Needle(e)
<1>8. ASSUME NEW h
      PROVE  h \in KeywordHits(letters) <=>
               \E i \in 1..Len(letters), e \in Keywords :
                  /\ h = [entry |-> e, start |-> i - Len(Needle(e)) + 1, end |-> i]
                  /\ Occurs(e, i)
  <2>1. h \in KeywordHits(letters) <=>
          \E i \in 1..Len(letters), e \in Keywords :
             /\ h = [entry |-> e, start |-> i - Len(Needle(e)) + 1, end |-> i]
             /\ Needle(e) \in out[at[i]] /\ Needle(e) \in Needles
    BY <1>5 DEF FoundBy
  <2>2. \A i \in 1..Len(letters), e \in Keywords :
          Needle(e) \in out[at[i]] /\ Needle(e) \in Needles <=> Occurs(e, i)
    <3>1. \A e \in Keywords : Needle(e) \in Needles <=> Needle(e) # <<>>
      BY DEF Needles
    <3> QED BY <3>1, <1>7
  <2> QED BY <2>1, <2>2
<1>9. ASSUME NEW i \in 1..Len(letters), NEW e \in Keywords, NEW h,
             h = [entry |-> e, start |-> i - Len(Needle(e)) + 1, end |-> i], Occurs(e, i)
      PROVE  /\ h \in [entry : Keywords, start : 1..Len(letters), end : 1..Len(letters)]
             /\ h.start <= h.end /\ Piece(letters, h) = Needle(h.entry)
  <2>1. Len(Needle(e)) \in Nat /\ Len(Needle(e)) >= 1 /\ Len(Needle(e)) <= i
    BY <1>9, EmptySeq
  <2>2. h.start \in 1..Len(letters) /\ h.start <= h.end
    BY <2>1, <1>9
  <2> QED BY <2>2, <1>9 DEF Piece
<1>10. ASSUME NEW h \in [entry : Keywords, start : 1..Len(letters), end : 1..Len(letters)],
              h.start <= h.end, Piece(letters, h) = Needle(h.entry)
       PROVE  /\ h = [entry |-> h.entry, start |-> h.end - Len(Needle(h.entry)) + 1,
                      end |-> h.end]
              /\ Occurs(h.entry, h.end)
  <2> PICK a, b, e : a = h.start /\ b = h.end /\ e = h.entry
    OBVIOUS
  <2>1. a \in 1..Len(letters) /\ b \in 1..Len(letters) /\ a <= b /\ e \in Keywords
    BY <1>10
  <2>2. SubSeq(letters, a, b) = Needle(e)
    BY <1>10 DEF Piece
  <2>3. Len(Needle(e)) = b - a + 1
    <3>1. \A j \in a..b : letters[j] \in C
      BY <2>1
    <3>2. Len(SubSeq(letters, a, b)) = (IF a <= b THEN b - a + 1 ELSE 0)
      BY <3>1, <2>1, SubSeqProperties
    <3> QED BY <3>2, <2>1, <2>2
  <2>4. Needle(e) # <<>> /\ Len(Needle(e)) <= b /\ b - Len(Needle(e)) + 1 = a
    BY <2>1, <2>3
  <2>5. Occurs(e, b)
    BY <2>2, <2>4
  <2>6. h = [entry |-> e, start |-> a, end |-> b]
    BY <1>10
  <2> QED BY <2>4, <2>5, <2>6
<1> HIDE DEF Occurs
<1>11. \A h \in KeywordHits(letters) :
         /\ h \in [entry : Keywords, start : 1..Len(letters), end : 1..Len(letters)]
         /\ h.start <= h.end /\ Piece(letters, h) = Needle(h.entry)
  BY <1>8, <1>9
<1>12. \A h \in [entry : Keywords, start : 1..Len(letters), end : 1..Len(letters)] :
         h.start <= h.end /\ Piece(letters, h) = Needle(h.entry) => h \in KeywordHits(letters)
  BY <1>8, <1>10
<1> QED BY <1>11, <1>12
-----------------------------------------------------------------------------
(* Normalising gives a sequence of characters *)

\* g is the recursive function behind the first n elements of FlattenSeq(q).
Flattens(q, n, g) == g = [i \in 1..n |-> IF i = 1 THEN q[i] ELSE g[i - 1] \o q[i]]

\* It has a solution: one more element extends a solution.
LEMMA FlattensSomehow ==
    ASSUME NEW q, NEW m \in Nat
    PROVE  \E g : Flattens(q, m, g)
<1> DEFINE Bad == {n \in Nat : ~\E g : Flattens(q, n, g)}
<1> SUFFICES ASSUME Bad # {} PROVE FALSE
  OBVIOUS
<1>1. PICK n \in Bad : \A l \in Bad : n <= l
  <2>1. Bad \subseteq Nat
    OBVIOUS
  <2> HIDE DEF Bad
  <2> QED BY <2>1, LeastNumber
<1>2. CASE n = 0
  <2> PICK g : g = [i \in {} |-> 0]
    OBVIOUS
  <2>1. g = [i \in 1..n |-> IF i = 1 THEN q[i] ELSE g[i - 1] \o q[i]]
    <3>1. 1..n = {}
      BY <1>2
    <3> QED BY <3>1
  <2>2. Flattens(q, n, g)
    BY <2>1 DEF Flattens
  <2> QED BY <2>2, <1>1
<1>3. CASE n # 0
  <2>1. n - 1 \in Nat /\ n - 1 \notin Bad
    <3> HIDE DEF Bad
    <3>1. n \in Nat
      BY <1>1 DEF Bad
    <3> QED BY <3>1, <1>1, <1>3
  <2>2. PICK g : Flattens(q, n - 1, g)
    BY <2>1
  <2>3. \A i \in 1..(n - 1) : g[i] = IF i = 1 THEN q[i] ELSE g[i - 1] \o q[i]
    BY <2>2 DEF Flattens
  <2> PICK h : h = [i \in 1..n |-> IF i < n THEN g[i]
                                   ELSE IF i = 1 THEN q[i] ELSE g[i - 1] \o q[i]]
    OBVIOUS
  <2>4. ASSUME NEW i \in 1..n PROVE h[i] = IF i = 1 THEN q[i] ELSE h[i - 1] \o q[i]
    <3>1. CASE i = 1
      BY <3>1, <2>3
    <3>2. CASE i # 1
      <4>1. i - 1 \in 1..n /\ i - 1 < n
        BY <3>2
      <4>2. h[i - 1] = g[i - 1]
        BY <4>1
      <4>3. h[i] = g[i - 1] \o q[i]
        <5>1. CASE i < n
          <6>1. h[i] = g[i] /\ i \in 1..(n - 1)
            BY <5>1
          <6> QED BY <6>1, <3>2, <2>3
        <5>2. CASE ~(i < n)
          BY <5>2, <3>2
        <5> QED BY <5>1, <5>2
      <4> QED BY <4>2, <4>3, <3>2
    <3> QED BY <3>1, <3>2
  <2>5. h = [i \in 1..n |-> h[i]]
    OBVIOUS
  <2>6. [i \in 1..n |-> h[i]] = [i \in 1..n |-> IF i = 1 THEN q[i] ELSE h[i - 1] \o q[i]]
    <3> HIDE DEF Bad
    <3> QED BY <2>4
  <2>7. Flattens(q, n, h)
    BY <2>5, <2>6, Zenon DEF Flattens
  <2> QED BY <2>7, <1>1
<1> QED BY <1>2, <1>3

\* A solution joins sequences to sequences.
LEMMA FlattensTyped ==
    ASSUME NEW S, NEW q \in Seq(Seq(S)), NEW g, Flattens(q, Len(q), g), NEW k \in 1..Len(q)
    PROVE  g[k] \in Seq(S)
<1> DEFINE Bad == {i \in 1..Len(q) : g[i] \notin Seq(S)}
<1> SUFFICES ASSUME Bad # {} PROVE FALSE
  OBVIOUS
<1>1. PICK i \in Bad : \A j \in Bad : i <= j
  <2>1. Bad \subseteq Nat
    OBVIOUS
  <2> HIDE DEF Bad
  <2> QED BY <2>1, LeastNumber
<1>2. i \in 1..Len(q) /\ q[i] \in Seq(S)
  OBVIOUS
<1>3. g[i] = IF i = 1 THEN q[i] ELSE g[i - 1] \o q[i]
  BY <1>2 DEF Flattens
<1>4. CASE i = 1
  BY <1>2, <1>3, <1>4
<1>5. CASE i # 1
  <2>1. i - 1 \in 1..Len(q) /\ i \in Int /\ ~(i <= i - 1)
    BY <1>2, <1>5
  <2>2. i - 1 \notin Bad
    <3> HIDE DEF Bad
    <3> QED BY <2>1, <1>1
  <2>3. g[i - 1] \in Seq(S)
    BY <2>1, <2>2
  <2>4. g[i] \in Seq(S)
    BY <2>3, <1>2, <1>3, <1>5, ConcatProperties
  <2> QED BY <2>4, <1>1
<1> QED BY <1>4, <1>5

\* FlattenSeq joins sequences of S to a sequence of S.
LEMMA FlattenIsSeq ==
    ASSUME NEW S, NEW q \in Seq(Seq(S))
    PROVE  FlattenSeq(q) \in Seq(S)
<1>1. CASE Len(q) = 0
  <2>1. q = <<>>
    BY <1>1, EmptySeq
  <2>2. FlattenSeq(q) = <<>>
    BY <1>1, <2>1 DEF FlattenSeq
  <2> QED BY <2>2
<1>2. CASE Len(q) # 0
  <2> DEFINE g == CHOOSE f : Flattens(q, Len(q), f)
  <2>1. Flattens(q, Len(q), g)
    <3>1. Len(q) \in Nat
      OBVIOUS
    <3> QED BY <3>1, FlattensSomehow
  <2>2. FlattenSeq(q) = g[Len(q)]
    BY <1>2, Zenon DEF FlattenSeq, Flattens
  <2>3. Len(q) \in 1..Len(q)
    BY <1>2
  <2> HIDE DEF g
  <2> QED BY <2>1, <2>2, <2>3, FlattensTyped
<1> QED BY <1>1, <1>2

\* A function on 1..n is a sequence.
LEMMA SeqFromFunction ==
    ASSUME NEW S, NEW n \in Nat, NEW f \in [1..n -> S]
    PROVE  f \in Seq(S)
BY SeqDef

\* A character of a normalised text, taken from one of the places N.
Places(N) == [ch : Chars, at : N]

\* Texts are sequences of characters.
LEMMA TextsTyped ==
    ASSUME NEW t \in Texts
    PROVE  t \in Seq(Chars)
<1>1. \A n \in 0..MaxText : \A u \in [1..n -> Chars] : u \in Seq(Chars)
  <2>1. 0..MaxText \subseteq Nat
    OBVIOUS
  <2> QED BY <2>1, SeqFromFunction
<1>2. \A e \in Entries : e.word \in Seq(Chars)
  BY WordCheckAssumption
<1>3. CASE \E e \in Entries : t = e.word
  BY <1>2, <1>3
<1>4. CASE \E n \in 0..MaxText : t \in [1..n -> Chars]
  BY <1>1, <1>4
<1>5. (\E e \in Entries : t = e.word) \/ \E n \in 0..MaxText : t \in [1..n -> Chars]
  BY Zenon DEF Texts
<1> QED BY <1>3, <1>4, <1>5

\* What Kept leaves is characters with their places.
LEMMA KeptTyped ==
    ASSUME NEW w \in Seq(Chars), NEW n \in Nat, w # <<>> => n # 0
    PROVE  Kept(w, n) \in Seq(Places(1..n))
<1> PICK N : N = 1..n
  OBVIOUS
<1> PICK q : q = [i \in 1..Len(w) |->
                    IF Simple[w[i]] \in Dropped THEN <<>>
                    ELSE <<[ch |-> Simple[w[i]], at |-> Min({i, n})]>>]
  OBVIOUS
<1>1. q \in Seq(Seq(Places(N)))
  <2>1. ASSUME NEW i \in 1..Len(w) PROVE q[i] \in Seq(Places(N))
    <3> PICK c, m : c = Simple[w[i]] /\ m = Min({i, n})
      OBVIOUS
    <3>1. c \in Chars
      <4>1. w[i] \in Chars
        BY ElementOfSeq
      <4> QED BY <4>1, WordCheckAssumption
    <3>2. m \in N
      <4>1. i \in Nat /\ i >= 1
        OBVIOUS
      <4>2. n # 0
        BY <4>1, EmptySeq
      <4>3. \E x \in {i, n} : \A y \in {i, n} : x <= y
        BY <4>1
      <4>4. m \in {i, n} /\ \A y \in {i, n} : m <= y
        BY <4>3 DEF Min
      <4> QED BY <4>1, <4>2, <4>4
    <3>3. [ch |-> c, at |-> m] \in Places(N)
      BY <3>1, <3>2 DEF Places
    <3> PICK P, x : P = Places(N) /\ x = [ch |-> c, at |-> m]
      OBVIOUS
    <3>4. <<>> \in Seq(P) /\ <<x>> \in Seq(P)
      BY <3>3
    <3>5. q[i] = IF c \in Dropped THEN <<>> ELSE <<x>>
      OBVIOUS
    <3> QED BY <3>4, <3>5
  <2>2. Len(w) \in Nat /\ q = [i \in 1..Len(w) |-> q[i]]
    OBVIOUS
  <2>3. q \in [1..Len(w) -> Seq(Places(N))]
    BY <2>1, <2>2
  <2> QED BY <2>2, <2>3, SeqFromFunction
<1>2. Kept(w, n) = FlattenSeq(q)
  BY DEF Kept
<1> QED BY <1>1, <1>2, FlattenIsSeq

\* Stripped gives characters with their places.
LEMMA StrippedTyped ==
    ASSUME NEW t \in Texts
    PROVE  Stripped(t) \in Seq(Places(1..Len(t)))
<1>1. t \in Seq(Chars) /\ Len(t) \in Nat
  BY TextsTyped
<1>2. Nfkc(t) \in Seq(Chars)
  BY NfkcAssumption
<1>3. Nfkc(t) # <<>> => Len(t) # 0
  <2> SUFFICES ASSUME Len(t) = 0 PROVE Nfkc(t) = <<>>
    OBVIOUS
  <2>1. t = <<>>
    BY <1>1, EmptySeq
  <2> QED BY <2>1, NfkcAssumption
<1> QED BY <1>1, <1>2, <1>3, KeptTyped DEF Stripped

\* g is the recursive function behind Restored, from place m on.
Restores(s, table, sure, m, g) ==
    g = [i \in m..(Len(s) + 1) |->
           IF i > Len(s) THEN <<>>
           ELSE IF Fitting(s, table, sure, i) = {} THEN <<s[i]>> \o g[i + 1]
           ELSE Placed(table[Longest(Fitting(s, table, sure, i))], s, i,
                       Longest(Fitting(s, table, sure, i)))
                  \o g[i + Len(Longest(Fitting(s, table, sure, i)))]]

\* A table of replacements, as the assumption has them.
Table(table) ==
    \A k \in DOMAIN table : k \in Seq(Chars) \ {<<>>} /\ table[k] \in Seq(Chars)

\* The longest key that fits is a key, is not empty and ends within the text.
LEMMA LongestFits ==
    ASSUME NEW N, NEW s \in Seq(Places(N)), NEW table, Table(table), NEW sure,
           NEW i \in 1..Len(s), Fitting(s, table, sure, i) # {},
           NEW k, k = Longest(Fitting(s, table, sure, i))
    PROVE  /\ k \in DOMAIN table /\ table[k] \in Seq(Chars)
           /\ Len(k) \in Nat /\ i + Len(k) \in (i + 1)..(Len(s) + 1)
<1> PICK keys : keys = Fitting(s, table, sure, i)
  OBVIOUS
<1>1. \A l \in keys : /\ l \in DOMAIN table /\ l \in Seq(Chars) /\ l # <<>>
                       /\ i + Len(l) - 1 <= Len(s)
  BY DEF Fitting, StartsAt, Table
<1>2. \A l \in keys : Len(l) \in 1..Len(s)
  <2>1. \A l \in keys : Len(l) \in Nat /\ Len(l) # 0
    BY <1>1, EmptySeq
  <2> QED BY <1>1, <2>1
<1>3. \E l \in keys : \A j \in keys : Len(j) <= Len(l)
  <2>1. Len(s) \in Nat /\ \A l \in keys : Len(l) \in 0..Len(s)
    BY <1>2
  <2> QED BY <2>1, LongestExists
<1>4. k \in keys
  BY <1>3 DEF Longest
<1> QED BY <1>1, <1>2, <1>4 DEF Table

\* Restored has a solution, from the end of the text to its start.
LEMMA RestoresSomehow ==
    ASSUME NEW N, NEW s \in Seq(Places(N)), NEW table, Table(table), NEW sure,
           NEW p \in 1..(Len(s) + 1)
    PROVE  \E g : Restores(s, table, sure, p, g)
<1> DEFINE Bad == {m \in 1..(Len(s) + 1) : ~\E g : Restores(s, table, sure, m, g)}
<1> SUFFICES ASSUME Bad # {} PROVE FALSE
  OBVIOUS
<1>1. PICK m \in Bad : \A l \in Bad : l <= m
  <2>1. Len(s) + 1 \in Nat /\ Bad \subseteq 0..(Len(s) + 1)
    OBVIOUS
  <2> HIDE DEF Bad
  <2> QED BY <2>1, LargestNumber
<1>2. m \in 1..(Len(s) + 1)
  OBVIOUS
<1>3. ASSUME NEW h, h = [i \in m..(Len(s) + 1) |-> h[i]],
             \A i \in m..(Len(s) + 1) :
               h[i] = IF i > Len(s) THEN <<>>
                      ELSE IF Fitting(s, table, sure, i) = {} THEN <<s[i]>> \o h[i + 1]
                      ELSE Placed(table[Longest(Fitting(s, table, sure, i))], s, i,
                                  Longest(Fitting(s, table, sure, i)))
                             \o h[i + Len(Longest(Fitting(s, table, sure, i)))]
      PROVE  FALSE
  <2>1. [i \in m..(Len(s) + 1) |-> h[i]] =
        [i \in m..(Len(s) + 1) |->
           IF i > Len(s) THEN <<>>
           ELSE IF Fitting(s, table, sure, i) = {} THEN <<s[i]>> \o h[i + 1]
           ELSE Placed(table[Longest(Fitting(s, table, sure, i))], s, i,
                       Longest(Fitting(s, table, sure, i)))
                  \o h[i + Len(Longest(Fitting(s, table, sure, i)))]]
    <3> HIDE DEF Bad
    <3> QED BY <1>3
  <2>2. Restores(s, table, sure, m, h)
    BY <1>3, <2>1, Zenon DEF Restores
  <2> QED BY <2>2, <1>1
<1>4. CASE m = Len(s) + 1
  <2> PICK h : h = [i \in m..(Len(s) + 1) |-> <<>>]
    OBVIOUS
  <2>1. \A i \in m..(Len(s) + 1) : i > Len(s) /\ h[i] = <<>>
    BY <1>2, <1>4
  <2>2. h = [i \in m..(Len(s) + 1) |-> h[i]]
    OBVIOUS
  <2> HIDE DEF Bad
  <2> QED BY <2>1, <2>2, <1>3
<1>5. CASE m # Len(s) + 1
  <2>1. m \in 1..Len(s) /\ m + 1 \in 1..(Len(s) + 1) /\ m + 1 \notin Bad
    <3>1. m \in 1..Len(s) /\ m + 1 \in 1..(Len(s) + 1) /\ ~(m + 1 <= m)
      BY <1>2, <1>5
    <3> HIDE DEF Bad
    <3> QED BY <3>1, <1>1
  <2>2. PICK g : Restores(s, table, sure, m + 1, g)
    BY <2>1
  <2> DEFINE keys(i) == Fitting(s, table, sure, i)
  <2> DEFINE k(i) == Longest(keys(i))
  <2> DEFINE Step(f, i) == IF i > Len(s) THEN <<>>
                           ELSE IF keys(i) = {} THEN <<s[i]>> \o f[i + 1]
                           ELSE Placed(table[k(i)], s, i, k(i)) \o f[i + Len(k(i))]
  <2>3. \A i \in (m + 1)..(Len(s) + 1) : g[i] = Step(g, i)
    BY <2>2 DEF Restores
  <2> PICK h : h = [i \in m..(Len(s) + 1) |-> IF i = m THEN Step(g, m) ELSE g[i]]
    OBVIOUS
  <2>4. h = [i \in m..(Len(s) + 1) |-> h[i]]
    OBVIOUS
  <2>5. \A i \in m..(Len(s) + 1) : h[i] = Step(g, i)
    <3> HIDE DEF Step, Bad
    <3>1. ASSUME NEW i \in m..(Len(s) + 1), i # m PROVE i \in (m + 1)..(Len(s) + 1)
      BY <3>1, <1>2
    <3> QED BY <3>1, <2>3
  <2>6. \A i \in (m + 1)..(Len(s) + 1) : h[i] = g[i]
    <3>1. \A i \in (m + 1)..(Len(s) + 1) : i \in m..(Len(s) + 1) /\ i # m
      BY <1>2
    <3> HIDE DEF Step, Bad
    <3> QED BY <3>1
  <2>7. ASSUME NEW i \in m..(Len(s) + 1) PROVE h[i] = Step(h, i)
    <3>1. CASE i > Len(s)
      BY <3>1, <2>5
    <3>2. CASE ~(i > Len(s)) /\ keys(i) = {}
      <4>1. i + 1 \in (m + 1)..(Len(s) + 1)
        BY <3>2, <1>2
      <4> QED BY <4>1, <3>2, <2>5, <2>6
    <3>3. CASE ~(i > Len(s)) /\ keys(i) # {}
      <4>1. i \in 1..Len(s)
        BY <3>3, <1>2
      <4>2. Len(k(i)) \in Nat /\ i + Len(k(i)) \in (i + 1)..(Len(s) + 1)
        BY <4>1, <3>3, LongestFits
      <4>3. i + Len(k(i)) \in (m + 1)..(Len(s) + 1)
        BY <4>2, <1>2
      <4>4. h[i + Len(k(i))] = g[i + Len(k(i))]
        BY <4>3, <2>6
      <4> QED BY <4>4, <3>3, <2>5
    <3> QED BY <3>1, <3>2, <3>3
  <2> HIDE DEF Bad
  <2> QED BY <2>4, <2>7, <1>3
<1> QED BY <1>4, <1>5

\* A solution gives characters with their places, from every place on ...
LEMMA RestoresTyped ==
    ASSUME NEW N, NEW s \in Seq(Places(N)), NEW table, Table(table), NEW sure, NEW g,
           Restores(s, table, sure, 1, g), NEW p \in 1..(Len(s) + 1)
    PROVE  g[p] \in Seq(Places(N))
<1> DEFINE Bad == {i \in 1..(Len(s) + 1) : g[i] \notin Seq(Places(N))}
<1> SUFFICES ASSUME Bad # {} PROVE FALSE
  OBVIOUS
<1>1. PICK i \in Bad : \A l \in Bad : l <= i
  <2>1. Len(s) + 1 \in Nat /\ Bad \subseteq 0..(Len(s) + 1)
    OBVIOUS
  <2> HIDE DEF Bad
  <2> QED BY <2>1, LargestNumber
<1>2. i \in 1..(Len(s) + 1)
  OBVIOUS
<1> PICK keys, k : keys = Fitting(s, table, sure, i) /\ k = Longest(keys)
  OBVIOUS
<1>3. g[i] = IF i > Len(s) THEN <<>>
             ELSE IF keys = {} THEN <<s[i]>> \o g[i + 1]
             ELSE Placed(table[k], s, i, k) \o g[i + Len(k)]
  BY <1>2 DEF Restores
<1>4. ASSUME NEW j \in (i + 1)..(Len(s) + 1) PROVE g[j] \in Seq(Places(N))
  <2>1. j \in 1..(Len(s) + 1) /\ ~(j <= i)
    BY <1>2
  <2>2. j \notin Bad
    <3> HIDE DEF Bad
    <3> QED BY <2>1, <1>1
  <2> QED BY <2>1, <2>2
<1>5. CASE i > Len(s)
  <2>1. g[i] = <<>> /\ <<>> \in Seq(Places(N))
    BY <1>3, <1>5
  <2>2. g[i] \in Seq(Places(N))
    BY <2>1, Zenon
  <2> QED BY <2>2, <1>1
<1>6. CASE ~(i > Len(s)) /\ keys = {}
  <2>1. i \in 1..Len(s) /\ i + 1 \in (i + 1)..(Len(s) + 1)
    BY <1>2, <1>6
  <2>2. <<s[i]>> \in Seq(Places(N)) /\ g[i + 1] \in Seq(Places(N))
    BY <2>1, <1>4
  <2>3. g[i] \in Seq(Places(N))
    BY <2>2, <1>3, <1>6, ConcatProperties
  <2> QED BY <2>3, <1>1
<1>7. CASE ~(i > Len(s)) /\ keys # {}
  <2>1. i \in 1..Len(s)
    BY <1>2, <1>7
  <2>2. /\ k \in DOMAIN table /\ table[k] \in Seq(Chars)
        /\ i + Len(k) \in (i + 1)..(Len(s) + 1)
    BY <2>1, <1>7, LongestFits
  <2> PICK new, placed : new = table[k] /\ placed = Placed(new, s, i, k)
    OBVIOUS
  <2>3. placed \in Seq(Places(N))
    <3>1. new \in Seq(Chars) /\ Len(new) \in Nat /\ s[i].at \in N
      <4>1. s[i] \in Places(N)
        BY <2>1
      <4>2. s[i].at \in N
        BY <4>1 DEF Places
      <4> QED BY <4>2, <2>2
    <3>2. \A j \in 1..Len(new) : [ch |-> new[j], at |-> s[i].at] \in Places(N)
      BY <3>1 DEF Places
    <3>3. placed \in [1..Len(new) -> Places(N)]
      BY <3>2 DEF Placed
    <3> QED BY <3>1, <3>3, SeqFromFunction
  <2>4. g[i + Len(k)] \in Seq(Places(N))
    BY <2>2, <1>4
  <2>5. g[i] \in Seq(Places(N))
    BY <2>3, <2>4, <1>3, <1>7, ConcatProperties
  <2> QED BY <2>5, <1>1
<1> QED BY <1>5, <1>6, <1>7

\* ... so replacing gives characters with their places.
LEMMA RestoredTyped ==
    ASSUME NEW N, NEW s \in Seq(Places(N)), NEW table, Table(table), NEW sure
    PROVE  Restored(s, table, sure) \in Seq(Places(N))
<1> DEFINE g == CHOOSE f : Restores(s, table, sure, 1, f)
<1>1. 1 \in 1..(Len(s) + 1)
  OBVIOUS
<1>2. Restores(s, table, sure, 1, g)
  BY <1>1, RestoresSomehow
<1>3. Restored(s, table, sure) = g[1]
  BY Zenon DEF Restored, Restores
<1> HIDE DEF g
<1> QED BY <1>1, <1>2, <1>3, RestoresTyped

\* The tables of the code are tables of replacements.
LEMMA TablesFit == Table(Phrases) /\ Table(Aliases)
<1>1. \A k \in DOMAIN Phrases : k \in Seq(Chars) \ {<<>>} /\ Phrases[k] \in Seq(Chars)
  BY WordCheckAssumption, SeqMonotonic
<1>2. \A k \in DOMAIN Aliases : k \in Seq(Chars) \ {<<>>} /\ Aliases[k] \in Seq(Chars)
  BY WordCheckAssumption, SeqMonotonic
<1> QED BY <1>1, <1>2 DEF Table

\* Normalising gives characters with places of the text ...
LEMMA NormalizedTyped ==
    ASSUME NEW t \in Texts
    PROVE  /\ PhrasesRestored(Stripped(t)) \in Seq(Places(1..Len(t)))
           /\ Normalized(t) \in Seq(Places(1..Len(t)))
<1> PICK N : N = 1..Len(t)
  OBVIOUS
<1>1. PhrasesRestored(Stripped(t)) \in Seq(Places(N))
  BY TablesFit, StrippedTyped, RestoredTyped DEF PhrasesRestored
<1>2. Normalized(t) \in Seq(Places(N))
  BY <1>1, TablesFit, RestoredTyped DEF Normalized, AliasesRestored
<1> QED BY <1>1, <1>2

\* ... and its letters are a text of characters.
LEMMA NormalizedLetters ==
    ASSUME NEW t \in Texts
    PROVE  Letters(Normalized(t)) \in Seq(Chars)
<1> PICK N : N = 1..Len(t)
  OBVIOUS
<1> PICK s : s = Normalized(t)
  OBVIOUS
<1>1. s \in Seq(Places(N))
  BY NormalizedTyped
<1>2. \A i \in 1..Len(s) : s[i].ch \in Chars
  <2>1. \A i \in 1..Len(s) : s[i] \in Places(N)
    BY <1>1
  <2> QED BY <2>1 DEF Places
<1>3. Letters(s) \in [1..Len(s) -> Chars] /\ Len(s) \in Nat
  BY <1>1, <1>2 DEF Letters
<1> QED BY <1>3, SeqFromFunction

\* The library is a finite set of what moderators may enter, and the text is one of
\* characters and no longer than the bound.
CheckInv ==
    /\ library \subseteq Entries /\ IsFiniteSet(library)
    /\ typed \in Seq(Chars) /\ Len(typed) <= MaxText

\* What has been typed and what is listed can be normalised.
LEMMA CheckedTexts ==
    ASSUME CheckInv
    PROVE  typed \in Texts /\ \A e \in library : e.word \in Texts
<1>1. typed \in [1..Len(typed) -> Chars] /\ Len(typed) \in 0..MaxText
  <2>1. typed \in Seq(Chars) /\ Len(typed) <= MaxText
    BY DEF CheckInv
  <2>2. Len(typed) \in Nat /\ MaxText \in Nat
    BY <2>1, WordCheckAssumption
  <2>3. typed \in [1..Len(typed) -> Chars]
    BY <2>1
  <2> QED BY <2>1, <2>2, <2>3
<1>2. \A n \in 0..MaxText : \A u \in [1..n -> Chars] : u \in Texts
  BY Zenon DEF Texts
<1>3. \A e \in library : e.word \in Texts
  BY Zenon DEF Texts, CheckInv
<1> QED BY <1>1, <1>2, <1>3

\* So it is at first, with no text and no word.
LEMMA FirstText == CheckInit => CheckInv
<1>1. <<>> \in Seq(Chars) /\ Len(<<>>) = 0 /\ 0 <= MaxText
  BY WordCheckAssumption
<1> QED BY <1>1, FS_EmptySet DEF CheckInit, CheckInv

\* No step changes that.
LEMMA CheckStep == CheckInv /\ [CheckNext]_checkVars => CheckInv'
<1> SUFFICES ASSUME CheckInv, [CheckNext]_checkVars PROVE CheckInv'
  OBVIOUS
<1>1. ASSUME NEW e \in Entries, ListWord(e) PROVE CheckInv'
  BY <1>1, FS_AddElement DEF ListWord, CheckInv
<1>2. ASSUME NEW e \in library, UnlistWord(e) PROVE CheckInv'
  BY <1>2, FS_RemoveElement DEF UnlistWord, CheckInv
<1>3. ASSUME NEW c \in Chars, Type(c) PROVE CheckInv'
  <2>1. typed \in Seq(Chars) /\ Len(typed) < MaxText /\ typed' = Append(typed, c)
    BY <1>3 DEF Type, CheckInv
  <2>2. typed' \in Seq(Chars) /\ Len(typed') <= MaxText
    BY <2>1, WordCheckAssumption
  <2> QED BY <1>3, <2>2 DEF Type, CheckInv
<1>4. CASE UNCHANGED checkVars
  BY <1>4 DEF checkVars, CheckInv
<1> QED BY <1>1, <1>2, <1>3, <1>4 DEF CheckNext

\* For every library, every table of replacements and every text: the search of
\* word-matcher.js reports each place of the normalised text at which a word of the
\* library stands, those that overlap included, and reports nothing else.
THEOREM WordsAreFound == CheckSpec => []KeywordHitsExact
<1>1. CheckInit => CheckInv
  BY FirstText
<1>2. CheckInv => KeywordHitsExact
  <2> SUFFICES ASSUME CheckInv PROVE KeywordHitsExact
    OBVIOUS
  <2>1. Letters(Normalized(typed)) \in Seq(Chars)
    BY NormalizedLetters, CheckedTexts
  <2>2. \A e \in Keywords : Needle(e) \in Seq(Chars)
    <3>1. \A e \in Keywords : e.word \in Texts
      BY CheckedTexts DEF Keywords
    <3> QED BY <3>1, NormalizedLetters DEF Needle
  <2> QED BY <2>1, <2>2, SearchIsExact DEF KeywordHitsExact
<1> QED BY <1>1, <1>2, CheckStep, PTL DEF CheckSpec
-----------------------------------------------------------------------------
(* Joining sequences of sequences                                          *)

\* Three sequences are joined in any order.
LEMMA JoinThrice ==
    ASSUME NEW S, NEW a \in Seq(S), NEW b \in Seq(S), NEW x \in Seq(S)
    PROVE  (a \o b) \o x = a \o (b \o x)
BY ConcatAssociative

\* The last of what is joined is the last of the second.
LEMMA JoinOneMore ==
    ASSUME NEW S, NEW a \in Seq(S), NEW b \in Seq(S), NEW x \in S
    PROVE  a \o Append(b, x) = Append(a \o b, x)
<1>1. Append(b, x) = b \o <<x>> /\ Append(a \o b, x) = (a \o b) \o <<x>>
  <2>1. a \o b \in Seq(S)
    OBVIOUS
  <2> QED BY <2>1, AppendIsConcat
<1>2. <<x>> \in Seq(S)
  OBVIOUS
<1> QED BY <1>1, <1>2, JoinThrice

\* Two sequences begin with the same l elements.
Alike(q, r, l) == \A i \in 1..l : q[i] = r[i]

\* Solutions of the equation of FlattenSeq agree as far as the sequences do.
LEMMA FlattensAgree ==
    ASSUME NEW q, NEW r, NEW n \in Nat, NEW m \in Nat, NEW g, Flattens(q, n, g),
           NEW h, Flattens(r, m, h), NEW l \in Nat \ {0}, l <= n, l <= m,
           Alike(q, r, l)
    PROVE  g[l] = h[l]
<1> DEFINE Bad == {i \in 1..l : g[i] # h[i]}
<1> SUFFICES ASSUME Bad # {} PROVE FALSE
  <2>1. l \in 1..l
    OBVIOUS
  <2> QED BY <2>1
<1>1. PICK i \in Bad : \A j \in Bad : i <= j
  <2>1. Bad \subseteq Nat
    OBVIOUS
  <2> HIDE DEF Bad
  <2> QED BY <2>1, LeastNumber
<1>2. i \in 1..l /\ i \in 1..n /\ i \in 1..m
  OBVIOUS
<1>3. /\ g[i] = IF i = 1 THEN q[i] ELSE g[i - 1] \o q[i]
      /\ h[i] = IF i = 1 THEN r[i] ELSE h[i - 1] \o r[i]
  BY <1>2 DEF Flattens
<1>4. CASE i = 1
  BY <1>1, <1>2, <1>3, <1>4 DEF Alike
<1>5. CASE i # 1
  <2>1. i - 1 \in 1..l /\ ~(i <= i - 1)
    BY <1>2, <1>5
  <2>2. i - 1 \notin Bad
    <3> HIDE DEF Bad
    <3> QED BY <2>1, <1>1
  <2> QED BY <2>1, <2>2, <1>1, <1>2, <1>3, <1>5 DEF Alike
<1> QED BY <1>4, <1>5

\* FlattenSeq is what some solution comes to.
LEMMA FlattenIs ==
    ASSUME NEW q, Len(q) \in Nat \ {0}
    PROVE  \E g : Flattens(q, Len(q), g) /\ FlattenSeq(q) = g[Len(q)]
<1> DEFINE g == CHOOSE f : Flattens(q, Len(q), f)
<1>1. Flattens(q, Len(q), g)
  BY FlattensSomehow
<1>2. FlattenSeq(q) = g[Len(q)]
  BY Zenon DEF FlattenSeq, Flattens
<1> QED BY <1>1, <1>2

\* Nothing joins to nothing ...
LEMMA FlattenNothing == FlattenSeq(<<>>) = <<>>
BY DEF FlattenSeq

\* One more sequence is put after what the others come to.
LEMMA FlattenAppend ==
    ASSUME NEW S, NEW q \in Seq(Seq(S)), NEW x \in Seq(S)
    PROVE  FlattenSeq(Append(q, x)) = FlattenSeq(q) \o x
<1> PICK r, n, m : r = Append(q, x) /\ n = Len(q) /\ m = n + 1
  OBVIOUS
<1>1. /\ n \in Nat /\ m \in Nat \ {0} /\ m - 1 = n /\ Len(r) = m /\ r[m] = x
      /\ Alike(r, q, n)
  BY AppendProperties DEF Alike
<1>2. PICK g : Flattens(r, m, g) /\ FlattenSeq(r) = g[m]
  BY <1>1, FlattenIs
<1>3. g[m] = IF m = 1 THEN r[m] ELSE g[m - 1] \o r[m]
  <2>1. m \in 1..m
    BY <1>1
  <2> QED BY <2>1, <1>2 DEF Flattens
<1>4. CASE n = 0
  <2>1. q = <<>>
    BY <1>4, EmptySeq
  <2>2. FlattenSeq(q) \o x = x
    BY <2>1, FlattenNothing, ConcatEmptySeq
  <2> QED BY <2>2, <1>1, <1>2, <1>3, <1>4
<1>5. CASE n # 0
  <2>1. PICK h : Flattens(q, n, h) /\ FlattenSeq(q) = h[n]
    BY <1>1, <1>5, FlattenIs
  <2>2. n \in Nat \ {0} /\ m \in Nat /\ n <= n /\ n <= m /\ Alike(r, q, n)
    BY <1>1, <1>5
  <2>3. g[n] = h[n]
    BY <1>2, <2>1, <2>2, FlattensAgree
  <2>4. FlattenSeq(r) = g[n] \o x
    BY <1>1, <1>2, <1>3, <1>5
  <2> QED BY <2>1, <2>3, <2>4
<1> QED BY <1>4, <1>5

\* Two sequences of sequences, the second one longer by one.
LEMMA FlattenJoinMore ==
    ASSUME NEW S, NEW p \in Seq(Seq(S)), NEW f \in Seq(Seq(S)), NEW x \in Seq(S),
           FlattenSeq(p \o f) = FlattenSeq(p) \o FlattenSeq(f)
    PROVE  FlattenSeq(p \o Append(f, x)) = FlattenSeq(p) \o FlattenSeq(Append(f, x))
<1>1. p \o Append(f, x) = Append(p \o f, x)
  BY JoinOneMore
<1>2. p \o f \in Seq(Seq(S))
  BY ConcatProperties
<1>3. /\ FlattenSeq(Append(f, x)) = FlattenSeq(f) \o x
      /\ FlattenSeq(p \o Append(f, x)) = FlattenSeq(p \o f) \o x
  BY <1>1, <1>2, FlattenAppend
<1>4. FlattenSeq(p) \in Seq(S) /\ FlattenSeq(f) \in Seq(S)
  BY FlattenIsSeq
<1>5. (FlattenSeq(p) \o FlattenSeq(f)) \o x = FlattenSeq(p) \o (FlattenSeq(f) \o x)
  BY <1>4, JoinThrice
<1> QED BY <1>3, <1>5

\* The parts of a sequence may be joined one by one.
LEMMA FlattenJoin ==
    ASSUME NEW S, NEW p \in Seq(Seq(S)), NEW s \in Seq(Seq(S))
    PROVE  FlattenSeq(p \o s) = FlattenSeq(p) \o FlattenSeq(s)
<1> DEFINE Wrong(n) == \E r \in Seq(Seq(S)) :
                          Len(r) = n /\ FlattenSeq(p \o r) # FlattenSeq(p) \o FlattenSeq(r)
<1> DEFINE Bad == {n \in Nat : Wrong(n)}
<1> SUFFICES ASSUME Bad # {} PROVE FALSE
  <2>1. Len(s) \in Nat
    OBVIOUS
  <2> QED BY <2>1
<1>1. PICK n \in Bad : \A m \in Bad : n <= m
  <2>1. Bad \subseteq Nat
    OBVIOUS
  <2> HIDE DEF Bad
  <2> QED BY <2>1, LeastNumber
<1>2. n \in Nat /\ Wrong(n)
  OBVIOUS
<1>3. PICK r \in Seq(Seq(S)) :
        Len(r) = n /\ FlattenSeq(p \o r) # FlattenSeq(p) \o FlattenSeq(r)
  BY <1>2
<1> PICK a : a = FlattenSeq(p)
  OBVIOUS
<1>4. a \in Seq(S)
  BY FlattenIsSeq
<1>5. CASE r = <<>>
  <2>1. p \o r = p /\ a \o <<>> = a
    BY <1>4, <1>5, ConcatEmptySeq
  <2> QED BY <2>1, <1>3, <1>5, FlattenNothing
<1>6. CASE r # <<>>
  <2> PICK f, x : f = Front(r) /\ x = Last(r)
    OBVIOUS
  <2>1. f \in Seq(Seq(S)) /\ x \in Seq(S) /\ Len(f) = n - 1 /\ r = Append(f, x)
    BY <1>3, <1>6, FrontAndLast
  <2>2. n # 0 /\ n - 1 \in Nat /\ ~(n <= n - 1)
    BY <1>2, <1>3, <1>6, EmptySeq
  <2>3. FlattenSeq(p \o f) = FlattenSeq(p) \o FlattenSeq(f)
    <3>1. n - 1 \notin Bad
      <4> HIDE DEF Bad
      <4> QED BY <2>2, <1>1
    <3> QED BY <3>1, <2>1, <2>2
  <2>4. FlattenSeq(p \o Append(f, x)) = FlattenSeq(p) \o FlattenSeq(Append(f, x))
    <3> HIDE DEF Bad, Wrong
    <3> QED BY <2>1, <2>3, FlattenJoinMore
  <2> QED BY <2>1, <2>4, <1>3
<1> QED BY <1>5, <1>6

\* One sequence joins to itself.
LEMMA FlattenOne ==
    ASSUME NEW S, NEW x \in Seq(S)
    PROVE  FlattenSeq(<<x>>) = x
<1>1. <<>> \in Seq(Seq(S)) /\ Append(<<>>, x) = <<x>>
  OBVIOUS
<1>2. <<>> \o x = x
  BY ConcatEmptySeq
<1> QED BY <1>1, <1>2, FlattenAppend, FlattenNothing
-----------------------------------------------------------------------------
(* Masking                                                                 *)

\* A part of a sequence.
LEMMA PartIs ==
    ASSUME NEW S, NEW q \in Seq(S), NEW m \in 1..(Len(q) + 1), NEW n \in (m - 1)..Len(q)
    PROVE  /\ SubSeq(q, m, n) \in Seq(S) /\ Len(SubSeq(q, m, n)) = n - m + 1
           /\ \A i \in 1..(n - m + 1) : SubSeq(q, m, n)[i] = q[m + i - 1]
<1>1. m \in Int /\ n \in Int /\ m >= 1 /\ n <= Len(q) /\ m - 1 <= n /\ Len(q) \in Nat
  OBVIOUS
<1>2. \A i \in m..n : q[i] \in S
  BY <1>1
<1>3. /\ SubSeq(q, m, n) \in Seq(S)
      /\ Len(SubSeq(q, m, n)) = IF m <= n THEN n - m + 1 ELSE 0
      /\ \A i \in 1..(n - m + 1) : SubSeq(q, m, n)[i] = q[m + i - 1]
  BY <1>1, <1>2, SubSeqProperties
<1> PICK l : l = Len(SubSeq(q, m, n))
  OBVIOUS
<1>4. l = n - m + 1
  <2>1. l = IF m <= n THEN n - m + 1 ELSE 0
    BY <1>3
  <2> QED BY <1>1, <2>1
<1> QED BY <1>3, <1>4

\* What stands where when three sequences are joined.
LEMMA JoinParts ==
    ASSUME NEW S, NEW a \in Seq(S), NEW b \in Seq(S), NEW c \in Seq(S),
           NEW x, x = (a \o b) \o c
    PROVE  /\ x \in Seq(S) /\ Len(x) = Len(a) + Len(b) + Len(c)
           /\ \A p \in 1..Len(a) : x[p] = a[p]
           /\ \A p \in 1..Len(b) : x[Len(a) + p] = b[p]
           /\ \A p \in 1..Len(c) : x[Len(a) + Len(b) + p] = c[p]
           /\ Len(a) \in Nat /\ Len(b) \in Nat /\ Len(c) \in Nat
<1> PICK y : y = a \o b
  OBVIOUS
<1>0. Len(a) \in Nat /\ Len(b) \in Nat /\ Len(c) \in Nat
  OBVIOUS
<1>1. /\ y \in Seq(S) /\ Len(y) = Len(a) + Len(b)
      /\ \A p \in 1..Len(a) : y[p] = a[p]
      /\ \A p \in 1..Len(b) : y[Len(a) + p] = b[p]
  OBVIOUS
<1>2. /\ x \in Seq(S) /\ Len(x) = Len(y) + Len(c)
      /\ \A p \in 1..Len(y) : x[p] = y[p]
      /\ \A p \in 1..Len(c) : x[Len(y) + p] = c[p]
  BY <1>1
<1> QED BY <1>0, <1>1, <1>2

\* The characters of cells none of which is empty: as many as there are cells, or more.
LEMMA FlattenSizes ==
    ASSUME NEW S, NEW q \in Seq(Seq(S) \ {<<>>})
    PROVE  /\ q \in Seq(Seq(S)) /\ Len(q) <= Len(FlattenSeq(q))
           /\ (\A i \in 1..Len(q) : Len(q[i]) = 1) => Len(FlattenSeq(q)) = Len(q)
<1> DEFINE Few(r)  == ~(Len(r) <= Len(FlattenSeq(r)))
<1> DEFINE Many(r) == (\A i \in 1..Len(r) : Len(r[i]) = 1) /\ Len(FlattenSeq(r)) # Len(r)
<1> DEFINE Wrong(n) == \E r \in Seq(Seq(S) \ {<<>>}) : Len(r) = n /\ (Few(r) \/ Many(r))
<1> DEFINE Bad == {n \in Nat : Wrong(n)}
<1>0. \A r \in Seq(Seq(S) \ {<<>>}) : r \in Seq(Seq(S))
  BY SeqMonotonic
<1> SUFFICES ASSUME Bad # {} PROVE FALSE
  <2>1. Len(q) \in Nat
    OBVIOUS
  <2> QED BY <1>0, <2>1
<1>1. PICK n \in Bad : \A m \in Bad : n <= m
  <2>1. Bad \subseteq Nat
    OBVIOUS
  <2> HIDE DEF Bad
  <2> QED BY <2>1, LeastNumber
<1>2. n \in Nat /\ Wrong(n)
  OBVIOUS
<1>3. PICK r \in Seq(Seq(S) \ {<<>>}) : Len(r) = n /\ (Few(r) \/ Many(r))
  BY <1>2
<1>4. CASE r = <<>>
  BY <1>3, <1>4, FlattenNothing
<1>5. CASE r # <<>>
  <2>1. PICK f \in Seq(Seq(S) \ {<<>>}), x \in Seq(S) \ {<<>>} :
          Len(f) = n - 1 /\ r = Append(f, x)
    <3>1. /\ Front(r) \in Seq(Seq(S) \ {<<>>}) /\ Last(r) \in Seq(S) \ {<<>>}
          /\ Len(Front(r)) = n - 1 /\ r = Append(Front(r), Last(r))
      BY <1>3, <1>5, FrontAndLast
    <3> QED BY <3>1
  <2>2. n # 0 /\ n - 1 \in Nat /\ ~(n <= n - 1)
    BY <1>2, <1>3, <1>5, EmptySeq
  <2>3. ~Few(f) /\ ~Many(f)
    <3>1. n - 1 \notin Bad
      <4> HIDE DEF Bad
      <4> QED BY <2>2, <1>1
    <3>2. ~Wrong(n - 1)
      BY <3>1, <2>2
    <3> QED BY <3>2, <2>1
  <2>4. FlattenSeq(r) = FlattenSeq(f) \o x
    BY <1>0, <2>1, FlattenAppend
  <2>5. Len(FlattenSeq(r)) = Len(FlattenSeq(f)) + Len(x) /\ Len(FlattenSeq(f)) \in Nat
    <3>1. FlattenSeq(f) \in Seq(S) /\ x \in Seq(S)
      BY <1>0, <2>1, FlattenIsSeq
    <3> HIDE DEF Bad, Wrong, Few, Many
    <3> QED BY <3>1, <2>4, ConcatProperties, LenProperties
  <2>6. Len(x) \in Nat \ {0}
    BY <2>1, EmptySeq
  <2>7. ~Few(r)
    BY <1>3, <2>1, <2>2, <2>3, <2>5, <2>6
  <2>8. ~Many(r)
    <3> SUFFICES ASSUME \A i \in 1..Len(r) : Len(r[i]) = 1
                 PROVE  Len(FlattenSeq(r)) = Len(r)
      OBVIOUS
    <3>1. r[n] = x /\ n \in 1..Len(r) /\ \A i \in 1..(n - 1) : r[i] = f[i] /\ i \in 1..Len(r)
      BY <1>3, <2>1, <2>2
    <3>2. Len(x) = 1 /\ \A i \in 1..Len(f) : Len(f[i]) = 1
      BY <2>1, <3>1
    <3>3. Len(FlattenSeq(f)) = Len(f)
      BY <2>3, <3>2
    <3> QED BY <1>3, <2>1, <2>2, <2>5, <3>2, <3>3
  <2> QED BY <2>7, <2>8, <1>3
<1> QED BY <1>4, <1>5

\* As long as before, and with a star wherever there was one.
Starred(x, y) ==
    /\ Len(y) = Len(x)
    /\ \A p \in 1..Len(x) : x[p] = Star => y[p] = Star

\* maskMatch keeps the length and puts a star in the second place, if there is one.
LEMMA MaskMatchIs ==
    ASSUME NEW s \in Seq(Chars)
    PROVE  /\ MaskMatch(s) \in Seq(Chars) /\ Starred(s, MaskMatch(s))
           /\ Len(s) >= 2 => MaskMatch(s)[2] = Star
<1> PICK m : m = MaskMatch(s)
  OBVIOUS
<1>1. Len(s) \in Nat /\ Star \in Chars /\ \A i \in 1..Len(s) : s[i] \in Chars
  BY WordCheckAssumption
<1>2. m = [i \in 1..Len(s) |-> IF Len(s) > 2 /\ i \in {1, Len(s)} THEN s[i] ELSE Star]
  <2>1. CASE Len(s) <= 2
    BY <1>1, <2>1 DEF MaskMatch
  <2>2. CASE ~(Len(s) <= 2)
    BY <1>1, <2>2 DEF MaskMatch
  <2> QED BY <2>1, <2>2
<1>3. m \in [1..Len(s) -> Chars]
  BY <1>1, <1>2
<1>4. m \in Seq(Chars) /\ Len(m) = Len(s)
  BY <1>1, <1>3, SeqFromFunction
<1>5. \A p \in 1..Len(s) : s[p] = Star => m[p] = Star
  BY <1>1, <1>2
<1>6. Len(s) >= 2 => m[2] = Star
  BY <1>1, <1>2
<1> QED BY <1>4, <1>5, <1>6 DEF Starred

\* A piece of a text is masked and the rest left as it is.
LEMMA PieceMasked ==
    ASSUME NEW a \in Seq(Chars), NEW b \in Seq(Chars), NEW c \in Seq(Chars)
    PROVE  /\ Starred((a \o b) \o c, (a \o MaskMatch(b)) \o c)
           /\ Len(b) >= 2 => ((a \o MaskMatch(b)) \o c)[Len(a) + 2] = Star
<1> PICK m : m = MaskMatch(b)
  OBVIOUS
<1> PICK x, y : x = (a \o b) \o c /\ y = (a \o m) \o c
  OBVIOUS
<1>1. /\ m \in Seq(Chars) /\ Len(m) = Len(b)
      /\ \A p \in 1..Len(b) : b[p] = Star => m[p] = Star
      /\ Len(b) >= 2 => m[2] = Star
  BY MaskMatchIs DEF Starred
<1>2. /\ Len(x) = Len(a) + Len(b) + Len(c)
      /\ \A p \in 1..Len(a) : x[p] = a[p]
      /\ \A p \in 1..Len(b) : x[Len(a) + p] = b[p]
      /\ \A p \in 1..Len(c) : x[Len(a) + Len(b) + p] = c[p]
      /\ Len(a) \in Nat /\ Len(b) \in Nat /\ Len(c) \in Nat
  BY JoinParts
<1>3. /\ Len(y) = Len(a) + Len(b) + Len(c)
      /\ \A p \in 1..Len(a) : y[p] = a[p]
      /\ \A p \in 1..Len(b) : y[Len(a) + p] = m[p]
      /\ \A p \in 1..Len(c) : y[Len(a) + Len(b) + p] = c[p]
  <2>1. /\ Len(y) = Len(a) + Len(m) + Len(c)
        /\ \A p \in 1..Len(a) : y[p] = a[p]
        /\ \A p \in 1..Len(m) : y[Len(a) + p] = m[p]
        /\ \A p \in 1..Len(c) : y[Len(a) + Len(m) + p] = c[p]
    <3>1. m \in Seq(Chars)
      BY <1>1
    <3> QED BY <3>1, JoinParts
  <2> QED BY <2>1, <1>1
<1>4. ASSUME NEW p \in 1..Len(x), x[p] = Star PROVE y[p] = Star
  <2>1. CASE p <= Len(a)
    BY <1>2, <1>3, <1>4, <2>1
  <2>2. CASE p > Len(a) /\ p <= Len(a) + Len(b)
    <3> PICK o : o = p - Len(a)
      OBVIOUS
    <3>1. o \in 1..Len(b) /\ p = Len(a) + o
      BY <1>2, <2>2
    <3>2. b[o] = Star
      BY <3>1, <1>2, <1>4
    <3> QED BY <3>1, <3>2, <1>1, <1>3
  <2>3. CASE p > Len(a) + Len(b)
    <3> PICK o : o = p - (Len(a) + Len(b))
      OBVIOUS
    <3>1. o \in 1..Len(c) /\ p = Len(a) + Len(b) + o
      BY <1>2, <2>3
    <3>2. c[o] = Star
      BY <3>1, <1>2, <1>4
    <3> QED BY <3>1, <3>2, <1>3
  <2>4. p \in Nat /\ Len(a) \in Nat /\ Len(b) \in Nat
    BY <1>2
  <2>5. p <= Len(a) \/ (p > Len(a) /\ p <= Len(a) + Len(b)) \/ p > Len(a) + Len(b)
    BY <2>4
  <2> QED BY <2>1, <2>2, <2>3, <2>5
<1>5. Len(b) >= 2 => y[Len(a) + 2] = Star
  <2>1. Len(b) >= 2 => 2 \in 1..Len(b)
    BY <1>2
  <2> QED BY <2>1, <1>1, <1>3
<1> QED BY <1>2, <1>3, <1>4, <1>5 DEF Starred

\* The lists of characters of mask.js: cells, none of them empty.
Cells == Seq(Seq(Chars) \ {<<>>})

\* The first n cells are still single characters.
Singles(q, n) == n <= Len(q) /\ \A i \in 1..n : Len(q[i]) = 1

\* The smaller of two numbers is one of them.
LEMMA SmallerOf ==
    ASSUME NEW a \in Int, NEW b \in Int
    PROVE  Min({a, b}) = IF a <= b THEN a ELSE b
<1>1. \E x \in {a, b} : \A y \in {a, b} : x <= y
  OBVIOUS
<1>2. Min({a, b}) \in {a, b} /\ \A y \in {a, b} : Min({a, b}) <= y
  BY <1>1, SMTT(30) DEF Min
<1> QED BY <1>2

\* A sequence falls into three parts.
LEMMA ThreeParts ==
    ASSUME NEW S, NEW q \in Seq(S), NEW lo \in 1..Len(q), NEW e \in lo..Len(q)
    PROVE  q = (SubSeq(q, 1, lo - 1) \o SubSeq(q, lo, e)) \o SubSeq(q, e + 1, Len(q))
<1>1. SubSeq(q, 1, lo - 1) \o SubSeq(q, lo, e) = SubSeq(q, 1, e)
  <2> PICK k \in Int : k = lo - 1
    OBVIOUS
  <2>1. 1 \in 1..(Len(q) + 1) /\ k \in (1 - 1)..Len(q) /\ e \in k..Len(q) /\ k + 1 = lo
    OBVIOUS
  <2>2. SubSeq(q, 1, k) \o SubSeq(q, k + 1, e) = SubSeq(q, 1, e)
    BY <2>1, ConcatAdjacentSubSeq
  <2> QED BY <2>1, <2>2
<1>2. SubSeq(q, 1, e) \o SubSeq(q, e + 1, Len(q)) = SubSeq(q, 1, Len(q))
  <2>1. 1 \in 1..(Len(q) + 1) /\ e \in (1 - 1)..Len(q) /\ Len(q) \in e..Len(q)
    OBVIOUS
  <2> QED BY <2>1, ConcatAdjacentSubSeq, Zenon
<1>3. SubSeq(q, 1, Len(q)) = q
  BY SubSeqFull
<1> QED BY <1>1, <1>2, <1>3

\* One segment is masked: the cells before it stay single, every star stays, and a
\* segment of several characters has a star in its second place.
LEMMA SegmentMasked ==
    ASSUME NEW q \in Cells, NEW seg, seg.start \in 1..Len(q),
           seg.end \in seg.start..Len(FlattenSeq(q)), Singles(q, seg.start - 1)
    PROVE  /\ Masked(q, seg) \in Cells /\ Singles(Masked(q, seg), seg.start - 1)
           /\ seg.start <= Len(Masked(q, seg))
           /\ Starred(FlattenSeq(q), FlattenSeq(Masked(q, seg)))
           /\ seg.start < seg.end => FlattenSeq(Masked(q, seg))[seg.start + 1] = Star
<1>a. PICK lo, hi : lo = seg.start /\ hi = seg.end
  OBVIOUS
<1>b. PICK P : P = Seq(Chars) \ {<<>>}
  OBVIOUS
<1>c. PICK e : e = Min({hi, Len(q)})
  OBVIOUS
<1>1. /\ q \in Seq(P) /\ Len(q) \in Nat /\ Len(FlattenSeq(q)) \in Nat
      /\ lo \in 1..Len(q) /\ hi \in lo..Len(FlattenSeq(q))
  <2>1. q \in Seq(P)
    BY <1>b DEF Cells
  <2>2. Len(FlattenSeq(q)) \in Nat
    BY <2>1, <1>b, FlattenSizes, FlattenIsSeq, LenProperties
  <2> QED BY <2>1, <2>2, <1>a
<1>2. e \in lo..Len(q) /\ (e = hi \/ e = Len(q))
  <2>1. hi \in Int /\ Len(q) \in Int
    BY <1>1
  <2>2. e = IF hi <= Len(q) THEN hi ELSE Len(q)
    BY <2>1, <1>c, SmallerOf
  <2> QED BY <1>1, <2>1, <2>2
<1>d. PICK pre, mid, post : pre = SubSeq(q, 1, lo - 1) /\ mid = SubSeq(q, lo, e)
                          /\ post = SubSeq(q, e + 1, Len(q))
  OBVIOUS
<1>3. /\ pre \in Seq(P) /\ Len(pre) = lo - 1 /\ \A i \in 1..(lo - 1) : pre[i] = q[i]
      /\ mid \in Seq(P) /\ Len(mid) = e - lo + 1
      /\ post \in Seq(P) /\ Len(post) = Len(q) - e
  <2>1. 1 \in 1..(Len(q) + 1) /\ lo - 1 \in (1 - 1)..Len(q)
    BY <1>1
  <2>2. /\ pre \in Seq(P) /\ Len(pre) = lo - 1 - 1 + 1
        /\ \A i \in 1..(lo - 1 - 1 + 1) : pre[i] = q[1 + i - 1]
    BY <1>1, <1>d, <2>1, PartIs
  <2>3. lo \in 1..(Len(q) + 1) /\ e \in (lo - 1)..Len(q)
    BY <1>1, <1>2
  <2>4. mid \in Seq(P) /\ Len(mid) = e - lo + 1
    BY <1>1, <1>d, <2>3, PartIs
  <2>5. e + 1 \in 1..(Len(q) + 1) /\ Len(q) \in (e + 1 - 1)..Len(q)
    BY <1>1, <1>2
  <2>6. post \in Seq(P) /\ Len(post) = Len(q) - (e + 1) + 1
    BY <1>1, <1>d, <2>5, PartIs
  <2>7. lo - 1 - 1 + 1 = lo - 1 /\ Len(q) - (e + 1) + 1 = Len(q) - e
    BY <1>1, <1>2
  <2>8. lo \in Int /\ \A i \in 1..(lo - 1) : 1 + i - 1 = i
    BY <1>1
  <2> QED BY <2>2, <2>4, <2>6, <2>7, <2>8
<1>4. q = (pre \o mid) \o post
  BY <1>1, <1>2, <1>d, ThreeParts
<1>e. PICK a, b, c : a = FlattenSeq(pre) /\ b = FlattenSeq(mid) /\ c = FlattenSeq(post)
  OBVIOUS
<1>5. /\ pre \in Seq(Seq(Chars)) /\ mid \in Seq(Seq(Chars)) /\ post \in Seq(Seq(Chars))
      /\ a \in Seq(Chars) /\ b \in Seq(Chars) /\ c \in Seq(Chars)
  <2>1. pre \in Seq(Seq(Chars)) /\ mid \in Seq(Seq(Chars)) /\ post \in Seq(Seq(Chars))
    BY <1>3, <1>b, FlattenSizes
  <2> QED BY <2>1, <1>e, FlattenIsSeq
<1>6. Len(a) = lo - 1
  <2>1. \A i \in 1..Len(pre) : Len(pre[i]) = 1
    BY <1>3, <1>a DEF Singles
  <2>2. pre \in Seq(Seq(Chars) \ {<<>>})
    BY <1>3, <1>b
  <2>3. Len(FlattenSeq(pre)) = Len(pre)
    BY <2>1, <2>2, FlattenSizes
  <2> QED BY <2>3, <1>3, <1>e
<1>7. Len(b) >= e - lo + 1 /\ Len(b) \in Nat /\ (post = <<>> => c = <<>>)
  <2>1. mid \in Seq(Seq(Chars) \ {<<>>})
    BY <1>3, <1>b
  <2>2. Len(mid) <= Len(FlattenSeq(mid))
    BY <2>1, FlattenSizes
  <2>3. Len(b) \in Nat
    BY <1>5
  <2> QED BY <2>2, <2>3, <1>1, <1>2, <1>3, <1>e, FlattenNothing
<1>8. FlattenSeq(q) = (a \o b) \o c
  <2>1. pre \o mid \in Seq(Seq(Chars))
    BY <1>5, ConcatProperties
  <2>2. FlattenSeq((pre \o mid) \o post) = FlattenSeq(pre \o mid) \o FlattenSeq(post)
    BY <2>1, <1>5, FlattenJoin
  <2>3. FlattenSeq(pre \o mid) = FlattenSeq(pre) \o FlattenSeq(mid)
    BY <1>5, FlattenJoin
  <2> QED BY <2>2, <2>3, <1>4, <1>e
<1>9. Len(FlattenSeq(q)) = Len(a) + Len(b) + Len(c) /\ Len(c) \in Nat
  BY <1>5, <1>8, JoinParts
<1>10. lo < hi => Len(b) >= 2
  <2> SUFFICES ASSUME lo < hi PROVE Len(b) >= 2
    OBVIOUS
  <2>1. CASE e > lo
    BY <2>1, <1>1, <1>2, <1>7
  <2>2. CASE ~(e > lo)
    <3>1. e = lo /\ Len(q) = e
      BY <2>2, <1>1, <1>2
    <3>2. c = <<>> /\ Len(c) = 0
      <4>1. Len(post) = 0
        BY <3>1, <1>1, <1>3
      <4>2. post = <<>>
        BY <4>1, <1>3, EmptySeq
      <4> QED BY <4>2, <1>7
    <3> QED BY <3>2, <1>1, <1>6, <1>7, <1>9
  <2> QED BY <2>1, <2>2
<1>f. PICK m, one, new : m = MaskMatch(b) /\ one = <<m>> /\ new = (pre \o one) \o post
  OBVIOUS
<1>11. m \in P
  <2>1. m \in Seq(Chars) /\ Len(m) = Len(b)
    BY <1>5, <1>f, MaskMatchIs DEF Starred
  <2>2. Len(b) # 0
    BY <1>1, <1>2, <1>7
  <2>3. m # <<>>
    BY <2>1, <2>2, EmptySeq
  <2> QED BY <2>1, <2>3, <1>b
<1>12. new = Masked(q, seg)
  BY <1>a, <1>c, <1>d, <1>e, <1>f DEF Masked
<1>13. one \in Seq(P) /\ Len(one) = 1
  BY <1>11, <1>f
<1>14. new \in Seq(P) /\ lo <= Len(new) /\ \A i \in 1..(lo - 1) : new[i] = q[i]
  <2>1. /\ new \in Seq(P) /\ Len(new) = Len(pre) + Len(one) + Len(post)
        /\ \A i \in 1..Len(pre) : new[i] = pre[i]
        /\ Len(post) \in Nat
    <3>1. new = (pre \o one) \o post
      BY <1>f
    <3>2. pre \in Seq(P) /\ one \in Seq(P) /\ post \in Seq(P)
      BY <1>3, <1>13
    <3> QED BY <3>1, <3>2, JoinParts
  <2> QED BY <2>1, <1>1, <1>3, <1>13
<1>15. FlattenSeq(new) = (a \o m) \o c
  <2>1. m \in Seq(Chars) /\ one \in Seq(Seq(Chars)) /\ FlattenSeq(one) = m
    <3>1. m \in Seq(Chars)
      BY <1>11, <1>b
    <3>2. <<m>> \in Seq(Seq(Chars)) /\ FlattenSeq(<<m>>) = m
      BY <3>1, FlattenOne
    <3> QED BY <3>1, <3>2, <1>f
  <2>2. pre \o one \in Seq(Seq(Chars))
    BY <2>1, <1>5, ConcatProperties
  <2>3. FlattenSeq((pre \o one) \o post) = FlattenSeq(pre \o one) \o FlattenSeq(post)
    BY <2>2, <1>5, FlattenJoin
  <2>4. FlattenSeq(pre \o one) = FlattenSeq(pre) \o FlattenSeq(one)
    BY <2>1, <1>5, FlattenJoin
  <2> QED BY <2>1, <2>3, <2>4, <1>e, <1>f
<1>16. /\ Starred(FlattenSeq(q), FlattenSeq(new))
       /\ Len(b) >= 2 => FlattenSeq(new)[Len(a) + 2] = Star
  BY <1>5, <1>8, <1>15, <1>f, PieceMasked
<1>17. lo < hi => FlattenSeq(new)[lo + 1] = Star
  <2>1. Len(a) + 2 = lo + 1
    BY <1>1, <1>6
  <2> QED BY <2>1, <1>10, <1>16
<1>18. Singles(new, lo - 1)
  <2>1. lo - 1 <= Len(new)
    <3>1. Len(new) \in Nat
      BY <1>14
    <3> QED BY <3>1, <1>1, <1>14
  <2>2. \A i \in 1..(lo - 1) : Len(new[i]) = 1
    BY <1>14, <1>a DEF Singles
  <2> QED BY <2>1, <2>2 DEF Singles
<1>19. new \in Cells
  BY <1>14, <1>b DEF Cells
<1> QED BY <1>a, <1>12, <1>14, <1>16, <1>17, <1>18, <1>19

\* g is the recursive function behind MaskSegments, up to segment n.
Masks(t, segments, n, g) ==
    g = [i \in 0..n |-> IF i = 0 THEN [j \in 1..Len(t) |-> <<t[j]>>]
                        ELSE Masked(g[i - 1], segments[i])]

\* It has a solution.
LEMMA MasksSomehow ==
    ASSUME NEW t, NEW segments, NEW m \in Nat
    PROVE  \E g : Masks(t, segments, m, g)
<1> DEFINE Bad == {n \in Nat : ~\E g : Masks(t, segments, n, g)}
<1> SUFFICES ASSUME Bad # {} PROVE FALSE
  OBVIOUS
<1>1. PICK n \in Bad : \A l \in Bad : n <= l
  <2>1. Bad \subseteq Nat
    OBVIOUS
  <2> HIDE DEF Bad
  <2> QED BY <2>1, LeastNumber
<1> PICK z : z = [j \in 1..Len(t) |-> <<t[j]>>]
  OBVIOUS
<1>2. n \in Nat
  OBVIOUS
<1>3. ASSUME NEW h, h = [i \in 0..n |-> h[i]],
             \A i \in 0..n : h[i] = IF i = 0 THEN z ELSE Masked(h[i - 1], segments[i])
      PROVE  FALSE
  <2>1. [i \in 0..n |-> h[i]] =
        [i \in 0..n |-> IF i = 0 THEN z ELSE Masked(h[i - 1], segments[i])]
    <3> HIDE DEF Bad
    <3> QED BY <1>3
  <2>2. Masks(t, segments, n, h)
    BY <1>3, <2>1, Zenon DEF Masks
  <2> QED BY <2>2, <1>1
<1>4. CASE n = 0
  <2> PICK h : h = [i \in 0..n |-> z]
    OBVIOUS
  <2>1. h = [i \in 0..n |-> h[i]] /\ \A i \in 0..n : i = 0 /\ h[i] = z
    BY <1>4
  <2> HIDE DEF Bad
  <2> QED BY <2>1, <1>3
<1>5. CASE n # 0
  <2>1. n - 1 \in Nat /\ n - 1 \notin Bad
    <3>1. n - 1 \in Nat /\ ~(n <= n - 1)
      BY <1>2, <1>5
    <3> HIDE DEF Bad
    <3> QED BY <3>1, <1>1
  <2>2. PICK g : Masks(t, segments, n - 1, g)
    BY <2>1
  <2>3. \A i \in 0..(n - 1) : g[i] = IF i = 0 THEN z ELSE Masked(g[i - 1], segments[i])
    BY <2>2 DEF Masks
  <2> DEFINE h == [i \in 0..n |-> IF i < n THEN g[i] ELSE Masked(g[n - 1], segments[n])]
  <2>4. h = [i \in 0..n |-> h[i]]
    OBVIOUS
  <2>5. \A i \in 0..(n - 1) : h[i] = g[i]
    BY <1>2
  <2>6. h[n] = Masked(g[n - 1], segments[n])
    BY <1>2
  <2>7. ASSUME NEW i \in 0..n
        PROVE  h[i] = IF i = 0 THEN z ELSE Masked(h[i - 1], segments[i])
    <3> HIDE DEF h, Bad
    <3>1. CASE i < n /\ i = 0
      BY <3>1, <1>2, <2>3, <2>5
    <3>2. CASE i < n /\ i # 0
      <4>1. i \in 0..(n - 1) /\ i - 1 \in 0..(n - 1)
        BY <3>2, <1>2
      <4> QED BY <4>1, <3>2, <2>3, <2>5
    <3>3. CASE ~(i < n)
      <4>1. i = n /\ n - 1 \in 0..(n - 1)
        BY <3>3, <1>2, <1>5
      <4> QED BY <4>1, <1>5, <2>5, <2>6
    <3> QED BY <3>1, <3>2, <3>3
  <2> HIDE DEF Bad, h
  <2> QED BY <2>4, <2>7, <1>3
<1> QED BY <1>4, <1>5

\* MaskSegments is what some solution comes to.
LEMMA MaskSegmentsIs ==
    ASSUME NEW t, NEW segments, Len(segments) \in Nat
    PROVE  \E g : /\ Masks(t, segments, Len(segments), g)
                  /\ MaskSegments(t, segments) = FlattenSeq(g[Len(segments)])
<1> DEFINE g == CHOOSE f : Masks(t, segments, Len(segments), f)
<1>1. Masks(t, segments, Len(segments), g)
  BY MasksSomehow
<1>2. MaskSegments(t, segments) = FlattenSeq(g[Len(segments)])
  BY ZenonT(60) DEF MaskSegments, Masks
<1> HIDE DEF g
<1> QED BY <1>1, <1>2

\* Segments of a text, in the order of masking.
Ordered(segments, n) ==
    /\ \A i \in 1..Len(segments) :
         segments[i].start \in 1..n /\ segments[i].end \in segments[i].start..n
    /\ \A i \in 1..(Len(segments) - 1) : segments[i + 1].start <= segments[i].start

\* After k segments: what the text is made of, what is still single, and the stars.
MaskedSoFar(t, segments, q, k) ==
    /\ q \in Cells /\ Len(FlattenSeq(q)) = Len(t)
    /\ k < Len(segments) => Singles(q, segments[k + 1].start - 1)
                            /\ segments[k + 1].start <= Len(q)
    /\ \A i \in 1..k : segments[i].start < segments[i].end
                         => FlattenSeq(q)[segments[i].start + 1] = Star

\* Before the first segment all cells are single characters.
LEMMA NothingMasked ==
    ASSUME NEW t \in Seq(Chars), NEW segments, Len(segments) \in Nat,
           Ordered(segments, Len(t)), NEW q, q = [j \in 1..Len(t) |-> <<t[j]>>]
    PROVE  MaskedSoFar(t, segments, q, 0)
<1>1. Len(t) \in Nat /\ \A j \in 1..Len(t) : t[j] \in Chars
  OBVIOUS
<1>2. \A j \in 1..Len(t) : <<t[j]>> \in Seq(Chars) /\ <<t[j]>> # <<>> /\ Len(<<t[j]>>) = 1
  BY <1>1
<1>3. q \in [1..Len(t) -> Seq(Chars) \ {<<>>}]
  BY <1>2
<1>4. q \in Seq(Seq(Chars) \ {<<>>}) /\ Len(q) = Len(t)
  BY <1>1, <1>3, SeqFromFunction
<1>5. \A i \in 1..Len(q) : Len(q[i]) = 1
  BY <1>2, <1>4
<1>6. Len(FlattenSeq(q)) = Len(t)
  BY <1>4, <1>5, FlattenSizes
<1>7. 0 < Len(segments) => Singles(q, segments[0 + 1].start - 1)
                           /\ segments[0 + 1].start <= Len(q)
  <2> SUFFICES ASSUME 0 < Len(segments)
               PROVE  /\ Singles(q, segments[0 + 1].start - 1)
                      /\ segments[0 + 1].start <= Len(q)
    OBVIOUS
  <2>1. 0 + 1 \in 1..Len(segments)
    OBVIOUS
  <2>2. segments[0 + 1].start \in 1..Len(t)
    BY <2>1 DEF Ordered
  <2>3. /\ segments[0 + 1].start - 1 <= Len(q) /\ segments[0 + 1].start <= Len(q)
        /\ \A i \in 1..(segments[0 + 1].start - 1) : i \in 1..Len(q)
    BY <2>2, <1>1, <1>4
  <2> QED BY <2>3, <1>5 DEF Singles
<1>8. q \in Cells
  BY <1>4 DEF Cells
<1>9. \A i \in 1..0 : FALSE
  OBVIOUS
<1> QED BY <1>6, <1>7, <1>8, <1>9 DEF MaskedSoFar

\* One more segment.
LEMMA OneMoreMasked ==
    ASSUME NEW t \in Seq(Chars), NEW segments, Len(segments) \in Nat,
           Ordered(segments, Len(t)), NEW k \in 1..Len(segments), NEW q,
           MaskedSoFar(t, segments, q, k - 1)
    PROVE  MaskedSoFar(t, segments, Masked(q, segments[k]), k)
<1>1. PICK seg, new : seg = segments[k] /\ new = Masked(q, seg)
  OBVIOUS
<1>2. k - 1 + 1 = k /\ k - 1 < Len(segments) /\ k \in Int
  OBVIOUS
<1>3. /\ q \in Cells /\ Len(FlattenSeq(q)) = Len(t) /\ Singles(q, seg.start - 1)
      /\ seg.start <= Len(q)
  BY <1>1, <1>2 DEF MaskedSoFar
<1>4. seg.start \in 1..Len(t) /\ seg.end \in seg.start..Len(t)
  BY <1>1 DEF Ordered
<1>5. q \in Seq(Seq(Chars) \ {<<>>}) /\ Len(q) \in Nat
  BY <1>3 DEF Cells
<1>6. seg.start \in 1..Len(q) /\ seg.end \in seg.start..Len(FlattenSeq(q))
  BY <1>3, <1>4, <1>5
<1>7. /\ new \in Cells /\ Singles(new, seg.start - 1) /\ seg.start <= Len(new)
      /\ Starred(FlattenSeq(q), FlattenSeq(new))
      /\ seg.start < seg.end => FlattenSeq(new)[seg.start + 1] = Star
  BY <1>1, <1>3, <1>6, SegmentMasked
<1>8. Len(FlattenSeq(new)) = Len(t)
  BY <1>3, <1>7 DEF Starred
<1>9. ASSUME k < Len(segments)
      PROVE  Singles(new, segments[k + 1].start - 1) /\ segments[k + 1].start <= Len(new)
  <2>1. PICK n : n = segments[k + 1].start
    OBVIOUS
  <2>2. k \in 1..(Len(segments) - 1) /\ k + 1 \in 1..Len(segments)
    BY <1>9
  <2>3. n <= seg.start /\ n \in 1..Len(t)
    BY <1>1, <2>1, <2>2 DEF Ordered
  <2>4. Len(new) \in Nat
    BY <1>7 DEF Cells
  <2>5. n - 1 <= Len(new) /\ n <= Len(new) /\ \A i \in 1..(n - 1) : i \in 1..(seg.start - 1)
    BY <2>3, <2>4, <1>4, <1>7
  <2>6. Singles(new, n - 1)
    BY <2>5, <1>7 DEF Singles
  <2> QED BY <2>1, <2>5, <2>6
<1>10. ASSUME NEW i \in 1..k, segments[i].start < segments[i].end
       PROVE  FlattenSeq(new)[segments[i].start + 1] = Star
  <2>1. CASE i = k
    BY <2>1, <1>1, <1>7, <1>10
  <2>2. CASE i # k
    <3>1. i \in 1..(k - 1) /\ i \in 1..Len(segments)
      BY <2>2
    <3>2. FlattenSeq(q)[segments[i].start + 1] = Star
      BY <3>1, <1>10 DEF MaskedSoFar
    <3>3. segments[i].start \in 1..Len(t) /\ segments[i].end \in segments[i].start..Len(t)
      BY <3>1 DEF Ordered
    <3>4. segments[i].start + 1 \in 1..Len(FlattenSeq(q))
      BY <3>3, <1>3, <1>10
    <3> QED BY <3>2, <3>4, <1>7 DEF Starred
  <2> QED BY <2>1, <2>2
<1>11. MaskedSoFar(t, segments, new, k)
  BY <1>7, <1>8, <1>9, <1>10 DEF MaskedSoFar
<1> QED BY <1>1, <1>11

\* All segments: the length stays, and every segment of several characters has a star.
LEMMA AllMasked ==
    ASSUME NEW t \in Seq(Chars), NEW segments, Len(segments) \in Nat,
           Ordered(segments, Len(t))
    PROVE  /\ MaskSegments(t, segments) \in Seq(Chars)
           /\ Len(MaskSegments(t, segments)) = Len(t)
           /\ \A i \in 1..Len(segments) : segments[i].start < segments[i].end
                => MaskSegments(t, segments)[segments[i].start + 1] = Star
<1>1. PICK g : /\ Masks(t, segments, Len(segments), g)
               /\ MaskSegments(t, segments) = FlattenSeq(g[Len(segments)])
  BY MaskSegmentsIs
<1>2. \A i \in 0..Len(segments) :
        g[i] = IF i = 0 THEN [j \in 1..Len(t) |-> <<t[j]>>] ELSE Masked(g[i - 1], segments[i])
  BY <1>1 DEF Masks
<1> DEFINE Bad == {k \in 0..Len(segments) : ~MaskedSoFar(t, segments, g[k], k)}
<1>3. Bad = {}
  <2> SUFFICES ASSUME Bad # {} PROVE FALSE
    OBVIOUS
  <2>1. PICK k \in Bad : \A l \in Bad : k <= l
    <3>1. Bad \subseteq Nat
      OBVIOUS
    <3> HIDE DEF Bad
    <3> QED BY <3>1, LeastNumber
  <2>2. k \in 0..Len(segments) /\ ~MaskedSoFar(t, segments, g[k], k)
    BY SMTT(40)
  <2>3. k # 0
    <3>1. g[0] = [j \in 1..Len(t) |-> <<t[j]>>]
      BY <1>2
    <3>2. MaskedSoFar(t, segments, g[0], 0)
      BY <3>1, NothingMasked
    <3> QED BY <3>2, <2>2
  <2>4. k \in 1..Len(segments) /\ k - 1 \in 0..Len(segments) /\ ~(k <= k - 1)
    BY <2>2, <2>3
  <2>5. MaskedSoFar(t, segments, g[k - 1], k - 1)
    <3>1. k - 1 \notin Bad
      <4> HIDE DEF Bad
      <4> QED BY <2>1, <2>4
    <3> QED BY <3>1, <2>4
  <2>6. MaskedSoFar(t, segments, Masked(g[k - 1], segments[k]), k)
    BY <2>4, <2>5, OneMoreMasked
  <2>7. g[k] = Masked(g[k - 1], segments[k])
    BY <1>2, <2>2, <2>3
  <2> QED BY <2>2, <2>6, <2>7
<1>4. MaskedSoFar(t, segments, g[Len(segments)], Len(segments))
  <2>1. Len(segments) \in 0..Len(segments)
    OBVIOUS
  <2> QED BY <2>1, <1>3
<1> HIDE DEF Bad
<1>5. FlattenSeq(g[Len(segments)]) \in Seq(Chars)
  <2>1. g[Len(segments)] \in Seq(Seq(Chars))
    BY <1>4, FlattenSizes DEF MaskedSoFar, Cells
  <2> QED BY <2>1, FlattenIsSeq
<1> QED BY <1>1, <1>4, <1>5 DEF MaskedSoFar
-----------------------------------------------------------------------------
(* The order in which hits are masked                                      *)

\* What Before compares is bounded.
Comparable(S, n) ==
    \A h \in S : h.place.start \in 0..n /\ h.start \in 0..n /\ h.end \in 0..n

\* Among any hits there is one that no other is masked before.
LEMMA FirstIs ==
    ASSUME NEW n \in Nat, NEW S, S # {}, Comparable(S, n)
    PROVE  First(S) \in S /\ \A g \in S : ~Before(g, First(S))
<1>1. PICK a : a = [h \in S |-> n - h.place.start]
  OBVIOUS
<1>2. \A h \in S : a[h] \in Nat /\ a[h] = n - h.place.start
  BY <1>1 DEF Comparable
<1>3. PICK x \in S : \A g \in S : a[x] <= a[g]
  BY <1>2, LeastExists
<1>4. PICK S1 : S1 = {h \in S : h.place.start = x.place.start}
  OBVIOUS
<1>5. S1 # {} /\ S1 \subseteq S /\ \A h \in S1 : h.place.start = x.place.start
  BY <1>4
<1>6. PICK b : b = [h \in S1 |-> h.start]
  OBVIOUS
<1>7. \A h \in S1 : b[h] \in Nat /\ b[h] = h.start
  BY <1>5, <1>6 DEF Comparable
<1>8. PICK y \in S1 : \A g \in S1 : b[y] <= b[g]
  BY <1>5, <1>7, LeastExists
<1>9. PICK S2 : S2 = {h \in S1 : h.start = y.start}
  OBVIOUS
<1>10. S2 # {} /\ S2 \subseteq S1 /\ \A h \in S2 : h.start = y.start
  BY <1>9
<1>11. PICK c : c = [h \in S2 |-> n - h.end]
  OBVIOUS
<1>12. \A h \in S2 : c[h] \in Nat /\ c[h] = n - h.end
  BY <1>5, <1>10, <1>11 DEF Comparable
<1>13. PICK z \in S2 : \A g \in S2 : c[z] <= c[g]
  BY <1>10, <1>12, LeastExists
<1>14. ASSUME NEW g \in S PROVE ~Before(g, z)
  <2>1. z \in S /\ z \in S1 /\ z.start = y.start /\ z.place.start = x.place.start
    BY <1>5, <1>10
  <2>2. /\ g.place.start \in Int /\ x.place.start \in Int
        /\ g.start \in Int /\ z.start \in Int /\ g.end \in Int /\ z.end \in Int
    BY <2>1 DEF Comparable
  <2>3. ~(g.place.start > z.place.start)
    BY <1>2, <1>3, <2>1, <2>2
  <2>4. g.place.start = z.place.start => g \in S1 /\ ~(g.start < z.start)
    <3> SUFFICES ASSUME g.place.start = z.place.start PROVE g \in S1 /\ ~(g.start < z.start)
      OBVIOUS
    <3>1. g \in S1
      BY <1>4, <2>1
    <3> QED BY <3>1, <1>7, <1>8, <2>1, <2>2
  <2>5. g.place.start = z.place.start /\ g.start = z.start => ~(g.end > z.end)
    <3> SUFFICES ASSUME g.place.start = z.place.start, g.start = z.start
                 PROVE  ~(g.end > z.end)
      OBVIOUS
    <3>1. g \in S2
      BY <2>1, <2>4, <1>9
    <3> QED BY <3>1, <1>12, <1>13, <2>2
  <2> QED BY <2>3, <2>4, <2>5 DEF Before
<1>15. z \in S
  BY <1>5, <1>10
<1>16. \E h \in S : \A g \in S : ~Before(g, h)
  BY <1>14, <1>15
<1> QED BY <1>16 DEF First

\* g is the recursive function behind Detailed: what is left after i hits.
Leaves(all, n, g) ==
    g = [i \in 0..n |-> IF i = 0 THEN all ELSE g[i - 1] \ {First(g[i - 1])}]

\* It has a solution.
LEMMA LeavesSomehow ==
    ASSUME NEW all, NEW m \in Nat
    PROVE  \E g : Leaves(all, m, g)
<1> DEFINE Bad == {n \in Nat : ~\E g : Leaves(all, n, g)}
<1> SUFFICES ASSUME Bad # {} PROVE FALSE
  OBVIOUS
<1>1. PICK n \in Bad : \A l \in Bad : n <= l
  <2>1. Bad \subseteq Nat
    OBVIOUS
  <2> HIDE DEF Bad
  <2> QED BY <2>1, LeastNumber
<1>2. n \in Nat
  OBVIOUS
<1>3. ASSUME NEW h, h = [i \in 0..n |-> h[i]],
             \A i \in 0..n : h[i] = IF i = 0 THEN all ELSE h[i - 1] \ {First(h[i - 1])}
      PROVE  FALSE
  <2>1. [i \in 0..n |-> h[i]] =
        [i \in 0..n |-> IF i = 0 THEN all ELSE h[i - 1] \ {First(h[i - 1])}]
    <3> HIDE DEF Bad
    <3> QED BY <1>3
  <2>2. Leaves(all, n, h)
    BY <1>3, <2>1, Zenon DEF Leaves
  <2> QED BY <2>2, <1>1
<1>4. CASE n = 0
  <2> PICK h : h = [i \in 0..n |-> all]
    OBVIOUS
  <2>1. h = [i \in 0..n |-> h[i]] /\ \A i \in 0..n : i = 0 /\ h[i] = all
    BY <1>4
  <2> HIDE DEF Bad
  <2> QED BY <2>1, <1>3
<1>5. CASE n # 0
  <2>1. n - 1 \in Nat /\ n - 1 \notin Bad
    <3>1. n - 1 \in Nat /\ ~(n <= n - 1)
      BY <1>2, <1>5
    <3> HIDE DEF Bad
    <3> QED BY <3>1, <1>1
  <2>2. PICK g : Leaves(all, n - 1, g)
    BY <2>1
  <2>3. \A i \in 0..(n - 1) : g[i] = IF i = 0 THEN all ELSE g[i - 1] \ {First(g[i - 1])}
    BY <2>2 DEF Leaves
  <2> DEFINE h == [i \in 0..n |-> IF i < n THEN g[i] ELSE g[n - 1] \ {First(g[n - 1])}]
  <2>4. h = [i \in 0..n |-> h[i]]
    OBVIOUS
  <2>5. \A i \in 0..(n - 1) : h[i] = g[i]
    BY <1>2
  <2>6. h[n] = g[n - 1] \ {First(g[n - 1])}
    BY <1>2
  <2>7. ASSUME NEW i \in 0..n
        PROVE  h[i] = IF i = 0 THEN all ELSE h[i - 1] \ {First(h[i - 1])}
    <3> HIDE DEF h, Bad
    <3>1. CASE i < n /\ i = 0
      <4>1. 0 \in 0..(n - 1)
        BY <3>1, <1>2
      <4>2. g[0] = all /\ h[0] = g[0]
        BY <4>1, <2>3, <2>5
      <4> QED BY <3>1, <4>2
    <3>2. CASE i < n /\ i # 0
      <4>1. i \in 0..(n - 1) /\ i - 1 \in 0..(n - 1)
        BY <3>2, <1>2
      <4> QED BY <4>1, <3>2, <2>3, <2>5
    <3>3. CASE ~(i < n)
      <4>1. i = n /\ n - 1 \in 0..(n - 1)
        BY <3>3, <1>2, <1>5
      <4> QED BY <4>1, <1>5, <2>5, <2>6
    <3> QED BY <3>1, <3>2, <3>3
  <2> HIDE DEF Bad, h
  <2> QED BY <2>4, <2>7, <1>3
<1> QED BY <1>4, <1>5

\* Taken one after the other, all hits come, each when it is the first of those left.
LEMMA LeavesAre ==
    ASSUME NEW m \in Nat, NEW all, IsFiniteSet(all), Comparable(all, m),
           NEW n, n = Cardinality(all), NEW g, Leaves(all, n, g), NEW k \in 0..n
    PROVE  g[k] \subseteq all /\ IsFiniteSet(g[k]) /\ Cardinality(g[k]) = n - k
<1> DEFINE Bad == {i \in 0..n : ~(/\ g[i] \subseteq all /\ IsFiniteSet(g[i])
                                  /\ Cardinality(g[i]) = n - i)}
<1>0. n \in Nat
  BY FS_CardinalityType
<1> SUFFICES ASSUME Bad # {} PROVE FALSE
  OBVIOUS
<1>1. PICK i \in Bad : \A j \in Bad : i <= j
  <2>1. Bad \subseteq Nat
    OBVIOUS
  <2> HIDE DEF Bad
  <2> QED BY <2>1, LeastNumber
<1>2. i \in 0..n /\ ~(g[i] \subseteq all /\ IsFiniteSet(g[i]) /\ Cardinality(g[i]) = n - i)
  OBVIOUS
<1>3. g[i] = IF i = 0 THEN all ELSE g[i - 1] \ {First(g[i - 1])}
  BY <1>2 DEF Leaves
<1>4. i # 0
  <2>1. i = 0 => g[i] = all /\ n - i = n
    BY <1>0, <1>3
  <2> HIDE DEF Bad
  <2> QED BY <2>1, <1>2
<1>5. i - 1 \in 0..n /\ ~(i <= i - 1) /\ n - (i - 1) # 0 /\ n - (i - 1) - 1 = n - i
  BY <1>0, <1>2, <1>4
<1>6. PICK S : S = g[i - 1]
  OBVIOUS
<1>7. S \subseteq all /\ IsFiniteSet(S) /\ Cardinality(S) = n - (i - 1)
  <2>1. i - 1 \notin Bad
    <3> HIDE DEF Bad
    <3> QED BY <1>1, <1>5
  <2> QED BY <2>1, <1>5, <1>6
<1>8. S # {}
  BY <1>5, <1>7, FS_EmptySet
<1>9. First(S) \in S
  <2>1. Comparable(S, m)
    BY <1>7 DEF Comparable
  <2> QED BY <2>1, <1>8, FirstIs
<1>10. /\ S \ {First(S)} \subseteq all /\ IsFiniteSet(S \ {First(S)})
       /\ Cardinality(S \ {First(S)}) = Cardinality(S) - 1
  BY <1>7, <1>9, FS_RemoveElement
<1>11. g[i] = S \ {First(S)}
  BY <1>3, <1>4, <1>6
<1> HIDE DEF Bad
<1> QED BY <1>2, <1>5, <1>7, <1>10, <1>11

\* What a function gives on a finite set is a finite set.
LEMMA ImageFinite ==
    ASSUME NEW S, IsFiniteSet(S), NEW T, NEW f \in [S -> T], \A y \in T : \E x \in S : f[x] = y
    PROVE  IsFiniteSet(T)
<1>1. f \in Surjection(S, T)
  BY DEF Surjection
<1> QED BY <1>1, FS_Surjection

\* Hits that lie in a text of n letters.
HitsFit(hits, n) == \A h \in hits : h.start \in 1..n /\ h.end \in h.start..n

\* A hit as it is reported.
Detail(s, h) == [entry |-> h.entry, start |-> h.start, end |-> h.end,
                 place |-> OriginalRange(s, h.start, h.end)]

Details(s, hits) == {Detail(s, h) : h \in hits}

\* The larger of two numbers is one of them.
LEMMA LargerOf ==
    ASSUME NEW a \in Int, NEW b \in Int
    PROVE  Max({a, b}) = IF a <= b THEN b ELSE a
BY DEF Max

\* The place of a hit is one of the text.
LEMMA RangeInText ==
    ASSUME NEW n \in Nat, NEW s \in Seq(Places(1..n)), NEW i \in 1..Len(s), NEW j \in 1..Len(s)
    PROVE  /\ OriginalRange(s, i, j).start \in 1..n
           /\ OriginalRange(s, i, j).end \in OriginalRange(s, i, j).start..n
<1>1. s[i] \in Places(1..n) /\ s[j] \in Places(1..n)
  OBVIOUS
<1>2. s[i].at \in 1..n /\ s[j].at \in 1..n
  BY <1>1 DEF Places
<1>3. PICK a \in 1..n, b \in 1..n : a = s[i].at /\ b = s[j].at
  BY <1>2
<1>4. OriginalRange(s, i, j).start = Min({a, b}) /\ OriginalRange(s, i, j).end = Max({a, b})
  BY <1>3 DEF OriginalRange
<1>5. Min({a, b}) = (IF a <= b THEN a ELSE b) /\ Max({a, b}) = (IF a <= b THEN b ELSE a)
  BY SmallerOf, LargerOf
<1>6. Min({a, b}) \in 1..n /\ Max({a, b}) \in Min({a, b})..n
  BY <1>5
<1> QED BY <1>4, <1>6

\* Detailed is what some solution comes to.
LEMMA DetailedSomehow ==
    ASSUME NEW s, NEW hits, IsFiniteSet(Details(s, hits)),
           NEW k, k = Cardinality(Details(s, hits))
    PROVE  \E g : /\ Leaves(Details(s, hits), k, g)
                  /\ Detailed(s, hits) = [i \in 1..k |-> First(g[i - 1])]
<1> DEFINE all == Details(s, hits)
<1> DEFINE g == CHOOSE f : Leaves(all, Cardinality(all), f)
<1>1. Leaves(all, Cardinality(all), g)
  <2>1. Cardinality(all) \in Nat
    BY FS_CardinalityType
  <2> HIDE DEF all
  <2> QED BY <2>1, LeavesSomehow
<1>2. Detailed(s, hits) = [i \in 1..Cardinality(all) |-> First(g[i - 1])]
  BY Zenon DEF Detailed, Leaves, Detail, Details
<1> HIDE DEF g
<1>3. k = Cardinality(all)
  OBVIOUS
<1> QED BY <1>1, <1>2, <1>3

\* The hits are reported with their places, those further back in the text first.
LEMMA DetailedIs ==
    ASSUME NEW n \in Nat, NEW s \in Seq(Places(1..n)), NEW hits, IsFiniteSet(hits),
           HitsFit(hits, Len(s)), NEW d, d = Detailed(s, hits)
    PROVE  /\ Len(d) \in Nat /\ d = [i \in 1..Len(d) |-> d[i]]
           /\ \A i \in 1..Len(d) : \E h \in hits : d[i] = Detail(s, h)
           /\ \A i \in 1..(Len(d) - 1) : d[i + 1].place.start <= d[i].place.start
<1>1. PICK all : all = Details(s, hits)
  OBVIOUS
<1>2. IsFiniteSet(all)
  <2>1. PICK f : f = [h \in hits |-> Detail(s, h)]
    OBVIOUS
  <2>2. f \in [hits -> all] /\ \A y \in all : \E x \in hits : f[x] = y
    BY <1>1, <2>1 DEF Details
  <2> QED BY <2>2, ImageFinite
<1>3. PICK m : m = Len(s) + n
  OBVIOUS
<1>4. m \in Nat /\ Len(s) \in 0..m /\ n \in 0..m
  BY <1>3
<1>5. Comparable(all, m)
  <2> SUFFICES ASSUME NEW x \in all
               PROVE  x.place.start \in 0..m /\ x.start \in 0..m /\ x.end \in 0..m
    BY DEF Comparable
  <2>1. PICK h \in hits : x = Detail(s, h)
    BY <1>1 DEF Details
  <2>2. h.start \in 1..Len(s) /\ h.end \in 1..Len(s)
    <3>1. h.start \in 1..Len(s) /\ h.end \in h.start..Len(s)
      BY DEF HitsFit
    <3> QED BY <3>1
  <2>3. OriginalRange(s, h.start, h.end).start \in 1..n
    BY <2>2, RangeInText
  <2>4. /\ x.start = h.start /\ x.end = h.end
        /\ x.place = OriginalRange(s, h.start, h.end)
    BY <2>1 DEF Detail
  <2> QED BY <2>2, <2>3, <2>4, <1>4
<1>6. PICK k \in Nat : k = Cardinality(all)
  BY <1>2, FS_CardinalityType
<1>7. PICK g : Leaves(all, k, g) /\ d = [i \in 1..k |-> First(g[i - 1])]
  <2>1. IsFiniteSet(Details(s, hits)) /\ k = Cardinality(Details(s, hits))
    BY <1>1, <1>2, <1>6
  <2>2. PICK g : /\ Leaves(Details(s, hits), k, g)
                 /\ Detailed(s, hits) = [i \in 1..k |-> First(g[i - 1])]
    BY <2>1, DetailedSomehow
  <2> QED BY <2>2, <1>1
<1>8. Len(d) = k /\ d = [i \in 1..k |-> d[i]] /\ \A i \in 1..k : d[i] = First(g[i - 1])
  BY <1>7
<1>9. ASSUME NEW i \in 1..k
      PROVE  /\ g[i - 1] \subseteq all /\ First(g[i - 1]) \in g[i - 1]
             /\ \A x \in g[i - 1] : ~Before(x, First(g[i - 1]))
  <2>1. i - 1 \in 0..k /\ k - (i - 1) # 0
    OBVIOUS
  <2>2. g[i - 1] \subseteq all /\ IsFiniteSet(g[i - 1]) /\ Cardinality(g[i - 1]) = k - (i - 1)
    BY <2>1, <1>2, <1>4, <1>5, <1>6, <1>7, LeavesAre
  <2>3. g[i - 1] # {}
    BY <2>1, <2>2, FS_EmptySet
  <2>4. Comparable(g[i - 1], m)
    BY <2>2, <1>5 DEF Comparable
  <2> QED BY <2>2, <2>3, <2>4, <1>4, FirstIs
<1>10. \A i \in 1..k : \E h \in hits : d[i] = Detail(s, h)
  BY <1>1, <1>8, <1>9 DEF Details
<1>11. ASSUME NEW i \in 1..(k - 1) PROVE d[i + 1].place.start <= d[i].place.start
  <2>1. i \in 1..k /\ i + 1 \in 1..k /\ i + 1 - 1 = i /\ i \in 0..k /\ i # 0
    OBVIOUS
  <2>2. g[i] \subseteq g[i - 1]
    <3>1. g[i] = g[i - 1] \ {First(g[i - 1])}
      BY <2>1, <1>7 DEF Leaves
    <3> QED BY <3>1
  <2>3. d[i + 1] \in g[i] /\ g[i] \subseteq all
    <3>1. d[i + 1] = First(g[i + 1 - 1])
      BY <1>8, <2>1
    <3>2. First(g[i + 1 - 1]) \in g[i + 1 - 1] /\ g[i + 1 - 1] \subseteq all
      BY <1>9, <2>1
    <3> QED BY <3>1, <3>2, <2>1
  <2>4. d[i] \in all /\ ~Before(d[i + 1], d[i])
    BY <2>1, <2>2, <2>3, <1>8, <1>9
  <2>5. ~(d[i + 1].place.start > d[i].place.start)
    BY <2>4 DEF Before
  <2>6. d[i + 1].place.start \in Int /\ d[i].place.start \in Int
    BY <2>3, <2>4, <1>4, <1>5 DEF Comparable
  <2> QED BY <2>5, <2>6
<1> QED BY <1>8, <1>10, <1>11
-----------------------------------------------------------------------------
(* The hits of patterns, and all hits                                      *)

\* The pattern w matches the letters from i on.
Matches(letters, w, i) ==
    /\ i + Len(w) - 1 <= Len(letters)
    /\ \A j \in 1..Len(w) : letters[i + j - 1] \in Class[w[j]]

\* g is the recursive function behind the search for one pattern, from place m on.
Scans(letters, w, m, g) ==
    g = [i \in m..(Len(letters) + 1) |->
           IF i > Len(letters) THEN {}
           ELSE IF Matches(letters, w, i) THEN {i} \cup g[i + Len(w)]
           ELSE g[i + 1]]

\* It has a solution, from the end of the text to its start.
LEMMA ScansSomehow ==
    ASSUME NEW letters, Len(letters) \in Nat, NEW w, Len(w) \in Nat \ {0},
           NEW p \in 1..(Len(letters) + 1)
    PROVE  \E g : Scans(letters, w, p, g)
<1> DEFINE Bad == {m \in 1..(Len(letters) + 1) : ~\E g : Scans(letters, w, m, g)}
<1> SUFFICES ASSUME Bad # {} PROVE FALSE
  OBVIOUS
<1>1. PICK m \in Bad : \A l \in Bad : l <= m
  <2>1. Len(letters) + 1 \in Nat /\ Bad \subseteq 0..(Len(letters) + 1)
    OBVIOUS
  <2> HIDE DEF Bad
  <2> QED BY <2>1, LargestNumber
<1>2. m \in 1..(Len(letters) + 1)
  OBVIOUS
<1> DEFINE Step(f, i) == IF i > Len(letters) THEN {}
                         ELSE IF Matches(letters, w, i) THEN {i} \cup f[i + Len(w)]
                         ELSE f[i + 1]
<1>3. ASSUME NEW h, h = [i \in m..(Len(letters) + 1) |-> h[i]],
             \A i \in m..(Len(letters) + 1) : h[i] = Step(h, i)
      PROVE  FALSE
  <2>1. [i \in m..(Len(letters) + 1) |-> h[i]] =
        [i \in m..(Len(letters) + 1) |-> Step(h, i)]
    <3> HIDE DEF Bad, Step
    <3> QED BY <1>3
  <2>2. Scans(letters, w, m, h)
    BY <1>3, <2>1, Zenon DEF Scans
  <2> QED BY <2>2, <1>1
<1>4. CASE m = Len(letters) + 1
  <2> PICK h : h = [i \in m..(Len(letters) + 1) |-> {}]
    OBVIOUS
  <2>1. \A i \in m..(Len(letters) + 1) : i > Len(letters) /\ h[i] = {}
    BY <1>2, <1>4
  <2>2. h = [i \in m..(Len(letters) + 1) |-> h[i]]
    OBVIOUS
  <2>3. \A i \in m..(Len(letters) + 1) : h[i] = Step(h, i)
    <3> HIDE DEF Bad
    <3> QED BY <2>1
  <2> HIDE DEF Bad, Step
  <2> QED BY <2>2, <2>3, <1>3
<1>5. CASE m # Len(letters) + 1
  <2>1. m \in 1..Len(letters) /\ m + 1 \in 1..(Len(letters) + 1) /\ m + 1 \notin Bad
    <3>1. m \in 1..Len(letters) /\ m + 1 \in 1..(Len(letters) + 1) /\ ~(m + 1 <= m)
      BY <1>2, <1>5
    <3> HIDE DEF Bad
    <3> QED BY <3>1, <1>1
  <2>2. PICK g : Scans(letters, w, m + 1, g)
    BY <2>1
  <2>3. \A i \in (m + 1)..(Len(letters) + 1) : g[i] = Step(g, i)
    BY <2>2 DEF Scans
  <2> DEFINE h == [i \in m..(Len(letters) + 1) |-> IF i = m THEN Step(g, m) ELSE g[i]]
  <2>4. h = [i \in m..(Len(letters) + 1) |-> h[i]]
    OBVIOUS
  <2>5. h[m] = Step(g, m)
    <3>1. m \in m..(Len(letters) + 1)
      BY <1>2
    <3> HIDE DEF Step, Bad
    <3> QED BY <3>1
  <2>6. \A i \in (m + 1)..(Len(letters) + 1) : h[i] = g[i]
    <3>1. \A i \in (m + 1)..(Len(letters) + 1) : i \in m..(Len(letters) + 1) /\ i # m
      BY <1>2
    <3> HIDE DEF Step, Bad
    <3> QED BY <3>1
  <2> HIDE DEF h, Bad
  <2>7. \A i \in m..(Len(letters) + 1) : h[i] = Step(g, i)
    <3> HIDE DEF Step
    <3>1. ASSUME NEW i \in m..(Len(letters) + 1), i # m PROVE i \in (m + 1)..(Len(letters) + 1)
      BY <3>1, <1>2
    <3> QED BY <3>1, <2>3, <2>5, <2>6
  <2>8. ASSUME NEW i \in m..(Len(letters) + 1) PROVE h[i] = Step(h, i)
    <3>1. ASSUME ~(i > Len(letters))
          PROVE  h[i + 1] = g[i + 1]
      <4>1. i + 1 \in (m + 1)..(Len(letters) + 1)
        BY <3>1, <1>2
      <4> QED BY <4>1, <2>6
    <3>2. ASSUME Matches(letters, w, i)
          PROVE  h[i + Len(w)] = g[i + Len(w)]
      <4>1. i + Len(w) - 1 <= Len(letters)
        BY <3>2 DEF Matches
      <4>2. i + Len(w) \in (m + 1)..(Len(letters) + 1)
        BY <4>1, <1>2
      <4> QED BY <4>2, <2>6
    <3> QED BY <3>1, <3>2, <2>7
  <2> HIDE DEF Step
  <2> QED BY <2>4, <2>8, <1>3
<1> QED BY <1>4, <1>5

\* Every solution holds places where the pattern matches.
LEMMA ScansMatch ==
    ASSUME NEW letters, Len(letters) \in Nat, NEW w, Len(w) \in Nat \ {0}, NEW g,
           Scans(letters, w, 1, g), NEW p \in 1..(Len(letters) + 1)
    PROVE  \A i \in g[p] : i \in 1..Len(letters) /\ Matches(letters, w, i)
<1> DEFINE Good(i) == i \in 1..Len(letters) /\ Matches(letters, w, i)
<1> DEFINE Bad == {m \in 1..(Len(letters) + 1) : ~\A i \in g[m] : Good(i)}
<1> SUFFICES ASSUME Bad # {} PROVE FALSE
  OBVIOUS
<1>1. PICK m \in Bad : \A l \in Bad : l <= m
  <2>1. Len(letters) + 1 \in Nat /\ Bad \subseteq 0..(Len(letters) + 1)
    OBVIOUS
  <2> HIDE DEF Bad
  <2> QED BY <2>1, LargestNumber
<1>2. m \in 1..(Len(letters) + 1) /\ ~\A i \in g[m] : Good(i)
  OBVIOUS
<1>3. g[m] = IF m > Len(letters) THEN {}
             ELSE IF Matches(letters, w, m) THEN {m} \cup g[m + Len(w)]
             ELSE g[m + 1]
  BY <1>2 DEF Scans
<1>4. ASSUME NEW l \in (m + 1)..(Len(letters) + 1) PROVE \A i \in g[l] : Good(i)
  <2>1. l \in 1..(Len(letters) + 1) /\ ~(l <= m)
    BY <1>2
  <2>2. l \notin Bad
    <3> HIDE DEF Bad
    <3> QED BY <2>1, <1>1
  <2> QED BY <2>1, <2>2
<1>5. CASE m > Len(letters)
  <2> HIDE DEF Bad, Good
  <2> QED BY <1>2, <1>3, <1>5
<1>6. CASE ~(m > Len(letters)) /\ ~Matches(letters, w, m)
  <2>1. m + 1 \in (m + 1)..(Len(letters) + 1)
    BY <1>2, <1>6
  <2> HIDE DEF Bad, Good
  <2> QED BY <2>1, <1>2, <1>3, <1>4, <1>6
<1>7. CASE ~(m > Len(letters)) /\ Matches(letters, w, m)
  <2>1. m + Len(w) - 1 <= Len(letters)
    BY <1>7 DEF Matches
  <2>2. m + Len(w) \in (m + 1)..(Len(letters) + 1) /\ m \in 1..Len(letters)
    BY <2>1, <1>2, <1>7
  <2>3. Good(m)
    BY <2>2, <1>7
  <2>4. g[m] = {m} \cup g[m + Len(w)]
    BY <1>3, <1>7
  <2> HIDE DEF Bad, Good
  <2> QED BY <2>2, <2>3, <2>4, <1>2, <1>4
<1> QED BY <1>5, <1>6, <1>7

\* Where a pattern is found.
StartsOf(letters, w) == (CHOOSE f : Scans(letters, w, 1, f))[1]

\* A hit of a pattern is an entry and a place where it matches.
LEMMA PatternHitsAre ==
    ASSUME NEW letters
    PROVE
    PatternHits(letters) =
      UNION {{[entry |-> e, start |-> i, end |-> i + Len(e.word) - 1] :
                i \in StartsOf(letters, e.word)} : e \in {w \in library : w.kind = "regex"}}
BY Zenon DEF PatternHits, StartsOf, Scans, Matches

\* Hits of words of the library, in a text of n letters.
Hits(n) == [entry : library, start : 1..n, end : 1..n]

\* There are finitely many of them.
LEMMA HitsFinite ==
    ASSUME IsFiniteSet(library), NEW n \in Nat
    PROVE  IsFiniteSet(Hits(n))
<1>1. IsFiniteSet(1..n)
  BY FS_Interval
<1>2. IsFiniteSet((1..n) \X (1..n))
  BY <1>1, FS_Product
<1>3. IsFiniteSet(library \X ((1..n) \X (1..n)))
  BY <1>2, FS_Product
<1>4. PICK f : f = [x \in library \X ((1..n) \X (1..n)) |->
                      [entry |-> x[1], start |-> x[2][1], end |-> x[2][2]]]
  OBVIOUS
<1>5. f \in [library \X ((1..n) \X (1..n)) -> Hits(n)]
  BY <1>4 DEF Hits
<1>6. ASSUME NEW h \in Hits(n)
      PROVE  \E x \in library \X ((1..n) \X (1..n)) : f[x] = h
  <2>1. h.entry \in library /\ h.start \in 1..n /\ h.end \in 1..n
    BY DEF Hits
  <2>2. PICK x : x = <<h.entry, <<h.start, h.end>>>>
    OBVIOUS
  <2>3. x \in library \X ((1..n) \X (1..n))
    BY <2>1, <2>2
  <2>4. f[x] = [entry |-> h.entry, start |-> h.start, end |-> h.end]
    BY <2>2, <2>3, <1>4
  <2>5. h = [entry |-> h.entry, start |-> h.start, end |-> h.end]
    BY DEF Hits
  <2> QED BY <2>3, <2>4, <2>5
<1> QED BY <1>3, <1>5, <1>6, ImageFinite

\* A pattern is found within the text.
LEMMA PatternsFit ==
    ASSUME library \subseteq Entries, NEW letters \in Seq(Chars), NEW h \in PatternHits(letters)
    PROVE  h \in Hits(Len(letters)) /\ h.start <= h.end
<1>0. PICK e \in library : \E i \in StartsOf(letters, e.word) :
        h = [entry |-> e, start |-> i, end |-> i + Len(e.word) - 1]
  BY PatternHitsAre
<1>1. PICK i \in StartsOf(letters, e.word) :
        h = [entry |-> e, start |-> i, end |-> i + Len(e.word) - 1]
  BY <1>0
<1>2. Len(letters) \in Nat /\ Len(e.word) \in Nat \ {0}
  <2>1. e.word \in Seq(Chars) \ {<<>>}
    BY WordCheckAssumption
  <2> QED BY <2>1, EmptySeq
<1>3. i \in 1..Len(letters) /\ Matches(letters, e.word, i)
  <2> DEFINE f == CHOOSE g : Scans(letters, e.word, 1, g)
  <2>1. 1 \in 1..(Len(letters) + 1)
    BY <1>2
  <2>2. Scans(letters, e.word, 1, f)
    BY <2>1, <1>2, ScansSomehow
  <2>3. i \in f[1]
    BY DEF StartsOf
  <2> HIDE DEF f
  <2> QED BY <2>1, <2>2, <2>3, <1>2, ScansMatch
<1>4. i + Len(e.word) - 1 <= Len(letters)
  BY <1>3 DEF Matches
<1>5. i + Len(e.word) - 1 \in 1..Len(letters) /\ i <= i + Len(e.word) - 1
  BY <1>2, <1>3, <1>4
<1> QED BY <1>1, <1>3, <1>5 DEF Hits

\* All hits are words of the library and lie within the text; there are finitely many.
LEMMA HitsOnFit ==
    ASSUME CheckInv, NEW letters \in Seq(Chars)
    PROVE  /\ HitsOn(letters) \subseteq Hits(Len(letters)) /\ IsFiniteSet(HitsOn(letters))
           /\ HitsFit(HitsOn(letters), Len(letters))
<1>0. library \subseteq Entries /\ IsFiniteSet(library) /\ Len(letters) \in Nat
  BY DEF CheckInv
<1>1. ASSUME NEW h \in HitsOn(letters)
      PROVE  h \in Hits(Len(letters)) /\ h.start <= h.end
  <2>1. CASE h \in KeywordHits(letters)
    <3>1. \A e \in Keywords : Needle(e) \in Seq(Chars)
      <4>1. \A e \in Keywords : e.word \in Texts
        BY CheckedTexts DEF Keywords
      <4> QED BY <4>1, NormalizedLetters DEF Needle
    <3>2. /\ h \in [entry : Keywords, start : 1..Len(letters), end : 1..Len(letters)]
          /\ h.start <= h.end
      BY <2>1, <3>1, SearchIsExact
    <3>3. Keywords \subseteq library
      BY DEF Keywords
    <3> QED BY <3>2, <3>3 DEF Hits
  <2>2. CASE h \in PatternHits(letters)
    BY <2>2, <1>0, PatternsFit
  <2> QED BY <2>1, <2>2 DEF HitsOn
<1>2. IsFiniteSet(HitsOn(letters))
  <2>1. HitsOn(letters) \subseteq Hits(Len(letters)) /\ IsFiniteSet(Hits(Len(letters)))
    BY <1>0, <1>1, HitsFinite
  <2> QED BY <2>1, FS_Subset
<1>3. HitsFit(HitsOn(letters), Len(letters))
  <2>1. \A h \in HitsOn(letters) : /\ h.start \in 1..Len(letters) /\ h.end \in 1..Len(letters)
                                   /\ h.start <= h.end
    BY <1>1 DEF Hits
  <2>2. \A h \in HitsOn(letters) : h.start \in 1..Len(letters) /\ h.end \in h.start..Len(letters)
    BY <2>1
  <2> QED BY <2>2 DEF HitsFit
<1> QED BY <1>1, <1>2, <1>3

\* The hits of a normalised text are reported in the order of masking, each in its place.
LEMMA HitsReported ==
    ASSUME CheckInv, NEW t \in Texts, NEW d, d = HitsIn(Normalized(t))
    PROVE  /\ Len(d) \in Nat /\ d = [i \in 1..Len(d) |-> d[i]]
           /\ \A i \in 1..Len(d) : \E h \in HitsOn(Letters(Normalized(t))) :
                d[i] = Detail(Normalized(t), h)
           /\ \A i \in 1..(Len(d) - 1) : d[i + 1].place.start <= d[i].place.start
           /\ HitsFit(HitsOn(Letters(Normalized(t))), Len(Normalized(t)))
<1>1. PICK s : s = Normalized(t)
  OBVIOUS
<1>2. s \in Seq(Places(1..Len(t))) /\ Letters(s) \in Seq(Chars) /\ Len(t) \in Nat
  BY <1>1, TextsTyped, NormalizedTyped, NormalizedLetters
<1>3. Len(Letters(s)) = Len(s)
  <2>1. Len(s) \in Nat
    BY <1>2
  <2> QED BY <2>1 DEF Letters
<1>4. IsFiniteSet(HitsOn(Letters(s))) /\ HitsFit(HitsOn(Letters(s)), Len(s))
  BY <1>2, <1>3, HitsOnFit
<1>5. d = Detailed(s, HitsOn(Letters(s)))
  BY <1>1 DEF HitsIn
<1>6. PICK hits, n : hits = HitsOn(Letters(s)) /\ n = Len(t)
  OBVIOUS
<1>7. /\ n \in Nat /\ s \in Seq(Places(1..n)) /\ IsFiniteSet(hits) /\ HitsFit(hits, Len(s))
      /\ d = Detailed(s, hits)
  BY <1>2, <1>4, <1>5, <1>6
<1>8. /\ Len(d) \in Nat /\ d = [i \in 1..Len(d) |-> d[i]]
      /\ \A i \in 1..Len(d) : \E h \in hits : d[i] = Detail(s, h)
      /\ \A i \in 1..(Len(d) - 1) : d[i + 1].place.start <= d[i].place.start
  BY <1>7, DetailedIs
<1> QED BY <1>1, <1>6, <1>7, <1>8

\* What is reported are these hits, and a text that is masked is masked at all of them.
LEMMA ResultIs ==
    ASSUME NEW t, NEW d
    PROVE  /\ CheckResult(t, d).hits = d
           /\ CheckResult(t, d).action = "mask" =>
                CheckResult(t, d).text = MaskSegments(t, [i \in 1..Len(d) |-> d[i].place])
<1>1. CASE d = <<>>
  <2>1. CheckResult(t, d) = Pass(t)
    BY <1>1, Zenon DEF CheckResult
  <2>2. Pass(t).hits = <<>> /\ Pass(t).action = "pass"
    BY DEF Pass
  <2> QED BY <1>1, <2>1, <2>2
<1>2. CASE d # <<>>
  <2> DEFINE level  == Max({h.entry.level : h \in ToSet(d)})
  <2> DEFINE action == Rules[level]
  <2> DEFINE masks  == level = 1 \/ action = "mask"
  <2> DEFINE places == [i \in 1..Len(d) |-> d[i].place]
  <2>1. CheckResult(t, d) =
          [level |-> level, action |-> IF masks THEN "mask" ELSE action,
           blocked |-> action \in {"block", "delete"}, hits |-> d,
           text |-> IF masks THEN MaskSegments(t, places) ELSE t]
    BY <1>2, Zenon DEF CheckResult
  <2>2. masks \/ action # "mask"
    OBVIOUS
  <2> HIDE DEF level, action, masks, places
  <2>3. /\ CheckResult(t, d).hits = d
        /\ CheckResult(t, d).action = IF masks THEN "mask" ELSE action
        /\ CheckResult(t, d).text = IF masks THEN MaskSegments(t, places) ELSE t
    BY <2>1
  <2>4. CheckResult(t, d).action = "mask" => masks
    BY <2>2, <2>3
  <2> QED BY <2>3, <2>4 DEF places
<1> QED BY <1>1, <1>2

\* What stands in a part of a text of several characters.
LEMMA PartOfText ==
    ASSUME NEW S, NEW x \in Seq(S), NEW a \in 1..Len(x), NEW b \in a..Len(x)
    PROVE  /\ Len(SubSeq(x, a, b)) = b - a + 1
           /\ a < b => 2 \in 1..Len(SubSeq(x, a, b)) /\ SubSeq(x, a, b)[2] = x[a + 1]
<1>1. a \in 1..(Len(x) + 1) /\ b \in (a - 1)..Len(x) /\ a \in Int /\ b \in Int
  OBVIOUS
<1>2. /\ Len(SubSeq(x, a, b)) = b - a + 1
      /\ \A i \in 1..(b - a + 1) : SubSeq(x, a, b)[i] = x[a + i - 1]
  BY <1>1, PartIs
<1>3. a < b => 2 \in 1..(b - a + 1) /\ a + 2 - 1 = a + 1
  BY <1>1
<1> QED BY <1>2, <1>3

\* Masking never shortens the text and leaves no unbroken hit of several places as it
\* was.
LEMMA MaskedRight ==
    ASSUME CheckInv
    PROVE  MaskedIn(Check(typed))
<1>1. PICK t : t = typed
  OBVIOUS
<1>2. PICK s : s = Normalized(t)
  OBVIOUS
<1>3. PICK d : d = HitsIn(s)
  OBVIOUS
<1>4. PICK out : out = CheckResult(t, d)
  OBVIOUS
<1>5. out = Check(typed)
  BY <1>1, <1>2, <1>3, <1>4 DEF Check
<1> SUFFICES ASSUME out.action = "mask"
             PROVE  /\ Len(out.text) = Len(t)
                    /\ \A h \in ToSet(out.hits) :
                         LET raw == SubSeq(t, h.place.start, h.place.end)
                         IN  Len(raw) > 1 /\ (\A i \in DOMAIN raw : raw[i] \notin Dropped)
                               => SubSeq(out.text, h.place.start, h.place.end) # raw
  BY <1>1, <1>5 DEF MaskedIn
<1>6. t \in Texts /\ t \in Seq(Chars) /\ Len(t) \in Nat
  BY <1>1, CheckedTexts DEF CheckInv
<1>7. s \in Seq(Places(1..Len(t)))
  BY <1>2, <1>6, NormalizedTyped
<1>8. /\ Len(d) \in Nat
      /\ \A i \in 1..Len(d) : \E h \in HitsOn(Letters(s)) : d[i] = Detail(s, h)
      /\ \A i \in 1..(Len(d) - 1) : d[i + 1].place.start <= d[i].place.start
      /\ HitsFit(HitsOn(Letters(s)), Len(s))
  BY <1>2, <1>3, <1>6, HitsReported
<1>9. PICK places : places = [i \in 1..Len(d) |-> d[i].place]
  OBVIOUS
<1>10. Len(places) = Len(d) /\ \A i \in 1..Len(d) : places[i] = d[i].place
  BY <1>8, <1>9
<1>11. ASSUME NEW i \in 1..Len(d)
       PROVE  places[i].start \in 1..Len(t) /\ places[i].end \in places[i].start..Len(t)
  <2>1. PICK h \in HitsOn(Letters(s)) : d[i] = Detail(s, h)
    BY <1>8
  <2>2. h.start \in 1..Len(s) /\ h.end \in 1..Len(s)
    <3>1. h.start \in 1..Len(s) /\ h.end \in h.start..Len(s)
      BY <1>8 DEF HitsFit
    <3> QED BY <3>1
  <2>3. places[i] = OriginalRange(s, h.start, h.end)
    BY <1>10, <2>1 DEF Detail
  <2> QED BY <2>2, <2>3, <1>6, <1>7, RangeInText
<1>12. Ordered(places, Len(t))
  <2>1. ASSUME NEW i \in 1..(Len(places) - 1) PROVE places[i + 1].start <= places[i].start
    <3>1. i \in 1..(Len(d) - 1) /\ i \in 1..Len(d) /\ i + 1 \in 1..Len(d)
      BY <1>8, <1>10
    <3> QED BY <3>1, <1>8, <1>10
  <2> QED BY <2>1, <1>10, <1>11 DEF Ordered
<1>13. out.text = MaskSegments(t, places) /\ out.hits = d
  BY <1>4, <1>9, ResultIs
<1>14. /\ out.text \in Seq(Chars) /\ Len(out.text) = Len(t)
       /\ \A i \in 1..Len(d) : places[i].start < places[i].end
            => out.text[places[i].start + 1] = Star
  <2>1. Len(places) \in Nat
    BY <1>8, <1>10
  <2> QED BY <2>1, <1>6, <1>10, <1>12, <1>13, AllMasked
<1>16. ASSUME NEW h \in ToSet(out.hits), NEW raw, raw = SubSeq(t, h.place.start, h.place.end),
              Len(raw) > 1, \A i \in DOMAIN raw : raw[i] \notin Dropped
       PROVE  SubSeq(out.text, h.place.start, h.place.end) # raw
  <2>1. PICK i \in 1..Len(d) : h = d[i]
    BY <1>13, <1>16 DEF ToSet
  <2>2. PICK a, b : a = h.place.start /\ b = h.place.end
    OBVIOUS
  <2>3. /\ a \in 1..Len(t) /\ b \in a..Len(t)
        /\ a < b => out.text[a + 1] = Star
    BY <1>10, <1>11, <1>14, <2>1, <2>2
  <2>4. Len(raw) = b - a + 1 /\ (a < b => 2 \in 1..Len(raw) /\ raw[2] = t[a + 1])
    <3>1. a \in 1..Len(t) /\ b \in a..Len(t)
      BY <2>3
    <3>2. raw = SubSeq(t, a, b)
      BY <1>16, <2>2
    <3>3. /\ Len(SubSeq(t, a, b)) = b - a + 1
          /\ a < b => 2 \in 1..Len(SubSeq(t, a, b)) /\ SubSeq(t, a, b)[2] = t[a + 1]
      BY <3>1, <1>6, PartOfText
    <3> QED BY <3>2, <3>3
  <2>5. a < b
    BY <1>16, <2>3, <2>4
  <2>6. a \in 1..Len(out.text) /\ b \in a..Len(out.text)
    BY <1>14, <2>3
  <2>7. SubSeq(out.text, a, b)[2] = Star
    BY <1>14, <2>3, <2>5, <2>6, PartOfText
  <2>8. raw \in Seq(Chars) /\ DOMAIN raw = 1..Len(raw)
    <3>1. a \in 1..(Len(t) + 1) /\ b \in (a - 1)..Len(t)
      BY <2>3
    <3>2. raw \in Seq(Chars)
      BY <1>6, <1>16, <2>2, <3>1, PartIs
    <3> QED BY <3>2
  <2>9. raw[2] \notin Dropped
    BY <1>16, <2>4, <2>5, <2>8
  <2>10. Star \in Dropped
    BY WordCheckAssumption
  <2> QED BY <2>2, <2>7, <2>9, <2>10
<1> QED BY <1>14, <1>16
-----------------------------------------------------------------------------
(* Where a hit begins.  A normalised text from some place on gives what the *)
(* whole text gives from there on, with the places counted anew.           *)

\* The same characters, each at the place to which m moves it.
Moved(x, m) == [n \in 1..Len(x) |-> [ch |-> x[n].ch, at |-> m[x[n].at]]]

\* d places further on.
By(d) == [a \in Nat |-> a + d]

\* No further than n.
UpTo(n) == [a \in Nat |-> Min({a, n})]

\* A move takes numbers to numbers.
Move(m) == m \in [Nat -> Nat]

\* Both do.
LEMMA MovesAre ==
    ASSUME NEW n \in Nat
    PROVE  /\ Move(By(n)) /\ \A a \in Nat : By(n)[a] = a + n
           /\ Move(UpTo(n))
           /\ \A a \in Nat : UpTo(n)[a] = IF a <= n THEN a ELSE n
<1>1. \A a \in Nat : a + n \in Nat
  OBVIOUS
<1>2. \A a \in Nat : Min({a, n}) = IF a <= n THEN a ELSE n
  BY SmallerOf
<1>3. \A a \in Nat : Min({a, n}) \in Nat
  BY <1>2
<1> QED BY <1>1, <1>2, <1>3 DEF By, UpTo, Move

\* They are characters of a text and each is as it was, at its new place.
LEMMA MovedTyped ==
    ASSUME NEW x \in Seq(Places(Nat)), NEW m, Move(m)
    PROVE  /\ Moved(x, m) \in Seq(Places(Nat)) /\ Len(Moved(x, m)) = Len(x)
           /\ \A n \in 1..Len(x) : /\ Moved(x, m)[n].ch = x[n].ch
                                   /\ Moved(x, m)[n].at = m[x[n].at]
<1>1. Len(x) \in Nat /\ \A n \in 1..Len(x) : x[n] \in Places(Nat)
  OBVIOUS
<1>2. \A n \in 1..Len(x) : x[n].ch \in Chars /\ m[x[n].at] \in Nat
  BY <1>1 DEF Places, Move
<1>3. Moved(x, m) \in [1..Len(x) -> Places(Nat)]
  BY <1>2 DEF Moved, Places
<1>4. Moved(x, m) \in Seq(Places(Nat)) /\ Len(Moved(x, m)) = Len(x)
  <2>1. PICK f, P : f = Moved(x, m) /\ P = Places(Nat)
    OBVIOUS
  <2>2. f \in [1..Len(x) -> P] /\ Len(x) \in Nat
    BY <2>1, <1>1, <1>3
  <2>3. f \in Seq(P) /\ Len(f) = Len(x)
    BY <2>2, SeqFromFunction
  <2> QED BY <2>1, <2>3
<1> QED BY <1>4 DEF Moved

\* Two characters with their places are equal if the characters and the places are.
LEMMA PlaceEqual ==
    ASSUME NEW a \in Places(Nat), NEW b \in Places(Nat), a.ch = b.ch, a.at = b.at
    PROVE  a = b
BY DEF Places

\* So are two sequences of them if all characters and all places are.
LEMMA PlacesEqual ==
    ASSUME NEW x \in Seq(Places(Nat)), NEW y \in Seq(Places(Nat)), Len(x) = Len(y),
           \A n \in 1..Len(x) : x[n].ch = y[n].ch /\ x[n].at = y[n].at
    PROVE  x = y
<1>1. \A n \in 1..Len(x) : x[n] = y[n]
  <2> SUFFICES ASSUME NEW n \in 1..Len(x) PROVE x[n] = y[n]
    OBVIOUS
  <2>1. x[n] \in Places(Nat) /\ y[n] \in Places(Nat)
    OBVIOUS
  <2>2. x[n].ch = y[n].ch /\ x[n].at = y[n].at
    OBVIOUS
  <2> QED BY <2>1, <2>2, PlaceEqual
<1> QED BY <1>1, SeqEqual

\* They are joined in any order.
LEMMA JoinPlaces ==
    ASSUME NEW a \in Seq(Places(Nat)), NEW b \in Seq(Places(Nat)), NEW x \in Seq(Places(Nat))
    PROVE  (a \o b) \o x = a \o (b \o x)
<1> PICK P : P = Places(Nat)
  OBVIOUS
<1>1. a \in Seq(P) /\ b \in Seq(P) /\ x \in Seq(P)
  OBVIOUS
<1> QED BY <1>1, JoinThrice

\* Moving what is joined is joining what is moved.
LEMMA MovedJoin ==
    ASSUME NEW x \in Seq(Places(Nat)), NEW y \in Seq(Places(Nat)), NEW m, Move(m)
    PROVE  Moved(x \o y, m) = Moved(x, m) \o Moved(y, m)
<1>1. PICK z : z = x \o y
  OBVIOUS
<1>2. /\ z \in Seq(Places(Nat)) /\ Len(z) = Len(x) + Len(y)
      /\ \A n \in 1..Len(x) : z[n] = x[n]
      /\ \A n \in 1..Len(y) : z[Len(x) + n] = y[n]
      /\ Len(x) \in Nat /\ Len(y) \in Nat
  BY <1>1
<1>3. PICK a, b, c : a = Moved(x, m) /\ b = Moved(y, m) /\ c = Moved(z, m)
  OBVIOUS
<1>4. /\ a \in Seq(Places(Nat)) /\ Len(a) = Len(x)
      /\ \A n \in 1..Len(x) : a[n].ch = x[n].ch /\ a[n].at = m[x[n].at]
  BY <1>3, MovedTyped
<1>5. /\ b \in Seq(Places(Nat)) /\ Len(b) = Len(y)
      /\ \A n \in 1..Len(y) : b[n].ch = y[n].ch /\ b[n].at = m[y[n].at]
  BY <1>3, MovedTyped
<1>6. /\ c \in Seq(Places(Nat)) /\ Len(c) = Len(z)
      /\ \A n \in 1..Len(z) : c[n].ch = z[n].ch /\ c[n].at = m[z[n].at]
  BY <1>2, <1>3, MovedTyped
<1>7. PICK e : e = a \o b
  OBVIOUS
<1>8. /\ e \in Seq(Places(Nat)) /\ Len(e) = Len(a) + Len(b)
      /\ \A n \in 1..Len(a) : e[n] = a[n]
      /\ \A n \in 1..Len(b) : e[Len(a) + n] = b[n]
  <2>1. a \in Seq(Places(Nat)) /\ b \in Seq(Places(Nat))
    BY <1>4, <1>5
  <2> QED BY <2>1, <1>7
<1>9. ASSUME NEW n \in 1..Len(c) PROVE c[n].ch = e[n].ch /\ c[n].at = e[n].at
  <2>1. CASE n <= Len(x)
    <3>1. n \in 1..Len(x) /\ n \in 1..Len(z)
      BY <2>1, <1>2, <1>6
    <3>2. e[n] = a[n] /\ z[n] = x[n]
      BY <3>1, <1>2, <1>4, <1>8
    <3> QED BY <3>1, <3>2, <1>4, <1>6
  <2>2. CASE n > Len(x)
    <3>1. PICK l : l = n - Len(x)
      OBVIOUS
    <3>2. l \in 1..Len(y) /\ n = Len(x) + l /\ n \in 1..Len(z)
      BY <2>2, <3>1, <1>2, <1>6
    <3>3. e[n] = b[l] /\ z[n] = y[l]
      BY <3>2, <1>2, <1>4, <1>5, <1>8
    <3> QED BY <3>2, <3>3, <1>5, <1>6
  <2>3. n \in Nat /\ Len(x) \in Nat
    BY <1>2, <1>6
  <2> QED BY <2>1, <2>2, <2>3
<1>10. c = e
  <2>1. Len(c) = Len(e)
    BY <1>2, <1>4, <1>5, <1>6, <1>8
  <2> QED BY <2>1, <1>6, <1>8, <1>9, PlacesEqual
<1> QED BY <1>1, <1>3, <1>7, <1>10

\* What is left of one character at the place n.
One(c, n) == IF Simple[c] \in Dropped THEN <<>> ELSE <<[ch |-> Simple[c], at |-> n]>>

\* It is at most one character.
LEMMA OneTyped ==
    ASSUME NEW c \in Chars, NEW n \in Nat
    PROVE  One(c, n) \in Seq(Places(Nat)) /\ Len(One(c, n)) \in 0..1
<1>1. PICK y : y = Simple[c]
  OBVIOUS
<1>2. y \in Chars
  BY <1>1, WordCheckAssumption
<1>3. PICK x, P : x = [ch |-> y, at |-> n] /\ P = Places(Nat)
  OBVIOUS
<1>4. x \in P
  BY <1>2, <1>3 DEF Places
<1>5. <<x>> \in Seq(P) /\ Len(<<x>>) = 1 /\ <<>> \in Seq(P) /\ Len(<<>>) = 0
  BY <1>4
<1>6. One(c, n) = IF y \in Dropped THEN <<>> ELSE <<x>>
  BY <1>1, <1>3 DEF One
<1> QED BY <1>3, <1>5, <1>6

\* It does not depend on the place, which moves with it.
LEMMA OneMoved ==
    ASSUME NEW c \in Chars, NEW n \in Nat, NEW m, Move(m)
    PROVE  Moved(One(c, n), m) = One(c, m[n])
<1>1. PICK x, y, k : x = One(c, n) /\ k = m[n] /\ y = One(c, k)
  OBVIOUS
<1>2. /\ x \in Seq(Places(Nat)) /\ Len(x) \in 0..1
      /\ y \in Seq(Places(Nat)) /\ Len(y) \in 0..1
  <2>1. k \in Nat
    BY <1>1 DEF Move
  <2> QED BY <2>1, <1>1, OneTyped
<1>3. CASE Simple[c] \in Dropped
  <2>1. x = <<>> /\ y = <<>>
    BY <1>1, <1>3 DEF One
  <2>2. Moved(x, m) = <<>>
    <3>1. Moved(x, m) \in Seq(Places(Nat)) /\ Len(Moved(x, m)) = Len(x)
      BY <1>2, MovedTyped
    <3> QED BY <3>1, <2>1, EmptySeq
  <2> QED BY <2>1, <2>2, <1>1
<1>4. CASE Simple[c] \notin Dropped
  <2>1. x = <<[ch |-> Simple[c], at |-> n]>> /\ y = <<[ch |-> Simple[c], at |-> k]>>
    BY <1>1, <1>4 DEF One
  <2>2. /\ Len(x) = 1 /\ Len(y) = 1 /\ x[1].ch = y[1].ch /\ x[1].at = n /\ y[1].at = k
    BY <2>1
  <2>3. PICK z : z = Moved(x, m)
    OBVIOUS
  <2>4. /\ z \in Seq(Places(Nat)) /\ Len(z) = Len(x)
        /\ \A i \in 1..Len(x) : z[i].ch = x[i].ch /\ z[i].at = m[x[i].at]
    BY <1>2, <2>3, MovedTyped
  <2>5. \A i \in 1..Len(z) : i = 1 /\ z[i].ch = y[i].ch /\ z[i].at = y[i].at
    BY <1>1, <2>2, <2>4
  <2>6. z = y
    BY <1>2, <2>2, <2>4, <2>5, PlacesEqual
  <2> QED BY <2>3, <2>6, <1>1
<1> QED BY <1>3, <1>4

\* The pieces of Kept.
Pieces(w, n) ==
    [i \in 1..Len(w) |-> IF Simple[w[i]] \in Dropped THEN <<>>
                         ELSE <<[ch |-> Simple[w[i]], at |-> Min({i, n})]>>]

\* What one more character adds.
LEMMA KeptMore ==
    ASSUME NEW w \in Seq(Chars), NEW c \in Chars, NEW n \in Nat, NEW k,
           k = Min({Len(w) + 1, n})
    PROVE  Kept(Append(w, c), n) = Kept(w, n) \o One(c, k) /\ k \in Nat
<1>1. PICK l \in Nat : l = Len(w)
  OBVIOUS
<1>2. PICK v : v = Append(w, c)
  OBVIOUS
<1>3. /\ v \in Seq(Chars) /\ Len(v) = l + 1 /\ v[l + 1] = c
      /\ \A i \in 1..l : v[i] = w[i]
  BY <1>1, <1>2
<1>4. \A i \in Nat : Min({i, n}) \in Nat
  BY SmallerOf
<1>5. k \in Nat
  BY <1>1, <1>4
<1>6. PICK q, r, o : q = Pieces(w, n) /\ r = Pieces(v, n) /\ o = One(c, k)
  OBVIOUS
<1>7. o \in Seq(Places(Nat))
  BY <1>5, <1>6, OneTyped
<1>8. ASSUME NEW i \in 1..l PROVE q[i] = r[i] /\ r[i] \in Seq(Places(Nat))
  <2>1. PICK z, P : z = [ch |-> Simple[w[i]], at |-> Min({i, n})] /\ P = Places(Nat)
    OBVIOUS
  <2>2. q[i] = IF Simple[w[i]] \in Dropped THEN <<>> ELSE <<z>>
    BY <1>1, <1>6, <2>1 DEF Pieces
  <2>3. i \in 1..Len(v) /\ v[i] = w[i]
    BY <1>3
  <2>4. r[i] = IF Simple[w[i]] \in Dropped THEN <<>> ELSE <<z>>
    BY <1>6, <2>1, <2>3 DEF Pieces
  <2>5. z \in P
    <3>1. w[i] \in Chars
      BY <1>1
    <3>2. Simple[w[i]] \in Chars
      BY <3>1, WordCheckAssumption
    <3>3. Min({i, n}) \in Nat
      BY <1>4
    <3> QED BY <2>1, <3>2, <3>3 DEF Places
  <2>6. <<z>> \in Seq(P) /\ <<>> \in Seq(P)
    BY <2>5
  <2> QED BY <2>1, <2>2, <2>4, <2>6
<1>9. r[l + 1] = o
  <2>1. l + 1 \in 1..Len(v)
    BY <1>3
  <2> QED BY <2>1, <1>1, <1>3, <1>6 DEF Pieces, One
<1>10. q \in Seq(Seq(Places(Nat))) /\ Len(q) = l
  <2>1. q = [i \in 1..l |-> q[i]]
    BY <1>1, <1>6 DEF Pieces
  <2>2. q \in [1..l -> Seq(Places(Nat))]
    BY <2>1, <1>8
  <2> QED BY <2>2, SeqFromFunction
<1>11. r = Append(q, o)
  <2>1. PICK a : a = Append(q, o)
    OBVIOUS
  <2>2. /\ a \in Seq(Seq(Places(Nat))) /\ Len(a) = l + 1 /\ a[l + 1] = o
        /\ \A i \in 1..l : a[i] = q[i]
    BY <2>1, <1>7, <1>10, AppendProperties
  <2>3. \A i \in 1..(l + 1) : r[i] = a[i]
    <3>1. \A i \in 1..(l + 1) : i = l + 1 \/ i \in 1..l
      OBVIOUS
    <3> QED BY <3>1, <2>2, <1>8, <1>9
  <2>4. r \in Seq(Seq(Places(Nat))) /\ Len(r) = l + 1
    <3>1. r = [i \in 1..(l + 1) |-> r[i]]
      BY <1>3, <1>6 DEF Pieces
    <3>2. \A i \in 1..(l + 1) : a[i] \in Seq(Places(Nat))
      BY <2>2
    <3>3. r \in [1..(l + 1) -> Seq(Places(Nat))] /\ l + 1 \in Nat
      BY <3>1, <3>2, <2>3
    <3> QED BY <3>3, SeqFromFunction
  <2>5. r = a
    BY <2>2, <2>3, <2>4, SeqEqual
  <2> QED BY <2>1, <2>5
<1>12. Kept(w, n) = FlattenSeq(q) /\ Kept(Append(w, c), n) = FlattenSeq(r)
  <2>1. Kept(w, n) = FlattenSeq(Pieces(w, n))
    BY Zenon DEF Kept, Pieces
  <2>2. Kept(v, n) = FlattenSeq(Pieces(v, n))
    BY Zenon DEF Kept, Pieces
  <2> QED BY <2>1, <2>2, <1>2, <1>6
<1>13. FlattenSeq(Append(q, o)) = FlattenSeq(q) \o o
  BY <1>7, <1>10, FlattenAppend
<1> QED BY <1>5, <1>6, <1>11, <1>12, <1>13

\* No place is cut off when the original ends where the text ends.
Whole(w) == Kept(w, Len(w))

\* Or later.
LEMMA KeptAll ==
    ASSUME NEW w \in Seq(Chars), NEW n \in Nat, Len(w) <= n
    PROVE  Kept(w, n) = Whole(w)
<1>1. PICK l \in Nat : l = Len(w)
  OBVIOUS
<1>2. \A i \in 1..l : Min({i, n}) = i /\ Min({i, l}) = i
  BY <1>1, SmallerOf
<1>3. Pieces(w, n) = Pieces(w, l)
  BY <1>1, <1>2 DEF Pieces
<1>4. \A k : Kept(w, k) = FlattenSeq(Pieces(w, k))
  BY Zenon DEF Kept, Pieces
<1> QED BY <1>1, <1>3, <1>4 DEF Whole

\* So one more character stands at its own place.
LEMMA WholeMore ==
    ASSUME NEW w \in Seq(Chars), NEW c \in Chars
    PROVE  Whole(Append(w, c)) = Whole(w) \o One(c, Len(w) + 1)
<1>1. PICK n \in Nat : n = Len(w) + 1
  OBVIOUS
<1>2. Len(Append(w, c)) = n /\ Len(w) <= n
  BY <1>1
<1>3. Min({Len(w) + 1, n}) = n
  BY <1>1, SmallerOf
<1>4. Kept(Append(w, c), n) = Kept(w, n) \o One(c, n)
  BY <1>3, KeptMore
<1>5. Kept(w, n) = Whole(w)
  BY <1>2, KeptAll
<1> QED BY <1>1, <1>2, <1>4, <1>5 DEF Whole

\* The places are those of the text, and natural numbers.
LEMMA WholePlaces ==
    ASSUME NEW w \in Seq(Chars)
    PROVE  Whole(w) \in Seq(Places(1..Len(w))) /\ Whole(w) \in Seq(Places(Nat))
<1>1. PICK n \in Nat : n = Len(w)
  OBVIOUS
<1>2. w # <<>> => n # 0
  BY <1>1, EmptySeq
<1>3. Whole(w) \in Seq(Places(1..n))
  BY <1>1, <1>2, KeptTyped DEF Whole
<1>4. Places(1..n) \subseteq Places(Nat)
  BY DEF Places
<1> QED BY <1>1, <1>3, <1>4, SeqMonotonic

\* Nothing is left of nothing ...
LEMMA KeptNothing ==
    ASSUME NEW n \in Nat
    PROVE  Kept(<<>>, n) = <<>> /\ Whole(<<>>) = <<>>
<1>1. <<>> \in Seq(Chars) /\ Len(<<>>) = 0
  OBVIOUS
<1>2. PICK x : x = Whole(<<>>)
  OBVIOUS
<1>3. x \in Seq(Places(1..0))
  BY <1>1, <1>2, WholePlaces
<1>4. Places(1..0) = {}
  <2>1. 1..0 = {}
    OBVIOUS
  <2> QED BY <2>1 DEF Places
<1>5. x \in Seq({})
  BY <1>3, <1>4
<1>6. Len(x) = 0
  <2>1. Len(x) \in Nat /\ \A i \in 1..Len(x) : x[i] \in {}
    BY <1>5
  <2>2. Len(x) # 0 => 1 \in 1..Len(x)
    BY <2>1
  <2> QED BY <2>1, <2>2
<1>7. x = <<>>
  BY <1>5, <1>6, EmptySeq
<1>8. Kept(<<>>, n) = Whole(<<>>)
  <2>1. Len(<<>>) <= n
    BY <1>1
  <2> QED BY <1>1, <2>1, KeptAll
<1> QED BY <1>2, <1>7, <1>8

\* ... and nothing stays nothing wherever it is moved.
LEMMA MovedNothing ==
    ASSUME NEW m, Move(m)
    PROVE  Moved(<<>>, m) = <<>>
<1>1. <<>> \in Seq(Places(Nat)) /\ Len(<<>>) = 0
  OBVIOUS
<1>2. Moved(<<>>, m) \in Seq(Places(Nat)) /\ Len(Moved(<<>>, m)) = 0
  BY <1>1, MovedTyped
<1> QED BY <1>2, EmptySeq

\* One more character is cut off as those before it.
LEMMA KeptCutMore ==
    ASSUME NEW f \in Seq(Chars), NEW c \in Chars, NEW n \in Nat,
           Kept(f, n) = Moved(Whole(f), UpTo(n))
    PROVE  Kept(Append(f, c), n) = Moved(Whole(Append(f, c)), UpTo(n))
<1>1. PICK l \in Nat : l = Len(f) + 1
  OBVIOUS
<1>2. PICK e : e = Min({l, n})
  OBVIOUS
<1>3. PICK m : m = UpTo(n) /\ Move(m) /\ m[l] = e
  <2>1. UpTo(n)[l] = e
    BY <1>2 DEF UpTo
  <2>2. Move(UpTo(n))
    BY MovesAre
  <2> QED BY <2>1, <2>2
<1>4. PICK a, b, x, y : /\ a = Whole(f) /\ b = Kept(f, n)
                        /\ x = One(c, l) /\ y = One(c, e)
  OBVIOUS
<1>5. a \in Seq(Places(Nat)) /\ x \in Seq(Places(Nat))
  BY <1>4, WholePlaces, OneTyped
<1>6. Kept(Append(f, c), n) = b \o y
  <2>1. e = Min({Len(f) + 1, n})
    BY <1>1, <1>2
  <2> QED BY <2>1, <1>4, KeptMore
<1>7. Whole(Append(f, c)) = a \o x
  BY <1>1, <1>4, WholeMore
<1>8. Moved(x, m) = y
  BY <1>3, <1>4, OneMoved
<1>9. Moved(a \o x, m) = Moved(a, m) \o Moved(x, m)
  BY <1>3, <1>5, MovedJoin
<1>10. b = Moved(a, m)
  BY <1>3, <1>4
<1> QED BY <1>3, <1>6, <1>7, <1>8, <1>9, <1>10

\* By induction on its length: what an original that ends at n leaves of a text is
\* the whole of it with the places cut off.
LEMMA KeptCut ==
    ASSUME NEW w \in Seq(Chars), NEW n \in Nat
    PROVE  Kept(w, n) = Moved(Whole(w), UpTo(n))
<1> DEFINE Odd(r) == Kept(r, n) # Moved(Whole(r), UpTo(n))
<1> DEFINE Wrong(k) == \E r \in Seq(Chars) : Len(r) = k /\ Odd(r)
<1> DEFINE Bad == {k \in Nat : Wrong(k)}
<1> SUFFICES ASSUME Bad # {} PROVE FALSE
  <2>1. Len(w) \in Nat
    OBVIOUS
  <2> QED BY <2>1
<1>1. PICK k \in Bad : \A l \in Bad : k <= l
  <2>1. Bad \subseteq Nat
    OBVIOUS
  <2> HIDE DEF Bad
  <2> QED BY <2>1, LeastNumber
<1>2. k \in Nat /\ Wrong(k)
  OBVIOUS
<1>3. PICK r \in Seq(Chars) : Len(r) = k /\ Odd(r)
  BY <1>2
<1>m. Move(UpTo(n)) /\ \A a \in Nat : UpTo(n)[a] = Min({a, n})
  BY MovesAre DEF UpTo
<1>4. CASE r = <<>>
  BY <1>3, <1>4, <1>m, KeptNothing, MovedNothing
<1>5. CASE r # <<>>
  <2>1. PICK f \in Seq(Chars), c \in Chars : Len(f) = k - 1 /\ r = Append(f, c)
    <3>1. /\ Front(r) \in Seq(Chars) /\ Last(r) \in Chars
          /\ Len(Front(r)) = k - 1 /\ r = Append(Front(r), Last(r))
      BY <1>3, <1>5, FrontAndLast
    <3> QED BY <3>1
  <2>2. k # 0 /\ k - 1 \in Nat /\ ~(k <= k - 1)
    BY <1>2, <1>3, <1>5, EmptySeq
  <2>3. ~Odd(f)
    <3>1. k - 1 \notin Bad
      <4> HIDE DEF Bad
      <4> QED BY <2>2, <1>1
    <3> QED BY <3>1, <2>1, <2>2
  <2>4. Kept(f, n) = Moved(Whole(f), UpTo(n))
    BY <2>3
  <2>5. Kept(r, n) = Moved(Whole(r), UpTo(n))
    <3> HIDE DEF Bad, Odd, Wrong
    <3> QED BY <2>1, <2>4, KeptCutMore
  <2> QED BY <2>5, <1>3
<1> QED BY <1>4, <1>5

\* A text after another one is kept as if it were alone, only later.
LEMMA WholeJoinMore ==
    ASSUME NEW u \in Seq(Chars), NEW v \in Seq(Chars), NEW c \in Chars,
           Whole(u \o v) = Whole(u) \o Moved(Whole(v), By(Len(u)))
    PROVE  Whole(u \o Append(v, c)) = Whole(u) \o Moved(Whole(Append(v, c)), By(Len(u)))
<1>1. PICK d \in Nat, n \in Nat : d = Len(u) /\ n = Len(v)
  OBVIOUS
<1>2. /\ u \o v \in Seq(Chars) /\ Len(u \o v) = d + n
      /\ u \o Append(v, c) = Append(u \o v, c)
  <2>1. u \o v \in Seq(Chars) /\ Len(u \o v) = Len(u) + Len(v)
    BY ConcatProperties
  <2>2. u \o Append(v, c) = Append(u \o v, c)
    BY JoinOneMore
  <2> QED BY <2>1, <2>2, <1>1
<1>3. PICK m : Move(m) /\ m = By(d) /\ \A a \in Nat : m[a] = a + d
  BY MovesAre
<1>4. PICK a, b, x : a = Whole(u) /\ b = Whole(v) /\ x = One(c, n + 1)
  OBVIOUS
<1>5. a \in Seq(Places(Nat)) /\ b \in Seq(Places(Nat)) /\ x \in Seq(Places(Nat))
  BY <1>4, WholePlaces, OneTyped
<1>6. Whole(Append(u \o v, c)) = Whole(u \o v) \o One(c, d + n + 1)
  BY <1>2, WholeMore
<1>7. Whole(Append(v, c)) = b \o x
  BY <1>1, <1>4, WholeMore
<1>8. Moved(x, m) = One(c, d + n + 1)
  <2>1. n + 1 \in Nat /\ m[n + 1] = d + n + 1
    BY <1>3
  <2>2. Moved(One(c, n + 1), m) = One(c, m[n + 1])
    BY <2>1, <1>3, OneMoved
  <2> QED BY <2>1, <2>2, <1>4
<1>9. Moved(b \o x, m) = Moved(b, m) \o Moved(x, m)
  BY <1>3, <1>5, MovedJoin
<1>10. (a \o Moved(b, m)) \o Moved(x, m) = a \o (Moved(b, m) \o Moved(x, m))
  <2>1. Moved(b, m) \in Seq(Places(Nat)) /\ Moved(x, m) \in Seq(Places(Nat))
    BY <1>3, <1>5, MovedTyped
  <2>2. PICK e, f : e = Moved(b, m) /\ f = Moved(x, m)
    OBVIOUS
  <2>3. e \in Seq(Places(Nat)) /\ f \in Seq(Places(Nat)) /\ a \in Seq(Places(Nat))
    BY <2>1, <2>2, <1>5
  <2>4. (a \o e) \o f = a \o (e \o f)
    BY <2>3, JoinPlaces
  <2> QED BY <2>2, <2>4
<1>11. Whole(u \o v) = a \o Moved(b, m)
  BY <1>1, <1>3, <1>4
<1> QED BY <1>1, <1>2, <1>3, <1>4, <1>6, <1>7, <1>8, <1>9, <1>10, <1>11

\* By induction on its length, any text after another.
LEMMA WholeJoin ==
    ASSUME NEW u \in Seq(Chars), NEW v \in Seq(Chars)
    PROVE  Whole(u \o v) = Whole(u) \o Moved(Whole(v), By(Len(u)))
<1> DEFINE Odd(r) == Whole(u \o r) # Whole(u) \o Moved(Whole(r), By(Len(u)))
<1> DEFINE Wrong(n) == \E r \in Seq(Chars) : Len(r) = n /\ Odd(r)
<1> DEFINE Bad == {n \in Nat : Wrong(n)}
<1> SUFFICES ASSUME Bad # {} PROVE FALSE
  <2>1. Len(v) \in Nat
    OBVIOUS
  <2> QED BY <2>1
<1>1. PICK n \in Bad : \A m \in Bad : n <= m
  <2>1. Bad \subseteq Nat
    OBVIOUS
  <2> HIDE DEF Bad
  <2> QED BY <2>1, LeastNumber
<1>2. n \in Nat /\ Wrong(n)
  OBVIOUS
<1>3. PICK r \in Seq(Chars) : Len(r) = n /\ Odd(r)
  BY <1>2
<1>4. CASE r = <<>>
  <2>1. u \o <<>> = u
    BY ConcatEmptySeq
  <2>2. Len(u) \in Nat /\ Whole(u) \in Seq(Places(Nat))
    BY WholePlaces
  <2>3. Moved(Whole(<<>>), By(Len(u))) = <<>>
    <3>1. Move(By(Len(u)))
      BY <2>2, MovesAre
    <3>2. Whole(<<>>) = <<>>
      BY <2>2, KeptNothing
    <3> QED BY <3>1, <3>2, MovedNothing
  <2>4. Whole(u) \o <<>> = Whole(u)
    BY <2>2, ConcatEmptySeq
  <2> QED BY <2>1, <2>3, <2>4, <1>3, <1>4
<1>5. CASE r # <<>>
  <2>1. PICK f \in Seq(Chars), c \in Chars : Len(f) = n - 1 /\ r = Append(f, c)
    <3>1. /\ Front(r) \in Seq(Chars) /\ Last(r) \in Chars
          /\ Len(Front(r)) = n - 1 /\ r = Append(Front(r), Last(r))
      BY <1>3, <1>5, FrontAndLast
    <3> QED BY <3>1
  <2>2. n # 0 /\ n - 1 \in Nat /\ ~(n <= n - 1)
    BY <1>2, <1>3, <1>5, EmptySeq
  <2>3. ~Odd(f)
    <3>1. n - 1 \notin Bad
      <4> HIDE DEF Bad
      <4> QED BY <2>2, <1>1
    <3> QED BY <3>1, <2>1, <2>2
  <2>4. Whole(u \o f) = Whole(u) \o Moved(Whole(f), By(Len(u)))
    BY <2>3
  <2>5. Whole(u \o r) = Whole(u) \o Moved(Whole(r), By(Len(u)))
    <3> HIDE DEF Bad, Odd, Wrong
    <3> QED BY <2>1, <2>4, WholeJoinMore
  <2> QED BY <2>5, <1>3
<1> QED BY <1>4, <1>5

\* Only the first character that is left can be the first of the text.
LEMMA FirstPlace ==
    ASSUME NEW v \in Seq(Chars), NEW m \in 1..Len(Whole(v)), Whole(v)[m].at = 1
    PROVE  m = 1
<1>1. v # <<>>
  <2> SUFFICES ASSUME v = <<>> PROVE FALSE
    OBVIOUS
  <2>1. 0 \in Nat
    OBVIOUS
  <2>2. Whole(v) = <<>> /\ Len(Whole(v)) = 0
    BY <2>1, KeptNothing
  <2> QED BY <2>2
<1>2. Len(v) \in Nat \ {0}
  BY <1>1, EmptySeq
<1>3. PICK c, w : c = v[1] /\ w = SubSeq(v, 2, Len(v))
  OBVIOUS
<1>4. PICK o : o = <<c>>
  OBVIOUS
<1>5. /\ c \in Chars
      /\ w \in Seq(Chars) /\ Len(w) = Len(v) - 1 /\ \A i \in 1..(Len(v) - 1) : w[i] = v[i + 1]
  <2>1. 1 \in 1..Len(v)
    BY <1>2
  <2>2. c \in Chars
    BY <2>1, <1>3, ElementOfSeq
  <2>3. 2 \in 1..(Len(v) + 1) /\ Len(v) \in (2 - 1)..Len(v)
    BY <1>2
  <2>4. /\ w \in Seq(Chars) /\ Len(w) = Len(v) - 2 + 1
        /\ \A i \in 1..(Len(v) - 2 + 1) : w[i] = v[2 + i - 1]
    BY <2>3, <1>3, PartIs
  <2>5. Len(v) - 2 + 1 = Len(v) - 1 /\ \A i \in 1..(Len(v) - 1) : 2 + i - 1 = i + 1
    BY <1>2
  <2> QED BY <2>2, <2>4, <2>5
<1>6. o \in Seq(Chars) /\ Len(o) = 1 /\ o[1] = c /\ o = Append(<<>>, c)
  BY <1>4, <1>5
<1>7. v = o \o w
  <2>1. SubSeq(v, 1, 1) \o SubSeq(v, 1 + 1, Len(v)) = SubSeq(v, 1, Len(v))
    <3>1. 1 \in 1..(Len(v) + 1) /\ 1 \in (1 - 1)..Len(v) /\ Len(v) \in 1..Len(v)
      BY <1>2
    <3> QED BY <3>1, ConcatAdjacentSubSeq
  <2>2. SubSeq(v, 1, Len(v)) = v
    BY SubSeqFull
  <2>3. SubSeq(v, 1, 1) = o
    <3>1. 1 \in 0..Len(v)
      BY <1>2
    <3>2. /\ SubSeq(v, 1, 1) \in Seq(Chars) /\ Len(SubSeq(v, 1, 1)) = 1
          /\ \A i \in 1..1 : SubSeq(v, 1, 1)[i] = v[i]
      BY <3>1, FirstLetters
    <3>3. \A i \in 1..Len(o) : i = 1 /\ o[i] = v[i]
      BY <1>3, <1>6
    <3> QED BY <3>2, <3>3, <1>6, SeqEqual
  <2>4. 1 + 1 = 2
    OBVIOUS
  <2> QED BY <2>1, <2>2, <2>3, <2>4, <1>3
<1>8. PICK x, y : x = Whole(o) /\ y = Whole(w)
  OBVIOUS
<1>9. Whole(v) = x \o Moved(y, By(1))
  <2>1. Whole(o \o w) = Whole(o) \o Moved(Whole(w), By(Len(o)))
    BY <1>5, <1>6, WholeJoin
  <2>2. Len(o) = 1
    BY <1>6
  <2> QED BY <2>1, <2>2, <1>7, <1>8
<1>10. x \in Seq(Places(Nat)) /\ Len(x) \in 0..1
  <2>1. <<>> \in Seq(Chars) /\ Len(<<>>) = 0 /\ 0 \in Nat
    OBVIOUS
  <2>2. Whole(Append(<<>>, c)) = Whole(<<>>) \o One(c, 0 + 1)
    BY <2>1, <1>5, WholeMore
  <2>3. One(c, 0 + 1) \in Seq(Places(Nat)) /\ Len(One(c, 0 + 1)) \in 0..1
    BY <1>5, OneTyped
  <2>4. <<>> \o One(c, 0 + 1) = One(c, 0 + 1)
    BY <2>3, ConcatEmptySeq
  <2>5. Whole(<<>>) = <<>>
    BY <2>1, KeptNothing
  <2> QED BY <2>2, <2>3, <2>4, <2>5, <1>6, <1>8
<1>11. y \in Seq(Places(1..Len(w))) /\ y \in Seq(Places(Nat))
  BY <1>5, <1>8, WholePlaces
<1>12. PICK z : z = Moved(y, By(1))
  OBVIOUS
<1>13. \A n \in 1..Len(y) : y[n].at \in Nat /\ y[n].at >= 1
  <2>1. \A n \in 1..Len(y) : y[n] \in Places(1..Len(w))
    BY <1>11
  <2>2. \A n \in 1..Len(y) : y[n].at \in 1..Len(w)
    BY <2>1 DEF Places
  <2> QED BY <2>2
<1>14. /\ z \in Seq(Places(Nat)) /\ Len(z) = Len(y)
       /\ \A n \in 1..Len(y) : z[n].at = y[n].at + 1
  <2>1. 1 \in Nat /\ Move(By(1)) /\ \A a \in Nat : By(1)[a] = a + 1
    BY MovesAre
  <2>2. /\ z \in Seq(Places(Nat)) /\ Len(z) = Len(y)
        /\ \A n \in 1..Len(y) : z[n].at = By(1)[y[n].at]
    BY <2>1, <1>11, <1>12, MovedTyped
  <2> QED BY <2>1, <2>2, <1>13
<1> SUFFICES ASSUME m # 1 PROVE FALSE
  OBVIOUS
<1>15. PICK n : n = m - Len(x)
  OBVIOUS
<1>16. /\ Len(Whole(v)) = Len(x) + Len(z)
       /\ \A i \in 1..Len(z) : Whole(v)[Len(x) + i] = z[i]
  <2>1. x \in Seq(Places(Nat)) /\ z \in Seq(Places(Nat)) /\ Whole(v) = x \o z
    BY <1>9, <1>10, <1>12, <1>14
  <2> QED BY <2>1, ConcatProperties
<1>17. n \in 1..Len(z) /\ m = Len(x) + n
  <2>1. Len(z) \in Nat /\ Len(x) \in 0..1 /\ m \in 1..(Len(x) + Len(z))
    BY <1>10, <1>14, <1>16
  <2>2. PICK k \in Nat, l \in 0..1 : k = Len(z) /\ l = Len(x)
    BY <2>1
  <2>3. m \in 1..(l + k) /\ n = m - l
    BY <2>1, <2>2, <1>15
  <2>4. m > l
    BY <2>3
  <2>5. n \in 1..k /\ m = l + n
    BY <2>3, <2>4
  <2> QED BY <2>2, <2>5
<1>18. Whole(v)[m] = z[n]
  BY <1>16, <1>17
<1>19. z[n].at = y[n].at + 1 /\ y[n].at >= 1 /\ y[n].at \in Nat
  BY <1>13, <1>14, <1>17
<1> QED BY <1>18, <1>19

\* From a character on, the whole text gives what the text from its place on gives.
LEMMA WholeFrom ==
    ASSUME NEW t \in Seq(Chars), NEW a \in 1..Len(Whole(t)), NEW p,
           p = Whole(t)[a].at
    PROVE  /\ p \in 1..Len(t) /\ SubSeq(t, p, Len(t)) \in Seq(Chars)
           /\ \E x \in Seq(Places(Nat)) :
                /\ Len(x) = a - 1
                /\ Whole(t) = x \o Moved(Whole(SubSeq(t, p, Len(t))), By(p - 1))
<1>1. PICK s : s = Whole(t)
  OBVIOUS
<1>2. s \in Seq(Places(1..Len(t))) /\ s \in Seq(Places(Nat)) /\ Len(t) \in Nat
  BY <1>1, WholePlaces
<1>3. p \in 1..Len(t) /\ a \in 1..Len(s) /\ p = s[a].at
  <2>1. s[a] \in Places(1..Len(t))
    BY <1>1, <1>2
  <2> QED BY <2>1, <1>1 DEF Places
<1>4. PICK u, v : u = SubSeq(t, 1, p - 1) /\ v = SubSeq(t, p, Len(t))
  OBVIOUS
<1>5. /\ u \in Seq(Chars) /\ Len(u) = p - 1 /\ \A i \in 1..(p - 1) : u[i] = t[i]
      /\ v \in Seq(Chars) /\ Len(v) = Len(t) - p + 1
      /\ \A i \in 1..(Len(t) - p + 1) : v[i] = t[p + i - 1]
  <2>1. p - 1 \in 0..Len(t) /\ p \in 1..(Len(t) + 1) /\ Len(t) \in (p - 1)..Len(t)
    BY <1>2, <1>3
  <2>2. u \in Seq(Chars) /\ Len(u) = p - 1 /\ \A i \in 1..(p - 1) : u[i] = t[i]
    BY <2>1, <1>4, FirstLetters
  <2>3. /\ v \in Seq(Chars) /\ Len(v) = Len(t) - p + 1
        /\ \A i \in 1..(Len(t) - p + 1) : v[i] = t[p + i - 1]
    <3>1. p \in 1..(Len(t) + 1) /\ Len(t) \in (p - 1)..Len(t)
      BY <2>1
    <3>2. /\ SubSeq(t, p, Len(t)) \in Seq(Chars) /\ Len(SubSeq(t, p, Len(t))) = Len(t) - p + 1
          /\ \A i \in 1..(Len(t) - p + 1) : SubSeq(t, p, Len(t))[i] = t[p + i - 1]
      BY <3>1, PartIs
    <3> QED BY <3>2, <1>4
  <2> QED BY <2>2, <2>3
<1>6. t = u \o v
  <2>1. PICK k \in Int : k = p - 1
    BY <1>3
  <2>2. 1 \in 1..(Len(t) + 1) /\ k \in (1 - 1)..Len(t) /\ Len(t) \in k..Len(t) /\ k + 1 = p
    BY <1>2, <1>3, <2>1
  <2>3. SubSeq(t, 1, k) \o SubSeq(t, k + 1, Len(t)) = SubSeq(t, 1, Len(t))
    BY <2>2, ConcatAdjacentSubSeq
  <2>4. SubSeq(t, 1, Len(t)) = t
    BY SubSeqFull
  <2> QED BY <2>1, <2>2, <2>3, <2>4, <1>4
<1>8. PICK x, y : x = Whole(u) /\ y = Moved(Whole(v), By(p - 1))
  OBVIOUS
<1>9. s = x \o y
  BY <1>1, <1>5, <1>6, <1>8, WholeJoin
<1>10. /\ x \in Seq(Places(1..(p - 1))) /\ x \in Seq(Places(Nat)) /\ Len(x) \in Nat
       /\ Whole(v) \in Seq(Places(Nat))
  <2>1. x \in Seq(Places(1..Len(u)))
    BY <1>5, <1>8, WholePlaces
  <2> QED BY <2>1, <1>5, <1>8, WholePlaces
<1>11. /\ y \in Seq(Places(Nat)) /\ Len(y) = Len(Whole(v)) /\ Len(y) \in Nat
       /\ \A n \in 1..Len(y) : y[n].at = Whole(v)[n].at + (p - 1)
  <2>1. p - 1 \in Nat
    BY <1>3
  <2>2. /\ y \in Seq(Places(Nat)) /\ Len(y) = Len(Whole(v))
        /\ \A n \in 1..Len(Whole(v)) : y[n].at = By(p - 1)[Whole(v)[n].at]
    <3>1. Move(By(p - 1))
      BY <2>1, MovesAre
    <3> QED BY <3>1, <1>8, <1>10, MovedTyped
  <2>3. \A n \in 1..Len(Whole(v)) : Whole(v)[n].at \in Nat
    <3>1. \A n \in 1..Len(Whole(v)) : Whole(v)[n] \in Places(Nat)
      BY <1>10
    <3> QED BY <3>1 DEF Places
  <2>4. \A a2 \in Nat : By(p - 1)[a2] = a2 + (p - 1)
    BY <2>1, MovesAre
  <2>5. Len(y) \in Nat
    BY <2>2
  <2> QED BY <2>2, <2>3, <2>4, <2>5
<1>12. /\ Len(s) = Len(x) + Len(y) /\ \A n \in 1..Len(x) : s[n] = x[n]
       /\ \A n \in 1..Len(y) : s[Len(x) + n] = y[n]
  <2>1. x \in Seq(Places(Nat)) /\ y \in Seq(Places(Nat))
    BY <1>10, <1>11
  <2> QED BY <2>1, <1>9
<1>13. a > Len(x)
  <2> SUFFICES ASSUME ~(a > Len(x)) PROVE FALSE
    OBVIOUS
  <2>1. a \in 1..Len(x) /\ s[a] = x[a]
    BY <1>3, <1>10, <1>12
  <2>2. x[a] \in Places(1..(p - 1))
    BY <2>1, <1>10
  <2>3. p \in 1..(p - 1)
    BY <2>1, <2>2, <1>3 DEF Places
  <2> QED BY <2>3, <1>3
<1>14. PICK m : m = a - Len(x)
  OBVIOUS
<1>15. m \in 1..Len(y) /\ a = Len(x) + m /\ y[m].at = p
  <2>1. m \in 1..Len(y) /\ a = Len(x) + m
    BY <1>3, <1>10, <1>11, <1>12, <1>13, <1>14
  <2> QED BY <2>1, <1>3, <1>12
<1>16. m = 1
  <2>1. Whole(v)[m].at = 1
    <3>1. Whole(v)[m] \in Places(Nat)
      BY <1>10, <1>11, <1>15
    <3>2. Whole(v)[m].at \in Nat
      BY <3>1 DEF Places
    <3>3. Whole(v)[m].at + (p - 1) = p
      BY <1>11, <1>15
    <3> QED BY <3>2, <3>3, <1>3
  <2>2. m \in 1..Len(Whole(v))
    BY <1>11, <1>15
  <2>3. v \in Seq(Chars)
    BY <1>5
  <2> QED BY <2>1, <2>2, <2>3, FirstPlace
<1>17. Len(x) = a - 1
  BY <1>10, <1>15, <1>16
<1> QED BY <1>1, <1>3, <1>4, <1>5, <1>8, <1>9, <1>10, <1>17
-----------------------------------------------------------------------------
(* Replacing in a text whose characters have moved                         *)

\* s is some text and after it r, moved by d.
Follows(s, x, r, d) ==
    /\ x \in Seq(Places(Nat)) /\ r \in Seq(Places(Nat)) /\ Move(d)
    /\ s = x \o Moved(r, d)

\* What stands where in such a text.
LEMMA FollowsIs ==
    ASSUME NEW s, NEW x, NEW r, NEW d, Follows(s, x, r, d)
    PROVE  /\ s \in Seq(Places(Nat)) /\ Len(s) = Len(x) + Len(r)
           /\ Len(x) \in Nat /\ Len(r) \in Nat
           /\ \A n \in 1..Len(r) : /\ s[Len(x) + n].ch = r[n].ch
                                   /\ s[Len(x) + n].at = d[r[n].at]
                                   /\ s[Len(x) + n] \in Places(Nat) /\ r[n] \in Places(Nat)
<1>1. PICK l : l = Moved(r, d)
  OBVIOUS
<1>2. x \in Seq(Places(Nat)) /\ r \in Seq(Places(Nat)) /\ Move(d) /\ s = x \o l
  BY <1>1 DEF Follows
<1>3. /\ l \in Seq(Places(Nat)) /\ Len(l) = Len(r)
      /\ \A n \in 1..Len(r) : l[n].ch = r[n].ch /\ l[n].at = d[r[n].at]
  BY <1>1, <1>2, MovedTyped
<1>4. /\ s \in Seq(Places(Nat)) /\ Len(s) = Len(x) + Len(l)
      /\ \A n \in 1..Len(l) : s[Len(x) + n] = l[n]
  <2>1. x \in Seq(Places(Nat)) /\ l \in Seq(Places(Nat)) /\ s = x \o l
    BY <1>2, <1>3
  <2> QED BY <2>1, ConcatProperties
<1>5. \A n \in 1..Len(r) : r[n] \in Places(Nat) /\ l[n] \in Places(Nat)
  <2>1. \A n \in 1..Len(r) : r[n] \in Places(Nat)
    BY <1>2
  <2>2. \A n \in 1..Len(l) : l[n] \in Places(Nat)
    BY <1>3
  <2> QED BY <2>1, <2>2, <1>3
<1>6. Len(x) \in Nat /\ Len(r) \in Nat
  BY <1>2
<1> QED BY <1>3, <1>4, <1>5, <1>6

\* The same keys fit in both.
LEMMA FittingFollows ==
    ASSUME NEW s, NEW x, NEW r, NEW d, Follows(s, x, r, d), NEW table, Table(table),
           NEW sure, NEW j \in 1..Len(r)
    PROVE  Fitting(s, table, sure, Len(x) + j) = Fitting(r, table, sure, j)
<1>1. PICK a \in Nat, m \in Nat, i \in Nat : a = Len(x) /\ m = Len(r) /\ i = a + j
  <2>1. Len(x) \in Nat /\ Len(r) \in Nat
    BY FollowsIs
  <2> QED BY <2>1
<1>2. /\ Len(s) = a + m /\ j \in 1..m /\ i = a + j
      /\ \A n \in 1..m : s[a + n].ch = r[n].ch
  <2>1. /\ Len(s) = Len(x) + Len(r)
        /\ \A n \in 1..Len(r) : s[Len(x) + n].ch = r[n].ch
    BY FollowsIs
  <2> QED BY <2>1, <1>1
<1>3. ASSUME NEW k \in DOMAIN table
      PROVE  k \in Fitting(s, table, sure, i) <=> k \in Fitting(r, table, sure, j)
  <2>1. PICK l \in Nat \ {0} : l = Len(k)
    <3>1. k \in Seq(Chars) \ {<<>>}
      BY <1>3 DEF Table
    <3> QED BY <3>1, EmptySeq
  <2>2. (i + l - 1 <= Len(s)) <=> (j + l - 1 <= Len(r))
    BY <1>1, <1>2, <2>1
  <2>3. ASSUME j + l - 1 <= Len(r), NEW o \in 1..l
        PROVE  s[i + o - 1].ch = r[j + o - 1].ch
    <3>1. j + o - 1 \in 1..m /\ a + (j + o - 1) = i + o - 1
      BY <1>1, <1>2, <2>1, <2>3
    <3> QED BY <3>1, <1>2
  <2>4. StartsAt(s, k, i) <=> StartsAt(r, k, j)
    BY <2>1, <2>2, <2>3 DEF StartsAt
  <2>5. (i + l > Len(s)) <=> (j + l > Len(r))
    BY <1>1, <1>2, <2>1
  <2>6. ~(j + l > Len(r)) => s[i + l].ch = r[j + l].ch
    <3> SUFFICES ASSUME ~(j + l > Len(r)) PROVE s[i + l].ch = r[j + l].ch
      OBVIOUS
    <3>1. j + l \in 1..m /\ a + (j + l) = i + l
      BY <1>1, <1>2, <2>1
    <3> QED BY <3>1, <1>2
  <2> QED BY <2>1, <2>4, <2>5, <2>6 DEF Fitting
<1>4. /\ Fitting(s, table, sure, i) \subseteq DOMAIN table
      /\ Fitting(r, table, sure, j) \subseteq DOMAIN table
  BY DEF Fitting
<1>5. Fitting(s, table, sure, i) = Fitting(r, table, sure, j)
  BY <1>3, <1>4
<1> QED BY <1>1, <1>5

\* What replaces a key moves with it.
LEMMA PlacedFollows ==
    ASSUME NEW s, NEW x, NEW r, NEW d, Follows(s, x, r, d), NEW j \in 1..Len(r),
           NEW new \in Seq(Chars), NEW k
    PROVE  /\ Placed(new, r, j, k) \in Seq(Places(Nat))
           /\ Placed(new, s, Len(x) + j, k) = Moved(Placed(new, r, j, k), d)
<1>1. PICK i : i = Len(x) + j
  OBVIOUS
<1>2. /\ s[i].at = d[r[j].at] /\ r[j].at \in Nat /\ s[i].at \in Nat
      /\ Len(new) \in Nat /\ Move(d)
  <2>1. s[i].at = d[r[j].at] /\ r[j] \in Places(Nat) /\ s[i] \in Places(Nat)
    BY <1>1, FollowsIs
  <2>2. r[j].at \in Nat /\ s[i].at \in Nat
    BY <2>1 DEF Places
  <2>3. Move(d)
    BY DEF Follows
  <2>4. Len(new) \in Nat
    OBVIOUS
  <2> QED BY <2>1, <2>2, <2>3, <2>4
<1>3. PICK y, z, l : y = Placed(new, r, j, k) /\ z = Placed(new, s, i, k) /\ l = Moved(y, d)
  OBVIOUS
<1>4. /\ y \in Seq(Places(Nat)) /\ Len(y) = Len(new)
      /\ \A n \in 1..Len(new) : y[n].ch = new[n] /\ y[n].at = r[j].at
  <2>1. y = [n \in 1..Len(new) |-> [ch |-> new[n], at |-> r[j].at]]
    BY <1>3 DEF Placed
  <2>2. \A n \in 1..Len(new) : new[n] \in Chars
    OBVIOUS
  <2>3. y \in [1..Len(new) -> Places(Nat)]
    BY <2>1, <2>2, <1>2 DEF Places
  <2>4. y \in Seq(Places(Nat)) /\ Len(y) = Len(new)
    <3>1. PICK P, m : P = Places(Nat) /\ m = Len(new)
      OBVIOUS
    <3>2. y \in [1..m -> P] /\ m \in Nat
      BY <3>1, <2>3, <1>2
    <3>3. y \in Seq(P) /\ Len(y) = m
      BY <3>2, SeqFromFunction
    <3> QED BY <3>1, <3>3
  <2> QED BY <2>1, <2>4
<1>5. /\ z \in Seq(Places(Nat)) /\ Len(z) = Len(new)
      /\ \A n \in 1..Len(new) : z[n].ch = new[n] /\ z[n].at = s[i].at
  <2>1. z = [n \in 1..Len(new) |-> [ch |-> new[n], at |-> s[i].at]]
    BY <1>3 DEF Placed
  <2>2. \A n \in 1..Len(new) : new[n] \in Chars
    OBVIOUS
  <2>3. z \in [1..Len(new) -> Places(Nat)]
    BY <2>1, <2>2, <1>2 DEF Places
  <2>4. z \in Seq(Places(Nat)) /\ Len(z) = Len(new)
    <3>1. PICK P, m : P = Places(Nat) /\ m = Len(new)
      OBVIOUS
    <3>2. z \in [1..m -> P] /\ m \in Nat
      BY <3>1, <2>3, <1>2
    <3>3. z \in Seq(P) /\ Len(z) = m
      BY <3>2, SeqFromFunction
    <3> QED BY <3>1, <3>3
  <2> QED BY <2>1, <2>4
<1>6. /\ l \in Seq(Places(Nat)) /\ Len(l) = Len(y)
      /\ \A n \in 1..Len(y) : l[n].ch = y[n].ch /\ l[n].at = d[y[n].at]
  BY <1>2, <1>3, <1>4, MovedTyped
<1>7. \A n \in 1..Len(z) : z[n].ch = l[n].ch /\ z[n].at = l[n].at
  BY <1>2, <1>4, <1>5, <1>6, SMTT(30)
<1>8. z = l
  BY <1>4, <1>5, <1>6, <1>7, PlacesEqual
<1> QED BY <1>1, <1>3, <1>4, <1>8

\* So does a character that is not replaced.
LEMMA OneFollows ==
    ASSUME NEW s, NEW x, NEW r, NEW d, Follows(s, x, r, d), NEW j \in 1..Len(r)
    PROVE  <<r[j]>> \in Seq(Places(Nat)) /\ <<s[Len(x) + j]>> = Moved(<<r[j]>>, d)
<1>1. PICK a, b, y : a = r[j] /\ b = s[Len(x) + j] /\ y = <<a>>
  OBVIOUS
<1>2. /\ b.ch = a.ch /\ b.at = d[a.at] /\ a \in Places(Nat) /\ b \in Places(Nat)
      /\ Move(d)
  <2>1. Move(d)
    BY DEF Follows
  <2> QED BY <2>1, <1>1, FollowsIs
<1>3. y \in Seq(Places(Nat)) /\ Len(y) = 1 /\ y[1] = a
  BY <1>1, <1>2
<1>4. PICK l : l = Moved(y, d)
  OBVIOUS
<1>5. /\ l \in Seq(Places(Nat)) /\ Len(l) = 1
      /\ l[1].ch = b.ch /\ l[1].at = b.at
  <2>1. 1 \in 1..Len(y)
    BY <1>3
  <2>2. /\ l \in Seq(Places(Nat)) /\ Len(l) = Len(y)
        /\ l[1].ch = y[1].ch /\ l[1].at = d[y[1].at]
    BY <2>1, <1>2, <1>3, <1>4, MovedTyped
  <2> QED BY <2>2, <1>2, <1>3
<1>6. <<b>> \in Seq(Places(Nat)) /\ Len(<<b>>) = 1 /\ <<b>>[1] = b
  BY <1>2
<1>7. \A n \in 1..Len(l) : l[n].ch = <<b>>[n].ch /\ l[n].at = <<b>>[n].at
  <2>1. \A n \in 1..Len(l) : n = 1
    BY <1>5
  <2> QED BY <2>1, <1>5, <1>6
<1>8. l = <<b>>
  BY <1>5, <1>6, <1>7, PlacesEqual
<1> QED BY <1>1, <1>3, <1>4, <1>8

\* What a solution gives at one place.
LEMMA RestoresEnd ==
    ASSUME NEW s, Len(s) \in Nat, NEW table, NEW sure, NEW g,
           Restores(s, table, sure, 1, g)
    PROVE  g[Len(s) + 1] = <<>>
<1>1. Len(s) + 1 \in 1..(Len(s) + 1) /\ Len(s) + 1 > Len(s)
  OBVIOUS
<1> QED BY <1>1 DEF Restores

\* A character at which no key fits is kept.
LEMMA RestoresOne ==
    ASSUME NEW s, Len(s) \in Nat, NEW table, NEW sure, NEW g,
           Restores(s, table, sure, 1, g), NEW i \in 1..Len(s),
           Fitting(s, table, sure, i) = {}
    PROVE  g[i] = <<s[i]>> \o g[i + 1]
<1>1. i \in 1..(Len(s) + 1) /\ ~(i > Len(s))
  OBVIOUS
<1> QED BY <1>1 DEF Restores

\* Replacing in the text before it moves gives what replacing in the whole gives from
\* there on.
LEMMA RestoresFollow ==
    ASSUME NEW s, NEW x, NEW r, NEW d, Follows(s, x, r, d), NEW table, Table(table),
           NEW sure, NEW g, Restores(s, table, sure, 1, g),
           NEW f, Restores(r, table, sure, 1, f), NEW p \in 1..(Len(r) + 1)
    PROVE  f[p] \in Seq(Places(Nat)) /\ g[Len(x) + p] = Moved(f[p], d)
<1> DEFINE Same(j) == g[Len(x) + j] = Moved(f[j], d)
<1> DEFINE Bad == {j \in 1..(Len(r) + 1) : ~Same(j)}
<1>0. /\ Len(x) \in Nat /\ Len(r) \in Nat /\ Len(s) = Len(x) + Len(r)
      /\ r \in Seq(Places(Nat)) /\ Move(d)
  <2>1. Len(x) \in Nat /\ Len(r) \in Nat /\ Len(s) = Len(x) + Len(r)
    BY FollowsIs
  <2>2. r \in Seq(Places(Nat)) /\ Move(d)
    BY DEF Follows
  <2> QED BY <2>1, <2>2
<1>f. \A j \in 1..(Len(r) + 1) : f[j] \in Seq(Places(Nat))
  BY <1>0, RestoresTyped
<1> SUFFICES ASSUME Bad # {} PROVE FALSE
  BY <1>f
<1>1. PICK j \in Bad : \A l \in Bad : l <= j
  <2>1. Len(r) + 1 \in Nat /\ Bad \subseteq 0..(Len(r) + 1)
    BY <1>0
  <2> HIDE DEF Bad
  <2> QED BY <2>1, LargestNumber
<1>2. j \in 1..(Len(r) + 1) /\ ~Same(j)
  OBVIOUS
<1>3. ASSUME NEW l \in (j + 1)..(Len(r) + 1) PROVE Same(l)
  <2>1. l \in 1..(Len(r) + 1) /\ ~(l <= j)
    BY <1>0, <1>2
  <2>2. l \notin Bad
    <3> HIDE DEF Bad
    <3> QED BY <2>1, <1>1
  <2> QED BY <2>1, <2>2
<1>4. PICK i : i = Len(x) + j
  OBVIOUS
<1>5. i \in 1..(Len(s) + 1) /\ (i > Len(s) <=> j > Len(r))
  BY <1>0, <1>2, <1>4
<1> HIDE DEF Bad
<1>6. CASE j > Len(r)
  <2>1. j = Len(r) + 1 /\ i = Len(s) + 1
    BY <1>0, <1>2, <1>4, <1>6
  <2>2. f[j] = <<>> /\ g[i] = <<>>
    BY <2>1, <1>0, RestoresEnd
  <2>3. Moved(<<>>, d) = <<>>
    BY <1>0, MovedNothing
  <2> QED BY <2>2, <2>3, <1>2, <1>4
<1>7. CASE ~(j > Len(r))
  <2>1. j \in 1..Len(r)
    BY <1>0, <1>2, <1>7
  <2>i. i \in 1..Len(s)
    BY <1>0, <1>4, <2>1
  <2>n. Len(s) \in Nat /\ Len(r) \in Nat
    BY <1>0
  <2>2. PICK keys : keys = Fitting(r, table, sure, j)
    OBVIOUS
  <2>3. keys = Fitting(s, table, sure, i)
    BY <2>1, <2>2, <1>4, FittingFollows
  <2>4. CASE keys = {}
    <3>1. f[j] = <<r[j]>> \o f[j + 1] /\ g[i] = <<s[i]>> \o g[i + 1]
      <4>1. Fitting(r, table, sure, j) = {} /\ Fitting(s, table, sure, i) = {}
        BY <2>2, <2>3, <2>4
      <4>2. f[j] = <<r[j]>> \o f[j + 1]
        BY <4>1, <2>1, <2>n, RestoresOne
      <4>3. g[i] = <<s[i]>> \o g[i + 1]
        BY <4>1, <2>i, <2>n, RestoresOne
      <4> QED BY <4>2, <4>3
    <3>2. j + 1 \in (j + 1)..(Len(r) + 1) /\ j + 1 \in 1..(Len(r) + 1)
      BY <2>1, <1>0
    <3>3. g[i + 1] = Moved(f[j + 1], d)
      <4>1. i + 1 = Len(x) + (j + 1)
        BY <2>1, <1>0, <1>4
      <4>2. Same(j + 1)
        BY <3>2, <1>3
      <4> QED BY <4>1, <4>2
    <3>4. PICK o : o = <<r[j]>>
      OBVIOUS
    <3>5. o \in Seq(Places(Nat)) /\ <<s[i]>> = Moved(o, d)
      BY <2>1, <3>4, <1>4, OneFollows
    <3>6. Moved(o \o f[j + 1], d) = Moved(o, d) \o Moved(f[j + 1], d)
      <4>1. f[j + 1] \in Seq(Places(Nat))
        BY <3>2, <1>f
      <4> QED BY <4>1, <3>5, <1>0, MovedJoin
    <3> QED BY <3>1, <3>3, <3>4, <3>5, <3>6, <1>2, <1>4
  <2>5. CASE keys # {}
    <3>1. PICK k : k = Longest(keys)
      OBVIOUS
    <3>2. /\ k \in DOMAIN table /\ table[k] \in Seq(Chars)
          /\ Len(k) \in Nat /\ j + Len(k) \in (j + 1)..(Len(r) + 1)
      BY <2>1, <2>2, <2>5, <3>1, <1>0, LongestFits
    <3>3. PICK y, z : y = Placed(table[k], r, j, k) /\ z = Placed(table[k], s, i, k)
      OBVIOUS
    <3>4. f[j] = y \o f[j + Len(k)] /\ g[i] = z \o g[i + Len(k)]
      <4>1. f[j] = IF j > Len(r) THEN <<>>
                   ELSE IF keys = {} THEN <<r[j]>> \o f[j + 1]
                   ELSE Placed(table[k], r, j, k) \o f[j + Len(k)]
        BY <1>2, <2>2, <3>1 DEF Restores
      <4>2. g[i] = IF i > Len(s) THEN <<>>
                   ELSE IF keys = {} THEN <<s[i]>> \o g[i + 1]
                   ELSE Placed(table[k], s, i, k) \o g[i + Len(k)]
        BY <1>5, <2>3, <3>1 DEF Restores
      <4>3. ~(j > Len(r)) /\ ~(i > Len(s))
        BY <1>5, <1>7
      <4>4. f[j] = y \o f[j + Len(k)]
        BY <4>1, <4>3, <2>5, <3>3
      <4>5. g[i] = z \o g[i + Len(k)]
        BY <4>2, <4>3, <2>5, <3>3
      <4> QED BY <4>4, <4>5
    <3>5. g[i + Len(k)] = Moved(f[j + Len(k)], d)
      <4>1. i + Len(k) = Len(x) + (j + Len(k))
        BY <2>1, <3>2, <1>0, <1>4
      <4>2. Same(j + Len(k))
        BY <3>2, <1>3
      <4> QED BY <4>1, <4>2
    <3>6. y \in Seq(Places(Nat)) /\ z = Moved(y, d)
      BY <2>1, <3>2, <3>3, <1>4, PlacedFollows
    <3>7. Moved(y \o f[j + Len(k)], d) = Moved(y, d) \o Moved(f[j + Len(k)], d)
      <4>1. f[j + Len(k)] \in Seq(Places(Nat))
        <5>1. j + Len(k) \in 1..(Len(r) + 1)
          BY <2>1, <3>2
        <5> QED BY <5>1, <1>f
      <4> QED BY <4>1, <3>6, <1>0, MovedJoin
    <3> QED BY <3>4, <3>5, <3>6, <3>7, <1>2, <1>4
  <2> QED BY <2>4, <2>5
<1> QED BY <1>6, <1>7
-----------------------------------------------------------------------------
(* What one character became                                               *)

\* What is restored from place n on is pre and then what is restored from b on.
Reaches(g, n, b, pre) ==
    pre \in Seq(Places(Nat)) /\ g[n] = pre \o g[b]

\* A piece that stands next belongs to what comes before.
LEMMA ReachesMore ==
    ASSUME NEW g, NEW n, NEW b, NEW c, NEW pre, NEW y, Reaches(g, n, b, pre),
           y \in Seq(Places(Nat)), g[b] = y \o g[c], g[c] \in Seq(Places(Nat))
    PROVE  Reaches(g, n, c, pre \o y) /\ Len(pre \o y) = Len(pre) + Len(y)
<1>1. PICK r : r = g[c]
  OBVIOUS
<1>2. pre \in Seq(Places(Nat)) /\ y \in Seq(Places(Nat)) /\ r \in Seq(Places(Nat))
  BY <1>1 DEF Reaches
<1>3. pre \o (y \o r) = (pre \o y) \o r
  BY <1>2, JoinPlaces
<1>4. pre \o y \in Seq(Places(Nat)) /\ Len(pre \o y) = Len(pre) + Len(y)
  BY <1>2, ConcatProperties
<1>5. g[n] = pre \o (y \o r)
  BY <1>1 DEF Reaches
<1>6. g[n] = (pre \o y) \o g[c]
  BY <1>1, <1>3, <1>5
<1> QED BY <1>4, <1>6 DEF Reaches

\* So does a piece that stands in front.
LEMMA ReachesBefore ==
    ASSUME NEW g, NEW n, NEW b, NEW c, NEW mid, NEW y, Reaches(g, c, b, mid),
           y \in Seq(Places(Nat)), g[n] = y \o g[c], g[b] \in Seq(Places(Nat))
    PROVE  Reaches(g, n, b, y \o mid)
<1>1. PICK r : r = g[b]
  OBVIOUS
<1>2. mid \in Seq(Places(Nat)) /\ y \in Seq(Places(Nat)) /\ r \in Seq(Places(Nat))
  BY <1>1 DEF Reaches
<1>3. (y \o mid) \o r = y \o (mid \o r)
  BY <1>2, JoinPlaces
<1>4. y \o mid \in Seq(Places(Nat))
  BY <1>2, ConcatProperties
<1>5. g[n] = y \o (mid \o r)
  BY <1>1 DEF Reaches
<1>6. g[n] = (y \o mid) \o g[b]
  BY <1>1, <1>3, <1>5
<1> QED BY <1>4, <1>6 DEF Reaches

\* All the places of m are the place of one character and all but the last come
\* from the table.
OneSource(out, from, to, src, table) ==
    /\ \A m \in (from + 1)..to : out[m].at = src.at
    /\ \A m \in (from + 1)..(to - 1) :
         \E k \in DOMAIN table : \E j \in 1..Len(table[k]) : out[m].ch = table[k][j]

\* Every place of what is restored lies in what one place of the text became.
LEMMA RestoresCut ==
    ASSUME NEW s \in Seq(Places(Nat)), NEW table, Table(table), NEW sure, NEW g,
           Restores(s, table, sure, 1, g), NEW i \in 1..Len(g[1])
    PROVE  \E b \in 1..Len(s), pre \in Seq(Places(Nat)) :
             /\ g[1] = pre \o g[b] /\ Len(pre) < i
             /\ OneSource(g[1], Len(pre), i, s[b], table)
<1> DEFINE Near(b) == \E pre : Reaches(g, 1, b, pre) /\ Len(pre) < i
<1> DEFINE Reached == {b \in 1..Len(s) : Near(b)}
<1>l. PICK l \in Nat : l = Len(s)
  OBVIOUS
<1>f. \A n \in 1..(l + 1) : g[n] \in Seq(Places(Nat))
  BY <1>l, RestoresTyped
<1>g. g[1] \in Seq(Places(Nat)) /\ Len(g[1]) \in Nat /\ i \in 1..Len(g[1])
  <2>1. 1 \in 1..(l + 1)
    BY <1>l
  <2> QED BY <2>1, <1>f
<1>e. g[l + 1] = <<>>
  <2>1. Len(s) \in Nat
    BY <1>l
  <2>2. g[Len(s) + 1] = <<>>
    BY <2>1, RestoresEnd
  <2> QED BY <2>2, <1>l
<1>1. 1 \in Reached
  <2>1. l # 0
    <3> SUFFICES ASSUME l = 0 PROVE FALSE
      OBVIOUS
    <3>1. g[1] = <<>>
      BY <1>e
    <3>2. Len(g[1]) = 0
      BY <3>1
    <3> QED BY <3>2, <1>g
  <2>2. 1 \in 1..Len(s)
    BY <2>1, <1>l
  <2>3. <<>> \in Seq(Places(Nat)) /\ Len(<<>>) = 0
    OBVIOUS
  <2>4. <<>> \o g[1] = g[1]
    BY <1>g, ConcatEmptySeq
  <2>5. Reaches(g, 1, 1, <<>>)
    BY <2>3, <2>4 DEF Reaches
  <2>6. Len(<<>>) < i
    BY <2>3, <1>g
  <2> QED BY <2>2, <2>5, <2>6
<1>2. PICK b \in Reached : \A c \in Reached : c <= b
  <2>1. Reached \subseteq 0..l /\ Reached # {}
    BY <1>1, <1>l
  <2> HIDE DEF Reached
  <2> QED BY <2>1, <1>l, LargestNumber
<1>3. b \in 1..l /\ Near(b)
  BY <1>l
<1>4. PICK pre : Reaches(g, 1, b, pre) /\ Len(pre) < i
  BY <1>3
<1>5. pre \in Seq(Places(Nat)) /\ g[1] = pre \o g[b] /\ Len(pre) \in Nat
  BY <1>4 DEF Reaches
<1>6. \A c \in (b + 1)..l : ~Near(c)
  <2> SUFFICES ASSUME NEW c \in (b + 1)..l, Near(c) PROVE FALSE
    OBVIOUS
  <2>1. c \in 1..Len(s) /\ ~(c <= b)
    BY <1>l, <1>3
  <2>2. c \in Reached
    BY <2>1
  <2> HIDE DEF Reached
  <2> QED BY <2>1, <2>2, <1>2
<1> HIDE DEF Reached, Near
\* A piece that stands at b reaches as far as i.
<1>7. ASSUME NEW y \in Seq(Places(Nat)), NEW c \in (b + 1)..(l + 1), g[b] = y \o g[c]
      PROVE  /\ i \in (Len(pre) + 1)..(Len(pre) + Len(y))
             /\ \A m \in (Len(pre) + 1)..i : /\ m - Len(pre) \in 1..Len(y)
                                             /\ g[1][m] = y[m - Len(pre)]
  <2>1. PICK r : r = g[c]
    OBVIOUS
  <2>2. r \in Seq(Places(Nat))
    <3>1. c \in 1..(l + 1)
      BY <1>3
    <3> QED BY <3>1, <2>1, <1>f
  <2>3. Reaches(g, 1, c, pre \o y) /\ Len(pre \o y) = Len(pre) + Len(y)
    BY <1>4, <1>7, <2>1, <2>2, ReachesMore
  <2>4. PICK z : z = pre \o y
    OBVIOUS
  <2>5. z \in Seq(Places(Nat)) /\ g[1] = z \o r /\ Len(z) = Len(pre) + Len(y)
    BY <2>1, <2>3, <2>4 DEF Reaches
  <2>6. /\ Len(g[1]) = Len(z) + Len(r) /\ \A m \in 1..Len(z) : g[1][m] = z[m]
    <3>1. z \in Seq(Places(Nat)) /\ r \in Seq(Places(Nat)) /\ g[1] = z \o r
      BY <2>2, <2>5
    <3> QED BY <3>1, ConcatProperties
  <2>7. \A m \in 1..Len(y) : z[Len(pre) + m] = y[m]
    BY <1>5, <2>4, ConcatProperties
  <2>n. Len(y) \in Nat /\ Len(z) \in Nat /\ Len(r) \in Nat
    BY <2>2, <2>5
  <2>8. ~(Len(z) < i)
    <3> SUFFICES ASSUME Len(z) < i PROVE FALSE
      OBVIOUS
    <3>1. c # l + 1
      <4> SUFFICES ASSUME c = l + 1 PROVE FALSE
        OBVIOUS
      <4>1. r = <<>> /\ Len(r) = 0
        BY <2>1, <1>e
      <4> QED BY <4>1, <2>6, <2>n, <1>g
    <3>2. c \in (b + 1)..l
      BY <3>1, <1>3
    <3>3. Near(c)
      BY <2>3, <2>4 DEF Near
    <3> QED BY <3>2, <3>3, <1>6
  <2>9. i \in (Len(pre) + 1)..(Len(pre) + Len(y))
    BY <1>4, <1>5, <1>g, <2>5, <2>8, <2>n
  <2>10. ASSUME NEW m \in (Len(pre) + 1)..i
         PROVE  /\ m - Len(pre) \in 1..Len(y)
                /\ g[1][m] = y[m - Len(pre)]
    <3>1. PICK o : o = m - Len(pre)
      OBVIOUS
    <3>2. o \in 1..Len(y) /\ m = Len(pre) + o /\ m \in 1..Len(z)
      BY <3>1, <2>5, <2>9, <2>n, <1>5
    <3> QED BY <3>1, <3>2, <2>6, <2>7
  <2> QED BY <2>9, <2>10
<1>8. PICK keys, k : keys = Fitting(s, table, sure, b) /\ k = Longest(keys)
  OBVIOUS
<1>9. g[b] = IF b > Len(s) THEN <<>>
             ELSE IF keys = {} THEN <<s[b]>> \o g[b + 1]
             ELSE Placed(table[k], s, b, k) \o g[b + Len(k)]
  <2>1. b \in 1..(Len(s) + 1)
    BY <1>3, <1>l
  <2> QED BY <2>1, <1>8 DEF Restores
<1>10. b \in 1..Len(s) /\ ~(b > Len(s)) /\ s[b] \in Places(Nat)
  BY <1>3, <1>l
<1>11. OneSource(g[1], Len(pre), i, s[b], table)
  <2>1. CASE keys = {}
    <3>1. PICK y : y = <<s[b]>>
      OBVIOUS
    <3>2. y \in Seq(Places(Nat)) /\ Len(y) = 1 /\ y[1] = s[b]
      BY <3>1, <1>10
    <3>3. b + 1 \in (b + 1)..(l + 1) /\ g[b] = y \o g[b + 1]
      BY <3>1, <1>3, <1>9, <1>10, <2>1
    <3>4. /\ i \in (Len(pre) + 1)..(Len(pre) + Len(y))
          /\ \A m \in (Len(pre) + 1)..i : /\ m - Len(pre) \in 1..Len(y)
                                          /\ g[1][m] = y[m - Len(pre)]
      BY <3>2, <3>3, <1>7
    <3>5. \A m \in (Len(pre) + 1)..i : g[1][m] = s[b]
      <4>1. \A m \in (Len(pre) + 1)..i : m - Len(pre) = 1
        BY <3>2, <3>4, <1>5
      <4> QED BY <4>1, <3>2, <3>4
    <3>6. (Len(pre) + 1)..(i - 1) = {}
      BY <3>2, <3>4, <1>5
    <3> QED BY <3>5, <3>6 DEF OneSource
  <2>2. CASE keys # {}
    <3>1. /\ k \in DOMAIN table /\ table[k] \in Seq(Chars)
          /\ Len(k) \in Nat /\ b + Len(k) \in (b + 1)..(Len(s) + 1)
      BY <1>8, <1>10, <2>2, LongestFits
    <3>2. PICK new, y : new = table[k] /\ y = Placed(new, s, b, k)
      OBVIOUS
    <3>3. /\ y \in Seq(Places(Nat)) /\ Len(y) = Len(new)
          /\ \A n \in 1..Len(new) : y[n].ch = new[n] /\ y[n].at = s[b].at
      <4>1. y = [n \in 1..Len(new) |-> [ch |-> new[n], at |-> s[b].at]]
        BY <3>2 DEF Placed
      <4>2. new \in Seq(Chars) /\ Len(new) \in Nat
        BY <3>1, <3>2
      <4>3. \A n \in 1..Len(new) : new[n] \in Chars
        BY <4>2
      <4>4. s[b].at \in Nat
        BY <1>10 DEF Places
      <4>5. y \in [1..Len(new) -> Places(Nat)]
        BY <4>1, <4>3, <4>4 DEF Places
      <4>6. y \in Seq(Places(Nat)) /\ Len(y) = Len(new)
        BY <4>2, <4>5, SeqFromFunction
      <4> QED BY <4>1, <4>6
    <3>4. PICK c : c = b + Len(k)
      OBVIOUS
    <3>5. c \in (b + 1)..(l + 1) /\ g[b] = y \o g[c]
      BY <3>1, <3>2, <3>4, <1>l, <1>9, <1>10, <2>2
    <3>6. /\ i \in (Len(pre) + 1)..(Len(pre) + Len(y))
          /\ \A m \in (Len(pre) + 1)..i : /\ m - Len(pre) \in 1..Len(y)
                                          /\ g[1][m] = y[m - Len(pre)]
      BY <3>3, <3>5, <1>7
    <3>7. ASSUME NEW m \in (Len(pre) + 1)..i
          PROVE  /\ g[1][m].at = s[b].at
                 /\ \E j \in 1..Len(table[k]) : g[1][m].ch = table[k][j]
      <4>1. PICK o \in 1..Len(y) : g[1][m] = y[o]
        BY <3>6
      <4>2. o \in 1..Len(new) /\ y[o].ch = new[o] /\ y[o].at = s[b].at
        BY <3>3
      <4> QED BY <4>1, <4>2, <3>2
    <3>8. \A m \in (Len(pre) + 1)..(i - 1) : m \in (Len(pre) + 1)..i
      BY <1>5, <1>g
    <3> QED BY <3>1, <3>7, <3>8 DEF OneSource
  <2> QED BY <2>1, <2>2
<1> QED BY <1>4, <1>5, <1>10, <1>11

\* The keys of a table are letters and digits; between two places there are none.
AlnumKeys(table) == \A k \in DOMAIN table : k \in Seq(Alnum) \ {<<>>}
NoAlnum(s, c, b) == \A n \in c..(b - 1) : s[n].ch \notin Alnum

\* No alias begins at a character that is neither letter nor digit.
LEMMA RestoresPass ==
    ASSUME NEW s \in Seq(Places(Nat)), NEW table, Table(table), NEW sure, NEW g,
           AlnumKeys(table), Restores(s, table, sure, 1, g), NEW c \in Nat, NEW b \in 1..Len(s), 0 < c, c <= b,
           NoAlnum(s, c, b)
    PROVE  \E mid : Reaches(g, c, b, mid)
<1> DEFINE Passes(n) == \E mid : Reaches(g, n, b, mid)
<1> DEFINE Bad == {n \in c..b : ~Passes(n)}
<1> SUFFICES ASSUME Bad # {} PROVE FALSE
  <2>1. c \in c..b
    OBVIOUS
  <2> QED BY <2>1
<1>l. PICK l \in Nat : l = Len(s) /\ c \in 1..l /\ b \in c..l
  OBVIOUS
<1>f. \A n \in 1..(l + 1) : g[n] \in Seq(Places(Nat))
  BY <1>l, RestoresTyped
<1>1. PICK n \in Bad : \A m \in Bad : m <= n
  <2>1. Bad \subseteq 0..l
    BY <1>l
  <2> HIDE DEF Bad
  <2> QED BY <2>1, <1>l, LargestNumber
<1>2. n \in c..b /\ ~Passes(n)
  OBVIOUS
<1>3. n # b
  <2> SUFFICES ASSUME n = b PROVE FALSE
    OBVIOUS
  <2>1. PICK r : r = g[b]
    OBVIOUS
  <2>2. r \in Seq(Places(Nat))
    BY <2>1, <1>l, <1>f
  <2>3. <<>> \o r = r /\ <<>> \in Seq(Places(Nat))
    BY <2>2, ConcatEmptySeq
  <2>4. Reaches(g, n, b, <<>>)
    BY <2>1, <2>3 DEF Reaches
  <2> QED BY <2>4, <1>2
<1>4. n \in c..(b - 1) /\ n \in 1..Len(s) /\ n + 1 \in c..b /\ ~(n + 1 <= n)
  BY <1>2, <1>3, <1>l
<1>5. Passes(n + 1)
  <2>1. n + 1 \notin Bad
    <3> HIDE DEF Bad
    <3> QED BY <1>1, <1>4
  <2> QED BY <2>1, <1>4
<1>6. PICK mid : Reaches(g, n + 1, b, mid)
  BY <1>5
<1>7. Fitting(s, table, sure, n) = {}
  <2> SUFFICES ASSUME NEW k \in DOMAIN table, StartsAt(s, k, n) PROVE FALSE
    BY DEF Fitting
  <2>1. k \in Seq(Alnum) /\ Len(k) \in Nat \ {0}
    <3>1. k \in Seq(Alnum) \ {<<>>}
      BY DEF AlnumKeys
    <3> QED BY <3>1, EmptySeq
  <2>2. 1 \in 1..Len(k)
    BY <2>1
  <2>3. k[1] \in Alnum
    BY <2>1, <2>2
  <2>4. s[n + 1 - 1].ch = k[1]
    BY <2>2 DEF StartsAt
  <2>5. n + 1 - 1 = n
    BY <1>4
  <2>6. s[n].ch \notin Alnum
    BY <1>4 DEF NoAlnum
  <2> QED BY <2>3, <2>4, <2>5, <2>6
<1>8. g[n] = <<s[n]>> \o g[n + 1]
  <2>1. Len(s) \in Nat /\ n \in 1..Len(s)
    BY <1>4
  <2> QED BY <2>1, <1>7, RestoresOne
<1>9. PICK y : y = <<s[n]>>
  OBVIOUS
<1>10. y \in Seq(Places(Nat))
  <2>1. s[n] \in Places(Nat)
    BY <1>4
  <2> QED BY <2>1, <1>9
<1>11. g[n] = y \o g[n + 1]
  BY <1>8, <1>9
<1>12. g[b] \in Seq(Places(Nat))
  BY <1>l, <1>f
<1>13. Reaches(g, n, b, y \o mid)
  BY <1>6, <1>10, <1>11, <1>12, ReachesBefore
<1> QED BY <1>13, <1>2

\* Restored is what some solution comes to.
LEMMA RestoredIs ==
    ASSUME NEW N, NEW s \in Seq(Places(N)), NEW table, Table(table), NEW sure
    PROVE  \E g : Restores(s, table, sure, 1, g) /\ Restored(s, table, sure) = g[1]
<1> DEFINE g == CHOOSE f : Restores(s, table, sure, 1, f)
<1>1. 1 \in 1..(Len(s) + 1)
  OBVIOUS
<1>2. Restores(s, table, sure, 1, g)
  BY <1>1, RestoresSomehow
<1>3. Restored(s, table, sure) = g[1]
  BY Zenon DEF Restored, Restores
<1> HIDE DEF g
<1> QED BY <1>2, <1>3

\* From some place at or before i on, s is the end of l.
SameEnd(s, i, l) ==
    \E pre, mid, rest \in Seq(Places(Nat)) :
        s = pre \o rest /\ l = mid \o rest /\ Len(pre) < i

\* What a normalised text comes to when it is checked alone.
Alone(w) == AliasesRestored(PhrasesRestored(Whole(w)))

\* A normalised text, from the place of a character on and alone, ends with that
\* character and all that follow it.
LEMMA AloneFrom ==
    ASSUME NEW t \in Seq(Chars), NEW i \in 1..Len(Alone(t)), NEW p,
           p = Alone(t)[i].at
    PROVE  /\ p \in 1..Len(t) /\ SubSeq(t, p, Len(t)) \in Seq(Chars)
           /\ SameEnd(Alone(t), i, Moved(Alone(SubSeq(t, p, Len(t))), By(p - 1)))
<1>1. PICK s0, s1, s2 : /\ s0 = Whole(t) /\ s1 = PhrasesRestored(s0)
                        /\ s2 = AliasesRestored(s1)
  OBVIOUS
<1>2. s2 = Alone(t)
  BY <1>1 DEF Alone
<1>3. s0 \in Seq(Places(Nat)) /\ s1 \in Seq(Places(Nat)) /\ s2 \in Seq(Places(Nat))
  <2>1. s0 \in Seq(Places(Nat))
    BY <1>1, WholePlaces
  <2>2. s1 \in Seq(Places(Nat))
    BY <1>1, <2>1, TablesFit, RestoredTyped DEF PhrasesRestored
  <2>3. s2 \in Seq(Places(Nat))
    BY <1>1, <2>2, TablesFit, RestoredTyped DEF AliasesRestored
  <2> QED BY <2>1, <2>2, <2>3
<1>4. PICK g1 : Restores(s0, Phrases, 0, 1, g1) /\ s1 = g1[1]
  BY <1>1, <1>3, TablesFit, RestoredIs DEF PhrasesRestored
<1>5. PICK g2 : Restores(s1, Aliases, SureAlias, 1, g2) /\ s2 = g2[1]
  BY <1>1, <1>3, TablesFit, RestoredIs DEF AliasesRestored
<1>6. i \in 1..Len(g2[1])
  BY <1>2, <1>5
<1>7. PICK b \in 1..Len(s1), pre2 \in Seq(Places(Nat)) :
        /\ g2[1] = pre2 \o g2[b] /\ Len(pre2) < i
        /\ OneSource(g2[1], Len(pre2), i, s1[b], Aliases)
  BY <1>3, <1>5, <1>6, TablesFit, RestoresCut
<1>8. b \in 1..Len(g1[1])
  BY <1>4
<1>9. PICK a \in 1..Len(s0), pre1 \in Seq(Places(Nat)) :
        /\ g1[1] = pre1 \o g1[a] /\ Len(pre1) < b
        /\ OneSource(g1[1], Len(pre1), b, s0[a], Phrases)
  BY <1>3, <1>4, <1>8, TablesFit, RestoresCut
<1>10. s2[i].at = s1[b].at
  <2>1. Len(pre2) \in Nat /\ i \in Nat
    BY <1>6, <1>7
  <2>2. i \in (Len(pre2) + 1)..i
    BY <1>7, <2>1
  <2> QED BY <2>2, <1>5, <1>7 DEF OneSource
<1>11. s1[b].at = s0[a].at
  <2>1. Len(pre1) \in Nat /\ b \in Nat
    BY <1>8, <1>9
  <2>2. b \in (Len(pre1) + 1)..b
    BY <1>9, <2>1
  <2> QED BY <2>2, <1>4, <1>9 DEF OneSource
<1>12. a \in 1..Len(Whole(t)) /\ p = Whole(t)[a].at
  BY <1>1, <1>2, <1>10, <1>11
<1>13. PICK v : v = SubSeq(t, p, Len(t))
  OBVIOUS
<1>14. PICK r0, r1, r2 : /\ r0 = Whole(v) /\ r1 = PhrasesRestored(r0)
                         /\ r2 = AliasesRestored(r1)
  OBVIOUS
<1>15. p \in 1..Len(t) /\ v \in Seq(Chars) /\ p - 1 \in Nat
  <2>1. p \in 1..Len(t) /\ SubSeq(t, p, Len(t)) \in Seq(Chars)
    BY <1>12, WholeFrom
  <2>2. p - 1 \in Nat
    BY <2>1
  <2> QED BY <2>1, <2>2, <1>13
<1>16. PICK x \in Seq(Places(Nat)) : Len(x) = a - 1 /\ s0 = x \o Moved(r0, By(p - 1))
  BY <1>1, <1>12, <1>13, <1>14, WholeFrom
<1>17. r0 \in Seq(Places(Nat)) /\ r1 \in Seq(Places(Nat)) /\ r2 \in Seq(Places(Nat))
  <2>1. r0 \in Seq(Places(Nat))
    BY <1>14, <1>15, WholePlaces
  <2>2. r1 \in Seq(Places(Nat))
    BY <1>14, <2>1, TablesFit, RestoredTyped DEF PhrasesRestored
  <2>3. r2 \in Seq(Places(Nat))
    BY <1>14, <2>2, TablesFit, RestoredTyped DEF AliasesRestored
  <2> QED BY <2>1, <2>2, <2>3
<1>18. PICK f1 : Restores(r0, Phrases, 0, 1, f1) /\ r1 = f1[1]
  BY <1>14, <1>17, TablesFit, RestoredIs DEF PhrasesRestored
<1>19. PICK f2 : Restores(r1, Aliases, SureAlias, 1, f2) /\ r2 = f2[1]
  BY <1>14, <1>17, TablesFit, RestoredIs DEF AliasesRestored
<1>20. Follows(s0, x, r0, By(p - 1))
  BY MovesAre, <1>15, <1>16, <1>17 DEF Follows
<1>21. g1[a] = Moved(r1, By(p - 1))
  <2>1. 1 \in 1..(Len(r0) + 1)
    BY <1>17
  <2>2. g1[Len(x) + 1] = Moved(f1[1], By(p - 1))
    BY <2>1, <1>4, <1>18, <1>20, TablesFit, RestoresFollow
  <2>3. Len(x) + 1 = a
    BY <1>9, <1>16
  <2> QED BY <2>2, <2>3, <1>18
<1>22. Follows(s1, pre1, r1, By(p - 1))
  BY MovesAre, <1>4, <1>9, <1>15, <1>17, <1>21 DEF Follows
<1>23. PICK c : c = Len(pre1) + 1
  OBVIOUS
<1>24. g2[c] = Moved(r2, By(p - 1))
  <2>1. 1 \in 1..(Len(r1) + 1)
    BY <1>17
  <2>2. g2[Len(pre1) + 1] = Moved(f2[1], By(p - 1))
    BY <2>1, <1>5, <1>19, <1>22, TablesFit, RestoresFollow
  <2> QED BY <2>2, <1>19, <1>23
<1>25. c \in Nat /\ 0 < c /\ c <= b /\ b \in 1..Len(s1)
  <2>1. Len(pre1) \in Nat /\ Len(s1) \in Nat
    BY <1>3, <1>9
  <2> QED BY <2>1, <1>7, <1>9, <1>23
<1>26. \A n \in c..(b - 1) : s1[n].ch \notin Alnum
  <2> SUFFICES ASSUME NEW n \in c..(b - 1) PROVE s1[n].ch \notin Alnum
    OBVIOUS
  <2>1. \E k \in DOMAIN Phrases : \E j \in 1..Len(Phrases[k]) : s1[n].ch = Phrases[k][j]
    BY <1>4, <1>9, <1>23 DEF OneSource
  <2>2. PICK k \in DOMAIN Phrases : \E j \in 1..Len(Phrases[k]) : s1[n].ch = Phrases[k][j]
    BY <2>1
  <2>3. PICK new : new = Phrases[k]
    OBVIOUS
  <2>4. new \in Seq(Chars \ Alnum)
    BY <2>3, WordCheckAssumption
  <2>5. PICK j \in 1..Len(new) : s1[n].ch = new[j]
    BY <2>2, <2>3
  <2>6. new[j] \in Chars \ Alnum
    BY <2>4, ElementOfSeq
  <2> QED BY <2>5, <2>6
<1>27. PICK mid : Reaches(g2, c, b, mid)
  <2>1. AlnumKeys(Aliases)
    BY WordCheckAssumption DEF AlnumKeys
  <2>2. NoAlnum(s1, c, b)
    BY <1>26 DEF NoAlnum
  <2>3. Table(Aliases)
    BY TablesFit
  <2>4. Restores(s1, Aliases, SureAlias, 1, g2)
    BY <1>5
  <2> QED BY <2>1, <2>2, <2>3, <2>4, <1>3, <1>25, RestoresPass
<1>28. g2[b] \in Seq(Places(Nat))
  <2>1. b \in 1..(Len(s1) + 1)
    BY <1>25
  <2> QED BY <2>1, <1>3, <1>5, TablesFit, RestoresTyped
<1>29. SameEnd(s2, i, Moved(r2, By(p - 1)))
  <2>1. PICK rest : rest = g2[b]
    OBVIOUS
  <2>2. s2 = pre2 \o rest /\ Moved(r2, By(p - 1)) = mid \o rest
    BY <2>1, <1>5, <1>7, <1>24, <1>27 DEF Reaches
  <2>3. mid \in Seq(Places(Nat))
    BY <1>27 DEF Reaches
  <2> QED BY <2>1, <2>2, <2>3, <1>7, <1>28 DEF SameEnd
<1>30. r2 = Alone(v)
  BY <1>14 DEF Alone
<1> QED BY <1>2, <1>13, <1>15, <1>29, <1>30

\* The end that two texts share, counted from the place i of the first.
LEMMA EndAgrees ==
    ASSUME NEW s \in Seq(Places(Nat)), NEW r \in Seq(Places(Nat)), NEW d \in Nat,
           NEW i \in 1..Len(s), SameEnd(s, i, Moved(r, By(d)))
    PROVE  \E e \in Int :
             /\ Len(r) = Len(s) + e
             /\ \A n \in i..Len(s) : /\ n + e \in 1..Len(r) /\ n \in 1..Len(s)
                                     /\ r[n + e].ch = s[n].ch
                                     /\ r[n + e].at + d = s[n].at
<1>1. PICK l : l = Moved(r, By(d))
  OBVIOUS
<1>2. PICK pre \in Seq(Places(Nat)), mid \in Seq(Places(Nat)), rest \in Seq(Places(Nat)) :
        s = pre \o rest /\ l = mid \o rest /\ Len(pre) < i
  BY <1>1 DEF SameEnd
<1>3. /\ Len(l) = Len(r)
      /\ \A n \in 1..Len(r) : l[n].ch = r[n].ch /\ l[n].at = r[n].at + d
  <2>1. Move(By(d)) /\ \A a \in Nat : By(d)[a] = a + d
    BY MovesAre
  <2>2. /\ Len(l) = Len(r)
        /\ \A n \in 1..Len(r) : l[n].ch = r[n].ch /\ l[n].at = By(d)[r[n].at]
    <3>1. Move(By(d))
      BY <2>1
    <3> QED BY <3>1, <1>1, MovedTyped
  <2>3. \A n \in 1..Len(r) : r[n].at \in Nat
    <3>1. \A n \in 1..Len(r) : r[n] \in Places(Nat)
      OBVIOUS
    <3> QED BY <3>1 DEF Places
  <2> QED BY <2>1, <2>2, <2>3
<1>4. PICK a \in Nat, b \in Nat, z \in Nat : a = Len(pre) /\ b = Len(mid) /\ z = Len(rest)
  OBVIOUS
<1>5. Len(s) = a + z /\ \A n \in 1..z : s[a + n] = rest[n]
  <2>1. s = pre \o rest
    BY <1>2
  <2> QED BY <2>1, <1>4, ConcatProperties
<1>6. Len(l) = b + z /\ \A n \in 1..z : l[b + n] = rest[n]
  <2>1. l = mid \o rest
    BY <1>2
  <2> QED BY <2>1, <1>4, ConcatProperties
<1>7. PICK e \in Int : e = b - a
  OBVIOUS
<1>8. Len(r) = Len(s) + e
  BY <1>3, <1>5, <1>6, <1>7
<1>9. ASSUME NEW n \in i..Len(s)
      PROVE  /\ n + e \in 1..Len(r) /\ n \in 1..Len(s)
             /\ r[n + e].ch = s[n].ch
             /\ r[n + e].at + d = s[n].at
  <2>1. PICK k : k = n - a
    OBVIOUS
  <2>2. /\ k \in 1..z /\ a + k = n /\ b + k = n + e /\ n + e \in 1..(b + z)
        /\ n \in 1..Len(s)
    <3>1. a < i /\ n \in i..(a + z) /\ i \in 1..(a + z)
      BY <1>2, <1>4, <1>5
    <3> QED BY <3>1, <2>1, <1>5, <1>7
  <2>3. s[n] = l[n + e]
    BY <2>2, <1>5, <1>6
  <2>4. n + e \in 1..Len(r)
    BY <2>2, <1>3, <1>6
  <2> QED BY <2>2, <2>3, <2>4, <1>3
<1> QED BY <1>8, <1>9

\* Replacing first and cutting places off then is the same as the other way round.
LEMMA RestoredMoved ==
    ASSUME NEW z \in Seq(Places(Nat)), NEW m, Move(m), NEW table, Table(table),
           NEW sure
    PROVE  /\ Restored(Moved(z, m), table, sure) = Moved(Restored(z, table, sure), m)
           /\ Restored(z, table, sure) \in Seq(Places(Nat))
<1>1. PICK s, e : s = Moved(z, m) /\ e = <<>>
  OBVIOUS
<1>2. s \in Seq(Places(Nat)) /\ e \in Seq(Places(Nat)) /\ Len(e) = 0
  BY <1>1, MovedTyped
<1>3. Follows(s, e, z, m)
  <2>1. e \o s = s
    BY <1>1, <1>2, ConcatEmptySeq
  <2> QED BY <2>1, <1>1, <1>2 DEF Follows
<1>4. PICK g : Restores(s, table, sure, 1, g) /\ Restored(s, table, sure) = g[1]
  BY <1>2, RestoredIs
<1>5. PICK f : Restores(z, table, sure, 1, f) /\ Restored(z, table, sure) = f[1]
  BY RestoredIs
<1>6. 1 \in 1..(Len(z) + 1)
  OBVIOUS
<1>7. f[1] \in Seq(Places(Nat)) /\ g[Len(e) + 1] = Moved(f[1], m)
  BY <1>3, <1>4, <1>5, <1>6, RestoresFollow
<1> QED BY <1>1, <1>2, <1>4, <1>5, <1>7

\* What is normalised is what the text that NFKC gives comes to, with the places cut
\* off; nothing is cut off if NFKC leaves the length as it is.
LEMMA AloneCut ==
    ASSUME NEW t, t \in Seq(Chars), NEW w \in Seq(Chars), w = Nfkc(t)
    PROVE  /\ Alone(w) \in Seq(Places(Nat))
           /\ Normalized(t) = Moved(Alone(w), UpTo(Len(t)))
           /\ Len(w) = Len(t) => Normalized(t) = Alone(w)
<1>1. PICK n \in Nat : n = Len(t)
  OBVIOUS
<1>2. PICK m : Move(m) /\ m = UpTo(n)
  BY MovesAre
<1>3. PICK z0, z1, z2 : z0 = Whole(w) /\ z1 = PhrasesRestored(z0) /\ z2 = AliasesRestored(z1)
  OBVIOUS
<1>4. z0 \in Seq(Places(Nat))
  BY <1>3, WholePlaces
<1>5. z1 \in Seq(Places(Nat)) /\ PhrasesRestored(Moved(z0, m)) = Moved(z1, m)
  <2>1. /\ Restored(Moved(z0, m), Phrases, 0) = Moved(Restored(z0, Phrases, 0), m)
        /\ Restored(z0, Phrases, 0) \in Seq(Places(Nat))
    BY <1>2, <1>4, TablesFit, RestoredMoved
  <2> QED BY <2>1, <1>3, Zenon DEF PhrasesRestored
<1>6. z2 \in Seq(Places(Nat)) /\ AliasesRestored(Moved(z1, m)) = Moved(z2, m)
  <2>1. /\ Restored(Moved(z1, m), Aliases, SureAlias) = Moved(Restored(z1, Aliases, SureAlias), m)
        /\ Restored(z1, Aliases, SureAlias) \in Seq(Places(Nat))
    BY <1>2, <1>5, TablesFit, RestoredMoved
  <2> QED BY <2>1, <1>3, Zenon DEF AliasesRestored
<1>7. z2 = Alone(w)
  BY <1>3 DEF Alone
<1>8. Stripped(t) = Moved(z0, m)
  <2>1. Kept(w, n) = Moved(Whole(w), UpTo(n))
    BY KeptCut
  <2> QED BY <2>1, <1>1, <1>2, <1>3 DEF Stripped
<1>9. Normalized(t) = Moved(z2, m)
  BY <1>5, <1>6, <1>8 DEF Normalized
<1>10. Len(w) = Len(t) => Normalized(t) = z2
  <2>1. Len(w) = Len(t) => Stripped(t) = z0
    BY <1>3 DEF Stripped, Whole
  <2> QED BY <2>1, <1>3 DEF Normalized
<1> QED BY <1>1, <1>2, <1>6, <1>7, <1>9, <1>10

\* The places of what is alone are places of the text.
LEMMA AloneTyped ==
    ASSUME NEW w \in Seq(Chars)
    PROVE  Alone(w) \in Seq(Places(1..Len(w))) /\ Alone(w) \in Seq(Places(Nat))
<1> PICK N, M : N = 1..Len(w) /\ M = Nat
  OBVIOUS
<1>1. Whole(w) \in Seq(Places(N)) /\ Whole(w) \in Seq(Places(M))
  BY WholePlaces
<1>2. PhrasesRestored(Whole(w)) \in Seq(Places(N)) /\ PhrasesRestored(Whole(w)) \in Seq(Places(M))
  BY <1>1, TablesFit, RestoredTyped DEF PhrasesRestored
<1>3. Alone(w) \in Seq(Places(N)) /\ Alone(w) \in Seq(Places(M))
  BY <1>2, TablesFit, RestoredTyped DEF Alone, AliasesRestored
<1> QED BY <1>3

\* The letters of a hit, where they stand in what its text gives.
LEMMA PieceIs ==
    ASSUME NEW s \in Seq(Places(Nat)), NEW i \in 1..Len(s), NEW j \in i..Len(s),
           NEW h, h.start = i, h.end = j, NEW piece, piece = Piece(Letters(s), h)
    PROVE  Len(piece) = j - i + 1 /\ \A o \in 1..(j - i + 1) : piece[o] = s[i + o - 1].ch
<1>1. Len(s) \in Nat
  OBVIOUS
<1>2. PICK letters : letters = Letters(s)
  OBVIOUS
<1>3. letters \in Seq(Chars) /\ Len(letters) = Len(s) /\ \A n \in 1..Len(s) : letters[n] = s[n].ch
  <2>1. letters = [n \in 1..Len(s) |-> s[n].ch]
    BY <1>2 DEF Letters
  <2>2. \A n \in 1..Len(s) : s[n] \in Places(Nat)
    OBVIOUS
  <2>3. \A n \in 1..Len(s) : s[n].ch \in Chars
    BY <2>2 DEF Places
  <2>4. letters \in [1..Len(s) -> Chars]
    BY <2>1, <2>3
  <2>5. letters \in Seq(Chars) /\ Len(letters) = Len(s)
    BY <2>4, <1>1, SeqFromFunction
  <2> QED BY <2>1, <2>5
<1>4. i \in 1..(Len(letters) + 1) /\ j \in (i - 1)..Len(letters) /\ i \in Int /\ j \in Int
  BY <1>1, <1>3
<1>5. piece = SubSeq(letters, i, j)
  BY <1>2 DEF Piece
<1>6. /\ Len(piece) = j - i + 1
      /\ \A o \in 1..(j - i + 1) : piece[o] = letters[i + o - 1]
  BY <1>3, <1>4, <1>5, PartIs
<1>7. \A o \in 1..(j - i + 1) : i + o - 1 \in 1..Len(s)
  BY <1>1
<1> QED BY <1>3, <1>6, <1>7

\* The letters of z from i to j.
Spells(z, i, j, piece) ==
    Len(piece) = j - i + 1 /\ \A o \in 1..(j - i + 1) : piece[o] = z[i + o - 1].ch

\* v, checked alone, has these letters at its first place.
AloneBegins(v, piece) ==
    \E k \in DOMAIN Alone(v) : Alone(v)[k].at = 1 /\ StartsAt(Alone(v), piece, k)

\* A normalised text from the place of a character on begins with the letters from
\* that character on, and no later character has an earlier place.
LEMMA BeginsThere ==
    ASSUME NEW w \in Seq(Chars), NEW z, z = Alone(w), NEW i \in 1..Len(z),
           NEW j \in i..Len(z), NEW p, p = z[i].at, NEW piece, Spells(z, i, j, piece)
    PROVE  /\ p \in 1..Len(w) /\ From(w, p) \in Seq(Chars)
           /\ z[j].at \in Nat /\ p <= z[j].at /\ AloneBegins(From(w, p), piece)
<1>1. PICK v, r : v = SubSeq(w, p, Len(w)) /\ r = Alone(v)
  OBVIOUS
<1>2. v = From(w, p)
  BY <1>1 DEF From
<1>3. z \in Seq(Places(Nat)) /\ Len(z) \in Nat
  <2>1. z \in Seq(Places(Nat))
    BY AloneTyped
  <2> QED BY <2>1
<1>4. p \in 1..Len(w) /\ v \in Seq(Chars) /\ SameEnd(z, i, Moved(r, By(p - 1)))
  BY <1>1, AloneFrom
<1>5. r \in Seq(Places(1..Len(v))) /\ r \in Seq(Places(Nat))
  BY <1>1, <1>4, AloneTyped
<1>6. PICK e \in Int :
         /\ Len(r) = Len(z) + e
         /\ \A n \in i..Len(z) : /\ n + e \in 1..Len(r) /\ n \in 1..Len(z)
                                 /\ r[n + e].ch = z[n].ch
                                 /\ r[n + e].at + (p - 1) = z[n].at
  <2>1. PICK q \in Nat : q = p - 1
    BY <1>4
  <2>2. SameEnd(z, i, Moved(r, By(q)))
    BY <2>1, <1>4
  <2>3. \E e \in Int :
          /\ Len(r) = Len(z) + e
          /\ \A n \in i..Len(z) : /\ n + e \in 1..Len(r) /\ n \in 1..Len(z)
                                  /\ r[n + e].ch = z[n].ch
                                  /\ r[n + e].at + q = z[n].at
    BY <2>2, <1>3, <1>5, EndAgrees, ZenonT(60)
  <2>4. PICK e \in Int :
          /\ Len(r) = Len(z) + e
          /\ \A n \in i..Len(z) : /\ n + e \in 1..Len(r) /\ n \in 1..Len(z)
                                  /\ r[n + e].ch = z[n].ch
                                  /\ r[n + e].at + q = z[n].at
    BY <2>3
  <2> QED BY <2>1, <2>4, Zenon
<1>7. \A n \in 1..Len(r) : r[n].at \in Nat /\ r[n].at >= 1
  <2>1. \A n \in 1..Len(r) : r[n] \in Places(1..Len(v))
    BY <1>5
  <2>2. \A n \in 1..Len(r) : r[n].at \in 1..Len(v)
    BY <2>1 DEF Places
  <2> QED BY <2>2
<1>8. z[j].at \in Nat /\ p <= z[j].at
  <2>1. j \in 1..Len(z) /\ p \in Nat
    BY <1>3, <1>4
  <2>2. z[j].at \in Nat
    <3>1. z[j] \in Places(Nat)
      BY <2>1, <1>3
    <3> QED BY <3>1 DEF Places
  <2>3. j + e \in 1..Len(r) /\ r[j + e].at + (p - 1) = z[j].at
    BY <1>6
  <2>4. r[j + e].at \in Nat /\ r[j + e].at >= 1
    BY <2>3, <1>7
  <2> QED BY <2>1, <2>2, <2>3, <2>4
<1>9. PICK k : k = i + e
  OBVIOUS
<1>10. k \in 1..Len(r) /\ r[k].at = 1 /\ DOMAIN r = 1..Len(r)
  <2>1. i \in i..Len(z)
    BY <1>3
  <2>2. k \in 1..Len(r) /\ r[k].at + (p - 1) = p
    BY <2>1, <1>6, <1>9
  <2>3. r[k].at \in Nat /\ p \in Nat
    BY <2>2, <1>4, <1>7
  <2>4. r[k].at = 1
    <3>1. PICK a \in Nat, b \in Nat : a = r[k].at /\ b = p
      BY <2>3
    <3>2. a + (b - 1) = b
      BY <2>2, <3>1
    <3>3. a = 1
      BY <3>2
    <3> QED BY <3>1, <3>3
  <2>5. DOMAIN r = 1..Len(r)
    BY <1>5
  <2> QED BY <2>2, <2>4, <2>5
<1>p. Len(piece) = j - i + 1 /\ \A o \in 1..(j - i + 1) : piece[o] = z[i + o - 1].ch
  BY DEF Spells
<1>11. StartsAt(r, piece, k)
  <2>1. k + Len(piece) - 1 <= Len(r)
    BY <1>3, <1>6, <1>9, <1>p
  <2>2. ASSUME NEW o \in 1..Len(piece) PROVE r[k + o - 1].ch = piece[o]
    <3>1. PICK n : n = i + o - 1
      OBVIOUS
    <3>2. n \in i..Len(z) /\ k + o - 1 = n + e
      <4>1. o \in 1..(j - i + 1)
        BY <1>p
      <4>2. i \in Nat /\ j \in Nat /\ j <= Len(z) /\ Len(z) \in Nat
        BY <1>3
      <4>3. n \in i..Len(z)
        BY <3>1, <4>1, <4>2
      <4>4. k + o - 1 = n + e
        <5>1. PICK a \in Int, b \in Int, c \in Int : a = i /\ b = o /\ c = e
          BY <4>1, <4>2
        <5>2. k = a + c /\ n = a + b - 1
          BY <5>1, <3>1, <1>9
        <5>3. k + b - 1 = n + c
          BY <5>1, <5>2
        <5> QED BY <5>1, <5>3
      <4> QED BY <4>3, <4>4
    <3>3. r[n + e].ch = z[n].ch
      BY <3>2, <1>6
    <3>4. piece[o] = z[n].ch
      <4>1. o \in 1..(j - i + 1)
        BY <1>p
      <4> QED BY <4>1, <3>1, <1>p
    <3> QED BY <3>2, <3>3, <3>4
  <2> QED BY <2>1, <2>2 DEF StartsAt
<1>12. AloneBegins(v, piece)
  BY <1>1, <1>10, <1>11 DEF AloneBegins
<1> QED BY <1>2, <1>4, <1>8, <1>12

\* The place reported for a hit is the place of its first character, cut off, and from
\* there on the text begins with the letters of the hit.
LEMMA PlacedRight ==
    ASSUME CheckInv
    PROVE  PlacedIn(Check(typed))
<1>1. PICK t : t = typed
  OBVIOUS
<1>2. PICK s : s = Normalized(t)
  OBVIOUS
<1>3. PICK d : d = HitsIn(s)
  OBVIOUS
<1>4. PICK out : out = CheckResult(t, d)
  OBVIOUS
<1>5. out = Check(typed)
  BY <1>1, <1>2, <1>3, <1>4 DEF Check
<1>6. t \in Texts /\ t \in Seq(Chars) /\ Len(t) \in Nat
  BY <1>1, CheckedTexts DEF CheckInv
<1>w. PICK w : w = Nfkc(t)
  OBVIOUS
<1>v. /\ w \in Seq(Chars) /\ Len(w) \in Nat
      /\ \A p \in 1..Len(w) : Nfkc(From(w, p)) = From(w, p)
  <2>1. /\ w \in Seq(Chars)
        /\ \A p \in 1..(Len(w) + 1) : Nfkc(From(w, p)) = From(w, p)
    BY <1>6, <1>w, NfkcAssumption
  <2>2. Len(w) \in Nat
    BY <2>1
  <2> QED BY <2>1, <2>2
<1>z. PICK z : z = Alone(w)
  OBVIOUS
<1>7. z \in Seq(Places(Nat)) /\ s = Moved(z, UpTo(Len(t)))
  BY <1>2, <1>6, <1>v, <1>w, <1>z, AloneCut
<1>8. /\ s \in Seq(Places(Nat)) /\ Len(s) = Len(z) /\ Len(s) \in Nat
      /\ \A n \in 1..Len(s) : /\ z[n].at \in Nat /\ s[n].ch = z[n].ch
                              /\ s[n].at = IF z[n].at <= Len(t) THEN z[n].at ELSE Len(t)
  <2>1. /\ Move(UpTo(Len(t)))
        /\ \A a \in Nat : UpTo(Len(t))[a] = IF a <= Len(t) THEN a ELSE Len(t)
    BY <1>6, MovesAre
  <2>2. /\ s \in Seq(Places(Nat)) /\ Len(s) = Len(z)
        /\ \A n \in 1..Len(z) : s[n].ch = z[n].ch /\ s[n].at = UpTo(Len(t))[z[n].at]
    BY <2>1, <1>7, MovedTyped
  <2>3. \A n \in 1..Len(z) : z[n].at \in Nat
    <3>1. \A n \in 1..Len(z) : z[n] \in Places(Nat)
      BY <1>7
    <3> QED BY <3>1 DEF Places
  <2>4. Len(s) \in Nat
    BY <2>2
  <2> QED BY <2>1, <2>2, <2>3, <2>4
<1>9. /\ Len(d) \in Nat /\ DOMAIN d = 1..Len(d)
      /\ \A i \in 1..Len(d) : \E h \in HitsOn(Letters(s)) : d[i] = Detail(s, h)
      /\ HitsFit(HitsOn(Letters(s)), Len(s))
  BY <1>2, <1>3, <1>6, HitsReported
<1>10. out.hits = d
  BY <1>4, ResultIs
<1> SUFFICES ASSUME NEW h \in ToSet(d), NEW piece, piece = Piece(Letters(s), h)
             PROVE  /\ \E p \in 1..Len(w) : /\ h.place.start = Min({p, Len(t)})
                                            /\ BeginsWith(From(w, p), piece)
                    /\ Stays(t) => BeginsWith(From(t, h.place.start), piece)
  BY <1>1, <1>2, <1>5, <1>10, <1>w DEF PlacedIn
<1>11. PICK g \in HitsOn(Letters(s)) : h = Detail(s, g)
  <2>1. PICK i \in 1..Len(d) : h = d[i]
    BY <1>9 DEF ToSet
  <2> QED BY <2>1, <1>9
<1>12. PICK i, j : i = g.start /\ j = g.end
  OBVIOUS
<1>13. i \in 1..Len(s) /\ j \in i..Len(s) /\ j \in 1..Len(s)
  <2>1. i \in 1..Len(s) /\ j \in i..Len(s)
    BY <1>9, <1>11, <1>12 DEF HitsFit
  <2> QED BY <2>1, <1>8
<1>14. PICK p : p = z[i].at
  OBVIOUS
<1>15. Spells(z, i, j, piece)
  <2>1. h.start = i /\ h.end = j
    BY <1>11, <1>12 DEF Detail
  <2>2. Len(piece) = j - i + 1 /\ \A o \in 1..(j - i + 1) : piece[o] = s[i + o - 1].ch
    BY <2>1, <1>8, <1>13, PieceIs
  <2>3. \A o \in 1..(j - i + 1) : i + o - 1 \in 1..Len(s)
    BY <1>8, <1>13
  <2> QED BY <2>2, <2>3, <1>8 DEF Spells
<1>16. PICK v, r : v = From(w, p) /\ r = Alone(v)
  OBVIOUS
<1>17. /\ p \in 1..Len(w) /\ v \in Seq(Chars) /\ z[j].at \in Nat /\ p <= z[j].at
       /\ AloneBegins(v, piece)
  <2>1. i \in 1..Len(z) /\ j \in i..Len(z)
    BY <1>8, <1>13
  <2>2. w \in Seq(Chars)
    BY <1>v
  <2>3. /\ p \in 1..Len(w) /\ From(w, p) \in Seq(Chars)
        /\ z[j].at \in Nat /\ p <= z[j].at /\ AloneBegins(From(w, p), piece)
    BY <2>1, <2>2, <1>14, <1>15, <1>z, BeginsThere
  <2> QED BY <2>3, <1>16
<1>18. h.place.start = Min({p, Len(t)})
  <2>1. h.place.start = Min({s[i].at, s[j].at})
    BY <1>11, <1>12 DEF Detail, OriginalRange
  <2>2. PICK a \in Nat, b \in Nat, n \in Nat : a = p /\ b = z[j].at /\ n = Len(t)
    BY <1>6, <1>17
  <2>3. s[i].at = (IF a <= n THEN a ELSE n) /\ s[j].at = (IF b <= n THEN b ELSE n)
    BY <2>2, <1>8, <1>13, <1>14
  <2>4. a <= b
    BY <2>2, <1>17
  <2>5. PICK x \in Nat, y \in Nat : x = s[i].at /\ y = s[j].at /\ x <= y
    BY <2>3, <2>4
  <2>6. Min({x, y}) = x
    BY <2>5, SmallerOf
  <2>7. Min({a, n}) = IF a <= n THEN a ELSE n
    BY SmallerOf
  <2> QED BY <2>1, <2>2, <2>3, <2>5, <2>6, <2>7
<1>19. BeginsWith(v, piece)
  <2>1. Nfkc(v) = v
    BY <1>16, <1>17, <1>v
  <2>2. Normalized(v) = r
    BY <2>1, <1>16, <1>17, AloneCut
  <2> QED BY <2>2, <1>16, <1>17 DEF BeginsWith, AloneBegins
<1>20. ASSUME Stays(t) PROVE BeginsWith(From(t, h.place.start), piece)
  <2>1. Len(w) = Len(t) /\ \A q \in 1..Len(t) : Nfkc(From(t, q)) = From(w, q)
    BY <1>20, <1>w DEF Stays
  <2>2. p \in 1..Len(t) /\ h.place.start = p
    <3>1. p \in 1..Len(t)
      BY <2>1, <1>17
    <3>2. Min({p, Len(t)}) = p
      BY <3>1, <1>6, SmallerOf
    <3> QED BY <3>1, <3>2, <1>18
  <2>3. PICK u : u = From(t, p)
    OBVIOUS
  <2>4. Nfkc(u) = v
    BY <2>1, <2>2, <2>3, <1>16
  <2>5. u \in Seq(Chars) /\ Len(u) = Len(v)
    <3>1. p \in 1..(Len(t) + 1) /\ Len(t) \in (p - 1)..Len(t)
      BY <2>2, <1>6
    <3>2. u \in Seq(Chars) /\ Len(u) = Len(t) - p + 1
      BY <3>1, <2>3, <1>6, PartIs DEF From
    <3>3. p \in 1..(Len(w) + 1) /\ Len(w) \in (p - 1)..Len(w)
      BY <3>1, <2>1
    <3>4. Len(v) = Len(w) - p + 1
      BY <3>3, <1>16, <1>v, PartIs DEF From
    <3> QED BY <3>2, <3>4, <2>1
  <2>6. Normalized(u) = r
    BY <2>4, <2>5, <1>16, <1>17, AloneCut
  <2>7. BeginsWith(u, piece)
    BY <2>6, <1>16, <1>17 DEF BeginsWith, AloneBegins
  <2> QED BY <2>2, <2>3, <2>7
<1> QED BY <1>16, <1>17, <1>18, <1>19, <1>20

\* What is reported is what was found, whatever the library and the text: the place of
\* a hit is where its letters begin in the text that NFKC gives, and in the text that
\* was typed if NFKC moves nothing; a masked text has the length of the text that was
\* typed, and a hit of several places without a break does not stay as it was
\* (findHits, toOriginalRange, maskSegments and wordService.check).
THEOREM HitsAreReported == CheckSpec => []HitsPlacedAndMasked
<1>1. CheckInit => CheckInv
  BY FirstText
<1>2. CheckInv => HitsPlacedAndMasked
  BY PlacedRight, MaskedRight DEF HitsPlacedAndMasked
<1> QED BY <1>1, <1>2, CheckStep, PTL DEF CheckSpec
=============================================================================
