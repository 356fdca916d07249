--------------------------- MODULE SequenceLemmas ---------------------------
(***************************************************************************)
(* What the proofs about lines and chunks share: induction over numbers    *)
(* and sequences, stated with a set in the place of a predicate; that a    *)
(* recursion over 1..n has a solution; and what FlattenSeq yields.         *)
(***************************************************************************)
EXTENDS Integers, Sequences, SequencesExt, WellFoundedInduction, TLAPS

\* Induction over the natural numbers, of which a set is shown to hold all.
LEMMA NatInd ==
    ASSUME NEW Good, 0 \in Good, \A n \in Nat : n \in Good => n + 1 \in Good
    PROVE  Nat \subseteq Good
<1> DEFINE Bad == Nat \ Good
<1>1. SUFFICES ASSUME Bad # {} PROVE FALSE
  OBVIOUS
<1>2. PICK x \in Bad : \A y \in Bad : ~ (<<y, x>> \in OpToRel(<, Nat))
  BY <1>1, NatLessThanWellFounded, WFMin
<1>3. \A y \in Bad : ~ (y < x)
  BY <1>2 DEF OpToRel
<1>4. x \in Nat /\ x # 0
  BY <1>2
<1>5. x - 1 \in Nat /\ (x - 1) + 1 = x
  BY <1>4
<1>6. x - 1 \notin Good
  BY <1>5, x \notin Good
<1> QED BY <1>3, <1>5, <1>6

\* A set of natural numbers with a bound has a greatest one.
LEMMA MaxOf ==
    ASSUME NEW n \in Nat, NEW S, S \subseteq 0..n, S # {}
    PROVE  Max(S) \in S /\ \A y \in S : y <= Max(S)
<1> DEFINE Good == {k \in Nat : \A T \in SUBSET (0..k) :
                       T # {} => \E x \in T : \A y \in T : x >= y}
<1>1. 0 \in Good
  <2> SUFFICES ASSUME NEW T \in SUBSET (0..0), T # {}
               PROVE  \E x \in T : \A y \in T : x >= y
      OBVIOUS
  <2>1. 0..0 = {0}
    OBVIOUS
  <2>2. T = {0}
    BY <2>1
  <2> QED BY <2>2
<1>2. ASSUME NEW k \in Nat, k \in Good PROVE k + 1 \in Good
  <2> SUFFICES ASSUME NEW T \in SUBSET (0..(k + 1)), T # {}
               PROVE  \E x \in T : \A y \in T : x >= y
      OBVIOUS
  <2>1. CASE k + 1 \in T
    BY <2>1
  <2>2. CASE k + 1 \notin T
    <3>1. T \in SUBSET (0..k)
      BY <2>2
    <3> QED BY <3>1, <1>2
  <2> QED BY <2>1, <2>2
<1>3. n \in Good
  <2> HIDE DEF Good
  <2> QED BY <1>1, <1>2, NatInd
<1>4. PICK x \in S : \A y \in S : x >= y
  BY <1>3
<1> QED BY <1>4 DEF Max

\* Induction over sequences, from their ends.
LEMMA SeqInd ==
    ASSUME NEW S, NEW Good, <<>> \in Good,
           \A s \in Seq(S) : \A x \in S : s \in Good => Append(s, x) \in Good
    PROVE  Seq(S) \subseteq Good
<1> DEFINE Long == {n \in Nat : \A s \in Seq(S) : Len(s) = n => s \in Good}
<1>1. 0 \in Long
  <2> SUFFICES ASSUME NEW s \in Seq(S), Len(s) = 0 PROVE s \in Good
      OBVIOUS
  <2>1. s = <<>>
    OBVIOUS
  <2> QED BY <2>1
<1>2. ASSUME NEW n \in Nat, n \in Long PROVE n + 1 \in Long
  <2> SUFFICES ASSUME NEW s \in Seq(S), Len(s) = n + 1 PROVE s \in Good
      OBVIOUS
  <2> DEFINE t == SubSeq(s, 1, n)
  <2>1. t \in Seq(S) /\ Len(t) = n /\ s[n + 1] \in S
    OBVIOUS
  <2>2. s = Append(t, s[n + 1])
    OBVIOUS
  <2>3. t \in Good
    BY <2>1, <1>2
  <2> HIDE DEF t
  <2> QED BY <2>1, <2>2, <2>3
<1>3. Nat \subseteq Long
  <2> HIDE DEF Long
  <2> QED BY <1>1, <1>2, NatInd
<1> SUFFICES ASSUME NEW s \in Seq(S) PROVE s \in Good
    OBVIOUS
<1>4. Len(s) \in Long
  BY <1>3
<1> QED BY <1>4

\* Two sequences with the same elements are one.
LEMMA SeqEq ==
    ASSUME NEW S, NEW a \in Seq(S), NEW b \in Seq(S), Len(a) = Len(b),
           \A i \in 1..Len(a) : a[i] = b[i]
    PROVE  a = b
OBVIOUS

LEMMA ConcatType ==
    ASSUME NEW S, NEW a \in Seq(S), NEW b \in Seq(S)
    PROVE  a \o b \in Seq(S) /\ Len(a \o b) = Len(a) + Len(b)
OBVIOUS

LEMMA ConcatEmpty == ASSUME NEW S, NEW a \in Seq(S) PROVE a \o <<>> = a /\ <<>> \o a = a
OBVIOUS

LEMMA ConcatAssoc ==
    ASSUME NEW S, NEW a \in Seq(S), NEW b \in Seq(S), NEW c \in Seq(S)
    PROVE  (a \o b) \o c = a \o (b \o c)
OBVIOUS

LEMMA ConcatPair == ASSUME NEW S, NEW x \in S, NEW y \in S PROVE <<x>> \o <<y>> = <<x, y>>
<1> DEFINE a == <<x>> \o <<y>>
           b == <<x, y>>
<1>1. a \in Seq(S) /\ Len(a) = 2 /\ a[1] = x /\ a[2] = y
  OBVIOUS
<1>2. b \in Seq(S) /\ Len(b) = 2 /\ b[1] = x /\ b[2] = y
  OBVIOUS
<1> HIDE DEF a, b
<1>3. \A i \in 1..Len(a) : a[i] = b[i]
  BY <1>1, <1>2
<1>4. a = b
  BY <1>1, <1>2, <1>3, SeqEq
<1> QED BY <1>4 DEF a, b

-----------------------------------------------------------------------------
(* Recursion.                                                              *)

\* f is a run of n steps from s0, by the functions step.
Runs(f, S, s0, n, step) ==
    /\ f \in [0..n -> S] /\ f[0] = s0
    /\ \A k \in 1..n : f[k] = step[k][f[k - 1]]

\* Steps that stay within S have a run, whose definition by recursion is sound.
LEMMA RecursionExists ==
    ASSUME NEW S, NEW s0 \in S, NEW n \in Nat, NEW step \in [1..n -> [S -> S]]
    PROVE  \E f : Runs(f, S, s0, n, step)
<1> DEFINE HasRun(m) == \E f : Runs(f, S, s0, m, step)
           Good == {m \in Nat : m <= n => HasRun(m)}
<1>1. HasRun(0)
  <2>1. Runs([k \in 0..0 |-> s0], S, s0, 0, step)
    BY DEF Runs
  <2> QED BY <2>1
<1>2. ASSUME NEW m \in Nat, m + 1 <= n, HasRun(m) PROVE HasRun(m + 1)
  <2>1. PICK f : Runs(f, S, s0, m, step)
    BY <1>2
  <2>2. f[m] \in S /\ m + 1 \in 1..n
    BY <2>1, <1>2 DEF Runs
  <2>3. step[m + 1][f[m]] \in S
    BY <2>2
  <2> DEFINE g == [k \in 0..(m + 1) |-> IF k <= m THEN f[k] ELSE step[m + 1][f[m]]]
  <2>4. g \in [0..(m + 1) -> S] /\ g[0] = s0
    BY <2>1, <2>3 DEF Runs
  <2>5. ASSUME NEW k \in 1..(m + 1) PROVE g[k] = step[k][g[k - 1]]
    <3>1. CASE k <= m
      <4>1. g[k] = f[k] /\ g[k - 1] = f[k - 1]
        BY <3>1
      <4> QED BY <4>1, <3>1, <2>1 DEF Runs
    <3>2. CASE k = m + 1
      <4>1. g[k] = step[m + 1][f[m]] /\ g[k - 1] = f[m]
        BY <3>2
      <4> QED BY <4>1, <3>2
    <3> QED BY <3>1, <3>2
  <2> HIDE DEF g
  <2>6. Runs(g, S, s0, m + 1, step)
    BY <2>4, <2>5 DEF Runs
  <2> QED BY <2>6
<1>3. HasRun(n)
  <2> HIDE DEF HasRun
  <2>1. 0 \in Good
    BY <1>1
  <2>2. ASSUME NEW m \in Nat, m \in Good PROVE m + 1 \in Good
    BY <1>2, <2>2
  <2>3. n \in Good
    <3> HIDE DEF Good
    <3> QED BY <2>1, <2>2, NatInd
  <2> QED BY <2>3
<1> QED BY <1>3

-----------------------------------------------------------------------------
(* Flattening.                                                             *)

\* f[n] is what the first n sequences of ss are in one.
Flattens(f, ss) ==
    /\ DOMAIN f = 0..Len(ss) /\ f[0] = <<>>
    /\ \A n \in 1..Len(ss) : f[n] = f[n - 1] \o ss[n]

\* There is such a function.
LEMMA FlattenExists ==
    ASSUME NEW S, NEW ss \in Seq(Seq(S))
    PROVE  \E f \in [0..Len(ss) -> Seq(S)] : Flattens(f, ss)
<1> DEFINE step == [n \in 1..Len(ss) |-> [s \in Seq(S) |-> s \o ss[n]]]
<1>1. step \in [1..Len(ss) -> [Seq(S) -> Seq(S)]]
  <2> SUFFICES ASSUME NEW n \in 1..Len(ss), NEW s \in Seq(S) PROVE s \o ss[n] \in Seq(S)
      OBVIOUS
  <2>1. ss[n] \in Seq(S)
    OBVIOUS
  <2> QED BY <2>1
<1>2. <<>> \in Seq(S) /\ Len(ss) \in Nat
  OBVIOUS
<1> HIDE DEF step
<1>3. PICK f : Runs(f, Seq(S), <<>>, Len(ss), step)
  BY <1>1, <1>2, RecursionExists
<1>4. ASSUME NEW n \in 1..Len(ss) PROVE f[n] = f[n - 1] \o ss[n]
  <2>1. n - 1 \in 0..Len(ss)
    BY <1>2
  <2>2. f[n - 1] \in Seq(S)
    BY <1>3, <2>1 DEF Runs
  <2> QED BY <1>3, <2>2 DEF step, Runs
<1> QED BY <1>3, <1>4 DEF Flattens, Runs

\* Any such function yields FlattenSeq.
LEMMA FlattenIs ==
    ASSUME NEW S, NEW ss \in Seq(Seq(S)), NEW f, Flattens(f, ss)
    PROVE  FlattenSeq(ss) = f[Len(ss)]
<1>1. CASE Len(ss) = 0
  BY <1>1 DEF Flattens, FlattenSeq
<1>2. CASE Len(ss) # 0
  <2>0. 1 \in 1..Len(ss) /\ ss[1] \in Seq(S) /\ 1 - 1 = 0
    BY <1>2
  <2>a. f[1] = ss[1]
    <3>1. f[1] = f[1 - 1] \o ss[1] /\ f[0] = <<>>
      BY <2>0 DEF Flattens
    <3>2. <<>> \o ss[1] = ss[1]
      BY <2>0
    <3> QED BY <3>1, <3>2, <2>0
  <2> DEFINE F(h) == [i \in 1..Len(ss) |-> IF i = 1 THEN ss[i] ELSE h[i - 1] \o ss[i]]
             g == CHOOSE h : h = F(h)
  <2>1. FlattenSeq(ss) = g[Len(ss)]
    BY <1>2 DEF FlattenSeq
  <2>2. \E h : h = F(h)
    <3> DEFINE h == [i \in 1..Len(ss) |-> f[i]]
    <3>1. ASSUME NEW i \in 1..Len(ss) PROVE h[i] = F(h)[i]
      <4>1. CASE i = 1
        <5> QED BY <2>a, <4>1
      <4>2. CASE i # 1
        <5>1. i - 1 \in 1..Len(ss)
          BY <4>2
        <5>2. h[i - 1] = f[i - 1]
          BY <5>1
        <5> QED BY <5>2, <4>2 DEF Flattens
      <4> QED BY <4>1, <4>2
    <3>2. h = F(h)
      BY <3>1
    <3> QED BY <3>2
  <2>3. g = F(g)
    BY <2>2
  <2> HIDE DEF g
  <2> DEFINE Good == {n \in Nat : n + 1 \in 1..Len(ss) => g[n + 1] = f[n + 1]}
  <2>4. 0 \in Good
    <3>1. g[1] = ss[1]
      BY <2>3, <2>0
    <3> QED BY <3>1, <2>a
  <2>5. ASSUME NEW n \in Nat, n \in Good PROVE n + 1 \in Good
    <3> SUFFICES ASSUME n + 2 \in 1..Len(ss) PROVE g[n + 2] = f[n + 2]
        OBVIOUS
    <3>1. g[n + 1] = f[n + 1]
      BY <2>5
    <3>2. n + 2 # 1 /\ (n + 2) - 1 = n + 1
      OBVIOUS
    <3>3. g[n + 2] = g[(n + 2) - 1] \o ss[n + 2]
      BY <2>3, <3>2
    <3>4. f[n + 2] = f[(n + 2) - 1] \o ss[n + 2]
      BY DEF Flattens
    <3> QED BY <3>1, <3>2, <3>3, <3>4
  <2>6. Len(ss) - 1 \in Good
    <3>1. Len(ss) - 1 \in Nat
      BY <1>2
    <3> HIDE DEF Good
    <3> QED BY <2>4, <2>5, <3>1, NatInd
  <2> QED BY <2>1, <2>6, <1>2
<1> QED BY <1>1, <1>2

\* Of no sequences.
LEMMA FlattenEmpty == FlattenSeq(<<>>) = <<>>
BY DEF FlattenSeq

\* The elements keep their type.
LEMMA FlattenType ==
    ASSUME NEW S, NEW ss \in Seq(Seq(S))
    PROVE  FlattenSeq(ss) \in Seq(S)
<1>1. PICK f \in [0..Len(ss) -> Seq(S)] : Flattens(f, ss)
  BY FlattenExists
<1>2. FlattenSeq(ss) = f[Len(ss)]
  BY <1>1, FlattenIs
<1>3. Len(ss) \in 0..Len(ss)
  OBVIOUS
<1> QED BY <1>2, <1>3

\* With one more sequence.
LEMMA FlattenAppend ==
    ASSUME NEW S, NEW ss \in Seq(Seq(S)), NEW s \in Seq(S)
    PROVE  FlattenSeq(Append(ss, s)) = FlattenSeq(ss) \o s
<1> DEFINE tt == Append(ss, s)
           n == Len(ss)
<1>1. /\ tt \in Seq(Seq(S)) /\ Len(tt) = n + 1 /\ n \in Nat
      /\ tt[n + 1] = s /\ \A k \in 1..n : tt[k] = ss[k]
  OBVIOUS
<1> HIDE DEF tt
<1>2. PICK f \in [0..Len(tt) -> Seq(S)] : Flattens(f, tt)
  BY <1>1, FlattenExists
<1>3. FlattenSeq(tt) = f[n + 1]
  BY <1>1, <1>2, FlattenIs
<1> DEFINE g == [k \in 0..n |-> f[k]]
<1>4. Flattens(g, ss)
  <2>1. DOMAIN g = 0..Len(ss) /\ g[0] = <<>>
    BY <1>1, <1>2 DEF Flattens
  <2>2. ASSUME NEW k \in 1..Len(ss) PROVE g[k] = g[k - 1] \o ss[k]
    <3>1. k \in 1..Len(tt) /\ g[k] = f[k] /\ g[k - 1] = f[k - 1] /\ tt[k] = ss[k]
      BY <1>1
    <3> QED BY <3>1, <1>2 DEF Flattens
  <2> HIDE DEF g
  <2> QED BY <2>1, <2>2 DEF Flattens
<1>5. FlattenSeq(ss) = g[n]
  <2> HIDE DEF g
  <2> QED BY <1>4, FlattenIs
<1>6. g[n] = f[n]
  BY <1>1
<1>7. f[n + 1] = f[(n + 1) - 1] \o tt[n + 1]
  <2>1. n + 1 \in 1..Len(tt)
    BY <1>1
  <2> QED BY <2>1, <1>2 DEF Flattens
<1>8. (n + 1) - 1 = n
  BY <1>1
<1> QED BY <1>1, <1>3, <1>5, <1>6, <1>7, <1>8 DEF tt

\* Of one sequence.
LEMMA FlattenOne ==
    ASSUME NEW S, NEW s \in Seq(S)
    PROVE  FlattenSeq(<<s>>) = s
<1>1. <<s>> = Append(<<>>, s) /\ <<>> \in Seq(Seq(S))
  OBVIOUS
<1>2. FlattenSeq(<<s>>) = <<>> \o s
  BY <1>1, FlattenAppend, FlattenEmpty
<1> QED BY <1>2

\* The elements of a concatenation.
LEMMA ConcatLeft ==
    ASSUME NEW S, NEW a \in Seq(S), NEW b \in Seq(S), NEW i \in 1..Len(a)
    PROVE  (a \o b)[i] = a[i]
OBVIOUS

LEMMA ConcatRight ==
    ASSUME NEW S, NEW a \in Seq(S), NEW b \in Seq(S), NEW i \in 1..Len(b)
    PROVE  (a \o b)[Len(a) + i] = b[i]
OBVIOUS

\* Of two rows of sequences, one after the other.
LEMMA FlattenConcat ==
    ASSUME NEW S, NEW ss \in Seq(Seq(S)), NEW tt \in Seq(Seq(S))
    PROVE  FlattenSeq(ss \o tt) = FlattenSeq(ss) \o FlattenSeq(tt)
<1> DEFINE Good == {uu \in Seq(Seq(S)) : FlattenSeq(ss \o uu) = FlattenSeq(ss) \o FlattenSeq(uu)}
<1>0. FlattenSeq(ss) \in Seq(S)
  BY FlattenType
<1>1. <<>> \in Good
  <2>1. ss \o <<>> = ss /\ FlattenSeq(ss) \o <<>> = FlattenSeq(ss)
    BY <1>0
  <2>2. FlattenSeq(ss \o <<>>) = FlattenSeq(ss) \o FlattenSeq(<<>>)
    BY <2>1, FlattenEmpty
  <2>3. <<>> \in Seq(Seq(S))
    OBVIOUS
  <2> QED BY <2>2, <2>3
<1>2. ASSUME NEW uu \in Seq(Seq(S)), NEW s \in Seq(S), uu \in Good
      PROVE  Append(uu, s) \in Good
  <2>1. ss \o Append(uu, s) = Append(ss \o uu, s) /\ ss \o uu \in Seq(Seq(S))
    OBVIOUS
  <2>2. FlattenSeq(ss \o Append(uu, s)) = (FlattenSeq(ss) \o FlattenSeq(uu)) \o s
    BY <2>1, <1>2, FlattenAppend
  <2>3. FlattenSeq(Append(uu, s)) = FlattenSeq(uu) \o s /\ FlattenSeq(uu) \in Seq(S)
    BY FlattenAppend, FlattenType
  <2>4. (FlattenSeq(ss) \o FlattenSeq(uu)) \o s = FlattenSeq(ss) \o (FlattenSeq(uu) \o s)
    <3>1. ASSUME NEW a \in Seq(S), NEW b \in Seq(S) PROVE (a \o b) \o s = a \o (b \o s)
      OBVIOUS
    <3> QED BY <1>0, <2>3, <3>1
  <2>5. FlattenSeq(ss \o Append(uu, s)) = FlattenSeq(ss) \o FlattenSeq(Append(uu, s))
    BY <2>2, <2>3, <2>4
  <2>6. Append(uu, s) \in Seq(Seq(S))
    OBVIOUS
  <2> QED BY <2>5, <2>6
<1>3. Seq(Seq(S)) \subseteq Good
  <2> HIDE DEF Good
  <2> QED BY <1>1, <1>2, SeqInd
<1> QED BY <1>3

-----------------------------------------------------------------------------
(* Where the elements of a flattened sequence come from.                   *)

\* m[n] is how many elements the first n sequences of ss have.
Marks(m, ss) ==
    /\ m \in [0..Len(ss) -> Nat] /\ m[0] = 0
    /\ \A n \in 1..Len(ss) : m[n] = m[n - 1] + Len(ss[n])

\* There are no fewer of them in more sequences.
LEMMA MarksGrow ==
    ASSUME NEW S, NEW ss \in Seq(Seq(S)), NEW m, Marks(m, ss),
           NEW b \in 0..Len(ss), NEW a \in 0..b
    PROVE  m[a] <= m[b]
<1> DEFINE Good == {d \in Nat : d \in 0..Len(ss) /\ a <= d => m[a] <= m[d]}
<1>0. a \in Nat /\ b \in Nat /\ a \in 0..Len(ss) /\ m[a] \in Nat /\ Len(ss) \in Nat
  <2>1. Len(ss) \in Nat
    OBVIOUS
  <2>2. b \in Nat /\ b <= Len(ss) /\ a \in Nat /\ a <= b
    BY <2>1
  <2>3. a \in 0..Len(ss)
    BY <2>1, <2>2
  <2> QED BY <2>1, <2>2, <2>3 DEF Marks
<1>1. 0 \in Good
  BY <1>0
<1>2. ASSUME NEW d \in Nat, d \in Good PROVE d + 1 \in Good
  <2> SUFFICES ASSUME d + 1 \in 0..Len(ss), a <= d + 1 PROVE m[a] <= m[d + 1]
      OBVIOUS
  <2>1. CASE a = d + 1
    BY <2>1, <1>0
  <2>2. CASE a <= d
    <3>1. d \in 0..Len(ss) /\ d + 1 \in 1..Len(ss) /\ (d + 1) - 1 = d
      BY <1>0
    <3>2. m[d + 1] = m[(d + 1) - 1] + Len(ss[d + 1]) /\ m[d] \in Nat
      BY <3>1 DEF Marks
    <3>3. Len(ss[d + 1]) \in Nat
      BY <3>1
    <3>4. m[a] <= m[d]
      BY <1>2, <2>2, <3>1
    <3> QED BY <1>0, <3>1, <3>2, <3>3, <3>4
  <2> QED BY <2>1, <2>2, <1>0
<1>3. b \in Good
  <2> HIDE DEF Good
  <2> QED BY <1>0, <1>1, <1>2, NatInd
<1> QED BY <1>0, <1>3

\* With them, each element of ss is found in the flattened sequence.
LEMMA MarksExist ==
    ASSUME NEW S, NEW ss \in Seq(Seq(S))
    PROVE  \E m : /\ Marks(m, ss) /\ Len(FlattenSeq(ss)) = m[Len(ss)]
                  /\ \A n \in 1..Len(ss) : \A j \in 1..Len(ss[n]) :
                        FlattenSeq(ss)[m[n - 1] + j] = ss[n][j]
<1>1. PICK f \in [0..Len(ss) -> Seq(S)] : Flattens(f, ss)
  BY FlattenExists
<1>2. FlattenSeq(ss) = f[Len(ss)] /\ Len(ss) \in Nat
  BY <1>1, FlattenIs
<1> DEFINE m == [n \in 0..Len(ss) |-> Len(f[n])]
<1>3. ASSUME NEW n \in 1..Len(ss)
      PROVE  /\ f[n] = f[n - 1] \o ss[n] /\ f[n - 1] \in Seq(S) /\ ss[n] \in Seq(S)
             /\ n \in 0..Len(ss) /\ n - 1 \in 0..Len(ss)
  <2>1. n \in 0..Len(ss) /\ n - 1 \in 0..Len(ss)
    BY <1>2
  <2>2. f[n] = f[n - 1] \o ss[n]
    BY <1>1 DEF Flattens
  <2>3. f[n - 1] \in Seq(S)
    BY <2>1
  <2>4. ss[n] \in Seq(S)
    OBVIOUS
  <2> QED BY <2>1, <2>2, <2>3, <2>4
<1>4. Marks(m, ss)
  <2>1. m \in [0..Len(ss) -> Nat]
    OBVIOUS
  <2>2. m[0] = 0
    BY <1>1 DEF Flattens
  <2>3. ASSUME NEW n \in 1..Len(ss) PROVE m[n] = m[n - 1] + Len(ss[n])
    <3>1. Len(f[n - 1] \o ss[n]) = Len(f[n - 1]) + Len(ss[n])
      BY <1>3
    <3> QED BY <1>3, <3>1
  <2> HIDE DEF m
  <2> QED BY <2>1, <2>2, <2>3 DEF Marks
<1> DEFINE Holds(d) == \A n \in 1..d : \A j \in 1..Len(ss[n]) : f[d][m[n - 1] + j] = ss[n][j]
           Good == {d \in Nat : d \in 0..Len(ss) => Holds(d)}
<1>5. 0 \in Good
  OBVIOUS
<1>6. ASSUME NEW d \in Nat, d \in Good PROVE d + 1 \in Good
  <2> SUFFICES ASSUME d + 1 \in 0..Len(ss), NEW n \in 1..(d + 1), NEW j \in 1..Len(ss[n])
               PROVE  f[d + 1][m[n - 1] + j] = ss[n][j]
      OBVIOUS
  <2>1. d + 1 \in 1..Len(ss) /\ (d + 1) - 1 = d /\ d \in 0..Len(ss) /\ n \in 1..Len(ss)
    BY <1>2
  <2>2. f[d + 1] = f[d] \o ss[d + 1] /\ f[d] \in Seq(S) /\ ss[d + 1] \in Seq(S)
    BY <1>3, <2>1
  <2>3. n - 1 \in 0..Len(ss) /\ m[n - 1] = Len(f[n - 1]) /\ m[n - 1] \in Nat
        /\ j \in Nat /\ Len(ss[n]) \in Nat /\ ss[n] \in Seq(S)
    BY <2>1, <1>3
  <2>4. m[d] = Len(f[d])
    BY <2>1
  <2>5. CASE n = d + 1
    <3>1. m[n - 1] = Len(f[d])
      BY <2>5, <2>1, <2>4
    <3>2. (f[d] \o ss[d + 1])[Len(f[d]) + j] = ss[d + 1][j]
      <4>1. j \in 1..Len(ss[d + 1])
        BY <2>5
      <4> DEFINE u == f[d]
                 v == ss[d + 1]
      <4>2. u \in Seq(S) /\ v \in Seq(S) /\ j \in 1..Len(v)
        BY <2>2, <4>1
      <4> HIDE DEF u, v
      <4>3. (u \o v)[Len(u) + j] = v[j]
        BY <4>2, ConcatRight
      <4> QED BY <4>3 DEF u, v
    <3> QED BY <3>1, <3>2, <2>2, <2>5
  <2>6. CASE n <= d
    <3>1. m[n] <= m[d] /\ m[n] = m[n - 1] + Len(ss[n])
      <4>1. n \in 0..d
        BY <2>6, <2>1
      <4> HIDE DEF m
      <4>2. m[n] <= m[d]
        BY <4>1, <2>1, <1>4, MarksGrow
      <4>3. m[n] = m[n - 1] + Len(ss[n])
        BY <2>1, <1>4 DEF Marks
      <4> QED BY <4>2, <4>3
    <3> DEFINE i == m[n - 1] + j
    <3>2. i \in 1..Len(f[d])
      <4>1. m[d] = Len(f[d]) /\ m[d] \in Nat
        BY <2>4, <2>2
      <4>2. j <= Len(ss[n]) /\ 1 <= j
        BY <2>3
      <4> HIDE DEF m
      <4>3. m[n - 1] \in Nat /\ j \in Nat /\ Len(ss[n]) \in Nat
        BY <2>3
      <4> DEFINE a == m[n - 1]
                 c == m[d]
                 e == m[n]
                 l == Len(ss[n])
      <4>4. a \in Nat /\ j \in Nat /\ l \in Nat /\ c \in Nat /\ e <= c /\ e = a + l /\ j <= l /\ 1 <= j
        BY <3>1, <4>1, <4>2, <4>3
      <4> HIDE DEF a, c, e, l
      <4>5. a + j \in 1..c
        BY <4>4
      <4> QED BY <4>1, <4>5 DEF a, c
    <3>3. (f[d] \o ss[d + 1])[i] = f[d][i]
      <4> HIDE DEF i
      <4> QED BY <2>2, <3>2, ConcatLeft
    <3>4. f[d][i] = ss[n][j]
      <4>1. n \in 1..d
        BY <2>1, <2>6
      <4>2. Holds(d)
        BY <1>6, <2>1
      <4> HIDE DEF m
      <4> QED BY <4>1, <4>2
    <3> QED BY <2>2, <3>3, <3>4
  <2> QED BY <2>5, <2>6, <2>1
<1>7. Len(ss) \in Good
  <2> HIDE DEF Good
  <2> QED BY <1>2, <1>5, <1>6, NatInd
<1>8. Len(FlattenSeq(ss)) = m[Len(ss)]
  BY <1>2
<1>9. ASSUME NEW n \in 1..Len(ss), NEW j \in 1..Len(ss[n])
      PROVE  FlattenSeq(ss)[m[n - 1] + j] = ss[n][j]
  <2>1. Holds(Len(ss))
    BY <1>2, <1>7
  <2> HIDE DEF m
  <2> QED BY <1>2, <2>1
<1> HIDE DEF m
<1> QED BY <1>4, <1>8, <1>9

\* And each element of the flattened sequence in ss.
LEMMA MarksCover ==
    ASSUME NEW S, NEW ss \in Seq(Seq(S)), NEW m, Marks(m, ss), NEW k \in 1..m[Len(ss)]
    PROVE  \E n \in 1..Len(ss) : \E j \in 1..Len(ss[n]) : k = m[n - 1] + j
<1> DEFINE Holds(d) == k <= m[d] =>
              \E n \in 1..d : \E j \in 1..Len(ss[n]) : k = m[n - 1] + j
           Good == {d \in Nat : d \in 0..Len(ss) => Holds(d)}
<1>0. Len(ss) \in Nat /\ k \in Nat /\ k >= 1
  BY DEF Marks
<1>1. 0 \in Good
  BY <1>0 DEF Marks
<1>2. ASSUME NEW d \in Nat, d \in Good PROVE d + 1 \in Good
  <2> SUFFICES ASSUME d + 1 \in 0..Len(ss), k <= m[d + 1]
               PROVE  \E n \in 1..(d + 1) : \E j \in 1..Len(ss[n]) : k = m[n - 1] + j
      OBVIOUS
  <2>1. d + 1 \in 1..Len(ss) /\ (d + 1) - 1 = d /\ d \in 0..Len(ss)
    BY <1>0
  <2>2. m[d + 1] = m[d] + Len(ss[d + 1]) /\ m[d] \in Nat /\ Len(ss[d + 1]) \in Nat
    <3>1. m[d + 1] = m[(d + 1) - 1] + Len(ss[d + 1]) /\ m[d] \in Nat
      BY <2>1 DEF Marks
    <3>2. ss[d + 1] \in Seq(S)
      BY <2>1
    <3> QED BY <3>1, <3>2, <2>1
  <2>3. CASE k <= m[d]
    <3>1. PICK n \in 1..d : \E j \in 1..Len(ss[n]) : k = m[n - 1] + j
      BY <2>3, <2>1, <1>2
    <3>2. n \in 1..(d + 1)
      BY <2>1
    <3> QED BY <3>1, <3>2
  <2>4. CASE k > m[d]
    <3> DEFINE j == k - m[d]
    <3>1. j \in 1..Len(ss[d + 1]) /\ k = m[d] + j
      BY <2>2, <2>4, <1>0
    <3>2. d + 1 \in 1..(d + 1)
      OBVIOUS
    <3> HIDE DEF j
    <3> QED BY <3>1, <3>2, <2>1
  <2> QED BY <2>3, <2>4, <2>2, <1>0
<1>3. Len(ss) \in Good
  <2> HIDE DEF Good
  <2> QED BY <1>0, <1>1, <1>2, NatInd
<1> QED BY <1>0, <1>3
=============================================================================
