-------------------------- MODULE SplitReplyProofs --------------------------
(***************************************************************************)
(* split_reply is right for every reply and every limit: no cut lands in   *)
(* an entity, the pieces of the lines are all of the text, and packing     *)
(* them keeps the limit, the tags and the order.                           *)
(***************************************************************************)
EXTENDS SplitReply, SequenceLemmas

LEMMA Lengths ==
    /\ Width \in Nat /\ EntityLen \in Nat \ {0} /\ Width > EntityLen
    /\ OpenLen \in Nat \ {0} /\ CloseLen \in Nat \ {0} /\ CloseLen <= OpenLen
    /\ Window \in Nat /\ Window >= EntityLen - 1
    /\ Limit \in Nat /\ Limit = Width + OpenLen + CloseLen + 2
    /\ CloseLen <= Width + 2
<1>1. CloseLen \in Nat \ {0} /\ CloseLen <= OpenLen
  BY LimitsAssumption
<1> QED BY <1>1, LimitsAssumption DEF Width

-----------------------------------------------------------------------------
(* Cutting.                                                                *)

\* The place that ends a slice from i if no entity is in the way.
Blind(x, i) == IF i + Width < x.len THEN i + Width ELSE x.len

Splits(x, i) ==
    {a \in x.entities : /\ a > i /\ a + Window >= Blind(x, i)
                        /\ a < Blind(x, i) /\ a + EntityLen > Blind(x, i)}

LEMMA CutIs ==
    ASSUME NEW x \in Line, NEW i \in 0..x.len
    PROVE  \/ Cut(x)[i] = Blind(x, i) /\ ~(Blind(x, i) < x.len /\ Splits(x, i) # {})
           \/ Cut(x)[i] \in Splits(x, i) /\ Blind(x, i) < x.len
<1> DEFINE j == Blind(x, i)
           split == Splits(x, i)
<1>1. Cut(x)[i] = IF j < x.len /\ split # {} THEN CHOOSE a \in split : TRUE ELSE j
  BY DEF Cut, Blind, Splits
<1> HIDE DEF j, split
<1>2. CASE j < x.len /\ split # {}
  <2>1. (CHOOSE a \in split : TRUE) \in split
    BY <1>2
  <2> QED BY <1>1, <1>2, <2>1 DEF j, split
<1>3. CASE ~(j < x.len /\ split # {})
  BY <1>1, <1>3 DEF j, split
<1> QED BY <1>2, <1>3

\* A slice has something of the line, and no more than the width.
LEMMA CutAdvances ==
    ASSUME NEW x \in Line, NEW i \in 0..x.len
    PROVE  /\ Cut(x)[i] \in 0..x.len /\ i <= Cut(x)[i] /\ Cut(x)[i] <= i + Width
           /\ i < x.len => i < Cut(x)[i]
           /\ i = x.len => Cut(x)[i] = x.len
<1>1. x.len \in Nat /\ i \in Nat /\ i <= x.len /\ x.entities \subseteq Nat
  BY DEF Line
<1>2. Blind(x, i) \in Nat /\ i <= Blind(x, i) /\ Blind(x, i) <= x.len
      /\ Blind(x, i) <= i + Width /\ (i < x.len => i < Blind(x, i))
  BY <1>1, Lengths DEF Blind
<1>3. CASE Cut(x)[i] = Blind(x, i)
  BY <1>1, <1>2, <1>3
<1>4. CASE Cut(x)[i] \in Splits(x, i)
  <2>1. Cut(x)[i] \in Nat /\ Cut(x)[i] > i /\ Cut(x)[i] < Blind(x, i)
    BY <1>1, <1>4 DEF Splits
  <2> QED BY <1>1, <1>2, <2>1, Lengths
<1> QED BY <1>3, <1>4, CutIs

\* No entity stands across the place where a slice ends.
Clear(x, j) == \A a \in x.entities : ~(a < j /\ j < a + EntityLen)

LEMMA CutClear ==
    ASSUME NEW x \in Line, Apart(x), NEW i \in 0..x.len
    PROVE  Clear(x, Cut(x)[i])
<1>1. x.len \in Nat /\ i \in Nat /\ i <= x.len /\ x.entities \subseteq Nat
  BY DEF Line
<1> SUFFICES ASSUME NEW a \in x.entities, a < Cut(x)[i], Cut(x)[i] < a + EntityLen PROVE FALSE
    BY DEF Clear
<1>2. a \in Nat /\ a + EntityLen <= x.len
  BY <1>1 DEF Apart
<1>3. CASE Cut(x)[i] = Blind(x, i) /\ ~(Blind(x, i) < x.len /\ Splits(x, i) # {})
  <2>1. Blind(x, i) < x.len /\ Blind(x, i) = i + Width
    BY <1>1, <1>2, <1>3, Lengths DEF Blind
  <2>2. a > i /\ a + Window >= Blind(x, i)
    BY <1>1, <1>2, <1>3, <2>1, Lengths
  <2>3. a \in Splits(x, i)
    BY <1>3, <2>2 DEF Splits
  <2> QED BY <1>3, <2>1, <2>3
<1>4. CASE Cut(x)[i] \in Splits(x, i)
  <2>1. Cut(x)[i] \in x.entities
    BY <1>4 DEF Splits
  <2>2. a + EntityLen <= Cut(x)[i]
    BY <2>1 DEF Apart
  <2> QED BY <1>1, <1>2, <2>1, <2>2, Lengths
<1> QED BY <1>3, <1>4, CutIs
-----------------------------------------------------------------------------
(* The slices of a line.                                                   *)

\* Ends(x) follows the cuts.
LEMMA EndsRun ==
    ASSUME NEW x \in Line
    PROVE  /\ Ends(x) \in [0..(x.len + 1) -> 0..x.len]
           /\ Ends(x)[0] = 0
           /\ \A k \in 1..(x.len + 1) : Ends(x)[k] = Cut(x)[Ends(x)[k - 1]]
<1> DEFINE n == x.len + 1
           S == 0..x.len
           step == [k \in 1..n |-> Cut(x)]
           F(end) == [k \in 0..n |-> IF k = 0 THEN 0 ELSE Cut(x)[end[k - 1]]]
<1>1. n \in Nat /\ 0 \in S /\ x.len \in Nat
  BY DEF Line
<1>2. step \in [1..n -> [S -> S]]
  <2>1. Cut(x) = [i \in S |-> Cut(x)[i]]
    BY DEF Cut
  <2>2. \A i \in S : Cut(x)[i] \in S
    BY CutAdvances
  <2>3. Cut(x) \in [S -> S]
    BY <2>1, <2>2
  <2> QED BY <2>3
<1>3. PICK f : Runs(f, S, 0, n, step)
  <2> HIDE DEF n, S, step
  <2> QED BY <1>1, <1>2, RecursionExists
<1>4. f \in [0..n -> S] /\ f[0] = 0 /\ \A k \in 1..n : f[k] = Cut(x)[f[k - 1]]
  BY <1>3 DEF Runs
<1>5. f = F(f)
  <2>1. \A k \in 0..n : f[k] = F(f)[k]
    BY <1>1, <1>4
  <2> QED BY <1>4, <2>1
<1>6. Ends(x) = F(Ends(x))
  <2>1. Ends(x) = CHOOSE end : end = F(end)
    BY DEF Ends
  <2>2. \E end : end = F(end)
    BY <1>5
  <2> HIDE DEF F
  <2> QED BY <2>1, <2>2
<1>7. Ends(x)[0] = 0 /\ \A k \in 1..n : Ends(x)[k] = Cut(x)[Ends(x)[k - 1]]
  <2>1. \A k \in 0..n : Ends(x)[k] = IF k = 0 THEN 0 ELSE Cut(x)[Ends(x)[k - 1]]
    BY <1>6
  <2>2. 0 \in 0..n /\ \A k \in 1..n : k \in 0..n /\ k # 0
    BY <1>1
  <2> QED BY <2>1, <2>2
<1>8. \A k \in 0..n : Ends(x)[k] \in S
  <2> DEFINE Good == {k \in Nat : k \in 0..n => Ends(x)[k] \in S}
  <2>1. 0 \in Good
    BY <1>1, <1>7
  <2>2. ASSUME NEW k \in Nat, k \in Good PROVE k + 1 \in Good
    <3> SUFFICES ASSUME k + 1 \in 0..n PROVE Ends(x)[k + 1] \in S
        OBVIOUS
    <3>1. k + 1 \in 1..n /\ k \in 0..n /\ (k + 1) - 1 = k
      BY <1>1
    <3>2. Ends(x)[k + 1] = Cut(x)[Ends(x)[k]] /\ Ends(x)[k] \in S
      BY <3>1, <1>7, <2>2
    <3> QED BY <3>2, CutAdvances
  <2>3. Nat \subseteq Good
    <3> HIDE DEF Good
    <3> QED BY <2>1, <2>2, NatInd
  <2> QED BY <2>3
<1>9. Ends(x) = [k \in 0..n |-> Ends(x)[k]]
  BY <1>6
<1> QED BY <1>7, <1>8, <1>9

\* They only go forward, and by at least one place up to the end of the line.
LEMMA EndsAdvance ==
    ASSUME NEW x \in Line, NEW k \in 1..(x.len + 1)
    PROVE  /\ k - 1 \in 0..(x.len + 1) /\ Ends(x)[k] \in 0..x.len /\ Ends(x)[k - 1] \in 0..x.len
           /\ Ends(x)[k - 1] <= Ends(x)[k] /\ Ends(x)[k] <= Ends(x)[k - 1] + Width
           /\ Ends(x)[k - 1] < x.len => Ends(x)[k - 1] < Ends(x)[k]
           /\ Apart(x) => Clear(x, Ends(x)[k])
<1>1. x.len \in Nat
  BY DEF Line
<1>2. k \in 0..(x.len + 1) /\ k - 1 \in 0..(x.len + 1)
  BY <1>1
<1>3. Ends(x)[k] \in 0..x.len /\ Ends(x)[k - 1] \in 0..x.len /\ Ends(x)[k] = Cut(x)[Ends(x)[k - 1]]
  BY <1>2, EndsRun
<1> QED BY <1>2, <1>3, CutAdvances, CutClear

LEMMA EndsGrow ==
    ASSUME NEW x \in Line, NEW b \in 0..(x.len + 1), NEW a \in 0..b
    PROVE  Ends(x)[a] <= Ends(x)[b]
<1> DEFINE Good == {d \in Nat : d \in 0..(x.len + 1) /\ a <= d => Ends(x)[a] <= Ends(x)[d]}
<1>1. x.len \in Nat /\ a \in Nat /\ b \in Nat /\ a \in 0..(x.len + 1)
  BY DEF Line
<1>2. Ends(x)[a] \in Nat
  BY <1>1, EndsRun
<1>3. 0 \in Good
  BY <1>1, <1>2
<1>4. ASSUME NEW d \in Nat, d \in Good PROVE d + 1 \in Good
  <2> SUFFICES ASSUME d + 1 \in 0..(x.len + 1), a <= d + 1 PROVE Ends(x)[a] <= Ends(x)[d + 1]
      OBVIOUS
  <2>1. CASE a = d + 1
    BY <2>1, <1>2
  <2>2. CASE a <= d
    <3>1. d + 1 \in 1..(x.len + 1) /\ (d + 1) - 1 = d /\ d \in 0..(x.len + 1)
      BY <1>1
    <3>2. Ends(x)[d] <= Ends(x)[d + 1] /\ Ends(x)[d] \in Nat /\ Ends(x)[d + 1] \in Nat
      BY <3>1, <1>1, EndsAdvance
    <3>3. Ends(x)[a] <= Ends(x)[d]
      BY <3>1, <2>2, <1>4
    <3> QED BY <3>2, <3>3, <1>2
  <2> QED BY <2>1, <2>2, <1>1
<1>5. b \in Good
  <2> HIDE DEF Good
  <2> QED BY <1>1, <1>3, <1>4, NatInd
<1> QED BY <1>1, <1>5

\* After as many cuts as the line is long, the end is reached.
LEMMA EndsReach == ASSUME NEW x \in Line PROVE Ends(x)[x.len + 1] = x.len
<1> DEFINE Good == {k \in Nat : k \in 0..x.len => k <= Ends(x)[k]}
<1>1. x.len \in Nat
  BY DEF Line
<1>2. 0 \in Good
  BY <1>1, EndsRun
<1>3. ASSUME NEW k \in Nat, k \in Good PROVE k + 1 \in Good
  <2> SUFFICES ASSUME k + 1 \in 0..x.len PROVE k + 1 <= Ends(x)[k + 1]
      OBVIOUS
  <2>1. k + 1 \in 1..(x.len + 1) /\ (k + 1) - 1 = k /\ k \in 0..x.len
    BY <1>1
  <2>2. /\ Ends(x)[k] \in Nat /\ Ends(x)[k + 1] \in Nat /\ k <= Ends(x)[k]
        /\ Ends(x)[k] <= Ends(x)[k + 1]
        /\ Ends(x)[k] < x.len => Ends(x)[k] < Ends(x)[k + 1]
    BY <2>1, <1>1, <1>3, EndsAdvance
  <2> QED BY <2>1, <2>2, <1>1
<1>4. x.len \in Good
  <2> HIDE DEF Good
  <2> QED BY <1>1, <1>2, <1>3, NatInd
<1>5. x.len <= Ends(x)[x.len] /\ x.len \in 0..(x.len + 1) /\ x.len + 1 \in 0..(x.len + 1)
  BY <1>1, <1>4
<1>6. Ends(x)[x.len] \in 0..x.len /\ Ends(x)[x.len + 1] \in 0..x.len
  BY <1>5, EndsRun
<1>7. Ends(x)[x.len] <= Ends(x)[x.len + 1]
  <2>1. x.len \in 0..(x.len + 1)
    BY <1>1
  <2> QED BY <1>5, <2>1, EndsGrow
<1> QED BY <1>1, <1>5, <1>6, <1>7

\* The last slice is the first one that reaches the end.
LEMMA LastSliceIs ==
    ASSUME NEW x \in Line
    PROVE  /\ LastSlice(x) \in 1..(x.len + 1) /\ Ends(x)[LastSlice(x)] = x.len
           /\ \A k \in 1..(LastSlice(x) - 1) : Ends(x)[k] < x.len
<1> DEFINE n == x.len + 1
           Is(k) == Ends(x)[k] = x.len /\ (k = 1 \/ Ends(x)[k - 1] < x.len)
           N == LastSlice(x)
<1>1. x.len \in Nat /\ n \in 1..n /\ Ends(x) \in [0..n -> 0..x.len]
  BY EndsRun DEF Line
<1>2. \E k \in 1..n : Is(k)
  <2> DEFINE Bad == {k \in 1..n : Ends(x)[k] = x.len}
  <2>1. n \in Bad /\ Bad \subseteq Nat
    BY <1>1, EndsReach
  <2>2. PICK k \in Bad : \A l \in Bad : ~(<<l, k>> \in OpToRel(<, Nat))
    <3> HIDE DEF Bad
    <3> QED BY <2>1, NatLessThanWellFounded, WFMin
  <2>3. \A l \in Bad : ~(l < k)
    BY <2>1, <2>2 DEF OpToRel
  <2>4. k \in 1..n /\ Ends(x)[k] = x.len
    OBVIOUS
  <2>5. ASSUME k # 1 PROVE Ends(x)[k - 1] < x.len
    <3>1. k - 1 \in 1..n /\ k - 1 < k /\ k - 1 \in 0..n
      BY <1>1, <2>4, <2>5
    <3>2. k - 1 \notin Bad
      BY <2>3, <3>1
    <3>3. Ends(x)[k - 1] # x.len /\ Ends(x)[k - 1] \in 0..x.len
      BY <1>1, <3>1, <3>2
    <3> QED BY <1>1, <3>3
  <2> QED BY <2>4, <2>5
<1>3. N \in 1..n /\ Is(N)
  <2>1. N = CHOOSE k \in 1..n : Is(k)
    BY DEF LastSlice
  <2> HIDE DEF N, Is, n
  <2> QED BY <1>2, <2>1
<1>4. ASSUME NEW k \in 1..(N - 1) PROVE Ends(x)[k] < x.len
  <2>1. N # 1 /\ N - 1 \in 0..n /\ k \in 0..(N - 1)
    BY <1>1, <1>3
  <2>2. Ends(x)[k] <= Ends(x)[N - 1]
    BY <2>1, EndsGrow
  <2>3. Ends(x)[N - 1] < x.len /\ k \in 0..n
    BY <1>1, <1>3, <2>1
  <2>4. Ends(x)[k] \in Nat /\ Ends(x)[N - 1] \in Nat
    BY <1>1, <2>1, <2>3
  <2> QED BY <1>1, <2>2, <2>3, <2>4
<1> QED BY <1>3, <1>4
-----------------------------------------------------------------------------
(* The pieces of a line.                                                   *)

\* p is the k-th of the N pieces of x, which is line n.
IsPiece(p, k, N, n, x) ==
    /\ p \in Piece /\ p.line = n
    /\ p.lo <= p.hi /\ p.hi <= p.lo + Width /\ p.hi <= x.len
    /\ p.lo = p.hi => x.len = 0
    /\ p.open <=> x.open /\ k = 1
    /\ p.close <=> x.close /\ k = N
    /\ Apart(x) => Clear(x, p.lo) /\ Clear(x, p.hi)
    /\ k = 1 => p.lo = 0
    /\ k = N => p.hi = x.len

LEMMA TagsAre ==
    ASSUME NEW p, p.open \in BOOLEAN, p.close \in BOOLEAN
    PROVE  /\ Tags(p) \in Seq({"open", "close"})
           /\ p.open /\ p.close => Tags(p) = <<"open", "close">>
           /\ p.open /\ ~p.close => Tags(p) = <<"open">>
           /\ ~p.open /\ p.close => Tags(p) = <<"close">>
           /\ ~p.open /\ ~p.close => Tags(p) = <<>>
<1>1. CASE p.open /\ p.close
  <2>1. Tags(p) = <<"open">> \o <<"close">>
    BY <1>1 DEF Tags
  <2>2. <<"open">> \o <<"close">> = <<"open", "close">>
    <3>1. "open" \in {"open", "close"} /\ "close" \in {"open", "close"}
      OBVIOUS
    <3> QED BY <3>1, ConcatPair
  <2>3. <<"open", "close">> \in Seq({"open", "close"})
    OBVIOUS
  <2> QED BY <1>1, <2>1, <2>2, <2>3
<1>2. CASE p.open /\ ~p.close
  BY <1>2 DEF Tags
<1>3. CASE ~p.open /\ p.close
  BY <1>3 DEF Tags
<1>4. CASE ~p.open /\ ~p.close
  BY <1>4 DEF Tags
<1> QED BY <1>1, <1>2, <1>3, <1>4

\* A line in one piece.
LEMMA UndividedIs ==
    ASSUME NEW n \in Nat, NEW x \in Line
    PROVE  /\ Undivided(n, x) \in Piece
           /\ Apart(x) => Clear(x, 0) /\ Clear(x, x.len)
           /\ Size(Undivided(n, x)) = Raw(x) /\ x.len <= Raw(x)
           /\ Raw(x) \in Nat /\ Tags(Undivided(n, x)) \in Seq({"open", "close"})
<1>1. x.len \in Nat /\ x.open \in BOOLEAN /\ x.close \in BOOLEAN /\ x.entities \subseteq Nat
  BY DEF Line
<1>2. Undivided(n, x) \in Piece
  BY <1>1 DEF Undivided, Piece
<1>3. Apart(x) => Clear(x, 0) /\ Clear(x, x.len)
  BY <1>1, Lengths DEF Apart, Clear
<1>4. Raw(x) \in Nat /\ x.len <= Raw(x)
  BY <1>1, Lengths DEF Raw, Tagged
<1>5. Size(Undivided(n, x)) = Raw(x)
  BY <1>1, Lengths DEF Raw, Tagged, Undivided, Size
<1>6. Tags(Undivided(n, x)) \in Seq({"open", "close"})
  BY <1>1, TagsAre DEF Undivided
<1> QED BY <1>2, <1>3, <1>4, <1>5, <1>6

LEMMA PiecesAre ==
    ASSUME NEW n \in Nat, NEW x \in Line
    PROVE  /\ Pieces(n, x) \in Seq(Piece) /\ Len(Pieces(n, x)) \in Nat \ {0}
           /\ \A k \in 1..Len(Pieces(n, x)) :
                 /\ IsPiece(Pieces(n, x)[k], k, Len(Pieces(n, x)), n, x)
                 /\ k > 1 => Pieces(n, x)[k].lo = Pieces(n, x)[k - 1].hi
<1>0. x.len \in Nat /\ x.open \in BOOLEAN /\ x.close \in BOOLEAN
  BY DEF Line
<1>1. CASE Raw(x) <= Width
  <2> DEFINE p == Undivided(n, x)
  <2>1. Pieces(n, x) = <<p>>
    BY <1>1 DEF Pieces
  <2>2. x.len <= Width /\ p \in Piece
    BY <1>0, <1>1, UndividedIs, Lengths
  <2>3. IsPiece(p, 1, 1, n, x)
    BY <1>0, <2>2, UndividedIs, Lengths DEF IsPiece, Undivided
  <2> HIDE DEF p
  <2>4. <<p>> \in Seq(Piece) /\ Len(<<p>>) = 1 /\ <<p>>[1] = p
    BY <2>2
  <2> QED BY <2>1, <2>3, <2>4
<1>2. CASE ~(Raw(x) <= Width)
  <2> DEFINE N == LastSlice(x)
             q(k) == [line |-> n, lo |-> Ends(x)[k - 1], hi |-> Ends(x)[k],
                      open |-> x.open /\ k = 1, close |-> x.close /\ Ends(x)[k] = x.len]
  <2>1. Pieces(n, x) = [k \in 1..N |-> q(k)]
    BY <1>2 DEF Pieces
  <2>2. N \in Nat \ {0} /\ \A k \in 1..N : k \in 1..(x.len + 1)
    BY <1>0, LastSliceIs
  <2>3. ASSUME NEW k \in 1..N PROVE IsPiece(q(k), k, N, n, x)
    <3>1. k \in 1..(x.len + 1) /\ k \in Nat
      BY <2>2
    <3>2. /\ Ends(x)[k] \in 0..x.len /\ Ends(x)[k - 1] \in 0..x.len
          /\ Ends(x)[k - 1] <= Ends(x)[k] /\ Ends(x)[k] <= Ends(x)[k - 1] + Width
          /\ Ends(x)[k - 1] < x.len => Ends(x)[k - 1] < Ends(x)[k]
          /\ Apart(x) => Clear(x, Ends(x)[k])
      BY <3>1, EndsAdvance
    <3>3. q(k) \in Piece
      BY <1>0, <3>2 DEF Piece
    <3>4. Ends(x)[k] = x.len <=> k = N
      <4>1. k # N => k \in 1..(N - 1)
        BY <2>2, <3>1
      <4> QED BY <4>1, LastSliceIs, <1>0, <3>2
    <3>5. k = 1 => Ends(x)[k - 1] = 0
      BY EndsRun
    <3>6. k # 1 => /\ Ends(x)[k - 1] < x.len
                   /\ Apart(x) => Clear(x, Ends(x)[k - 1])
      <4> SUFFICES ASSUME k # 1 PROVE /\ Ends(x)[k - 1] < x.len
                                      /\ Apart(x) => Clear(x, Ends(x)[k - 1])
          OBVIOUS
      <4>1. k - 1 \in 1..(N - 1) /\ k - 1 \in 1..(x.len + 1)
        BY <2>2, <3>1
      <4> QED BY <4>1, LastSliceIs, EndsAdvance
    <3>7. Apart(x) => Clear(x, 0)
      BY UndividedIs
    <3>8. Ends(x)[k - 1] = Ends(x)[k] => x.len = 0
      BY <1>0, <3>2, <3>5, <3>6
    <3>9. Apart(x) => Clear(x, Ends(x)[k - 1])
      BY <3>5, <3>6, <3>7
    <3>a. Ends(x)[k] <= x.len
      BY <1>0, <3>2
    <3> QED BY <3>2, <3>3, <3>4, <3>5, <3>8, <3>9, <3>a DEF IsPiece
  <2>4. ASSUME NEW k \in 1..N, k > 1 PROVE q(k).lo = q(k - 1).hi
    OBVIOUS
  <2>5. \A k \in 1..N : q(k) \in Piece
    BY <2>3 DEF IsPiece
  <2> HIDE DEF q, N
  <2>6. Pieces(n, x) \in Seq(Piece) /\ Len(Pieces(n, x)) = N
    BY <2>1, <2>2, <2>5
  <2>7. \A k \in 1..N : Pieces(n, x)[k] = q(k)
    BY <2>1
  <2>8. ASSUME NEW k \in 1..N, k > 1 PROVE Pieces(n, x)[k].lo = Pieces(n, x)[k - 1].hi
    <3>1. k - 1 \in 1..N
      BY <2>2, <2>8
    <3> QED BY <3>1, <2>7, <2>4, <2>8
  <2> QED BY <2>2, <2>3, <2>6, <2>7, <2>8
<1> QED BY <1>1, <1>2
-----------------------------------------------------------------------------
(* What pieces show.                                                       *)

Row(n, j) == [i \in 1..j |-> <<n, i - 1>>]

LEMMA PlacesAre ==
    ASSUME NEW p \in Piece, p.lo <= p.hi
    PROVE  /\ Places(p) \in Seq(Nat \X Nat) /\ Len(Places(p)) = p.hi - p.lo
           /\ Row(p.line, p.lo) \in Seq(Nat \X Nat)
           /\ Row(p.line, p.lo) \o Places(p) = Row(p.line, p.hi)
           /\ p.lo = p.hi => Places(p) = <<>>
<1> DEFINE n == p.line
           a == p.lo
           d == p.hi - p.lo
<1>1. n \in Nat /\ a \in Nat /\ d \in Nat /\ p.hi = a + d
  BY DEF Piece
<1>2. Places(p) = [i \in 1..d |-> <<n, a + i - 1>>]
  BY DEF Places
<1> HIDE DEF n, a, d
<1>3. [i \in 1..d |-> <<n, a + i - 1>>] \in Seq(Nat \X Nat)
  <2>1. \A i \in 1..d : a + i - 1 \in Nat
    BY <1>1
  <2> QED BY <1>1, <2>1
<1>4. Row(n, a) \in Seq(Nat \X Nat)
  <2>1. \A i \in 1..a : i - 1 \in Nat
    BY <1>1
  <2> QED BY <1>1, <2>1 DEF Row
<1>5. Row(n, a) \o [i \in 1..d |-> <<n, a + i - 1>>] = Row(n, a + d)
  BY <1>1 DEF Row
<1>6. Len([i \in 1..d |-> <<n, a + i - 1>>]) = d
  BY <1>1
<1>7. p.lo = p.hi => Places(p) = <<>>
  BY <1>1, <1>2, <1>6 DEF d
<1> QED BY <1>1, <1>2, <1>3, <1>4, <1>5, <1>6, <1>7 DEF n, a, d

\* Pieces whose bounds are in order.
Span == {p \in Piece : p.lo <= p.hi}

LEMMA RowsOf ==
    ASSUME NEW ps \in Seq(Span)
    PROVE  /\ [k \in DOMAIN ps |-> Places(ps[k])] \in Seq(Seq(Nat \X Nat))
           /\ Len([k \in DOMAIN ps |-> Places(ps[k])]) = Len(ps)
<1>1. ASSUME NEW k \in 1..Len(ps) PROVE Places(ps[k]) \in Seq(Nat \X Nat)
  <2>1. ps[k] \in Span
    OBVIOUS
  <2> QED BY <2>1, PlacesAre DEF Span
<1>2. DOMAIN ps = 1..Len(ps) /\ Len(ps) \in Nat
  OBVIOUS
<1> QED BY <1>1, <1>2

LEMMA ShownType == ASSUME NEW ps \in Seq(Span) PROVE Shown(ps) \in Seq(Nat \X Nat)
BY RowsOf, FlattenType DEF Shown

LEMMA ShownConcat ==
    ASSUME NEW ps \in Seq(Span), NEW qs \in Seq(Span)
    PROVE  Shown(ps \o qs) = Shown(ps) \o Shown(qs)
<1> DEFINE rows(s) == [k \in DOMAIN s |-> Places(s[k])]
<1>1. rows(ps \o qs) = rows(ps) \o rows(qs)
  <2>1. /\ Len(rows(ps)) = Len(ps) /\ Len(rows(qs)) = Len(qs)
        /\ rows(ps) \in Seq(Seq(Nat \X Nat)) /\ rows(qs) \in Seq(Seq(Nat \X Nat))
    BY RowsOf
  <2>2. ps \o qs \in Seq(Span) /\ Len(ps \o qs) = Len(ps) + Len(qs)
    OBVIOUS
  <2>3. /\ Len(rows(ps \o qs)) = Len(ps) + Len(qs)
        /\ rows(ps \o qs) \in Seq(Seq(Nat \X Nat))
    BY <2>2, RowsOf
  <2>4. ASSUME NEW k \in 1..(Len(ps) + Len(qs))
        PROVE  rows(ps \o qs)[k] = (rows(ps) \o rows(qs))[k]
    <3>1. rows(ps \o qs)[k] = Places((ps \o qs)[k])
      BY <2>2
    <3>2. CASE k \in 1..Len(ps)
      <4>1. (ps \o qs)[k] = ps[k] /\ rows(ps)[k] = Places(ps[k])
        BY <3>2
      <4> HIDE DEF rows
      <4>2. (rows(ps) \o rows(qs))[k] = rows(ps)[k]
        BY <3>2, <2>1
      <4> QED BY <3>1, <4>1, <4>2
    <3>3. CASE k \notin 1..Len(ps)
      <4>0. k - Len(ps) \in 1..Len(qs)
        BY <3>3
      <4>1. (ps \o qs)[k] = qs[k - Len(ps)] /\ rows(qs)[k - Len(ps)] = Places(qs[k - Len(ps)])
        BY <3>3, <4>0
      <4> HIDE DEF rows
      <4>2. (rows(ps) \o rows(qs))[k] = rows(qs)[k - Len(ps)]
        BY <3>3, <2>1
      <4> QED BY <3>1, <4>1, <4>2
    <3> QED BY <3>2, <3>3
  <2> DEFINE u == rows(ps \o qs)
             v == rows(ps) \o rows(qs)
  <2>5. u \in Seq(Seq(Nat \X Nat)) /\ Len(u) = Len(ps) + Len(qs)
    BY <2>3
  <2>6. v \in Seq(Seq(Nat \X Nat)) /\ Len(v) = Len(ps) + Len(qs)
    <3> DEFINE S == Seq(Nat \X Nat)
               a == rows(ps)
               b == rows(qs)
    <3>2. a \in Seq(S) /\ b \in Seq(S) /\ Len(a) = Len(ps) /\ Len(b) = Len(qs) /\ v = a \o b
      BY <2>1
    <3> HIDE DEF S, a, b, v
    <3>3. a \o b \in Seq(S) /\ Len(a \o b) = Len(a) + Len(b)
      BY <3>2, ConcatType
    <3> QED BY <3>2, <3>3 DEF S
  <2>7. \A k \in 1..(Len(ps) + Len(qs)) : u[k] = v[k]
    BY <2>4
  <2> HIDE DEF u, v
  <2>8. u = v
    BY <2>5, <2>6, <2>7
  <2> QED BY <2>8 DEF u, v
<1>2. rows(ps) \in Seq(Seq(Nat \X Nat)) /\ rows(qs) \in Seq(Seq(Nat \X Nat))
  BY RowsOf
<1> HIDE DEF rows
<1>3. FlattenSeq(rows(ps \o qs)) = FlattenSeq(rows(ps)) \o FlattenSeq(rows(qs))
  BY <1>1, <1>2, FlattenConcat
<1> QED BY <1>3 DEF Shown, rows

LEMMA ShownOne == ASSUME NEW p \in Span PROVE Shown(<<p>>) = Places(p)
<1>1. [k \in DOMAIN <<p>> |-> Places(<<p>>[k])] = <<Places(p)>>
  OBVIOUS
<1>2. Places(p) \in Seq(Nat \X Nat)
  BY PlacesAre DEF Span
<1> QED BY <1>1, <1>2, FlattenOne DEF Shown

LEMMA ShownAppend ==
    ASSUME NEW ps \in Seq(Span), NEW p \in Span
    PROVE  Shown(Append(ps, p)) = Shown(ps) \o Places(p)
<1>1. Append(ps, p) = ps \o <<p>> /\ <<p>> \in Seq(Span)
  OBVIOUS
<1> QED BY <1>1, ShownConcat, ShownOne

LEMMA ShownNone == Shown(<<>>) = <<>>
<1>1. [k \in DOMAIN <<>> |-> Places(<<>>[k])] = <<>>
  OBVIOUS
<1> QED BY <1>1, FlattenEmpty DEF Shown

\* Pieces show nothing just if each of them is empty.
LEMMA ShownEmpty ==
    ASSUME NEW ps \in Seq(Span)
    PROVE  Shown(ps) = <<>> <=> \A k \in 1..Len(ps) : ps[k].lo = ps[k].hi
<1> DEFINE rows == [k \in DOMAIN ps |-> Places(ps[k])]
<1>1. rows \in Seq(Seq(Nat \X Nat)) /\ Len(rows) = Len(ps) /\ Shown(ps) = FlattenSeq(rows)
  BY RowsOf DEF Shown
<1>2. \A k \in 1..Len(ps) : rows[k] = Places(ps[k]) /\ ps[k] \in Span
  OBVIOUS
<1>3. ASSUME \A k \in 1..Len(ps) : ps[k].lo = ps[k].hi PROVE Shown(ps) = <<>>
  <2> DEFINE f == [k \in 0..Len(ps) |-> <<>>]
  <2>1. ASSUME NEW k \in 1..Len(ps) PROVE rows[k] = <<>>
    BY <1>2, <1>3, PlacesAre DEF Span
  <2> HIDE DEF rows
  <2>2. Flattens(f, rows)
    <3>1. DOMAIN f = 0..Len(rows) /\ \A k \in 0..Len(rows) : f[k] = <<>>
      BY <1>1
    <3>2. \A k \in 1..Len(rows) : rows[k] = <<>> /\ k \in 0..Len(rows) /\ k - 1 \in 0..Len(rows)
      BY <1>1, <2>1
    <3>3. <<>> \o <<>> = <<>> /\ 0 \in 0..Len(rows)
      BY <1>1
    <3> HIDE DEF f
    <3> QED BY <3>1, <3>2, <3>3 DEF Flattens
  <2>3. f[Len(rows)] = <<>>
    BY <1>1
  <2> HIDE DEF f
  <2> QED BY <1>1, <2>2, <2>3, FlattenIs
<1>4. ASSUME Shown(ps) = <<>>, NEW k \in 1..Len(ps) PROVE ps[k].lo = ps[k].hi
  <2>1. rows[k] = Places(ps[k]) /\ ps[k] \in Piece /\ ps[k].lo <= ps[k].hi
    BY <1>2 DEF Span
  <2> HIDE DEF rows
  <2>2. PICK m : Marks(m, rows) /\ Len(FlattenSeq(rows)) = m[Len(rows)]
    BY <1>1, MarksExist
  <2>3. m[Len(ps)] = 0 /\ k \in 0..Len(ps) /\ k - 1 \in 0..Len(ps)
    <3>1. Len(<<>>) = 0
      OBVIOUS
    <3> QED BY <1>1, <1>4, <2>2, <3>1
  <2>4. m[k] <= m[Len(ps)]
    <3>1. Len(ps) \in 0..Len(rows) /\ k \in 0..Len(ps)
      BY <1>1, <2>3
    <3> QED BY <3>1, <1>1, <2>2, MarksGrow
  <2>5. m[k] = m[k - 1] + Len(rows[k]) /\ m[k] \in Nat /\ m[k - 1] \in Nat
    BY <1>1, <2>2, <2>3 DEF Marks
  <2>6. Len(rows[k]) = ps[k].hi - ps[k].lo /\ ps[k].hi \in Nat /\ ps[k].lo \in Nat
    BY <2>1, PlacesAre DEF Piece
  <2> QED BY <2>1, <2>3, <2>4, <2>5, <2>6
<1> QED BY <1>3, <1>4
\* The pieces of a line show all of it.
LEMMA PiecesShow ==
    ASSUME NEW n \in Nat, NEW x \in Line
    PROVE  Pieces(n, x) \in Seq(Span) /\ Shown(Pieces(n, x)) = Row(n, x.len)
<1> DEFINE ps == Pieces(n, x)
           N == Len(ps)
           rows == [k \in DOMAIN ps |-> Places(ps[k])]
           f == [k \in 0..N |-> IF k = 0 THEN <<>> ELSE Row(n, ps[k].hi)]
<1>1. /\ ps \in Seq(Piece) /\ N \in Nat \ {0}
      /\ \A k \in 1..N : IsPiece(ps[k], k, N, n, x) /\ (k > 1 => ps[k].lo = ps[k - 1].hi)
  BY PiecesAre
<1> HIDE DEF ps
<1>2. \A k \in 1..N : ps[k] \in Span
  BY <1>1 DEF IsPiece, Span
<1>3. ps \in Seq(Span)
  BY <1>1, <1>2
<1>4. Row(n, 0) = <<>>
  <2>1. Row(n, 0) = [i \in 1..0 |-> <<n, i - 1>>]
    BY DEF Row
  <2> QED BY <2>1
<1>5. ASSUME NEW k \in 1..N PROVE f[k] = f[k - 1] \o rows[k]
  <2>1. ps[k] \in Piece /\ ps[k].line = n /\ ps[k].lo <= ps[k].hi
    BY <1>1 DEF IsPiece
  <2>2. Row(n, ps[k].lo) \o Places(ps[k]) = Row(n, ps[k].hi)
    BY <2>1, PlacesAre
  <2>3. f[k - 1] = Row(n, ps[k].lo)
    <3>1. CASE k = 1
      BY <3>1, <1>1, <1>4 DEF IsPiece
    <3>2. CASE k # 1
      <4>1. k - 1 \in 1..N /\ k > 1
        BY <1>1, <3>2
      <4> QED BY <4>1, <1>1
    <3> QED BY <3>1, <3>2
  <2>4. rows[k] = Places(ps[k]) /\ f[k] = Row(n, ps[k].hi)
    BY <1>1
  <2> QED BY <2>2, <2>3, <2>4
<1>6. Flattens(f, rows)
  <2>1. Len(rows) = N
    BY <1>3, RowsOf
  <2>2. DOMAIN f = 0..N /\ f[0] = <<>>
    BY <1>1
  <2> HIDE DEF f, rows
  <2> QED BY <2>1, <2>2, <1>5 DEF Flattens
<1>7. rows \in Seq(Seq(Nat \X Nat)) /\ Len(rows) = N
  BY <1>3, RowsOf
<1>8. f[N] = Row(n, x.len)
  BY <1>1 DEF IsPiece
<1> HIDE DEF f, rows
<1>9. FlattenSeq(rows) = Row(n, x.len)
  BY <1>6, <1>7, <1>8, FlattenIs
<1> QED BY <1>3, <1>9 DEF Shown, ps, rows

-----------------------------------------------------------------------------
(* The pieces of a reply.                                                  *)

Lines == {reply \in Seq(Line) : \A n \in DOMAIN reply : Apart(reply[n])}

\* A piece of one of its lines.
PieceOf(reply) ==
    {p \in Span : /\ p.line \in DOMAIN reply
                  /\ p.hi <= p.lo + Width /\ p.hi <= reply[p.line].len
                  /\ p.lo = p.hi => reply[p.line].len = 0
                  /\ p.open => reply[p.line].open
                  /\ p.close => reply[p.line].close
                  /\ Clear(reply[p.line], p.lo) /\ Clear(reply[p.line], p.hi)}

LEMMA ByLine ==
    ASSUME NEW reply \in Lines
    PROVE  /\ [n \in DOMAIN reply |-> Pieces(n, reply[n])] \in Seq(Seq(PieceOf(reply)))
           /\ Len([n \in DOMAIN reply |-> Pieces(n, reply[n])]) = Len(reply)
<1>1. DOMAIN reply = 1..Len(reply) /\ Len(reply) \in Nat
  BY DEF Lines
<1>2. ASSUME NEW n \in 1..Len(reply) PROVE Pieces(n, reply[n]) \in Seq(PieceOf(reply))
  <2> DEFINE x == reply[n]
             ps == Pieces(n, x)
             N == Len(ps)
  <2>1. n \in Nat /\ x \in Line /\ Apart(x) /\ n \in DOMAIN reply
    BY <1>1 DEF Lines
  <2> HIDE DEF x
  <2>2. ps \in Seq(Span) /\ N \in Nat /\ \A k \in 1..N : IsPiece(ps[k], k, N, n, x)
    BY <2>1, PiecesAre, PiecesShow
  <2> HIDE DEF ps
  <2>3. ASSUME NEW k \in 1..N PROVE ps[k] \in PieceOf(reply)
    <3>1. IsPiece(ps[k], k, N, n, x) /\ ps[k] \in Span
      BY <2>2
    <3> QED BY <2>1, <3>1 DEF IsPiece, PieceOf, x
  <2>4. ps \in Seq(PieceOf(reply))
    BY <2>2, <2>3
  <2> QED BY <2>4 DEF ps, x
<1> QED BY <1>1, <1>2

LEMMA AllPiecesType ==
    ASSUME NEW reply \in Lines
    PROVE  AllPieces(reply) \in Seq(PieceOf(reply)) /\ AllPieces(reply) \in Seq(Span)
<1>1. AllPieces(reply) \in Seq(PieceOf(reply))
  BY ByLine, FlattenType DEF AllPieces
<1>2. PieceOf(reply) \subseteq Span
  BY DEF PieceOf
<1> QED BY <1>1, <1>2

\* Cutting leaves nothing out.
LEMMA AllPiecesShow ==
    ASSUME NEW reply \in Lines
    PROVE  Shown(AllPieces(reply)) = Text(reply)
<1> DEFINE pp == [n \in DOMAIN reply |-> Pieces(n, reply[n])]
           rows == [n \in DOMAIN reply |-> [i \in 1..reply[n].len |-> <<n, i - 1>>]]
           N == Len(reply)
<1>1. DOMAIN reply = 1..N /\ N \in Nat /\ reply \in Seq(Line)
  BY DEF Lines
<1>2. pp \in Seq(Seq(Span)) /\ Len(pp) = N
  <2>1. PieceOf(reply) \subseteq Span
    BY DEF PieceOf
  <2>2. pp \in Seq(Seq(PieceOf(reply))) /\ Len(pp) = N
    BY ByLine
  <2> HIDE DEF pp
  <2> QED BY <2>1, <2>2
<1>3. ASSUME NEW n \in 1..N
      PROVE  /\ Shown(pp[n]) = rows[n] /\ rows[n] \in Seq(Nat \X Nat) /\ pp[n] \in Seq(Span)
  <2>1. pp[n] = Pieces(n, reply[n]) /\ rows[n] = Row(n, reply[n].len)
    BY <1>1 DEF Row
  <2>2. n \in Nat /\ reply[n] \in Line
    BY <1>1
  <2>3. Shown(pp[n]) = rows[n] /\ pp[n] \in Seq(Span)
    BY <2>1, <2>2, PiecesShow
  <2> HIDE DEF pp, rows
  <2> QED BY <2>3, ShownType
<1>4. rows \in Seq(Seq(Nat \X Nat)) /\ Len(rows) = N
  BY <1>1, <1>3
<1>5. AllPieces(reply) = FlattenSeq(pp) /\ Text(reply) = FlattenSeq(rows)
  BY DEF AllPieces, Text
<1> HIDE DEF pp, rows
<1>6. PICK f \in [0..N -> Seq(Span)] : Flattens(f, pp)
  BY <1>2, FlattenExists
<1> DEFINE h == [n \in 0..N |-> Shown(f[n])]
<1>7. ASSUME NEW n \in 1..N PROVE h[n] = h[n - 1] \o rows[n]
  <2>1. n \in 0..N /\ n - 1 \in 0..N
    BY <1>1
  <2>2. f[n] = f[n - 1] \o pp[n]
    BY <1>2, <1>6 DEF Flattens
  <2>3. f[n - 1] \in Seq(Span) /\ pp[n] \in Seq(Span)
    BY <2>1, <1>3, <1>6
  <2>4. Shown(f[n]) = Shown(f[n - 1]) \o Shown(pp[n])
    BY <2>2, <2>3, ShownConcat
  <2> QED BY <2>1, <2>4, <1>3
<1>8. DOMAIN h = 0..N /\ h[0] = <<>> /\ h[N] = Shown(f[N])
  BY <1>1, <1>2, <1>6, ShownNone DEF Flattens
<1> HIDE DEF h
<1>9. Flattens(h, rows)
  BY <1>4, <1>7, <1>8 DEF Flattens
<1>a. FlattenSeq(rows) = h[N]
  BY <1>4, <1>9, FlattenIs
<1>b. FlattenSeq(pp) = f[N]
  BY <1>2, <1>6, FlattenIs
<1> QED BY <1>5, <1>8, <1>a, <1>b
\* The pieces of the block go from the O-th to the C-th, if there is one.
Bracketed(ps, reply, O, C) ==
    /\ O \in 0..Len(ps) /\ C \in 0..Len(ps) /\ O <= C /\ (O = 0 => C = 0)
    /\ \A k \in 1..Len(ps) : /\ ps[k].open <=> k = O
                             /\ ps[k].close <=> k = C
                             /\ InBlock(reply, ps[k].line) <=> O <= k /\ k <= C

LEMMA BlockLines ==
    ASSUME NEW reply \in Seq(Line), NEW o \in DOMAIN reply, NEW c \in DOMAIN reply,
           Block(reply, o, c), NEW n \in DOMAIN reply
    PROVE  InBlock(reply, n) <=> o <= n /\ n <= c
<1>1. /\ DOMAIN reply = 1..Len(reply) /\ Len(reply) \in Nat /\ n \in Nat /\ o \in Nat /\ c \in Nat
      /\ n <= Len(reply) /\ c <= Len(reply) /\ 1 <= o /\ 1 <= n /\ o <= c
  BY DEF Block
<1>2. \A m \in 1..n : reply[m].open <=> m = o
  BY <1>1 DEF Block
<1>3. \A m \in n..Len(reply) : reply[m].close <=> m = c
  BY <1>1 DEF Block
<1> QED BY <1>1, <1>2, <1>3 DEF InBlock

LEMMA NoBlockLines ==
    ASSUME NEW reply \in Seq(Line), NoBlock(reply), NEW n \in DOMAIN reply
    PROVE  ~InBlock(reply, n)
<1>1. \A m \in 1..n : m \in DOMAIN reply
  OBVIOUS
<1> QED BY <1>1 DEF InBlock, NoBlock

\* Where the pieces of each line stand among those of the reply.
LEMMA AllPiecesPlaced ==
    ASSUME NEW reply \in Lines
    PROVE  \E m :
              /\ m \in [0..Len(reply) -> Nat] /\ m[0] = 0
              /\ m[Len(reply)] = Len(AllPieces(reply))
              /\ \A n \in 1..Len(reply) : m[n - 1] < m[n]
              /\ \A b \in 0..Len(reply) : \A a \in 0..b : m[a] <= m[b]
              /\ \A k \in 1..Len(AllPieces(reply)) : \E n \in 1..Len(reply) :
                    /\ m[n - 1] < k /\ k <= m[n]
                    /\ AllPieces(reply)[k].line = n
                    /\ AllPieces(reply)[k].open <=> reply[n].open /\ k = m[n - 1] + 1
                    /\ AllPieces(reply)[k].close <=> reply[n].close /\ k = m[n]
<1> DEFINE pp == [n \in DOMAIN reply |-> Pieces(n, reply[n])]
           N == Len(reply)
           ps == AllPieces(reply)
<1>1. DOMAIN reply = 1..N /\ N \in Nat /\ reply \in Seq(Line)
  BY DEF Lines
<1>2. pp \in Seq(Seq(PieceOf(reply))) /\ Len(pp) = N
  BY ByLine
<1>3. ps = FlattenSeq(pp)
  BY DEF AllPieces
<1>4. ASSUME NEW n \in 1..N
      PROVE  /\ pp[n] \in Seq(Piece) /\ Len(pp[n]) \in Nat \ {0}
             /\ \A j \in 1..Len(pp[n]) : IsPiece(pp[n][j], j, Len(pp[n]), n, reply[n])
  <2>1. pp[n] = Pieces(n, reply[n]) /\ n \in Nat /\ reply[n] \in Line
    BY <1>1
  <2> HIDE DEF pp
  <2> QED BY <2>1, PiecesAre
<1> HIDE DEF pp, ps, N
<1>b. PICK m : /\ Marks(m, pp) /\ Len(FlattenSeq(pp)) = m[Len(pp)]
               /\ \A n \in 1..Len(pp) : \A j \in 1..Len(pp[n]) :
                     FlattenSeq(pp)[m[n - 1] + j] = pp[n][j]
  BY <1>2, MarksExist
<1>5. /\ Marks(m, pp) /\ Len(ps) = m[N]
      /\ \A n \in 1..N : \A j \in 1..Len(pp[n]) : ps[m[n - 1] + j] = pp[n][j]
  BY <1>2, <1>3, <1>b
<1>m. Marks(m, pp)
  BY <1>b
<1>6. m \in [0..N -> Nat] /\ m[0] = 0 /\ \A n \in 1..N : m[n] = m[n - 1] + Len(pp[n])
  BY <1>2, <1>m DEF Marks
<1>7. ASSUME NEW n \in 1..N PROVE m[n - 1] < m[n] /\ m[n - 1] \in Nat /\ m[n] \in Nat
  <2>1. n \in 0..N /\ n - 1 \in 0..N
    BY <1>1 DEF N
  <2> QED BY <2>1, <1>4, <1>6
<1>8. ASSUME NEW b \in 0..N, NEW a \in 0..b PROVE m[a] <= m[b]
  <2>1. b \in 0..Len(pp)
    BY <1>2
  <2> DEFINE S == PieceOf(reply)
  <2>2. pp \in Seq(Seq(S))
    BY <1>2
  <2> HIDE DEF S
  <2> QED BY <2>2, <1>m, <2>1, MarksGrow
<1>9. ASSUME NEW k \in 1..Len(ps)
      PROVE  \E n \in 1..N :
                /\ m[n - 1] < k /\ k <= m[n]
                /\ ps[k].line = n
                /\ ps[k].open <=> reply[n].open /\ k = m[n - 1] + 1
                /\ ps[k].close <=> reply[n].close /\ k = m[n]
  <2>0. k \in 1..m[Len(pp)]
    BY <1>2, <1>5
  <2>1. PICK n \in 1..Len(pp) : \E j \in 1..Len(pp[n]) : k = m[n - 1] + j
    <3> DEFINE S == PieceOf(reply)
    <3>1. pp \in Seq(Seq(S))
      BY <1>2
    <3> HIDE DEF S
    <3> QED BY <3>1, <1>m, <2>0, MarksCover
  <2>2. PICK j \in 1..Len(pp[n]) : k = m[n - 1] + j
    BY <2>1
  <2>a. n \in 1..N
    BY <1>2
  <2>3. IsPiece(ps[k], j, Len(pp[n]), n, reply[n])
    BY <1>4, <1>5, <2>2, <2>a
  <2>4. /\ m[n - 1] \in Nat /\ m[n] = m[n - 1] + Len(pp[n]) /\ Len(pp[n]) \in Nat
        /\ j \in Nat /\ 1 <= j /\ j <= Len(pp[n])
    BY <1>4, <1>6, <1>7, <2>a
  <2>5. m[n - 1] < k /\ k <= m[n] /\ (j = 1 <=> k = m[n - 1] + 1) /\ (j = Len(pp[n]) <=> k = m[n])
    BY <2>2, <2>4
  <2> QED BY <2>3, <2>5, <2>a DEF IsPiece
<1> QED BY <1>5, <1>6, <1>7, <1>8, <1>9 DEF N, ps

LEMMA AllPiecesBracketed ==
    ASSUME NEW reply \in Lines,
           NoBlock(reply) \/ \E o, c \in DOMAIN reply : Block(reply, o, c)
    PROVE  \E O, C : Bracketed(AllPieces(reply), reply, O, C)
<1> DEFINE ps == AllPieces(reply)
           N == Len(reply)
<1>1. DOMAIN reply = 1..N /\ N \in Nat /\ reply \in Seq(Line) /\ ps \in Seq(PieceOf(reply))
  BY AllPiecesType DEF Lines
<1>2. ASSUME NEW k \in 1..Len(ps)
      PROVE  ps[k].line \in DOMAIN reply /\ ps[k] \in PieceOf(reply)
  BY <1>1 DEF PieceOf
<1>3. CASE NoBlock(reply)
  <2> HIDE DEF ps
  <2>1. ASSUME NEW k \in 1..Len(ps)
        PROVE  ~ps[k].open /\ ~ps[k].close /\ ~InBlock(reply, ps[k].line)
    BY <1>1, <1>2, <1>3, NoBlockLines DEF NoBlock, PieceOf
  <2>2. Bracketed(ps, reply, 0, 0)
    BY <1>1, <2>1 DEF Bracketed
  <2> QED BY <2>2 DEF ps
<1>4. CASE \E o, c \in DOMAIN reply : Block(reply, o, c)
  <2>1. PICK o, c \in DOMAIN reply : Block(reply, o, c)
    BY <1>4
  <2>2. PICK m :
           /\ m \in [0..N -> Nat] /\ m[0] = 0 /\ m[N] = Len(ps)
           /\ \A n \in 1..N : m[n - 1] < m[n]
           /\ \A b \in 0..N : \A a \in 0..b : m[a] <= m[b]
           /\ \A k \in 1..Len(ps) : \E n \in 1..N :
                 /\ m[n - 1] < k /\ k <= m[n]
                 /\ ps[k].line = n
                 /\ ps[k].open <=> reply[n].open /\ k = m[n - 1] + 1
                 /\ ps[k].close <=> reply[n].close /\ k = m[n]
    BY AllPiecesPlaced
  <2> HIDE DEF ps, N
  <2> DEFINE O == m[o - 1] + 1
             C == m[c]
  <2>3. /\ o \in 1..N /\ c \in 1..N /\ o <= c /\ o - 1 \in 0..N /\ c \in 0..N /\ N \in 0..N
        /\ o \in 0..c /\ o \in 0..N
    BY <1>1, <2>1 DEF Block
  <2>4. /\ m[o - 1] \in Nat /\ m[c] \in Nat /\ m[o] \in Nat /\ m[N] \in Nat
        /\ m[o - 1] < m[o] /\ m[o] <= m[c] /\ m[c] <= m[N]
    BY <1>1, <2>2, <2>3
  <2>5. O \in 1..Len(ps) /\ C \in 1..Len(ps) /\ O <= C
    BY <2>2, <2>4
  <2>6. ASSUME NEW k \in 1..Len(ps)
        PROVE  /\ ps[k].open <=> k = O
               /\ ps[k].close <=> k = C
               /\ InBlock(reply, ps[k].line) <=> O <= k /\ k <= C
    <3>1. PICK n \in 1..N :
             /\ m[n - 1] < k /\ k <= m[n]
             /\ ps[k].line = n
             /\ ps[k].open <=> reply[n].open /\ k = m[n - 1] + 1
             /\ ps[k].close <=> reply[n].close /\ k = m[n]
      BY <2>2
    <3>2. n \in 0..N /\ n - 1 \in 0..N /\ m[n] \in Nat /\ m[n - 1] \in Nat /\ k \in Nat
      BY <1>1, <2>2
    <3>3. n < o => m[n] <= m[o - 1]
      <4>1. n < o => n \in 0..(o - 1)
        BY <2>3, <3>2
      <4> QED BY <4>1, <2>2, <2>3
    <3>4. o < n => m[o] <= m[n - 1]
      <4>1. o < n => o \in 0..(n - 1)
        BY <2>3, <3>2
      <4> QED BY <4>1, <2>2, <3>2
    <3>5. n < c => m[n] <= m[c - 1] /\ c - 1 \in 0..N /\ m[c - 1] < m[c]
      <4>1. n < c => n \in 0..(c - 1) /\ c - 1 \in 0..N
        BY <2>3, <3>2
      <4> QED BY <4>1, <2>2, <2>3
    <3>6. c < n => m[c] <= m[n - 1]
      <4>1. c < n => c \in 0..(n - 1)
        BY <2>3, <3>2
      <4> QED BY <4>1, <2>2, <3>2
    <3>7. (reply[n].open <=> n = o) /\ (reply[n].close <=> n = c)
      BY <1>1, <2>1 DEF Block
    <3>8. InBlock(reply, n) <=> o <= n /\ n <= c
      BY <1>1, <2>1, <2>3, BlockLines
    <3>9. c \in 1..N /\ m[c - 1] < m[c] /\ m[c - 1] \in Nat
      <4>1. c - 1 \in 0..N
        BY <1>1, <2>3
      <4> QED BY <4>1, <2>2, <2>3
    <3> DEFINE a == m[n - 1]
               b == m[n]
               p == m[o - 1]
               q == m[o]
               r == m[c - 1]
               s == m[c]
    <3>a. /\ a \in Nat /\ b \in Nat /\ p \in Nat /\ q \in Nat /\ r \in Nat /\ s \in Nat
          /\ n \in Nat /\ o \in Nat /\ c \in Nat /\ k \in Nat
          /\ a < k /\ k <= b /\ p < q /\ r < s
      BY <2>3, <2>4, <3>1, <3>2, <3>9
    <3>b. /\ n < o => b <= p
          /\ o < n => q <= a
          /\ n = o => a = p /\ b = q
          /\ n < c => b <= r
          /\ c < n => s <= a
          /\ n = c => a = r /\ b = s
      BY <3>3, <3>4, <3>5, <3>6
    <3>c. /\ ps[k].open <=> n = o /\ k = a + 1
          /\ ps[k].close <=> n = c /\ k = b
          /\ O = p + 1 /\ C = s
      BY <3>1, <3>7
    <3> HIDE DEF a, b, p, q, r, s, O, C
    <3>d. /\ n = o /\ k = a + 1 <=> k = p + 1
          /\ n = c /\ k = b <=> k = s
          /\ o <= n <=> p + 1 <= k
          /\ n <= c <=> k <= s
      BY <3>a, <3>b
    <3> QED BY <3>1, <3>8, <3>c, <3>d
  <2> HIDE DEF O, C
  <2>7. Bracketed(ps, reply, O, C)
    BY <2>5, <2>6 DEF Bracketed
  <2> QED BY <2>7 DEF ps
<1> QED BY <1>3, <1>4

\* The last piece is of the last line.
LEMMA LastPiece ==
    ASSUME NEW reply \in Lines, reply # <<>>
    PROVE  /\ Len(AllPieces(reply)) \in Nat \ {0}
           /\ AllPieces(reply)[Len(AllPieces(reply))].line = Len(reply)
<1> DEFINE ps == AllPieces(reply)
           N == Len(reply)
<1>1. N \in Nat \ {0} /\ Len(ps) \in Nat
  BY AllPiecesType DEF Lines
<1>2. PICK m :
         /\ m \in [0..N -> Nat] /\ m[0] = 0 /\ m[N] = Len(ps)
         /\ \A n \in 1..N : m[n - 1] < m[n]
         /\ \A b \in 0..N : \A a \in 0..b : m[a] <= m[b]
         /\ \A k \in 1..Len(ps) : \E n \in 1..N :
               /\ m[n - 1] < k /\ k <= m[n]
               /\ ps[k].line = n
               /\ ps[k].open <=> reply[n].open /\ k = m[n - 1] + 1
               /\ ps[k].close <=> reply[n].close /\ k = m[n]
  BY AllPiecesPlaced
<1> HIDE DEF ps, N
<1>3. N \in 1..N /\ N \in 0..N /\ N - 1 \in 0..N
  BY <1>1
<1>4. m[N - 1] < m[N] /\ m[N - 1] \in Nat
  BY <1>2, <1>3
<1>5. Len(ps) \in 1..Len(ps)
  BY <1>1, <1>2, <1>4
<1>6. PICK n \in 1..N : m[N] <= m[n] /\ ps[Len(ps)].line = n
  BY <1>2, <1>5
<1>7. n < N => m[n] <= m[N - 1]
  <2>1. n < N => n \in 0..(N - 1)
    BY <1>1
  <2> QED BY <2>1, <1>2, <1>3
<1>8. n = N
  <2>1. n \in Nat /\ n <= N /\ n \in 0..N /\ m[n] \in Nat /\ m[N] \in Nat
    BY <1>1, <1>2, <1>3
  <2> QED BY <2>1, <1>1, <1>4, <1>6, <1>7
<1> QED BY <1>1, <1>5, <1>6, <1>8 DEF ps, N
-----------------------------------------------------------------------------
(* Adding a piece to a buffer.                                             *)

BufferOf(reply) ==
    [len : Nat, tags : Seq({"open", "close"}), pieces : Seq(PieceOf(reply))]

HasBlock(reply, qs) == \E i \in 1..Len(qs) : InBlock(reply, qs[i].line)

\* The tags of a buffer when the text goes on inside the block or outside.
Tagging(reply, b, inPre) ==
    b.tags = IF inPre THEN <<"open">>
             ELSE IF HasBlock(reply, b.pieces) THEN <<"open", "close">> ELSE <<>>

\* What a piece can be, by whether the block is open before it and after it.
Phase(reply, p, before, after) ==
    \/ /\ ~before /\ p.open /\ p.close /\ ~after /\ InBlock(reply, p.line)
    \/ /\ ~before /\ p.open /\ ~p.close /\ after /\ InBlock(reply, p.line)
    \/ /\ before /\ ~p.open /\ p.close /\ ~after /\ InBlock(reply, p.line)
    \/ /\ before /\ ~p.open /\ ~p.close /\ after /\ InBlock(reply, p.line)
    \/ /\ ~before /\ ~p.open /\ ~p.close /\ ~after /\ ~InBlock(reply, p.line)

\* _pre_state follows the block.
LEMMA PreStateIs ==
    ASSUME NEW reply, NEW ps \in Seq(Piece), NEW O, NEW C, Bracketed(ps, reply, O, C),
           NEW k \in 1..Len(ps), NEW before \in BOOLEAN, before <=> O <= k - 1 /\ k - 1 < C
    PROVE  /\ PreState(ps[k], before) \in BOOLEAN
           /\ PreState(ps[k], before) <=> O <= k /\ k < C
           /\ Phase(reply, ps[k], before, PreState(ps[k], before))
           /\ ps[k].open <=> k = O
           /\ InBlock(reply, ps[k].line) => O <= k /\ 0 < O
<1> DEFINE p == ps[k]
           after == PreState(p, before)
<1>1. /\ p.open \in BOOLEAN /\ p.close \in BOOLEAN
      /\ O \in Nat /\ C \in Nat /\ k \in Nat /\ k >= 1 /\ O <= C /\ (O = 0 => C = 0)
      /\ p.open <=> k = O
      /\ p.close <=> k = C
      /\ InBlock(reply, p.line) <=> O <= k /\ k <= C
  <2>1. p \in Piece /\ k \in Nat /\ k >= 1
    OBVIOUS
  <2>2. p.open \in BOOLEAN /\ p.close \in BOOLEAN
    BY <2>1 DEF Piece
  <2>3. O \in Nat /\ C \in Nat /\ O <= C /\ (O = 0 => C = 0)
    BY DEF Bracketed
  <2>4. /\ p.open <=> k = O
        /\ p.close <=> k = C
        /\ InBlock(reply, p.line) <=> O <= k /\ k <= C
    BY DEF Bracketed
  <2> QED BY <2>1, <2>2, <2>3, <2>4
<1>2. after = IF p.open = p.close THEN before ELSE p.open
  BY DEF PreState
<1> HIDE DEF p, after
<1>3. after \in BOOLEAN /\ (after <=> O <= k /\ k < C)
  <2>1. CASE k = O \/ k = C
    BY <1>1, <1>2, <2>1
  <2>2. CASE k # O /\ k # C
    BY <1>1, <1>2, <2>2
  <2> QED BY <2>1, <2>2
<1>4. Phase(reply, p, before, after)
  BY <1>1, <1>3 DEF Phase
<1> QED BY <1>1, <1>3, <1>4 DEF p, after

LEMMA HasBlockAppend ==
    ASSUME NEW reply, NEW S, NEW qs \in Seq(S), NEW p \in S
    PROVE  HasBlock(reply, Append(qs, p)) <=> HasBlock(reply, qs) \/ InBlock(reply, p.line)
<1> DEFINE rs == Append(qs, p)
           n == Len(qs)
<1>1. /\ n \in Nat /\ Len(rs) = n + 1 /\ rs[n + 1] = p
      /\ \A i \in 1..n : rs[i] = qs[i] /\ i \in 1..(n + 1)
      /\ \A i \in 1..(n + 1) : i \in 1..n \/ i = n + 1
      /\ n + 1 \in 1..(n + 1)
  OBVIOUS
<1> HIDE DEF rs
<1>2. HasBlock(reply, rs) <=> HasBlock(reply, qs) \/ InBlock(reply, p.line)
  BY <1>1 DEF HasBlock
<1> QED BY <1>2 DEF rs

\* A piece is at most a width long, its tags aside.
LEMMA SizeIs ==
    ASSUME NEW reply, NEW p \in PieceOf(reply)
    PROVE  /\ Size(p) \in Nat /\ Tagged(p) \in Nat
           /\ Size(p) = (p.hi - p.lo) + Tagged(p) /\ p.hi - p.lo \in Nat
           /\ Size(p) <= Width + Tagged(p)
           /\ p.open /\ p.close => Tagged(p) = OpenLen + CloseLen
           /\ p.open /\ ~p.close => Tagged(p) = OpenLen
           /\ ~p.open /\ p.close => Tagged(p) = CloseLen
           /\ ~p.open /\ ~p.close => Tagged(p) = 0
<1>1. /\ p.lo \in Nat /\ p.hi \in Nat /\ p.lo <= p.hi /\ p.hi <= p.lo + Width
      /\ p.open \in BOOLEAN /\ p.close \in BOOLEAN
  BY DEF PieceOf, Span, Piece
<1>2. OpenLen \in Nat /\ CloseLen \in Nat /\ Width \in Nat
  BY Lengths
<1> QED BY <1>1, <1>2 DEF Size, Tagged

LEMMA BasesAre ==
    ASSUME NEW reply
    PROVE  /\ Blank \in BufferOf(reply) /\ Reopened \in BufferOf(reply)
           /\ ~HasBlock(reply, <<>>)
<1>1. 0 \in Nat /\ OpenLen \in Nat
  BY Lengths
<1>2. <<>> \in Seq({"open", "close"}) /\ <<"open">> \in Seq({"open", "close"})
  OBVIOUS
<1>3. <<>> \in Seq(PieceOf(reply))
  OBVIOUS
<1> QED BY <1>1, <1>2, <1>3 DEF Blank, Reopened, BufferOf, HasBlock

LEMMA AddType ==
    ASSUME NEW reply, NEW b \in BufferOf(reply), NEW p \in PieceOf(reply)
    PROVE  /\ Add(b, p) \in BufferOf(reply)
           /\ Add(b, p).len = b.len + Sep(b) + Size(p) /\ Add(b, p).tags = b.tags \o Tags(p)
           /\ Add(b, p).pieces = Append(b.pieces, p)
           /\ Sep(b) \in {0, 1}
<1>1. b.len \in Nat /\ b.tags \in Seq({"open", "close"}) /\ b.pieces \in Seq(PieceOf(reply))
  BY DEF BufferOf
<1>2. Sep(b) \in {0, 1}
  BY DEF Sep
<1>3. Size(p) \in Nat /\ p.open \in BOOLEAN /\ p.close \in BOOLEAN
  BY SizeIs DEF PieceOf, Span, Piece
<1>4. Tags(p) \in Seq({"open", "close"})
  BY <1>3, TagsAre
<1>5. b.tags \o Tags(p) \in Seq({"open", "close"})
  BY <1>1, <1>4, ConcatType
<1>6. Append(b.pieces, p) \in Seq(PieceOf(reply))
  BY <1>1
<1>7. b.len + Sep(b) + Size(p) \in Nat
  BY <1>1, <1>2, <1>3
<1> QED BY <1>2, <1>5, <1>6, <1>7 DEF Add, BufferOf

\* The tags stay right.
LEMMA AddTags ==
    ASSUME NEW reply, NEW b \in BufferOf(reply), NEW p \in PieceOf(reply),
           NEW before \in BOOLEAN, NEW after \in BOOLEAN,
           Phase(reply, p, before, after), Tagging(reply, b, before),
           p.open => ~HasBlock(reply, b.pieces)
    PROVE  /\ Tagging(reply, Add(b, p), after)
           /\ after => HasBlock(reply, Add(b, p).pieces)
<1> DEFINE d == Add(b, p)
<1>1. d.tags = b.tags \o Tags(p) /\ d.pieces = Append(b.pieces, p)
  BY AddType
<1>2. b.pieces \in Seq(PieceOf(reply)) /\ p.open \in BOOLEAN /\ p.close \in BOOLEAN
  BY DEF BufferOf, PieceOf, Span, Piece
<1> HIDE DEF d
<1>3. HasBlock(reply, d.pieces) <=> HasBlock(reply, b.pieces) \/ InBlock(reply, p.line)
  BY <1>1, <1>2, HasBlockAppend
<1>4. /\ <<"open">> \o <<"close">> = <<"open", "close">>
      /\ <<>> \o <<"open", "close">> = <<"open", "close">> /\ <<>> \o <<"open">> = <<"open">>
      /\ <<"open">> \o <<>> = <<"open">> /\ <<"open", "close">> \o <<>> = <<"open", "close">>
      /\ <<>> \o <<>> = <<>>
  <2>1. "open" \in {"open", "close"} /\ "close" \in {"open", "close"}
    OBVIOUS
  <2>2. /\ <<"open">> \in Seq({"open", "close"}) /\ <<"open", "close">> \in Seq({"open", "close"})
        /\ <<>> \in Seq({"open", "close"})
    OBVIOUS
  <2> QED BY <2>1, <2>2, ConcatPair, ConcatEmpty
<1>5. /\ p.open /\ p.close => Tags(p) = <<"open", "close">>
      /\ p.open /\ ~p.close => Tags(p) = <<"open">>
      /\ ~p.open /\ p.close => Tags(p) = <<"close">>
      /\ ~p.open /\ ~p.close => Tags(p) = <<>>
  BY <1>2, TagsAre
<1>6. CASE ~before /\ p.open /\ p.close /\ ~after /\ InBlock(reply, p.line)
  <2>1. b.tags = <<>> /\ d.tags = <<"open", "close">>
    BY <1>1, <1>4, <1>5, <1>6 DEF Tagging
  <2> QED BY <1>3, <1>6, <2>1 DEF Tagging, d
<1>7. CASE ~before /\ p.open /\ ~p.close /\ after /\ InBlock(reply, p.line)
  <2>1. b.tags = <<>> /\ d.tags = <<"open">>
    BY <1>1, <1>4, <1>5, <1>7 DEF Tagging
  <2> QED BY <1>3, <1>7, <2>1 DEF Tagging, d
<1>8. CASE before /\ ~p.open /\ p.close /\ ~after /\ InBlock(reply, p.line)
  <2>1. b.tags = <<"open">> /\ d.tags = <<"open", "close">>
    BY <1>1, <1>4, <1>5, <1>8 DEF Tagging
  <2> QED BY <1>3, <1>8, <2>1 DEF Tagging, d
<1>9. CASE before /\ ~p.open /\ ~p.close /\ after /\ InBlock(reply, p.line)
  <2>1. b.tags = <<"open">> /\ d.tags = <<"open">>
    BY <1>1, <1>4, <1>5, <1>9 DEF Tagging
  <2> QED BY <1>3, <1>9, <2>1 DEF Tagging, d
<1>a. CASE ~before /\ ~p.open /\ ~p.close /\ ~after /\ ~InBlock(reply, p.line)
  <2>1. d.tags = b.tags
    BY <1>1, <1>4, <1>5, <1>a DEF Tagging
  <2> QED BY <1>3, <1>a, <2>1 DEF Tagging, d
<1> QED BY <1>6, <1>7, <1>8, <1>9, <1>a DEF Phase

\* There is room for it, and for the tag that will close the chunk.
Room(b, inPre) == b.len + (IF inPre THEN CloseLen ELSE 0) <= Limit

LEMMA AddRoom ==
    ASSUME NEW reply, NEW b \in BufferOf(reply), NEW p \in PieceOf(reply),
           NEW before \in BOOLEAN, NEW after \in BOOLEAN, Phase(reply, p, before, after),
           ~Overflows(b, p) \/ b = Blank \/ (before /\ b = Reopened)
    PROVE  Room(Add(b, p), after)
<1>1. /\ b.len \in Nat /\ Sep(b) \in {0, 1} /\ Add(b, p).len = b.len + Sep(b) + Size(p)
      /\ Size(p) \in Nat
  BY AddType, SizeIs DEF BufferOf
<1>2. /\ Limit \in Nat /\ OpenLen \in Nat /\ CloseLen \in Nat /\ Width \in Nat
      /\ Limit = Width + OpenLen + CloseLen + 2
  BY Lengths
<1>3. CASE b.len > 0 /\ ~Overflows(b, p)
  BY <1>1, <1>2, <1>3 DEF Overflows, Room
<1>4. CASE b.len = 0
  <2>1. Sep(b) = 0
    BY <1>4 DEF Sep, Bare
  <2>2. Size(p) <= Width + OpenLen + CloseLen /\ (after => Size(p) <= Width + OpenLen)
    BY <1>2, SizeIs DEF Phase
  <2> QED BY <1>1, <1>2, <1>4, <2>1, <2>2 DEF Room
<1>5. CASE before /\ b = Reopened
  <2>1. Sep(b) = 0 /\ b.len = OpenLen
    BY <1>5 DEF Sep, Bare, Reopened
  <2>2. Size(p) <= Width + CloseLen /\ (after => Size(p) <= Width)
    BY <1>2, <1>5, SizeIs DEF Phase
  <2> QED BY <1>1, <1>2, <2>1, <2>2 DEF Room
<1>6. b = Blank => b.len = 0
  BY DEF Blank
<1> QED BY <1>1, <1>3, <1>4, <1>5, <1>6

\* A buffer is as long as each of its pieces.
Holds(b) == \A i \in 1..Len(b.pieces) : b.pieces[i].hi <= b.pieces[i].lo + b.len

LEMMA AddHolds ==
    ASSUME NEW reply, NEW b \in BufferOf(reply), NEW p \in PieceOf(reply), Holds(b)
    PROVE  Holds(Add(b, p))
<1> DEFINE d == Add(b, p)
           n == Len(b.pieces)
<1>a. b.len \in Nat /\ b.pieces \in Seq(PieceOf(reply)) /\ n \in Nat
  BY DEF BufferOf
<1>b. /\ Sep(b) \in {0, 1} /\ d.len = b.len + Sep(b) + Size(p) /\ d.pieces = Append(b.pieces, p)
  BY AddType
<1>1. /\ b.len \in Nat /\ Sep(b) \in Nat /\ Size(p) \in Nat /\ d.len = b.len + Sep(b) + Size(p)
      /\ d.pieces = Append(b.pieces, p) /\ b.pieces \in Seq(PieceOf(reply)) /\ n \in Nat
  BY <1>a, <1>b, SizeIs
<1>2. Len(d.pieces) = n + 1 /\ d.pieces[n + 1] = p /\ \A i \in 1..n : d.pieces[i] = b.pieces[i]
  BY <1>1
<1>3. Size(p) = (p.hi - p.lo) + Tagged(p) /\ Tagged(p) \in Nat /\ p.hi \in Nat /\ p.lo \in Nat
  BY SizeIs DEF PieceOf, Span, Piece
<1>4. p.hi <= p.lo + d.len
  BY <1>1, <1>3
<1>5. ASSUME NEW i \in 1..n PROVE b.pieces[i].hi <= b.pieces[i].lo + d.len
  <2>1. b.pieces[i].hi \in Nat /\ b.pieces[i].lo \in Nat
    <3>1. b.pieces[i] \in PieceOf(reply)
      BY <1>1
    <3> QED BY <3>1 DEF PieceOf, Span, Piece
  <2>2. b.pieces[i].hi <= b.pieces[i].lo + b.len
    BY DEF Holds
  <2> QED BY <1>1, <2>1, <2>2
<1> HIDE DEF d
<1>6. ASSUME NEW i \in 1..(n + 1) PROVE d.pieces[i].hi <= d.pieces[i].lo + d.len
  BY <1>1, <1>2, <1>4, <1>5
<1> QED BY <1>2, <1>6 DEF Holds, d
-----------------------------------------------------------------------------
(* Packing.                                                                *)

ChunkText(cs) == FlattenSeq([c \in DOMAIN cs |-> Shown(cs[c].pieces)])

LEMMA ChunkRows ==
    ASSUME NEW reply, NEW cs \in Seq(BufferOf(reply))
    PROVE  /\ [c \in DOMAIN cs |-> Shown(cs[c].pieces)] \in Seq(Seq(Nat \X Nat))
           /\ Len([c \in DOMAIN cs |-> Shown(cs[c].pieces)]) = Len(cs)
<1>1. ASSUME NEW c \in 1..Len(cs) PROVE Shown(cs[c].pieces) \in Seq(Nat \X Nat)
  <2>0. cs[c] \in BufferOf(reply)
    OBVIOUS
  <2>1. cs[c].pieces \in Seq(PieceOf(reply))
    BY <2>0 DEF BufferOf
  <2>2. PieceOf(reply) \subseteq Span
    BY DEF PieceOf
  <2>3. cs[c].pieces \in Seq(Span)
    BY <2>1, <2>2
  <2> QED BY <2>3, ShownType
<1>2. DOMAIN cs = 1..Len(cs) /\ Len(cs) \in Nat
  OBVIOUS
<1> QED BY <1>1, <1>2

LEMMA ChunkTextAppend ==
    ASSUME NEW reply, NEW cs \in Seq(BufferOf(reply)), NEW b \in BufferOf(reply)
    PROVE  /\ ChunkText(Append(cs, b)) = ChunkText(cs) \o Shown(b.pieces)
           /\ ChunkText(cs) \in Seq(Nat \X Nat) /\ Shown(b.pieces) \in Seq(Nat \X Nat)
<1> DEFINE rows == [c \in DOMAIN cs |-> Shown(cs[c].pieces)]
           more == [c \in DOMAIN Append(cs, b) |-> Shown(Append(cs, b)[c].pieces)]
           r == Shown(b.pieces)
<1>1. rows \in Seq(Seq(Nat \X Nat)) /\ Len(rows) = Len(cs)
  BY ChunkRows
<1>2. more \in Seq(Seq(Nat \X Nat)) /\ Len(more) = Len(cs) + 1
  <2>1. Append(cs, b) \in Seq(BufferOf(reply)) /\ Len(Append(cs, b)) = Len(cs) + 1
    OBVIOUS
  <2> QED BY <2>1, ChunkRows
<1>3. r \in Seq(Nat \X Nat)
  <2>1. b.pieces \in Seq(PieceOf(reply)) /\ PieceOf(reply) \subseteq Span
    BY DEF BufferOf, PieceOf
  <2>2. b.pieces \in Seq(Span)
    BY <2>1
  <2> QED BY <2>2, ShownType
<1>4. /\ \A c \in 1..Len(cs) : more[c] = rows[c]
      /\ more[Len(cs) + 1] = r
  OBVIOUS
<1>5. ChunkText(cs) = FlattenSeq(rows) /\ ChunkText(Append(cs, b)) = FlattenSeq(more)
  BY DEF ChunkText
<1>6. Len(cs) \in Nat
  OBVIOUS
<1> HIDE DEF rows, more, r
<1>7. more = Append(rows, r)
  <2> DEFINE S == Seq(Nat \X Nat)
             also == Append(rows, r)
  <2>1. rows \in Seq(S) /\ r \in S /\ more \in Seq(S)
    BY <1>1, <1>2, <1>3
  <2> HIDE DEF S
  <2>2. also \in Seq(S) /\ Len(also) = Len(rows) + 1
    BY <2>1
  <2>3. ASSUME NEW i \in 1..(Len(cs) + 1) PROVE more[i] = also[i]
    <3>1. CASE i \in 1..Len(cs)
      BY <3>1, <2>1, <1>1, <1>4
    <3>2. CASE i = Len(cs) + 1
      BY <3>2, <2>1, <1>1, <1>4
    <3>3. i \in 1..Len(cs) \/ i = Len(cs) + 1
      BY <1>6
    <3> HIDE DEF also
    <3> QED BY <3>1, <3>2, <3>3
  <2> HIDE DEF also
  <2>4. more = also
    <3>1. Len(more) = Len(also) /\ \A i \in 1..Len(more) : more[i] = also[i]
      BY <1>1, <1>2, <2>2, <2>3
    <3> QED BY <2>1, <2>2, <3>1, SeqEq
  <2> QED BY <2>4 DEF also
<1>8. FlattenSeq(more) = FlattenSeq(rows) \o r
  BY <1>1, <1>3, <1>7, FlattenAppend
<1>9. FlattenSeq(rows) \in Seq(Nat \X Nat)
  BY <1>1, FlattenType
<1> QED BY <1>3, <1>5, <1>8, <1>9 DEF r

\* What holds once k pieces are packed.
PackInv(reply, ps, O, C, k, s) ==
    /\ s \in Packing
    /\ s.chunks \in Seq(BufferOf(reply)) /\ s.buf \in BufferOf(reply)
    /\ s.inPre <=> O <= k /\ k < C
    /\ Tagging(reply, s.buf, s.inPre)
    /\ s.inPre => HasBlock(reply, s.buf.pieces)
    /\ HasBlock(reply, s.buf.pieces) => O <= k /\ 0 < O
    /\ Room(s.buf, s.inPre)
    /\ Holds(s.buf)
    /\ \A c \in 1..Len(s.chunks) : Fits(s.chunks[c]) /\ Balanced(reply, s.chunks[c])
    /\ ChunkText(s.chunks) \o Shown(s.buf.pieces) = Shown(SubSeq(ps, 1, k))

\* The buffer that the next piece is added to.
Base(s, p) == IF ~Overflows(s.buf, p) THEN s.buf ELSE IF s.inPre THEN Reopened ELSE Blank

LEMMA PackIs ==
    ASSUME NEW s \in Packing, NEW p
    PROVE  /\ Pack(p)[s].chunks = IF Overflows(s.buf, p)
                                  THEN Append(s.chunks, Closed(s.buf, s.inPre)) ELSE s.chunks
           /\ Pack(p)[s].buf = Add(Base(s, p), p)
           /\ Pack(p)[s].inPre = PreState(p, s.inPre)
           /\ Pack(p)[s] = [chunks |-> Pack(p)[s].chunks, buf |-> Pack(p)[s].buf,
                            inPre |-> Pack(p)[s].inPre]
<1> DEFINE t == [chunks |-> IF Overflows(s.buf, p)
                            THEN Append(s.chunks, Closed(s.buf, s.inPre)) ELSE s.chunks,
                 buf    |-> Add(Base(s, p), p),
                 inPre  |-> PreState(p, s.inPre)]
<1>1. Pack(p)[s] = t
  BY DEF Pack, Base
<1> QED BY <1>1

\* A buffer is a chunk once its tag is closed.
LEMMA ClosedIs ==
    ASSUME NEW reply, NEW b \in BufferOf(reply), NEW inPre \in BOOLEAN,
           Tagging(reply, b, inPre), inPre => HasBlock(reply, b.pieces), Room(b, inPre)
    PROVE  /\ Closed(b, inPre) \in BufferOf(reply)
           /\ Closed(b, inPre).pieces = b.pieces
           /\ Fits(Closed(b, inPre)) /\ Balanced(reply, Closed(b, inPre))
<1> DEFINE d == Closed(b, inPre)
<1>1. /\ b.len \in Nat /\ b.tags \in Seq({"open", "close"}) /\ b.pieces \in Seq(PieceOf(reply))
      /\ CloseLen \in Nat
  BY Lengths DEF BufferOf
<1>2. CASE inPre
  <2>1. /\ d = [b EXCEPT !.len = @ + CloseLen, !.tags = Append(@, "close")]
        /\ b.tags = <<"open">>
    BY <1>2 DEF Closed, Tagging
  <2>2. d.pieces = b.pieces /\ d.len = b.len + CloseLen /\ d.tags = Append(b.tags, "close")
    BY <2>1, <1>1 DEF BufferOf
  <2>3. Append(<<"open">>, "close") = <<"open", "close">>
    <3>1. "open" \in {"open", "close"} /\ "close" \in {"open", "close"}
      OBVIOUS
    <3>2. Append(<<"open">>, "close") = <<"open">> \o <<"close">>
      OBVIOUS
    <3> QED BY <3>1, <3>2, ConcatPair
  <2>4. d \in BufferOf(reply)
    <3>1. "close" \in {"open", "close"}
      OBVIOUS
    <3>2. Append(b.tags, "close") \in Seq({"open", "close"})
      BY <1>1, <3>1
    <3>3. b.len + CloseLen \in Nat
      BY <1>1
    <3>4. d = [len |-> b.len + CloseLen, tags |-> Append(b.tags, "close"), pieces |-> b.pieces]
      BY <2>1 DEF BufferOf
    <3> HIDE DEF d
    <3> QED BY <1>1, <3>2, <3>3, <3>4 DEF BufferOf
  <2>5. d.tags = <<"open", "close">>
    BY <2>1, <2>2, <2>3
  <2> HIDE DEF d
  <2>6. Fits(d)
    BY <2>2, <1>2 DEF Room, Fits
  <2>7. \E i \in DOMAIN d.pieces : InBlock(reply, d.pieces[i].line)
    BY <1>1, <1>2, <2>2 DEF HasBlock
  <2> QED BY <2>2, <2>4, <2>5, <2>6, <2>7 DEF d, Balanced
<1>3. CASE ~inPre
  <2>1. d = b
    BY <1>3 DEF Closed
  <2>2. Fits(b)
    BY <1>1, <1>3 DEF Room, Fits
  <2>3. Balanced(reply, b)
    <3>1. DOMAIN b.pieces = 1..Len(b.pieces)
      BY <1>1
    <3> QED BY <1>3, <3>1 DEF Tagging, HasBlock, Balanced
  <2> QED BY <2>1, <2>2, <2>3
<1> QED BY <1>2, <1>3
LEMMA BaseIs ==
    ASSUME NEW reply, NEW s, s.buf \in BufferOf(reply), s.inPre \in BOOLEAN,
           Tagging(reply, s.buf, s.inPre), Holds(s.buf), NEW p
    PROVE  /\ Base(s, p) \in BufferOf(reply) /\ Tagging(reply, Base(s, p), s.inPre)
           /\ Holds(Base(s, p))
           /\ HasBlock(reply, Base(s, p).pieces) => HasBlock(reply, s.buf.pieces)
           /\ \/ ~Overflows(Base(s, p), p)
              \/ Base(s, p) = Blank
              \/ s.inPre /\ Base(s, p) = Reopened
           /\ Overflows(s.buf, p) => Base(s, p).pieces = <<>>
           /\ ~Overflows(s.buf, p) => Base(s, p) = s.buf
<1>1. CASE ~Overflows(s.buf, p)
  <2>1. Base(s, p) = s.buf
    BY <1>1 DEF Base
  <2> QED BY <1>1, <2>1
<1>2. CASE Overflows(s.buf, p) /\ s.inPre
  <2>1. Base(s, p) = Reopened
    BY <1>2 DEF Base
  <2>2. Reopened.pieces = <<>> /\ Reopened.tags = <<"open">> /\ Len(<<>>) = 0
    BY DEF Reopened
  <2>3. Holds(Reopened)
    BY <2>2 DEF Holds
  <2> QED BY <1>2, <2>1, <2>2, <2>3, BasesAre DEF Tagging
<1>3. CASE Overflows(s.buf, p) /\ ~s.inPre
  <2>1. Base(s, p) = Blank
    BY <1>3 DEF Base
  <2>2. Blank.pieces = <<>> /\ Blank.tags = <<>> /\ Len(<<>>) = 0
    BY DEF Blank
  <2>3. Holds(Blank)
    BY <2>2 DEF Holds
  <2> QED BY <1>3, <2>1, <2>2, <2>3, BasesAre DEF Tagging
<1> QED BY <1>1, <1>2, <1>3

\* The text that is packed when one more piece is.
LEMMA PackText ==
    ASSUME NEW reply, NEW ps \in Seq(PieceOf(reply)), NEW k \in 1..Len(ps),
           NEW s \in Packing, s.chunks \in Seq(BufferOf(reply)), s.buf \in BufferOf(reply),
           Closed(s.buf, s.inPre) \in BufferOf(reply),
           Closed(s.buf, s.inPre).pieces = s.buf.pieces,
           ChunkText(s.chunks) \o Shown(s.buf.pieces) = Shown(SubSeq(ps, 1, k - 1))
    PROVE  ChunkText(Pack(ps[k])[s].chunks) \o Shown(Pack(ps[k])[s].buf.pieces)
               = Shown(SubSeq(ps, 1, k))
<1> DEFINE p == ps[k]
           t == Pack(p)[s]
           u == SubSeq(ps, 1, k - 1)
           v == SubSeq(ps, 1, k)
<1>1. p \in PieceOf(reply) /\ PieceOf(reply) \subseteq Span
  BY DEF PieceOf
<1>2. u \in Seq(Span) /\ v = Append(u, p)
  <2>1. u \in Seq(PieceOf(reply)) /\ v = Append(u, p)
    OBVIOUS
  <2> HIDE DEF u
  <2> QED BY <1>1, <2>1
<1>3. Shown(v) = Shown(u) \o Places(p)
  BY <1>1, <1>2, ShownAppend
<1>4. /\ ChunkText(s.chunks) \in Seq(Nat \X Nat) /\ Shown(s.buf.pieces) \in Seq(Nat \X Nat)
      /\ ChunkText(Append(s.chunks, Closed(s.buf, s.inPre)))
            = ChunkText(s.chunks) \o Shown(s.buf.pieces)
  BY ChunkTextAppend
<1>5. Places(p) \in Seq(Nat \X Nat)
  BY <1>1, PlacesAre DEF Span
<1>6. s.buf.pieces \in Seq(Span)
  BY <1>1 DEF BufferOf
<1>7. t.buf.pieces = Append(Base(s, p).pieces, p)
  <2>1. t.buf = Add(Base(s, p), p)
    BY PackIs
  <2>2. ASSUME NEW b PROVE Add(b, p).pieces = Append(b.pieces, p)
    BY DEF Add
  <2> QED BY <2>1, <2>2
<1> HIDE DEF p, t, u, v
<1>8. CASE Overflows(s.buf, p)
  <2>1. t.chunks = Append(s.chunks, Closed(s.buf, s.inPre))
    BY <1>8, PackIs DEF t
  <2>2. Base(s, p).pieces = <<>>
    BY <1>8 DEF Base, Blank, Reopened
  <2>3. t.buf.pieces = <<p>>
    BY <1>7, <2>2
  <2>4. Shown(t.buf.pieces) = Places(p)
    BY <1>1, <2>3, ShownOne
  <2>5. ChunkText(t.chunks) = Shown(u)
    BY <1>4, <2>1 DEF u
  <2> QED BY <1>3, <2>4, <2>5 DEF t, p, v
<1>9. CASE ~Overflows(s.buf, p)
  <2>1. t.chunks = s.chunks
    BY <1>9, PackIs DEF t
  <2>2. t.buf.pieces = Append(s.buf.pieces, p)
    BY <1>7, <1>9 DEF Base
  <2>3. Shown(t.buf.pieces) = Shown(s.buf.pieces) \o Places(p)
    BY <1>1, <1>6, <2>2, ShownAppend
  <2>4. (ChunkText(s.chunks) \o Shown(s.buf.pieces)) \o Places(p)
            = ChunkText(s.chunks) \o (Shown(s.buf.pieces) \o Places(p))
    <3> DEFINE S == Nat \X Nat
               x == ChunkText(s.chunks)
               y == Shown(s.buf.pieces)
               z == Places(p)
    <3>1. x \in Seq(S) /\ y \in Seq(S) /\ z \in Seq(S)
      BY <1>4, <1>5
    <3>2. (x \o y) \o z = x \o (y \o z)
      <4> HIDE DEF S, x, y, z
      <4> QED BY <3>1
    <3> HIDE DEF S, x, y, z
    <3>3. x = ChunkText(s.chunks) /\ y = Shown(s.buf.pieces) /\ z = Places(p)
      BY DEF x, y, z
    <3> QED BY <3>2, <3>3
  <2> QED BY <1>3, <2>1, <2>3, <2>4 DEF t, p, u, v
<1> QED BY <1>8, <1>9

LEMMA BufferOfIs == ASSUME NEW reply PROVE BufferOf(reply) \subseteq Buffer
<1>1. PieceOf(reply) \subseteq Piece
  BY DEF PieceOf, Span
<1> QED BY <1>1 DEF BufferOf, Buffer

\* One more piece.
LEMMA PackStep ==
    ASSUME NEW reply \in Lines, NEW ps \in Seq(PieceOf(reply)), NEW O, NEW C,
           Bracketed(ps, reply, O, C), NEW k \in 1..Len(ps),
           NEW s, PackInv(reply, ps, O, C, k - 1, s)
    PROVE  PackInv(reply, ps, O, C, k, Pack(ps[k])[s])
<1> DEFINE p == ps[k]
           t == Pack(p)[s]
           b == Base(s, p)
<1>1. /\ s \in Packing /\ s.inPre \in BOOLEAN
      /\ s.chunks \in Seq(BufferOf(reply)) /\ s.buf \in BufferOf(reply)
      /\ s.inPre <=> O <= k - 1 /\ k - 1 < C
      /\ Tagging(reply, s.buf, s.inPre)
      /\ s.inPre => HasBlock(reply, s.buf.pieces)
      /\ HasBlock(reply, s.buf.pieces) => O <= k - 1 /\ 0 < O
      /\ Room(s.buf, s.inPre)
      /\ Holds(s.buf)
      /\ \A c \in 1..Len(s.chunks) : Fits(s.chunks[c]) /\ Balanced(reply, s.chunks[c])
      /\ ChunkText(s.chunks) \o Shown(s.buf.pieces) = Shown(SubSeq(ps, 1, k - 1))
  <2>1. s \in Packing => s.inPre \in BOOLEAN
    BY DEF Packing
  <2> QED BY <2>1 DEF PackInv
<1>2. p \in PieceOf(reply) /\ ps \in Seq(Piece) /\ O \in Nat /\ C \in Nat /\ k \in Nat
  <2>1. PieceOf(reply) \subseteq Piece
    BY DEF PieceOf, Span
  <2> QED BY <2>1 DEF Bracketed
<1>3. /\ PreState(p, s.inPre) \in BOOLEAN
      /\ PreState(p, s.inPre) <=> O <= k /\ k < C
      /\ Phase(reply, p, s.inPre, PreState(p, s.inPre))
      /\ p.open <=> k = O
      /\ InBlock(reply, p.line) => O <= k /\ 0 < O
  BY <1>1, <1>2, PreStateIs
<1>4. /\ Closed(s.buf, s.inPre) \in BufferOf(reply)
      /\ Closed(s.buf, s.inPre).pieces = s.buf.pieces
      /\ Fits(Closed(s.buf, s.inPre)) /\ Balanced(reply, Closed(s.buf, s.inPre))
  BY <1>1, ClosedIs
<1>5. /\ b \in BufferOf(reply) /\ Tagging(reply, b, s.inPre) /\ Holds(b)
      /\ HasBlock(reply, b.pieces) => HasBlock(reply, s.buf.pieces)
      /\ ~Overflows(b, p) \/ b = Blank \/ (s.inPre /\ b = Reopened)
  BY <1>1, BaseIs
<1>6. /\ t.chunks = IF Overflows(s.buf, p)
                    THEN Append(s.chunks, Closed(s.buf, s.inPre)) ELSE s.chunks
      /\ t.buf = Add(b, p)
      /\ t.inPre = PreState(p, s.inPre)
      /\ t = [chunks |-> t.chunks, buf |-> t.buf, inPre |-> t.inPre]
  BY <1>1, PackIs
<1>7. ChunkText(t.chunks) \o Shown(t.buf.pieces) = Shown(SubSeq(ps, 1, k))
  BY <1>1, <1>4, PackText
<1> HIDE DEF p, t, b
<1>8. t.chunks \in Seq(BufferOf(reply))
  BY <1>1, <1>4, <1>6
<1>9. \A c \in 1..Len(t.chunks) : Fits(t.chunks[c]) /\ Balanced(reply, t.chunks[c])
  <2>1. CASE ~Overflows(s.buf, p)
    BY <1>1, <1>6, <2>1
  <2>2. CASE Overflows(s.buf, p)
    <3> DEFINE d == Closed(s.buf, s.inPre)
               n == Len(s.chunks)
    <3>1. /\ t.chunks = Append(s.chunks, d) /\ n \in Nat /\ Len(t.chunks) = n + 1
          /\ t.chunks[n + 1] = d /\ \A c \in 1..n : t.chunks[c] = s.chunks[c]
      BY <1>1, <1>6, <2>2
    <3>2. \A c \in 1..(n + 1) : c \in 1..n \/ c = n + 1
      BY <3>1
    <3> HIDE DEF d
    <3>3. Fits(d) /\ Balanced(reply, d)
      BY <1>4 DEF d
    <3>4. \A c \in 1..n : Fits(t.chunks[c]) /\ Balanced(reply, t.chunks[c])
      BY <1>1, <3>1
    <3> QED BY <3>1, <3>2, <3>3, <3>4
  <2> QED BY <2>1, <2>2
<1>a. t.buf \in BufferOf(reply) /\ t.buf.pieces = Append(b.pieces, p)
  BY <1>2, <1>5, <1>6, AddType
<1>b. /\ Tagging(reply, t.buf, t.inPre)
      /\ t.inPre => HasBlock(reply, t.buf.pieces)
  <2>1. p.open => ~HasBlock(reply, b.pieces)
    BY <1>1, <1>2, <1>3, <1>5
  <2> QED BY <1>1, <1>2, <1>3, <1>5, <1>6, <2>1, AddTags
<1>c. HasBlock(reply, t.buf.pieces) => O <= k /\ 0 < O
  <2>1. b.pieces \in Seq(PieceOf(reply))
    BY <1>5 DEF BufferOf
  <2>2. HasBlock(reply, t.buf.pieces) <=> HasBlock(reply, b.pieces) \/ InBlock(reply, p.line)
    BY <1>2, <1>a, <2>1, HasBlockAppend
  <2> QED BY <1>1, <1>2, <1>3, <1>5, <2>2
<1>d. Room(t.buf, t.inPre)
  BY <1>1, <1>2, <1>3, <1>5, <1>6, AddRoom
<1>e. Holds(t.buf)
  BY <1>2, <1>5, <1>6, AddHolds
<1>f. t \in Packing
  <2>1. t.chunks \in Seq(Buffer) /\ t.buf \in Buffer
    BY <1>8, <1>a, BufferOfIs
  <2> QED BY <1>3, <1>6, <2>1 DEF Packing
<1>g. t.inPre <=> O <= k /\ k < C
  BY <1>3, <1>6
<1>h. PackInv(reply, ps, O, C, k, t)
  BY <1>7, <1>8, <1>9, <1>a, <1>b, <1>c, <1>d, <1>e, <1>f, <1>g DEF PackInv
<1> QED BY <1>h DEF t, p

LEMMA PackStart ==
    ASSUME NEW reply, NEW ps \in Seq(PieceOf(reply)), NEW O, NEW C, Bracketed(ps, reply, O, C)
    PROVE  PackInv(reply, ps, O, C, 0, [chunks |-> <<>>, buf |-> Blank, inPre |-> FALSE])
<1> DEFINE s == [chunks |-> <<>>, buf |-> Blank, inPre |-> FALSE]
<1>1. s.chunks = <<>> /\ s.buf = Blank /\ s.inPre = FALSE
  OBVIOUS
<1>2. /\ Blank \in BufferOf(reply) /\ ~HasBlock(reply, <<>>) /\ Blank \in Buffer
      /\ Blank.pieces = <<>> /\ Blank.tags = <<>> /\ Blank.len = 0
  BY BasesAre, BufferOfIs DEF Blank
<1>3. s \in Packing
  BY <1>2 DEF Packing
<1>4. ~(O <= 0 /\ 0 < C)
  BY DEF Bracketed
<1>5. ChunkText(<<>>) \o Shown(<<>>) = Shown(SubSeq(ps, 1, 0))
  <2>1. SubSeq(ps, 1, 0) = <<>>
    OBVIOUS
  <2>2. [c \in DOMAIN <<>> |-> Shown(<<>>[c].pieces)] = <<>>
    OBVIOUS
  <2>3. ChunkText(<<>>) = <<>>
    BY <2>2, FlattenEmpty DEF ChunkText
  <2>4. <<>> \o <<>> = <<>>
    OBVIOUS
  <2> QED BY <2>1, <2>3, <2>4, ShownNone
<1>6. Tagging(reply, Blank, FALSE) /\ Room(Blank, FALSE) /\ Holds(Blank)
  BY <1>2, Lengths DEF Tagging, Room, Holds
<1>7. <<>> \in Seq(BufferOf(reply)) /\ Len(<<>>) = 0
  OBVIOUS
<1> HIDE DEF s
<1>8. Tagging(reply, s.buf, s.inPre) /\ Room(s.buf, s.inPre) /\ Holds(s.buf)
  BY <1>1, <1>6
<1>9. /\ s.chunks \in Seq(BufferOf(reply)) /\ s.buf \in BufferOf(reply) /\ ~s.inPre
      /\ ~HasBlock(reply, s.buf.pieces)
      /\ ChunkText(s.chunks) \o Shown(s.buf.pieces) = Shown(SubSeq(ps, 1, 0))
  BY <1>1, <1>2, <1>5, <1>7
<1>a. \A c \in 1..Len(s.chunks) : Fits(s.chunks[c]) /\ Balanced(reply, s.chunks[c])
  BY <1>1, <1>7
<1>b. PackInv(reply, ps, O, C, 0, s)
  BY <1>3, <1>4, <1>8, <1>9, <1>a DEF PackInv
<1> QED BY <1>b DEF s
\* Packing a piece makes a state of packing of one.
LEMMA PackType == ASSUME NEW p \in Span PROVE Pack(p) \in [Packing -> Packing]
<1> SUFFICES ASSUME NEW s \in Packing PROVE Pack(p)[s] \in Packing
  <2>1. Pack(p) = [s \in Packing |-> Pack(p)[s]]
    BY DEF Pack
  <2> QED BY <2>1
<1> DEFINE t == Pack(p)[s]
           b == Base(s, p)
           d == Closed(s.buf, s.inPre)
<1>1. s.chunks \in Seq(Buffer) /\ s.buf \in Buffer /\ s.inPre \in BOOLEAN
  BY DEF Packing
<1>2. /\ p \in Piece /\ p.open \in BOOLEAN /\ p.close \in BOOLEAN
      /\ p.lo \in Nat /\ p.hi \in Nat /\ p.lo <= p.hi
      /\ OpenLen \in Nat /\ CloseLen \in Nat
  BY Lengths DEF Span, Piece
<1>3. Size(p) \in Nat /\ Tags(p) \in Seq({"open", "close"})
  BY <1>2, TagsAre DEF Size, Tagged
<1>4. /\ <<>> \in Seq({"open", "close"}) /\ <<"open">> \in Seq({"open", "close"})
      /\ "close" \in {"open", "close"}
  OBVIOUS
<1>5. Blank \in Buffer /\ Reopened \in Buffer
  <2>1. <<>> \in Seq(Piece) /\ 0 \in Nat
    OBVIOUS
  <2> QED BY <1>2, <1>4, <2>1 DEF Blank, Reopened, Buffer
<1>6. b \in Buffer
  BY <1>1, <1>5 DEF Base
<1> HIDE DEF b
<1>7. Add(b, p) \in Buffer
  <2>1. b.len \in Nat /\ b.tags \in Seq({"open", "close"}) /\ b.pieces \in Seq(Piece)
    BY <1>6 DEF Buffer
  <2>2. b.len + Sep(b) + Size(p) \in Nat
    BY <1>3, <2>1 DEF Sep
  <2>3. b.tags \o Tags(p) \in Seq({"open", "close"})
    BY <1>3, <2>1, ConcatType
  <2>4. Append(b.pieces, p) \in Seq(Piece)
    BY <1>2, <2>1
  <2> QED BY <2>2, <2>3, <2>4 DEF Add, Buffer
<1>8. d \in Buffer
  <2> DEFINE a == s.buf
  <2>1. /\ a.len \in Nat /\ a.tags \in Seq({"open", "close"}) /\ a.pieces \in Seq(Piece)
        /\ a = [len |-> a.len, tags |-> a.tags, pieces |-> a.pieces]
    BY <1>1 DEF Buffer
  <2>2. a.len + CloseLen \in Nat /\ Append(a.tags, "close") \in Seq({"open", "close"})
    BY <1>2, <1>4, <2>1
  <2>3. CASE s.inPre
    <3>1. d = [len |-> a.len + CloseLen, tags |-> Append(a.tags, "close"), pieces |-> a.pieces]
      BY <1>1, <2>3 DEF Closed, Buffer
    <3> HIDE DEF a, d
    <3> QED BY <2>1, <2>2, <3>1 DEF Buffer
  <2>4. CASE ~s.inPre
    BY <1>1, <2>4 DEF Closed
  <2> QED BY <2>3, <2>4
<1>9. PreState(p, s.inPre) \in BOOLEAN
  BY <1>1, <1>2 DEF PreState
<1>a. /\ t.chunks = IF Overflows(s.buf, p) THEN Append(s.chunks, d) ELSE s.chunks
      /\ t.buf = Add(b, p) /\ t.inPre = PreState(p, s.inPre)
      /\ t = [chunks |-> t.chunks, buf |-> t.buf, inPre |-> t.inPre]
  BY PackIs DEF b
<1> HIDE DEF t, d
<1>b. t.chunks \in Seq(Buffer)
  BY <1>1, <1>8, <1>a
<1>c. t \in Packing
  BY <1>7, <1>9, <1>a, <1>b DEF Packing
<1> QED BY <1>c DEF t

\* after[k] is the state once k pieces are packed.
PackRun(ps, after) ==
    /\ after[0] = [chunks |-> <<>>, buf |-> Blank, inPre |-> FALSE]
    /\ \A k \in 1..Len(ps) : after[k] = Pack(ps[k])[after[k - 1]]

LEMMA PackedIs ==
    ASSUME NEW ps \in Seq(Span)
    PROVE  \E after : PackRun(ps, after) /\ Packed[ps] = after[Len(ps)]
<1> DEFINE n == Len(ps)
           s0 == [chunks |-> <<>>, buf |-> Blank, inPre |-> FALSE]
           step == [k \in 1..n |-> Pack(ps[k])]
           F(after) == [k \in 0..n |-> IF k = 0 THEN s0 ELSE Pack(ps[k])[after[k - 1]]]
           g == CHOOSE after : after = F(after)
<1>1. n \in Nat /\ Span \subseteq Piece
  BY DEF Span
<1>2. s0 \in Packing
  <2>1. <<>> \in Seq(Buffer) /\ <<>> \in Seq(Piece) /\ <<>> \in Seq({"open", "close"}) /\ 0 \in Nat
    OBVIOUS
  <2> QED BY <2>1 DEF Packing, Buffer, Blank
<1>3. step \in [1..n -> [Packing -> Packing]]
  <2>1. \A k \in 1..n : Pack(ps[k]) \in [Packing -> Packing]
    BY PackType
  <2> QED BY <2>1
<1>4. PICK f : Runs(f, Packing, s0, n, step)
  <2> HIDE DEF n, s0, step
  <2> QED BY <1>1, <1>2, <1>3, RecursionExists
<1>5. /\ f \in [0..n -> Packing] /\ f[0] = s0
      /\ \A k \in 1..n : f[k] = Pack(ps[k])[f[k - 1]]
  <2> HIDE DEF s0
  <2> QED BY <1>4 DEF Runs
<1>6. f = F(f)
  <2> HIDE DEF s0, n
  <2>1. \A k \in 0..n : k # 0 => k \in 1..n
    BY <1>1
  <2>2. \A k \in 0..n : f[k] = F(f)[k]
    BY <1>1, <1>5, <2>1
  <2> QED BY <1>5, <2>2
<1>7. g = F(g)
  <2> HIDE DEF F
  <2> QED BY <1>6
<1>8. Packed[ps] = g[n]
  <2>1. ps \in Seq(Piece)
    BY <1>1
  <2> QED BY <2>1 DEF Packed
<1> HIDE DEF g
<1>9. PackRun(ps, g)
  <2> HIDE DEF s0, n
  <2>1. \A k \in 0..n : g[k] = IF k = 0 THEN s0 ELSE Pack(ps[k])[g[k - 1]]
    BY <1>7
  <2>2. 0 \in 0..n /\ \A k \in 1..n : k \in 0..n /\ k # 0
    BY <1>1
  <2>3. g[0] = s0 /\ \A k \in 1..n : g[k] = Pack(ps[k])[g[k - 1]]
    BY <2>1, <2>2
  <2> QED BY <2>3 DEF PackRun, s0, n
<1> QED BY <1>8, <1>9

\* What Split starts from.
LEMMA PackedInv ==
    ASSUME NEW reply \in Lines, NEW ps \in Seq(PieceOf(reply)), NEW O, NEW C,
           Bracketed(ps, reply, O, C)
    PROVE  PackInv(reply, ps, O, C, Len(ps), Packed[ps])
<1>1. ps \in Seq(Span) /\ Len(ps) \in Nat
  <2>1. PieceOf(reply) \subseteq Span
    BY DEF PieceOf
  <2> QED BY <2>1
<1>2. PICK after : PackRun(ps, after) /\ Packed[ps] = after[Len(ps)]
  BY <1>1, PackedIs
<1> DEFINE Good == {k \in Nat : k <= Len(ps) => PackInv(reply, ps, O, C, k, after[k])}
<1>3. 0 \in Good
  BY <1>2, PackStart DEF PackRun
<1>4. ASSUME NEW k \in Nat, k \in Good PROVE k + 1 \in Good
  <2> SUFFICES ASSUME k + 1 <= Len(ps) PROVE PackInv(reply, ps, O, C, k + 1, after[k + 1])
      OBVIOUS
  <2> DEFINE j == k + 1
  <2>1. j \in 1..Len(ps) /\ j - 1 = k
    BY <1>1
  <2>2. PackInv(reply, ps, O, C, j - 1, after[j - 1])
    BY <1>4, <2>1, <1>1
  <2> HIDE DEF j
  <2>3. after[j] = Pack(ps[j])[after[j - 1]]
    BY <1>2, <2>1 DEF PackRun
  <2>4. PackInv(reply, ps, O, C, j, Pack(ps[j])[after[j - 1]])
    BY <2>1, <2>2, PackStep
  <2> QED BY <2>3, <2>4 DEF j
<1>5. Len(ps) \in Good
  <2> HIDE DEF Good
  <2> QED BY <1>1, <1>3, <1>4, NatInd
<1> QED BY <1>1, <1>2, <1>5
\* The chunks of a reply that is split: they fit, they are balanced, and they
\* show all of the text.
LEMMA SplitRight ==
    ASSUME NEW reply \in Lines,
           NoBlock(reply) \/ \E o, c \in DOMAIN reply : Block(reply, o, c)
    PROVE  /\ Split(reply) \in Seq(BufferOf(reply))
           /\ \A c \in 1..Len(Split(reply)) :
                 Fits(Split(reply)[c]) /\ Balanced(reply, Split(reply)[c])
           /\ ChunkText(Split(reply)) = Text(reply)
<1> DEFINE ps == AllPieces(reply)
           s == Packed[ps]
           b == s.buf
<1>1. ps \in Seq(PieceOf(reply)) /\ ps \in Seq(Span) /\ Len(ps) \in Nat
  BY AllPiecesType
<1>2. Shown(ps) = Text(reply)
  BY AllPiecesShow
<1>3. PICK O, C : Bracketed(ps, reply, O, C)
  BY AllPiecesBracketed
<1>s. Split(reply) = IF Bare(b) THEN s.chunks ELSE Append(s.chunks, b)
  BY DEF Split
<1> HIDE DEF ps
<1>4. PackInv(reply, ps, O, C, Len(ps), s)
  BY <1>1, <1>3, PackedInv
<1> HIDE DEF s
<1>5. /\ s.chunks \in Seq(BufferOf(reply)) /\ b \in BufferOf(reply)
      /\ ~s.inPre /\ s.inPre \in BOOLEAN
      /\ Tagging(reply, b, s.inPre) /\ Room(b, s.inPre) /\ Holds(b)
      /\ \A c \in 1..Len(s.chunks) : Fits(s.chunks[c]) /\ Balanced(reply, s.chunks[c])
      /\ ChunkText(s.chunks) \o Shown(b.pieces) = Shown(SubSeq(ps, 1, Len(ps)))
  <2>1. ~(O <= Len(ps) /\ Len(ps) < C)
    BY <1>1, <1>3 DEF Bracketed
  <2>2. s \in Packing => s.inPre \in BOOLEAN
    BY DEF Packing
  <2> QED BY <1>4, <2>1, <2>2 DEF PackInv
<1>6. Closed(b, s.inPre) = b /\ Fits(b) /\ Balanced(reply, b)
  <2>1. Closed(b, s.inPre) = b
    BY <1>5 DEF Closed
  <2> QED BY <1>5, <2>1, ClosedIs
<1>7. SubSeq(ps, 1, Len(ps)) = ps
  BY <1>1
<1>8. /\ ChunkText(Append(s.chunks, b)) = ChunkText(s.chunks) \o Shown(b.pieces)
      /\ ChunkText(s.chunks) \in Seq(Nat \X Nat)
  BY <1>5, ChunkTextAppend
<1>9. CASE Bare(b)
  <2>1. b.len = 0
    <3>1. <<"open", "close">> # <<"open">> /\ <<>> # <<"open">>
      OBVIOUS
    <3>2. b.tags # <<"open">>
      BY <1>5, <3>1 DEF Tagging
    <3> QED BY <1>9, <3>2 DEF Bare
  <2>2. b.pieces \in Seq(Span) /\ b.pieces \in Seq(PieceOf(reply))
    <3>1. PieceOf(reply) \subseteq Span /\ b.pieces \in Seq(PieceOf(reply))
      BY <1>5 DEF PieceOf, BufferOf
    <3> QED BY <3>1
  <2>3. ASSUME NEW i \in 1..Len(b.pieces) PROVE b.pieces[i].lo = b.pieces[i].hi
    <3>1. b.pieces[i] \in Span
      BY <2>2
    <3>2. b.pieces[i].lo \in Nat /\ b.pieces[i].hi \in Nat /\ b.pieces[i].lo <= b.pieces[i].hi
      BY <3>1 DEF Span, Piece
    <3>3. b.pieces[i].hi <= b.pieces[i].lo + b.len
      BY <1>5 DEF Holds
    <3> QED BY <2>1, <3>2, <3>3
  <2>4. Shown(b.pieces) = <<>>
    BY <2>2, <2>3, ShownEmpty
  <2>5. ChunkText(s.chunks) = Text(reply)
    BY <1>2, <1>5, <1>7, <1>8, <2>4, ConcatEmpty
  <2> QED BY <1>5, <1>9, <1>s, <2>5
<1>a. CASE ~Bare(b)
  <2> DEFINE n == Len(s.chunks)
             cs == Append(s.chunks, b)
  <2>1. /\ cs \in Seq(BufferOf(reply)) /\ Len(cs) = n + 1 /\ n \in Nat /\ cs[n + 1] = b
        /\ \A c \in 1..n : cs[c] = s.chunks[c]
        /\ \A c \in 1..(n + 1) : c \in 1..n \/ c = n + 1
    BY <1>5
  <2>2. Split(reply) = cs
    BY <1>a, <1>s
  <2>3. ChunkText(cs) = Text(reply)
    BY <1>2, <1>5, <1>7, <1>8
  <2> HIDE DEF cs, b
  <2>4. \A c \in 1..Len(cs) : Fits(cs[c]) /\ Balanced(reply, cs[c])
    BY <1>5, <1>6, <2>1
  <2> QED BY <2>1, <2>2, <2>3, <2>4
<1> QED BY <1>9, <1>a

-----------------------------------------------------------------------------
(* Chunks without text.                                                    *)

\* The block begins with text and ends without, and text follows it.
Framed(reply) ==
    \A n \in DOMAIN reply : /\ reply[n].open => reply[n].len > 0
                            /\ reply[n].close => reply[n].len = 0 /\ reply[Len(reply)].len > 0

Hollow(qs) == \A i \in 1..Len(qs) : qs[i].lo = qs[i].hi

Ending(qs) == \E i \in 1..Len(qs) : qs[i].close

\* What a buffer without text can be.
HollowBuffer(b) ==
    \/ b.tags = <<>> /\ b.len = 0
    \/ b.tags = <<"open">> /\ b.len = OpenLen
    \/ /\ b.tags = <<"open", "close">>
       /\ b.len < OpenLen + CloseLen + Len(b.pieces) /\ Ending(b.pieces)

\* The piece that cuts a chunk without text off from what follows.
HollowChunk(qs, p) == Ending(qs) /\ Size(p) + Len(qs) + CloseLen > Width + 2

\* The first piece after the c-th chunk.
Follower(s, c) ==
    IF c < Len(s.chunks) THEN s.chunks[c + 1].pieces[1] ELSE s.buf.pieces[1]

HollowInv(ps, k, s) ==
    /\ k > 0 => Len(s.buf.pieces) > 0 /\ s.buf.pieces[Len(s.buf.pieces)] = ps[k]
    /\ k = 0 => s.chunks = <<>>
    /\ Hollow(s.buf.pieces) => HollowBuffer(s.buf)
    /\ \A c \in 1..Len(s.chunks) :
          Hollow(s.chunks[c].pieces) => HollowChunk(s.chunks[c].pieces, Follower(s, c))

LEMMA FramedPieces ==
    ASSUME NEW reply, Framed(reply), NEW p \in PieceOf(reply)
    PROVE  /\ p.open => p.lo # p.hi
           /\ p.close => p.lo = p.hi /\ reply[Len(reply)].len > 0
<1>1. /\ p.line \in DOMAIN reply /\ p.lo \in Nat /\ p.hi \in Nat /\ p.lo <= p.hi
      /\ p.lo = p.hi => reply[p.line].len = 0
      /\ p.hi <= reply[p.line].len
      /\ p.open => reply[p.line].open
      /\ p.close => reply[p.line].close
  BY DEF PieceOf, Span, Piece
<1> QED BY <1>1 DEF Framed

LEMMA HollowAppend ==
    ASSUME NEW S, NEW qs \in Seq(S), NEW p \in S
    PROVE  /\ Hollow(Append(qs, p)) <=> Hollow(qs) /\ p.lo = p.hi
           /\ Ending(Append(qs, p)) <=> Ending(qs) \/ p.close
<1> DEFINE rs == Append(qs, p)
           n == Len(qs)
<1>1. /\ n \in Nat /\ Len(rs) = n + 1 /\ rs[n + 1] = p
      /\ \A i \in 1..n : rs[i] = qs[i] /\ i \in 1..(n + 1)
      /\ \A i \in 1..(n + 1) : i \in 1..n \/ i = n + 1
      /\ n + 1 \in 1..(n + 1)
  OBVIOUS
<1> HIDE DEF rs
<1>2. Hollow(rs) <=> Hollow(qs) /\ p.lo = p.hi
  BY <1>1 DEF Hollow
<1>3. Ending(rs) <=> Ending(qs) \/ p.close
  BY <1>1 DEF Ending
<1> QED BY <1>2, <1>3 DEF rs

\* A buffer without text after one more piece.
LEMMA AddHollow ==
    ASSUME NEW reply, Framed(reply), NEW b \in BufferOf(reply), NEW p \in PieceOf(reply),
           NEW before \in BOOLEAN, NEW after \in BOOLEAN,
           Phase(reply, p, before, after), Tagging(reply, b, before),
           Hollow(b.pieces) => HollowBuffer(b), Hollow(Add(b, p).pieces)
    PROVE  HollowBuffer(Add(b, p))
<1> DEFINE d == Add(b, p)
           n == Len(b.pieces)
<1>1. /\ d.len = b.len + Sep(b) + Size(p) /\ d.tags = b.tags \o Tags(p)
      /\ d.pieces = Append(b.pieces, p) /\ Sep(b) \in {0, 1}
  BY AddType
<1>2. /\ b.len \in Nat /\ b.tags \in Seq({"open", "close"}) /\ b.pieces \in Seq(PieceOf(reply))
      /\ n \in Nat /\ OpenLen \in Nat /\ CloseLen \in Nat
  BY Lengths DEF BufferOf
<1> HIDE DEF d
<1>3. Len(d.pieces) = n + 1
  BY <1>1, <1>2
<1>4. Hollow(b.pieces) /\ p.lo = p.hi /\ (Ending(d.pieces) <=> Ending(b.pieces) \/ p.close)
  BY <1>1, <1>2, HollowAppend DEF d
<1>5. HollowBuffer(b) /\ ~p.open
  BY <1>4, FramedPieces
<1>6. p.close \in BOOLEAN /\ p.open \in BOOLEAN /\ p.lo \in Nat
  BY DEF PieceOf, Span, Piece
<1>7. /\ p.close => Tags(p) = <<"close">> /\ Size(p) = CloseLen
      /\ ~p.close => Tags(p) = <<>> /\ Size(p) = 0
  <2>1. p.hi - p.lo = 0
    BY <1>4, <1>6
  <2> QED BY <1>2, <1>5, <1>6, <2>1, TagsAre, SizeIs
<1>8. <<>> # <<"open">> /\ <<>> # <<"open", "close">> /\ <<"open">> # <<"open", "close">>
  OBVIOUS
<1>9. CASE before
  <2>1. b.tags = <<"open">> /\ b.len = OpenLen
    BY <1>5, <1>8, <1>9 DEF Tagging, HollowBuffer
  <2>2. Sep(b) = 0
    BY <2>1 DEF Sep, Bare
  <2>3. CASE p.close
    <3>1. d.tags = <<"open", "close">>
      <4>1. "open" \in {"open", "close"} /\ "close" \in {"open", "close"}
        OBVIOUS
      <4> QED BY <1>1, <1>7, <2>1, <2>3, <4>1, ConcatPair DEF d
    <3>2. d.len = OpenLen + CloseLen
      BY <1>1, <1>2, <1>7, <2>1, <2>2, <2>3 DEF d
    <3>3. Ending(d.pieces)
      BY <1>4, <2>3
    <3>4. d.len < OpenLen + CloseLen + Len(d.pieces)
      <4> DEFINE m == Len(d.pieces)
      <4>1. m \in Nat /\ m > 0 /\ OpenLen \in Nat /\ CloseLen \in Nat
        BY <1>2, <1>3
      <4> HIDE DEF m, n
      <4>2. OpenLen + CloseLen < OpenLen + CloseLen + m
        BY <4>1
      <4> QED BY <3>2, <4>2 DEF m
    <3> QED BY <3>1, <3>3, <3>4 DEF HollowBuffer, d
  <2>4. CASE ~p.close
    <3>1. d.tags = <<"open">>
      BY <1>1, <1>2, <1>7, <2>1, <2>4, ConcatEmpty DEF d
    <3>2. d.len = OpenLen
      BY <1>1, <1>2, <1>7, <2>1, <2>2, <2>4 DEF d
    <3> QED BY <3>1, <3>2 DEF HollowBuffer, d
  <2> QED BY <2>3, <2>4
<1>a. CASE ~before
  <2>1. ~p.close
    BY <1>5, <1>a DEF Phase
  <2>2. d.tags = b.tags
    BY <1>1, <1>2, <1>7, <2>1, ConcatEmpty DEF d
  <2>3. d.len = b.len + Sep(b)
    BY <1>1, <1>2, <1>7, <2>1 DEF d
  <2>4. CASE b.tags = <<>> /\ b.len = 0
    <3>1. d.len = 0
      BY <2>3, <2>4 DEF Sep, Bare
    <3> QED BY <2>2, <2>4, <3>1 DEF HollowBuffer, d
  <2>5. CASE /\ b.tags = <<"open", "close">>
             /\ b.len < OpenLen + CloseLen + n /\ Ending(b.pieces)
    <3>1. d.len < OpenLen + CloseLen + Len(d.pieces)
      BY <1>1, <1>2, <1>3, <2>3, <2>5
    <3> QED BY <1>4, <2>2, <2>5, <3>1 DEF HollowBuffer, d
  <2>6. b.tags # <<"open">>
    BY <1>8, <1>a DEF Tagging
  <2> QED BY <1>5, <2>4, <2>5, <2>6 DEF HollowBuffer
<1> QED BY <1>9, <1>a
\* A chunk without text is given out only for a piece that does not fit in it.
LEMMA CutOff ==
    ASSUME NEW reply, Framed(reply), NEW b \in BufferOf(reply), NEW p \in PieceOf(reply),
           NEW before \in BOOLEAN, NEW after \in BOOLEAN,
           Phase(reply, p, before, after), Tagging(reply, b, before),
           HollowBuffer(b), Overflows(b, p)
    PROVE  HollowChunk(b.pieces, p)
<1> DEFINE n == Len(b.pieces)
<1>1. /\ b.len \in Nat /\ n \in Nat /\ Sep(b) \in {0, 1}
      /\ Size(p) \in Nat /\ Tagged(p) \in Nat /\ Size(p) <= Width + Tagged(p)
  BY SizeIs, AddType DEF BufferOf
<1>2. /\ OpenLen \in Nat /\ CloseLen \in Nat /\ Width \in Nat /\ Limit \in Nat
      /\ Limit = Width + OpenLen + CloseLen + 2 /\ CloseLen <= Width + 2
  BY Lengths
<1>3. b.len > 0 /\ b.len + Sep(b) + Size(p) > Width + OpenLen + 2
  BY <1>1, <1>2 DEF Overflows
<1>4. ASSUME b.tags = <<"open">>, b.len = OpenLen PROVE FALSE
  <2>1. Sep(b) = 0
    BY <1>4 DEF Sep, Bare
  <2>2. before
    <3>1. <<>> # <<"open">> /\ <<"open">> # <<"open", "close">>
      OBVIOUS
    <3> QED BY <1>4, <3>1 DEF Tagging
  <2>3. ~p.open /\ p.close \in BOOLEAN /\ p.lo \in Nat
    BY <2>2 DEF Phase, PieceOf, Span, Piece
  <2>4. CASE p.close
    <3>1. p.hi - p.lo = 0
      BY <2>3, <2>4, FramedPieces
    <3>2. Size(p) = CloseLen
      BY <1>2, <2>3, <2>4, <3>1, SizeIs
    <3> QED BY <1>1, <1>2, <1>3, <1>4, <2>1, <3>2
  <2>5. CASE ~p.close
    <3>1. Tagged(p) = 0
      BY <2>3, <2>5, SizeIs
    <3> QED BY <1>1, <1>2, <1>3, <1>4, <2>1, <3>1
  <2> QED BY <2>4, <2>5
<1>5. b.len < OpenLen + CloseLen + n /\ Ending(b.pieces)
  BY <1>3, <1>4 DEF HollowBuffer
<1>6. Size(p) + n + CloseLen > Width + 2
  <2> DEFINE l == b.len
             z == Size(p)
             e == Sep(b)
  <2>1. /\ l \in Nat /\ z \in Nat /\ e \in Nat /\ e <= 1 /\ n \in Nat
        /\ l + e + z > Width + OpenLen + 2 /\ l < OpenLen + CloseLen + n
    BY <1>1, <1>3, <1>5
  <2> HIDE DEF l, z, e, n
  <2>2. z + n + CloseLen > Width + 2
    BY <1>2, <2>1
  <2> QED BY <2>2 DEF z
<1> QED BY <1>5, <1>6 DEF HollowChunk

\* One more piece.
LEMMA HollowStep ==
    ASSUME NEW reply \in Lines, Framed(reply), NEW ps \in Seq(PieceOf(reply)), NEW O, NEW C,
           Bracketed(ps, reply, O, C), NEW k \in 1..Len(ps),
           NEW s, PackInv(reply, ps, O, C, k - 1, s), HollowInv(ps, k - 1, s)
    PROVE  HollowInv(ps, k, Pack(ps[k])[s])
<1> DEFINE p == ps[k]
           t == Pack(p)[s]
           b == Base(s, p)
           d == Closed(s.buf, s.inPre)
           n == Len(s.chunks)
<1>1. /\ s \in Packing /\ s.inPre \in BOOLEAN
      /\ s.chunks \in Seq(BufferOf(reply)) /\ s.buf \in BufferOf(reply)
      /\ s.inPre <=> O <= k - 1 /\ k - 1 < C
      /\ Tagging(reply, s.buf, s.inPre) /\ Holds(s.buf)
      /\ s.inPre => HasBlock(reply, s.buf.pieces)
      /\ Room(s.buf, s.inPre)
  <2>1. s \in Packing => s.inPre \in BOOLEAN
    BY DEF Packing
  <2> QED BY <2>1 DEF PackInv
<1>2. p \in PieceOf(reply) /\ ps \in Seq(Piece) /\ k \in Nat /\ k > 0 /\ n \in Nat
  <2>1. PieceOf(reply) \subseteq Piece
    BY DEF PieceOf, Span
  <2> QED BY <1>1, <2>1
<1>3. /\ PreState(p, s.inPre) \in BOOLEAN
      /\ Phase(reply, p, s.inPre, PreState(p, s.inPre))
  BY <1>1, <1>2, PreStateIs
<1>4. /\ b \in BufferOf(reply) /\ Tagging(reply, b, s.inPre)
      /\ Overflows(s.buf, p) => b.pieces = <<>>
      /\ ~Overflows(s.buf, p) => b = s.buf
  BY <1>1, BaseIs
<1>5. d.pieces = s.buf.pieces /\ d \in BufferOf(reply)
  BY <1>1, ClosedIs
<1>6. /\ t.chunks = IF Overflows(s.buf, p) THEN Append(s.chunks, d) ELSE s.chunks
      /\ t.buf = Add(b, p)
  BY <1>1, PackIs
<1>7. /\ k - 1 > 0 => Len(s.buf.pieces) > 0
      /\ k - 1 = 0 => s.chunks = <<>>
      /\ Hollow(s.buf.pieces) => HollowBuffer(s.buf)
      /\ \A c \in 1..n :
            Hollow(s.chunks[c].pieces) => HollowChunk(s.chunks[c].pieces, Follower(s, c))
  BY DEF HollowInv
<1>8. b.pieces \in Seq(PieceOf(reply)) /\ s.buf.pieces \in Seq(PieceOf(reply))
  BY <1>1, <1>4 DEF BufferOf
<1> HIDE DEF p, t, b, d
<1>9. t.buf.pieces = Append(b.pieces, p)
  BY <1>6 DEF Add
<1>a. Len(t.buf.pieces) > 0 /\ t.buf.pieces[Len(t.buf.pieces)] = p
  BY <1>8, <1>9
<1>b. Hollow(b.pieces) => HollowBuffer(b)
  <2>1. CASE ~Overflows(s.buf, p)
    BY <1>4, <1>7, <2>1
  <2>2. CASE Overflows(s.buf, p)
    <3>1. b = Reopened \/ b = Blank
      BY <2>2 DEF b, Base
    <3> QED BY <3>1 DEF Reopened, Blank, HollowBuffer
  <2> QED BY <2>1, <2>2
<1>c. Hollow(t.buf.pieces) => HollowBuffer(t.buf)
  BY <1>1, <1>2, <1>3, <1>4, <1>6, <1>b, AddHollow
<1>d. ASSUME NEW c \in 1..Len(t.chunks), Hollow(t.chunks[c].pieces)
      PROVE  HollowChunk(t.chunks[c].pieces, Follower(t, c))
  <2>1. CASE ~Overflows(s.buf, p)
    <3>1. t.chunks = s.chunks /\ t.buf.pieces = Append(s.buf.pieces, p) /\ c \in 1..n
      BY <1>4, <1>6, <1>9, <2>1
    <3>2. Len(s.buf.pieces) > 0
      <4>1. Len(<<>>) = 0
        OBVIOUS
      <4>2. k - 1 # 0
        BY <1>7, <3>1, <4>1
      <4> QED BY <1>2, <1>7, <4>2
    <3>3. t.buf.pieces[1] = s.buf.pieces[1]
      BY <1>8, <3>1, <3>2
    <3>4. Follower(t, c) = Follower(s, c)
      BY <3>1, <3>3 DEF Follower
    <3> QED BY <1>7, <1>d, <3>1, <3>4
  <2>2. CASE Overflows(s.buf, p)
    <3>1. /\ t.chunks = Append(s.chunks, d) /\ Len(t.chunks) = n + 1 /\ t.chunks[n + 1] = d
          /\ \A e \in 1..n : t.chunks[e] = s.chunks[e]
          /\ c \in 1..n \/ c = n + 1
      BY <1>1, <1>2, <1>6, <2>2
    <3>2. CASE c \in 1..n
      <4>1. t.chunks[c] = s.chunks[c]
        BY <3>1, <3>2
      <4>2. Follower(t, c) = Follower(s, c)
        <5>1. CASE c < n
          <6>1. c + 1 \in 1..n /\ c < n + 1
            BY <1>2, <3>2, <5>1
          <6>2. t.chunks[c + 1] = s.chunks[c + 1]
            BY <3>1, <6>1
          <6> QED BY <3>1, <5>1, <6>1, <6>2 DEF Follower
        <5>2. CASE c = n
          <6>1. c < n + 1 /\ ~(c < n)
            BY <1>2, <5>2
          <6>2. t.chunks[c + 1].pieces = s.buf.pieces
            BY <1>5, <3>1, <5>2
          <6> QED BY <3>1, <6>1, <6>2 DEF Follower
        <5> QED BY <1>2, <3>2, <5>1, <5>2
      <4> QED BY <1>7, <1>d, <3>2, <4>1, <4>2
    <3>3. CASE c = n + 1
      <4>1. t.chunks[c].pieces = s.buf.pieces
        BY <1>5, <3>1, <3>3
      <4>2. t.buf.pieces = <<p>>
        <5>1. Append(<<>>, p) = <<p>>
          OBVIOUS
        <5>2. b.pieces = <<>>
          BY <1>4, <2>2
        <5> QED BY <1>9, <5>1, <5>2
      <4>3. Follower(t, c) = p
        <5>1. ~(c < Len(t.chunks))
          BY <1>2, <3>1, <3>3
        <5> QED BY <4>2, <5>1 DEF Follower
      <4>4. HollowChunk(s.buf.pieces, p)
        BY <1>1, <1>2, <1>3, <1>7, <1>d, <2>2, <4>1, CutOff
      <4> QED BY <4>1, <4>3, <4>4
    <3> QED BY <3>1, <3>2, <3>3
  <2> QED BY <2>1, <2>2
<1>e. k # 0
  BY <1>2
<1>f. HollowInv(ps, k, t)
  BY <1>a, <1>c, <1>d, <1>e DEF HollowInv, p
<1> QED BY <1>f DEF t, p

LEMMA PackedHollow ==
    ASSUME NEW reply \in Lines, Framed(reply), NEW ps \in Seq(PieceOf(reply)), NEW O, NEW C,
           Bracketed(ps, reply, O, C)
    PROVE  HollowInv(ps, Len(ps), Packed[ps])
<1>1. ps \in Seq(Span) /\ Len(ps) \in Nat
  <2>1. PieceOf(reply) \subseteq Span
    BY DEF PieceOf
  <2> QED BY <2>1
<1>2. PICK after : PackRun(ps, after) /\ Packed[ps] = after[Len(ps)]
  BY <1>1, PackedIs
<1> DEFINE Inv(k) == PackInv(reply, ps, O, C, k, after[k]) /\ HollowInv(ps, k, after[k])
           Good == {k \in Nat : k <= Len(ps) => Inv(k)}
<1>3. 0 \in Good
  <2>1. after[0] = [chunks |-> <<>>, buf |-> Blank, inPre |-> FALSE]
    BY <1>2 DEF PackRun
  <2>2. after[0].chunks = <<>> /\ after[0].buf = Blank /\ Len(<<>>) = 0
    BY <2>1
  <2>3. HollowBuffer(Blank)
    BY DEF Blank, HollowBuffer
  <2>4. HollowInv(ps, 0, after[0])
    BY <2>2, <2>3 DEF HollowInv
  <2>5. PackInv(reply, ps, O, C, 0, after[0])
    BY <2>1, PackStart
  <2> QED BY <2>4, <2>5
<1>4. ASSUME NEW k \in Nat, k \in Good PROVE k + 1 \in Good
  <2> SUFFICES ASSUME k + 1 <= Len(ps) PROVE Inv(k + 1)
      OBVIOUS
  <2> DEFINE j == k + 1
  <2>1. j \in 1..Len(ps) /\ j - 1 = k
    BY <1>1
  <2>2. Inv(j - 1)
    BY <1>4, <2>1, <1>1
  <2> HIDE DEF j
  <2>3. after[j] = Pack(ps[j])[after[j - 1]]
    BY <1>2, <2>1 DEF PackRun
  <2>4. PackInv(reply, ps, O, C, j, Pack(ps[j])[after[j - 1]])
    BY <2>1, <2>2, PackStep
  <2>5. HollowInv(ps, j, Pack(ps[j])[after[j - 1]])
    BY <2>1, <2>2, HollowStep
  <2> QED BY <2>3, <2>4, <2>5 DEF j
<1>5. Len(ps) \in Good
  <2> HIDE DEF Good
  <2> QED BY <1>1, <1>3, <1>4, NatInd
<1> QED BY <1>1, <1>2, <1>5
-----------------------------------------------------------------------------
(* Replies.                                                                *)

\* A chunk without text is rare: it ends the block, and what follows it would
\* not have fitted.
Rare(cs) ==
    \A c \in 1..Len(cs) : Hollow(cs[c].pieces) =>
        c < Len(cs) /\ HollowChunk(cs[c].pieces, cs[c + 1].pieces[1])

LEMMA SplitRare ==
    ASSUME NEW reply \in Lines, Framed(reply), reply # <<>>,
           NoBlock(reply) \/ \E o, c \in DOMAIN reply : Block(reply, o, c)
    PROVE  Rare(Split(reply))
<1> DEFINE ps == AllPieces(reply)
           s == Packed[ps]
           b == s.buf
           n == Len(s.chunks)
           l == Len(ps)
<1>1. ps \in Seq(PieceOf(reply)) /\ l \in Nat /\ l > 0 /\ ps[l].line = Len(reply)
  BY AllPiecesType, LastPiece
<1>2. PICK O, C : Bracketed(ps, reply, O, C)
  BY AllPiecesBracketed
<1>3. Split(reply) = IF Bare(b) THEN s.chunks ELSE Append(s.chunks, b)
  BY DEF Split
<1> HIDE DEF ps
<1>4. PackInv(reply, ps, O, C, l, s) /\ HollowInv(ps, l, s)
  BY <1>1, <1>2, PackedInv, PackedHollow
<1> HIDE DEF s
<1>5. /\ s.chunks \in Seq(BufferOf(reply)) /\ b \in BufferOf(reply) /\ n \in Nat
      /\ ~s.inPre /\ s.inPre \in BOOLEAN
      /\ Tagging(reply, b, s.inPre) /\ Holds(b)
  <2>1. ~(O <= l /\ l < C)
    BY <1>1, <1>2 DEF Bracketed
  <2>2. s \in Packing => s.inPre \in BOOLEAN
    BY DEF Packing
  <2> QED BY <1>4, <2>1, <2>2 DEF PackInv
<1>6. /\ Len(b.pieces) > 0 /\ b.pieces[Len(b.pieces)] = ps[l]
      /\ Hollow(b.pieces) => HollowBuffer(b)
      /\ \A c \in 1..n :
            Hollow(s.chunks[c].pieces) => HollowChunk(s.chunks[c].pieces, Follower(s, c))
  BY <1>1, <1>4 DEF HollowInv
<1>7. b.pieces \in Seq(PieceOf(reply)) /\ b.len \in Nat
  BY <1>5 DEF BufferOf
<1>8. b.tags # <<"open">>
  <2>1. <<>> # <<"open">> /\ <<"open">> # <<"open", "close">>
    OBVIOUS
  <2> QED BY <1>5, <2>1 DEF Tagging
\* With a block, the text ends with something to read.
<1>9. ASSUME NEW qs \in Seq(PieceOf(reply)), Ending(qs)
      PROVE  ~Hollow(b.pieces) /\ ~Bare(b)
  <2>1. PICK i \in 1..Len(qs) : qs[i].close
    BY <1>9 DEF Ending
  <2>2. qs[i] \in PieceOf(reply)
    OBVIOUS
  <2>3. reply[Len(reply)].len > 0
    BY <2>1, <2>2, FramedPieces
  <2> DEFINE m == Len(b.pieces)
             q == b.pieces[m]
  <2>4. m \in 1..m /\ q = ps[l] /\ q.line = Len(reply) /\ q \in PieceOf(reply)
    BY <1>1, <1>6, <1>7
  <2>5. q.lo \in Nat /\ q.hi \in Nat /\ q.lo <= q.hi /\ (q.lo = q.hi => reply[q.line].len = 0)
    BY <2>4 DEF PieceOf, Span, Piece
  <2>6. q.lo # q.hi
    BY <2>3, <2>4, <2>5
  <2>7. ~Hollow(b.pieces)
    BY <2>4, <2>6 DEF Hollow
  <2>8. q.hi <= q.lo + b.len
    BY <1>5, <2>4 DEF Holds
  <2>9. b.len # 0
    BY <2>5, <2>6, <2>8
  <2> QED BY <1>8, <2>7, <2>9 DEF Bare
<1>a. \A c \in 1..n : s.chunks[c].pieces \in Seq(PieceOf(reply))
  <2> TAKE c \in 1..n
  <2>1. s.chunks[c] \in BufferOf(reply)
    BY <1>5
  <2> QED BY <2>1 DEF BufferOf
<1>b. ASSUME NEW c \in 1..n, Hollow(s.chunks[c].pieces) PROVE ~Bare(b)
  <2>1. Ending(s.chunks[c].pieces)
    BY <1>6, <1>b DEF HollowChunk
  <2> QED BY <1>9, <1>a, <2>1
<1>c. CASE Bare(b)
  <2>1. Split(reply) = s.chunks
    BY <1>3, <1>c
  <2> QED BY <1>b, <1>c, <2>1 DEF Rare
<1>d. CASE ~Bare(b)
  <2> DEFINE cs == Append(s.chunks, b)
  <2>1. /\ Len(cs) = n + 1 /\ cs[n + 1] = b
        /\ \A c \in 1..n : cs[c] = s.chunks[c]
        /\ \A c \in 1..(n + 1) : c \in 1..n \/ c = n + 1
    BY <1>5
  <2>2. Split(reply) = cs
    BY <1>3, <1>d
  <2> HIDE DEF cs, b
  <2>3. ~Hollow(b.pieces)
    <3> SUFFICES ASSUME Hollow(b.pieces) PROVE FALSE
        OBVIOUS
    <3>1. HollowBuffer(b)
      BY <1>6
    <3>2. Ending(b.pieces)
      BY <1>8, <1>d, <3>1 DEF HollowBuffer, Bare
    <3> QED BY <1>7, <1>9, <3>2
  <2>4. ASSUME NEW c \in 1..(n + 1), Hollow(cs[c].pieces)
        PROVE  c < n + 1 /\ HollowChunk(cs[c].pieces, cs[c + 1].pieces[1])
    <3>1. c \in 1..n
      BY <2>1, <2>3, <2>4
    <3>2. HollowChunk(cs[c].pieces, Follower(s, c))
      BY <1>6, <2>1, <2>4, <3>1
    <3>3. Follower(s, c) = cs[c + 1].pieces[1]
      <4>1. CASE c < n
        <5>1. c + 1 \in 1..n
          BY <1>5, <3>1, <4>1
        <5> QED BY <2>1, <4>1, <5>1 DEF Follower
      <4>2. CASE c = n
        <5>1. ~(c < n)
          BY <1>5, <4>2
        <5> QED BY <2>1, <4>2, <5>1 DEF Follower, b
      <4> QED BY <1>5, <3>1, <4>1, <4>2
    <3> QED BY <1>5, <3>1, <3>2, <3>3
  <2> QED BY <2>1, <2>2, <2>4 DEF Rare
<1> QED BY <1>c, <1>d

\* Pieces whose ends are clear of entities bisect none.
LEMMA PiecesWhole ==
    ASSUME NEW reply \in Lines, NEW b, b.pieces \in Seq(PieceOf(reply))
    PROVE  ~Bisected(reply, b)
<1> SUFFICES ASSUME NEW i \in DOMAIN b.pieces, NEW a \in reply[b.pieces[i].line].entities,
                    \/ a < b.pieces[i].lo /\ b.pieces[i].lo < a + EntityLen
                    \/ a < b.pieces[i].hi /\ b.pieces[i].hi < a + EntityLen
             PROVE  FALSE
    BY DEF Bisected
<1>1. b.pieces[i] \in PieceOf(reply)
  OBVIOUS
<1> QED BY <1>1 DEF PieceOf, Clear
-----------------------------------------------------------------------------
(* A reply that is sent as it is.                                          *)

LEMMA LengthType == ASSUME NEW reply \in Lines, reply # <<>> PROVE Length(reply) \in Nat
<1> DEFINE N == Len(reply)
           step == [n \in 1..N |-> [i \in Nat |-> i + Raw(reply[n])]]
           F(upto) == [n \in 0..N |-> IF n = 0 THEN 0 ELSE upto[n - 1] + Raw(reply[n])]
           g == CHOOSE upto : upto = F(upto)
<1>1. N \in Nat /\ N > 0 /\ \A n \in 1..N : Raw(reply[n]) \in Nat
  <2>1. reply \in Seq(Line)
    BY DEF Lines
  <2>2. ASSUME NEW n \in 1..N PROVE Raw(reply[n]) \in Nat
    <3>1. reply[n] \in Line /\ n \in Nat
      BY <2>1
    <3> QED BY <3>1, UndividedIs
  <2> QED BY <2>1, <2>2
<1>2. step \in [1..N -> [Nat -> Nat]]
  BY <1>1
<1>3. PICK f : Runs(f, Nat, 0, N, step)
  <2> HIDE DEF step, N
  <2> QED BY <1>1, <1>2, RecursionExists
<1>4. /\ f \in [0..N -> Nat] /\ f[0] = 0
      /\ \A n \in 1..N : f[n] = f[n - 1] + Raw(reply[n])
  <2>1. /\ f \in [0..N -> Nat] /\ f[0] = 0
        /\ \A n \in 1..N : f[n] = step[n][f[n - 1]]
    <3> HIDE DEF step
    <3> QED BY <1>3 DEF Runs
  <2>2. ASSUME NEW n \in 1..N PROVE f[n - 1] \in Nat /\ step[n] = [i \in Nat |-> i + Raw(reply[n])]
    <3>1. n - 1 \in 0..N
      BY <1>1
    <3> HIDE DEF N
    <3> QED BY <2>1, <3>1
  <2> HIDE DEF step, F, g
  <2>3. ASSUME NEW n \in 1..N PROVE f[n] = f[n - 1] + Raw(reply[n])
    <3> DEFINE y == f[n - 1]
               r == Raw(reply[n])
    <3>1. y \in Nat /\ step[n] = [i \in Nat |-> i + r] /\ f[n] = step[n][y]
      BY <2>1, <2>2
    <3> HIDE DEF y, r
    <3>2. step[n][y] = y + r
      BY <3>1
    <3> QED BY <3>1, <3>2 DEF y, r
  <2> QED BY <2>1, <2>3
<1>5. f = F(f)
  <2>1. \A n \in 0..N : f[n] = F(f)[n]
    BY <1>1, <1>4
  <2> QED BY <1>4, <2>1
<1>6. g = F(g)
  <2> HIDE DEF F
  <2> QED BY <1>5
<1>7. Length(reply) = g[N] + N - 1
  BY DEF Length
<1> HIDE DEF g
<1>8. \A n \in 0..N : g[n] = IF n = 0 THEN 0 ELSE g[n - 1] + Raw(reply[n])
  BY <1>6
<1> DEFINE Good == {n \in Nat : n <= N => g[n] \in Nat}
<1>9. 0 \in Good
  BY <1>1, <1>8
<1>a. ASSUME NEW n \in Nat, n \in Good PROVE n + 1 \in Good
  <2> SUFFICES ASSUME n + 1 <= N PROVE g[n + 1] \in Nat
      OBVIOUS
  <2>1. n + 1 \in 0..N /\ n + 1 # 0 /\ (n + 1) - 1 = n /\ n + 1 \in 1..N
    BY <1>1
  <2>2. g[n + 1] = g[n] + Raw(reply[n + 1])
    BY <1>8, <2>1
  <2>3. g[n] \in Nat
    BY <1>a, <2>1, <1>1
  <2> QED BY <1>1, <2>1, <2>2, <2>3
<1>b. N \in Good
  <2> HIDE DEF Good
  <2> QED BY <1>1, <1>9, <1>a, NatInd
<1> QED BY <1>1, <1>7, <1>b

LEMMA WholeTags ==
    ASSUME NEW reply \in Lines, NEW rows \in Seq(Seq({"open", "close"})),
           Len(rows) = Len(reply), \A n \in DOMAIN reply : rows[n] = Tags(reply[n]),
           NoBlock(reply) \/ \E o, c \in DOMAIN reply : Block(reply, o, c)
    PROVE  FlattenSeq(rows) = IF NoBlock(reply) THEN <<>> ELSE <<"open", "close">>
<1> DEFINE N == Len(reply)
<1>1. DOMAIN reply = 1..N /\ N \in Nat /\ reply \in Seq(Line)
  BY DEF Lines
<1>2. ASSUME NEW n \in 1..N PROVE reply[n].open \in BOOLEAN /\ reply[n].close \in BOOLEAN
  <2>1. reply[n] \in Line
    BY <1>1
  <2> QED BY <2>1 DEF Line
<1>3. /\ <<"open">> \o <<"close">> = <<"open", "close">>
      /\ <<>> \o <<"open", "close">> = <<"open", "close">> /\ <<>> \o <<"open">> = <<"open">>
      /\ <<"open">> \o <<>> = <<"open">> /\ <<"open", "close">> \o <<>> = <<"open", "close">>
      /\ <<>> \o <<>> = <<>>
  <2>1. "open" \in {"open", "close"} /\ "close" \in {"open", "close"}
    OBVIOUS
  <2>2. /\ <<"open">> \in Seq({"open", "close"}) /\ <<"open", "close">> \in Seq({"open", "close"})
        /\ <<>> \in Seq({"open", "close"})
    OBVIOUS
  <2> QED BY <2>1, <2>2, ConcatPair, ConcatEmpty
<1>e. ASSUME NEW n \in 1..N
      PROVE  /\ reply[n].open /\ reply[n].close => rows[n] = <<"open", "close">>
             /\ reply[n].open /\ ~reply[n].close => rows[n] = <<"open">>
             /\ ~reply[n].open /\ reply[n].close => rows[n] = <<"close">>
             /\ ~reply[n].open /\ ~reply[n].close => rows[n] = <<>>
  <2> DEFINE x == reply[n]
  <2>1. x.open \in BOOLEAN /\ x.close \in BOOLEAN /\ rows[n] = Tags(x)
    BY <1>1, <1>2
  <2> HIDE DEF x
  <2>2. /\ x.open /\ x.close => rows[n] = <<"open", "close">>
        /\ x.open /\ ~x.close => rows[n] = <<"open">>
        /\ ~x.open /\ x.close => rows[n] = <<"close">>
        /\ ~x.open /\ ~x.close => rows[n] = <<>>
    BY <2>1, TagsAre
  <2> QED BY <2>2 DEF x
<1>4. CASE NoBlock(reply)
  <2> DEFINE f == [n \in 0..N |-> <<>>]
  <2>1. ASSUME NEW n \in 1..N PROVE rows[n] = <<>>
    <3>1. ~reply[n].open /\ ~reply[n].close
      BY <1>1, <1>4 DEF NoBlock
    <3> QED BY <1>e, <3>1
  <2>2. DOMAIN f = 0..N /\ f[0] = <<>> /\ \A n \in 1..N : f[n] = f[n - 1] \o rows[n]
    <3>1. DOMAIN f = 0..N /\ \A n \in 0..N : f[n] = <<>>
      OBVIOUS
    <3>2. 0 \in 0..N /\ \A n \in 1..N : n \in 0..N /\ n - 1 \in 0..N
      BY <1>1
    <3> HIDE DEF f
    <3> QED BY <1>3, <2>1, <3>1, <3>2
  <2>3. f[N] = <<>>
    BY <1>1
  <2> HIDE DEF f
  <2>4. Flattens(f, rows)
    BY <2>2 DEF Flattens
  <2> QED BY <1>4, <2>3, <2>4, FlattenIs
<1>5. CASE ~NoBlock(reply)
  <2>1. PICK o, c \in DOMAIN reply : Block(reply, o, c)
    BY <1>5
  <2>2. /\ o \in 1..N /\ c \in 1..N /\ o <= c
        /\ \A n \in 1..N : (reply[n].open <=> n = o) /\ (reply[n].close <=> n = c)
    BY <1>1, <2>1 DEF Block
  <2> DEFINE f == [n \in 0..N |-> IF n < o THEN <<>>
                                  ELSE IF n < c THEN <<"open">> ELSE <<"open", "close">>]
  <2>a. /\ DOMAIN f = 0..N /\ o \in Nat /\ c \in Nat
        /\ \A i \in 0..N : /\ i < o => f[i] = <<>>
                           /\ o <= i /\ i < c => f[i] = <<"open">>
                           /\ c <= i => f[i] = <<"open", "close">>
    BY <1>1, <2>2
  <2> HIDE DEF f
  <2>3. ASSUME NEW n \in 1..N PROVE f[n] = f[n - 1] \o rows[n]
    <3>0. /\ rows[n] = Tags(reply[n]) /\ n - 1 \in 0..N /\ n \in 0..N
          /\ n \in Nat /\ o \in Nat /\ c \in Nat /\ o <= c
      BY <1>1, <2>2
    <3>1. /\ n = o /\ n = c => rows[n] = <<"open", "close">>
          /\ n = o /\ n # c => rows[n] = <<"open">>
          /\ n # o /\ n = c => rows[n] = <<"close">>
          /\ n # o /\ n # c => rows[n] = <<>>
      BY <1>e, <2>2
    <3> DEFINE q == n - 1
    <3>q. q \in Nat /\ q + 1 = n /\ q \in 0..N
      BY <3>0
    <3> SUFFICES f[n] = f[q] \o rows[n]
        OBVIOUS
    <3> HIDE DEF q
    <3>v. /\ n < o => f[n] = <<>>
          /\ o <= n /\ n < c => f[n] = <<"open">>
          /\ c <= n => f[n] = <<"open", "close">>
          /\ q < o => f[q] = <<>>
          /\ o <= q /\ q < c => f[q] = <<"open">>
          /\ c <= q => f[q] = <<"open", "close">>
      BY <2>a, <3>0, <3>q
    <3>2. CASE n < o
      <4>0. n < o /\ q < o /\ n # o /\ n # c
        BY <3>q, <3>0, <3>2
      <4>1. f[n] = <<>> /\ f[q] = <<>> /\ rows[n] = <<>>
        BY <4>0, <3>v, <3>1
      <4> QED BY <1>3, <4>1
    <3>3. CASE n = o
      <4>0. q < o /\ ((o <= n /\ n < c) \/ (n = c /\ c <= n))
        BY <3>q, <3>0, <3>3
      <4>1. f[q] = <<>>
        BY <4>0, <3>v
      <4>2. f[n] = rows[n]
        BY <4>0, <3>v, <3>1, <3>3
      <4>3. rows[n] \in Seq({"open", "close"})
        BY <1>1
      <4> QED BY <4>1, <4>2, <4>3, ConcatEmpty
    <3>4. CASE o < n /\ n < c
      <4>0. o <= n /\ n < c /\ o <= q /\ q < c /\ n # o /\ n # c
        BY <3>q, <3>0, <3>4
      <4>1. f[n] = <<"open">> /\ f[q] = <<"open">> /\ rows[n] = <<>>
        BY <4>0, <3>v, <3>1
      <4> QED BY <1>3, <4>1
    <3>5. CASE o < n /\ n = c
      <4>0. c <= n /\ o <= q /\ q < c /\ n # o /\ n = c
        BY <3>q, <3>0, <3>5
      <4>1. f[n] = <<"open", "close">> /\ f[q] = <<"open">> /\ rows[n] = <<"close">>
        BY <4>0, <3>v, <3>1
      <4> QED BY <1>3, <4>1
    <3>6. CASE o < n /\ c < n
      <4>0. c <= n /\ c <= q /\ n # o /\ n # c
        BY <3>q, <3>0, <3>6
      <4>1. f[n] = <<"open", "close">> /\ f[q] = <<"open", "close">> /\ rows[n] = <<>>
        BY <4>0, <3>v, <3>1
      <4> QED BY <1>3, <4>1
    <3>7. n < o \/ n = o \/ (o < n /\ n < c) \/ (o < n /\ n = c) \/ (o < n /\ c < n)
      BY <3>0
    <3> QED BY <3>2, <3>3, <3>4, <3>5, <3>6, <3>7
  <2>4. DOMAIN f = 0..N /\ f[0] = <<>> /\ f[N] = <<"open", "close">>
    <3>1. 0 \in 0..N /\ N \in 0..N /\ 0 < o /\ c <= N
      BY <1>1, <2>2
    <3> QED BY <2>a, <3>1
  <2>5. Flattens(f, rows)
    BY <2>3, <2>4 DEF Flattens
  <2> QED BY <1>5, <2>4, <2>5, FlattenIs
<1> QED BY <1>4, <1>5

LEMMA WholeRight ==
    ASSUME NEW reply \in Lines, reply # <<>>, Length(reply) <= Limit,
           NoBlock(reply) \/ \E o, c \in DOMAIN reply : Block(reply, o, c)
    PROVE  /\ Whole(reply) \in Buffer
           /\ Whole(reply).pieces \in Seq(Span) /\ Shown(Whole(reply).pieces) = Text(reply)
           /\ Fits(Whole(reply)) /\ Balanced(reply, Whole(reply)) /\ ~Bisected(reply, Whole(reply))
<1> DEFINE N == Len(reply)
           ps == [n \in DOMAIN reply |-> Undivided(n, reply[n])]
           rows == [n \in DOMAIN ps |-> Tags(ps[n])]
           w == Whole(reply)
<1>1. DOMAIN reply = 1..N /\ N \in Nat /\ reply \in Seq(Line)
  BY DEF Lines
<1>2. ASSUME NEW n \in 1..N
      PROVE  /\ reply[n] \in Line /\ Apart(reply[n]) /\ n \in Nat /\ reply[n].len \in Nat
             /\ reply[n].open \in BOOLEAN /\ reply[n].close \in BOOLEAN
             /\ ps[n] = Undivided(n, reply[n])
             /\ ps[n].line = n /\ ps[n].lo = 0 /\ ps[n].hi = reply[n].len
  <2>1. reply[n] \in Line /\ Apart(reply[n])
    BY <1>1 DEF Lines
  <2>2. ps[n] = Undivided(n, reply[n])
    BY <1>1
  <2> QED BY <2>1, <2>2 DEF Line, Undivided
<1>3. ASSUME NEW n \in 1..N
      PROVE  ps[n] \in Span /\ rows[n] = Tags(reply[n]) /\ rows[n] \in Seq({"open", "close"})
  <2>1. Undivided(n, reply[n]) \in Piece /\ Tags(Undivided(n, reply[n])) \in Seq({"open", "close"})
    BY <1>2, UndividedIs
  <2>2. Tags(Undivided(n, reply[n])) = Tags(reply[n])
    BY DEF Tags, Undivided
  <2>3. rows[n] = Tags(ps[n])
    BY <1>1
  <2> HIDE DEF ps, rows
  <2> QED BY <1>2, <2>1, <2>2, <2>3 DEF Span
<1>4. ps \in Seq(Span) /\ Len(ps) = N
  BY <1>1, <1>3
<1>5. rows \in Seq(Seq({"open", "close"})) /\ Len(rows) = N
  <2>1. DOMAIN ps = 1..N
    BY <1>1
  <2> QED BY <1>1, <1>3, <2>1
<1>6. w.len = Length(reply) /\ w.tags = FlattenSeq(rows) /\ w.pieces = ps
      /\ w = [len |-> w.len, tags |-> w.tags, pieces |-> w.pieces]
  BY DEF Whole
<1>7. [k \in DOMAIN ps |-> Places(ps[k])]
          = [n \in DOMAIN reply |-> [i \in 1..reply[n].len |-> <<n, i - 1>>]]
  <2>1. ASSUME NEW n \in 1..N PROVE Places(ps[n]) = [i \in 1..reply[n].len |-> <<n, i - 1>>]
    <3> DEFINE p == ps[n]
    <3>1. p \in Piece /\ p.lo <= p.hi /\ p.line = n /\ p.lo = 0 /\ p.hi = reply[n].len
      BY <1>2, <1>3 DEF Span
    <3> HIDE DEF p
    <3>2. Row(n, 0) \o Places(p) = Row(n, reply[n].len) /\ Places(p) \in Seq(Nat \X Nat)
      BY <3>1, PlacesAre
    <3>3. Row(n, 0) = <<>>
      <4>1. Row(n, 0) = [i \in 1..0 |-> <<n, i - 1>>]
        BY DEF Row
      <4> QED BY <4>1
    <3>4. Places(p) = Row(n, reply[n].len)
      BY <3>2, <3>3, ConcatEmpty
    <3> QED BY <3>4 DEF Row, p
  <2>2. DOMAIN ps = 1..N /\ DOMAIN reply = 1..N
    BY <1>1
  <2> HIDE DEF ps
  <2> QED BY <2>1, <2>2
<1> HIDE DEF ps, rows, w
<1>8. w.pieces \in Seq(Span) /\ Shown(w.pieces) = Text(reply)
  <2>1. Shown(ps) = Text(reply)
    BY <1>7 DEF Shown, Text
  <2> QED BY <1>4, <1>6, <2>1
<1>9. w \in Buffer
  <2>1. w.len \in Nat
    BY <1>6, LengthType
  <2>2. w.tags \in Seq({"open", "close"})
    BY <1>5, <1>6, FlattenType
  <2>3. w.pieces \in Seq(Piece)
    <3>1. Span \subseteq Piece
      BY DEF Span
    <3> QED BY <1>8, <3>1
  <2> QED BY <1>6, <2>1, <2>2, <2>3 DEF Buffer
<1>a. Fits(w)
  BY <1>6 DEF Fits
<1>b. Balanced(reply, w)
  <2>1. w.tags = IF NoBlock(reply) THEN <<>> ELSE <<"open", "close">>
    BY <1>1, <1>3, <1>5, <1>6, WholeTags
  <2>2. (\E k \in DOMAIN w.pieces : InBlock(reply, w.pieces[k].line)) <=> ~NoBlock(reply)
    <3>1. DOMAIN w.pieces = 1..N /\ \A k \in 1..N : w.pieces[k].line = k
      BY <1>2, <1>4, <1>6
    <3>2. CASE NoBlock(reply)
      BY <1>1, <3>1, <3>2, NoBlockLines
    <3>3. CASE ~NoBlock(reply)
      <4>1. PICK o, c \in DOMAIN reply : Block(reply, o, c)
        BY <3>3
      <4>2. o <= o /\ o <= c
        BY <1>1, <4>1 DEF Block
      <4>3. InBlock(reply, o)
        BY <1>1, <4>1, <4>2, BlockLines
      <4> QED BY <1>1, <3>1, <3>3, <4>3
    <3> QED BY <3>2, <3>3
  <2> QED BY <2>1, <2>2 DEF Balanced
<1>c. ~Bisected(reply, w)
  <2> SUFFICES ASSUME NEW i \in DOMAIN w.pieces, NEW a \in reply[w.pieces[i].line].entities,
                      \/ a < w.pieces[i].lo /\ w.pieces[i].lo < a + EntityLen
                      \/ a < w.pieces[i].hi /\ w.pieces[i].hi < a + EntityLen
               PROVE  FALSE
      BY DEF Bisected
  <2>1. i \in 1..N
    BY <1>4, <1>6
  <2>2. w.pieces[i].line = i /\ w.pieces[i].lo = 0 /\ w.pieces[i].hi = reply[i].len
    BY <1>2, <1>6, <2>1
  <2>3. Clear(reply[i], 0) /\ Clear(reply[i], reply[i].len)
    BY <1>2, <2>1, UndividedIs
  <2> QED BY <2>2, <2>3 DEF Clear
<1> QED BY <1>8, <1>9, <1>a, <1>b, <1>c DEF w
-----------------------------------------------------------------------------
(* What split_reply makes of a text.                                       *)

\* A line that is not empty shows.
LEMMA TextShows ==
    ASSUME NEW reply \in Lines, NEW n \in DOMAIN reply, reply[n].len > 0
    PROVE  Text(reply) # <<>>
<1> DEFINE rows == [l \in DOMAIN reply |-> [i \in 1..reply[l].len |-> <<l, i - 1>>]]
           N == Len(reply)
<1>1. DOMAIN reply = 1..N /\ N \in Nat /\ n \in 1..N /\ Text(reply) = FlattenSeq(rows)
  BY DEF Lines, Text
<1>2. ASSUME NEW l \in 1..N
      PROVE  reply[l].len \in Nat /\ rows[l] \in Seq(Nat \X Nat) /\ Len(rows[l]) = reply[l].len
  <2>1. reply[l] \in Line
    BY DEF Lines
  <2>2. rows[l] = [i \in 1..reply[l].len |-> <<l, i - 1>>] /\ reply[l].len \in Nat /\ l \in Nat
    BY <1>1, <2>1 DEF Line
  <2> DEFINE L == reply[l].len
             r == [i \in 1..L |-> <<l, i - 1>>]
  <2> HIDE DEF L, rows
  <2>3. L \in Nat /\ l \in Nat
    BY <2>2 DEF L
  <2>4. \A i \in 1..L : <<l, i - 1>> \in Nat \X Nat
    BY <2>3
  <2>5. r \in Seq(Nat \X Nat) /\ Len(r) = L
    BY <2>3, <2>4
  <2> QED BY <2>2, <2>5 DEF L
<1>3. rows \in Seq(Seq(Nat \X Nat)) /\ Len(rows) = N
  <2>1. DOMAIN rows = 1..N
    BY <1>1
  <2> QED BY <1>1, <1>2, <2>1
<1> HIDE DEF rows
<1>4. PICK m : Marks(m, rows) /\ Len(FlattenSeq(rows)) = m[Len(rows)]
  BY <1>3, MarksExist
<1>5. n \in 0..N /\ n - 1 \in 0..N /\ N \in 0..N
  BY <1>1
<1>6. m[n] = m[n - 1] + reply[n].len /\ m[n - 1] \in Nat /\ m[n] \in Nat /\ m[N] \in Nat
  BY <1>1, <1>2, <1>3, <1>4, <1>5 DEF Marks
<1>7. m[n] <= m[N]
  <2>1. N \in 0..Len(rows) /\ n \in 0..N
    BY <1>3, <1>5
  <2> QED BY <2>1, <1>3, <1>4, MarksGrow
<1>8. Len(Text(reply)) # 0
  BY <1>1, <1>2, <1>3, <1>4, <1>6, <1>7
<1> QED BY <1>8

LEMMA EmptyIsHollow ==
    ASSUME NEW b, b.pieces \in Seq(Span)
    PROVE  Empty(b) <=> Hollow(b.pieces)
BY ShownEmpty DEF Empty, Hollow

LEMMA WellFormedIs ==
    ASSUME NEW reply, WellFormed(reply)
    PROVE  /\ reply \in Lines /\ reply # <<>> /\ Text(reply) # <<>>
           /\ NoBlock(reply) \/ \E o, c \in DOMAIN reply : Block(reply, o, c)
<1>1. reply \in Lines /\ (NoBlock(reply) \/ \E o, c \in DOMAIN reply : Block(reply, o, c))
  BY DEF WellFormed, Lines
<1>2. PICK n \in DOMAIN reply : reply[n].len > 0
  BY DEF WellFormed
<1>3. reply # <<>>
  BY <1>2
<1>4. Text(reply) # <<>>
  BY <1>1, <1>2, TextShows
<1> QED BY <1>1, <1>3, <1>4

\* The chunks of a text fit, are balanced, cut no entity in two, and show the
\* text: there is one at least (split_reply, handlers.py:78-117).
THEOREM SplitReplyRight ==
    ASSUME NEW reply, WellFormed(reply)
    PROVE  /\ split_reply(reply) \in Seq(Buffer) /\ Len(split_reply(reply)) # 0
           /\ \A c \in DOMAIN split_reply(reply) :
                 /\ Fits(split_reply(reply)[c]) /\ Balanced(reply, split_reply(reply)[c])
                 /\ ~Bisected(reply, split_reply(reply)[c])
                 /\ split_reply(reply)[c].pieces \in Seq(Span)
           /\ ChunkText(split_reply(reply)) = Text(reply)
<1>1. /\ reply \in Lines /\ reply # <<>> /\ Text(reply) # <<>>
      /\ NoBlock(reply) \/ \E o, c \in DOMAIN reply : Block(reply, o, c)
  BY WellFormedIs
<1>2. CASE Length(reply) <= Limit
  <2> DEFINE w == Whole(reply)
  <2>1. split_reply(reply) = <<w>>
    BY <1>2 DEF split_reply
  <2>2. /\ w \in Buffer /\ w.pieces \in Seq(Span) /\ Shown(w.pieces) = Text(reply)
        /\ Fits(w) /\ Balanced(reply, w) /\ ~Bisected(reply, w)
    BY <1>1, <1>2, WholeRight
  <2> HIDE DEF w
  <2>3. [c \in DOMAIN <<w>> |-> Shown(<<w>>[c].pieces)] = <<Shown(w.pieces)>>
    OBVIOUS
  <2>4. ChunkText(<<w>>) = Text(reply)
    BY <2>2, <2>3, ShownType, FlattenOne DEF ChunkText
  <2>5. <<w>> \in Seq(Buffer) /\ Len(<<w>>) # 0 /\ \A c \in DOMAIN <<w>> : <<w>>[c] = w
    BY <2>2
  <2> QED BY <2>1, <2>2, <2>4, <2>5
<1>3. CASE ~(Length(reply) <= Limit)
  <2> DEFINE cs == Split(reply)
  <2>1. split_reply(reply) = cs
    BY <1>3 DEF split_reply
  <2>2. /\ cs \in Seq(BufferOf(reply)) /\ ChunkText(cs) = Text(reply)
        /\ \A c \in 1..Len(cs) : Fits(cs[c]) /\ Balanced(reply, cs[c])
    BY <1>1, SplitRight
  <2> HIDE DEF cs
  <2>3. cs \in Seq(Buffer)
    BY <2>2, BufferOfIs
  <2>4. Len(cs) # 0
    <3>1. ChunkText(<<>>) = <<>>
      <4>1. [c \in DOMAIN <<>> |-> Shown(<<>>[c].pieces)] = <<>>
        OBVIOUS
      <4> QED BY <4>1, FlattenEmpty DEF ChunkText
    <3>2. cs # <<>>
      BY <1>1, <2>2, <3>1
    <3> QED BY <2>3, <3>2
  <2>5. DOMAIN cs = 1..Len(cs)
    BY <2>3
  <2>6. ASSUME NEW c \in 1..Len(cs)
        PROVE  cs[c].pieces \in Seq(Span) /\ ~Bisected(reply, cs[c])
    <3>1. cs[c] \in BufferOf(reply)
      BY <2>2
    <3>2. cs[c].pieces \in Seq(PieceOf(reply))
      BY <3>1 DEF BufferOf
    <3>3. PieceOf(reply) \subseteq Span
      BY DEF PieceOf
    <3> QED BY <1>1, <3>2, <3>3, PiecesWhole
  <2> QED BY <2>1, <2>2, <2>3, <2>4, <2>5, <2>6
<1> QED BY <1>2, <1>3

\* A chunk without text ends the block of a reply that goes on, and what follows
\* it would not have fitted.
LEMMA SplitReplyRare ==
    ASSUME NEW reply, WellFormed(reply), Framed(reply),
           NEW c \in DOMAIN split_reply(reply), Empty(split_reply(reply)[c])
    PROVE  /\ Ending(split_reply(reply)[c].pieces) /\ c < Len(split_reply(reply))
           /\ Size(split_reply(reply)[c + 1].pieces[1]) + Len(split_reply(reply)[c].pieces)
                + CloseLen > Width + 2
<1>1. /\ reply \in Lines /\ reply # <<>> /\ Text(reply) # <<>>
      /\ NoBlock(reply) \/ \E o, cc \in DOMAIN reply : Block(reply, o, cc)
  BY WellFormedIs
<1>2. CASE Length(reply) <= Limit
  <2> DEFINE w == Whole(reply)
  <2>1. split_reply(reply) = <<w>>
    BY <1>2 DEF split_reply
  <2>2. Shown(w.pieces) = Text(reply)
    BY <1>1, <1>2, WholeRight
  <2> HIDE DEF w
  <2>3. split_reply(reply)[c] = w
    BY <2>1
  <2> QED BY <1>1, <2>2, <2>3 DEF Empty
<1>3. CASE ~(Length(reply) <= Limit)
  <2> DEFINE cs == Split(reply)
  <2>1. split_reply(reply) = cs
    BY <1>3 DEF split_reply
  <2>2. Rare(cs)
    BY <1>1, SplitRare
  <2>3. cs \in Seq(Buffer) /\ cs[c].pieces \in Seq(Span)
    BY <2>1, SplitReplyRight
  <2> HIDE DEF cs
  <2>4. c \in 1..Len(cs)
    BY <2>1, <2>3
  <2>5. Hollow(cs[c].pieces)
    BY <2>1, <2>3, EmptyIsHollow
  <2> QED BY <2>1, <2>2, <2>4, <2>5 DEF Rare, HollowChunk
<1> QED BY <1>2, <1>3
=============================================================================
