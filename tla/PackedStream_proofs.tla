------------------------- MODULE PackedStream_proofs -------------------------
(***************************************************************************)
(* What is read from a stream is what was written to it (PackedStream).    *)
(***************************************************************************)
EXTENDS PackedStream, Packing_proofs

(***************************************************************************)
(* The table of a message                                                  *)
(***************************************************************************)
\* What the first numbers are together.
LEMMA TotalFacts ==
    ASSUME NEW lens \in Seq(Nat)
    PROVE  /\ Total(lens, 0) = 0
           /\ \A k \in 0..Len(lens) : Total(lens, k) \in Nat
           /\ \A k \in 0..Len(lens) - 1 : Total(lens, k + 1) = Total(lens, k) + lens[k + 1]
<1> DEFINE K == Len(lens)
           At(i) == IF i \in 1..K THEN lens[i] ELSE 0
           F == [p \in Nat \X Nat |-> p[2] + At(p[1] + 1)]
           G(g) == [n \in 0..K |-> IF n = 0 THEN 0 ELSE g[n - 1] + lens[n]]
           C == CHOOSE g : g = G(g)
<1>1. K \in Nat /\ \A i \in 1..K : lens[i] \in Nat
  OBVIOUS
<1> HIDE DEF K
<1>2. F \in [Nat \X Nat -> Nat]
  BY <1>1
<1>3. PICK f \in [0..K -> Nat] : Follows(f, K, 0, F)
  <2> HIDE DEF F
  <2> QED BY <1>1, <1>2, FollowsExists
<1>4. f = G(f)
  <2>1. \A n \in 0..K : f[n] = IF n = 0 THEN 0 ELSE F[<<n - 1, f[n - 1]>>]
    <3> HIDE DEF F
    <3> QED BY <1>3 DEF Follows
  <2>2. ASSUME NEW n \in 0..K PROVE f[n] = G(f)[n]
    <3>1. CASE n = 0
      BY <2>1, <3>1
    <3>2. CASE n # 0
      <4>1. n - 1 \in Nat /\ n - 1 \in 0..K /\ (n - 1) + 1 = n /\ n \in 1..K
        BY <1>1, <3>2
      <4>2. f[n - 1] \in Nat
        BY <1>3, <4>1
      <4>3. F[<<n - 1, f[n - 1]>>] = f[n - 1] + At((n - 1) + 1)
        BY <4>1, <4>2
      <4>4. At((n - 1) + 1) = lens[n]
        BY <4>1
      <4> HIDE DEF F, At
      <4> QED BY <2>1, <3>2, <4>3, <4>4
    <3> QED BY <3>1, <3>2
  <2>3. f = [n \in 0..K |-> f[n]]
    BY <1>3
  <2> HIDE DEF F
  <2> QED BY <2>2, <2>3
<1>5. C = G(C)
  <2> HIDE DEF G
  <2> QED BY <1>4
<1>6. \A k : Total(lens, k) = C[k]
  BY Zenon DEF Total, K
<1> HIDE DEF C
<1>7. C[0] = 0 /\ \A n \in 0..K : n # 0 => C[n] = C[n - 1] + lens[n]
  BY <1>1, <1>5
<1>8. \A k \in 0..K - 1 : C[k + 1] = C[k] + lens[k + 1]
  <2> TAKE k \in 0..K - 1
  <2>1. k + 1 \in 0..K /\ k + 1 # 0 /\ (k + 1) - 1 = k
    BY <1>1
  <2> QED BY <1>7, <2>1
<1>9. \A k \in 0..K : C[k] \in Nat
  <2> DEFINE T == {k \in Nat : k <= K => C[k] \in Nat}
  <2>1. 0 \in T
    BY <1>7
  <2>2. ASSUME NEW n \in Nat, n \in T PROVE n + 1 \in T
    <3>1. CASE n + 1 <= K
      <4>1. n \in 0..K - 1 /\ n + 1 \in 1..K /\ C[n] \in Nat
        BY <1>1, <2>2, <3>1
      <4>2. C[n + 1] = C[n] + lens[n + 1] /\ lens[n + 1] \in Nat
        BY <1>1, <1>8, <4>1
      <4> QED BY <4>1, <4>2
    <3>2. CASE ~(n + 1 <= K)
      BY <3>2
    <3> QED BY <3>1, <3>2
  <2> HIDE DEF T
  <2>3. \A n \in Nat : n \in T
    BY <2>1, <2>2, SetInduction
  <2> QED BY <1>1, <2>3 DEF T
<1> QED BY <1>6, <1>7, <1>8, <1>9 DEF K

\* The lengths of the segments.
LEMMA LensFacts ==
    ASSUME NEW S, NEW segs \in Seq(Seq(S))
    PROVE  /\ SegmentLens(segs) \in Seq(Nat) /\ Len(SegmentLens(segs)) = Len(segs)
           /\ \A i \in 1..Len(segs) : SegmentLens(segs)[i] = Len(segs[i]) /\ segs[i] \in Seq(S)
<1>1. \A i \in 1..Len(segs) : segs[i] \in Seq(S) /\ Len(segs[i]) \in Nat
  OBVIOUS
<1>2. Len(segs) \in Nat /\ DOMAIN segs = 1..Len(segs)
  OBVIOUS
<1> DEFINE K == Len(segs)
           f(i) == Len(segs[i])
<1>3. [i \in 1..K |-> f(i)] \in Seq(Nat) /\ Len([i \in 1..K |-> f(i)]) = K
  <2> HIDE DEF K, f
  <2>1. K \in Nat /\ \A i \in 1..K : f(i) \in Nat
    BY <1>1, <1>2 DEF K, f
  <2> QED BY <2>1
<1> QED BY <1>1, <1>2, <1>3 DEF SegmentLens

\* One more of the front.
LEMMA FirstCons ==
    ASSUME NEW S, NEW s \in Seq(S), NEW n \in Nat, n < Len(s)
    PROVE  First(s, n + 1) = Cat(First(s, n), One(s[n + 1])) /\ s[n + 1] \in S
<1>1. First(s, n + 1) = Append(First(s, n), s[n + 1]) /\ s[n + 1] \in S
  BY FirstNext
<1>2. First(s, n) \in Seq(S)
  BY CutCat
<1> DEFINE a == First(s, n)
           x == s[n + 1]
<1> HIDE DEF a, x
<1>3. Append(a, x) = a \o <<x>>
  <2>1. a \in Seq(S) /\ x \in S
    BY <1>1, <1>2 DEF a, x
  <2> QED BY <2>1
<1> QED BY <1>1, <1>3 DEF Cat, One, a, x

\* The first segments together are as long as their lengths together.
LEMMA FlatFirst ==
    ASSUME NEW S, NEW segs \in Seq(Seq(S)), NEW k \in Nat, k <= Len(segs)
    PROVE  /\ FlattenSeq(First(segs, k)) \in Seq(S)
           /\ Len(FlattenSeq(First(segs, k))) = Total(SegmentLens(segs), k)
<1> DEFINE lens == SegmentLens(segs)
           Ok(n) == Len(FlattenSeq(First(segs, n))) = Total(lens, n)
           T == {n \in Nat : n <= Len(segs) => Ok(n)}
<1>1. lens \in Seq(Nat) /\ Len(lens) = Len(segs) /\ Len(segs) \in Nat
  BY LensFacts
<1>2. 0 \in T
  <2>1. First(segs, 0) = <<>>
    BY DEF First
  <2>2. Total(lens, 0) = 0
    <3> HIDE DEF lens
    <3> QED BY <1>1, TotalFacts
  <2> QED BY <2>1, <2>2, FlatEmpty
<1>3. ASSUME NEW n \in Nat, n \in T PROVE n + 1 \in T
  <2> SUFFICES ASSUME n + 1 <= Len(segs) PROVE Ok(n + 1)
    OBVIOUS
  <2>1. n < Len(segs) /\ n <= Len(segs) /\ n \in 0..Len(segs) - 1 /\ n + 1 \in 1..Len(segs)
    BY <1>1
  <2> DEFINE a == First(segs, n)
             x == segs[n + 1]
  <2>2. First(segs, n + 1) = Cat(a, One(x)) /\ x \in Seq(S) /\ a \in Seq(Seq(S))
    BY <2>1, FirstCons, CutCat
  <2>3. Len(FlattenSeq(a)) = Total(lens, n)
    BY <1>3, <2>1
  <2>4. Total(lens, n + 1) = Total(lens, n) + Len(x)
    <3>1. lens[n + 1] = Len(x)
      BY <2>1, LensFacts
    <3> HIDE DEF lens
    <3> QED BY <1>1, <2>1, <3>1, TotalFacts
  <2> HIDE DEF a, x
  <2>5. FlattenSeq(Cat(a, One(x))) = Cat(FlattenSeq(a), x) /\ FlattenSeq(a) \in Seq(S)
    BY <2>2, OneType, FlatCat, FlatOne, FlatType
  <2>6. Len(Cat(FlattenSeq(a), x)) = Len(FlattenSeq(a)) + Len(x)
    BY <2>2, <2>5, CatLen
  <2> QED BY <2>2, <2>3, <2>4, <2>5, <2>6
<1>4. k \in T
  <2> HIDE DEF T
  <2> QED BY <1>2, <1>3, SetInduction
<1>5. First(segs, k) \in Seq(Seq(S))
  BY CutCat
<1> QED BY <1>4, <1>5, FlatType

\* The lengths together are that of the segments in a row.
LEMMA SumIsLen ==
    ASSUME NEW S, NEW segs \in Seq(Seq(S))
    PROVE  SumOf(SegmentLens(segs)) = Len(FlattenSeq(segs)) /\ FlattenSeq(segs) \in Seq(S)
<1>1. Len(segs) \in Nat /\ First(segs, Len(segs)) = segs
  BY DEF First
<1> DEFINE n == Len(segs)
<1>2. n \in Nat /\ n <= Len(segs) /\ First(segs, n) = segs
  BY <1>1
<1> HIDE DEF n
<1>3. FlattenSeq(segs) \in Seq(S) /\ Len(FlattenSeq(segs)) = Total(SegmentLens(segs), n)
  BY <1>2, FlatFirst
<1>4. Len(SegmentLens(segs)) = n
  BY LensFacts DEF n
<1> QED BY <1>3, <1>4 DEF SumOf

\* The totals grow.
LEMMA TotalMono ==
    ASSUME NEW lens \in Seq(Nat), NEW j \in Nat, NEW k \in Nat, j <= k, k <= Len(lens)
    PROVE  Total(lens, j) <= Total(lens, k) /\ Total(lens, j) \in Nat /\ Total(lens, k) \in Nat
<1> DEFINE T == {n \in Nat : j <= n /\ n <= Len(lens) => Total(lens, j) <= Total(lens, n)}
           N == Len(lens)
<1>1. N \in Nat /\ \A i \in 0..N : Total(lens, i) \in Nat
  BY TotalFacts
<1>2. 0 \in T
  <2>1. j <= 0 => j = 0
    OBVIOUS
  <2> QED BY <1>1, <2>1
<1>3. ASSUME NEW n \in Nat, n \in T PROVE n + 1 \in T
  <2> SUFFICES ASSUME j <= n + 1, n + 1 <= N PROVE Total(lens, j) <= Total(lens, n + 1)
    OBVIOUS
  <2>1. n \in 0..N - 1 /\ n + 1 \in 1..N /\ lens[n + 1] \in Nat /\ n <= N /\ n \in 0..N /\ n + 1 \in 0..N
    BY <1>1
  <2>2. Total(lens, n + 1) = Total(lens, n) + lens[n + 1]
    BY <2>1, TotalFacts
  <2>3. CASE j = n + 1
    BY <1>1, <2>1, <2>3
  <2>4. CASE j # n + 1
    <3>1. j <= n /\ n <= Len(lens)
      BY <2>1, <2>4
    <3>2. Total(lens, j) <= Total(lens, n)
      BY <1>3, <3>1
    <3>3. Total(lens, j) \in Nat /\ Total(lens, n) \in Nat
      <4>1. j \in 0..N
        BY <2>1, <3>1
      <4> HIDE DEF N
      <4> QED BY <1>1, <2>1, <4>1
    <3> QED BY <2>1, <2>2, <3>2, <3>3
  <2> QED BY <2>3, <2>4
<1>4. k \in T
  <2> HIDE DEF T
  <2> QED BY <1>2, <1>3, SetInduction
<1> QED BY <1>1, <1>4

\* The rest begins with its first element.
LEMMA FromCons ==
    ASSUME NEW S, NEW s \in Seq(S), NEW n \in Nat, n < Len(s)
    PROVE  From(s, n) = Cat(One(s[n + 1]), From(s, n + 1)) /\ From(s, n + 1) \in Seq(S)
<1> DEFINE a == First(s, n)
           x == s[n + 1]
           b == From(s, n + 1)
           d == From(s, n)
           f == First(s, n + 1)
<1>0. Len(s) \in Nat
  OBVIOUS
<1>1. f = Cat(a, One(x)) /\ x \in S
  BY FirstCons
<1>2. a \in Seq(S) /\ d \in Seq(S) /\ s = Cat(a, d)
  BY CutCat
<1>3. b \in Seq(S) /\ s = Cat(f, b)
  <2> DEFINE m == n + 1
  <2>1. m \in Nat /\ m <= Len(s)
    BY <1>0
  <2> HIDE DEF m
  <2>2. From(s, m) \in Seq(S) /\ s = Cat(First(s, m), From(s, m))
    BY <2>1, CutCat
  <2> QED BY <2>2 DEF m
<1> HIDE DEF a, x, b, d, f
<1>4. Cat(f, b) = Cat(a, Cat(One(x), b)) /\ Cat(One(x), b) \in Seq(S)
  BY <1>1, <1>2, <1>3, OneType, CatType, CatAssoc
<1>5. Cat(One(x), b) = d
  <2>1. Cat(a, Cat(One(x), b)) = Cat(a, d) /\ Len(a) = Len(a)
    BY <1>2, <1>3, <1>4
  <2> QED BY <1>2, <1>4, <2>1, CatCancel
<1> QED BY <1>3, <1>5 DEF a, x, b, d

\* A part of a sequence is the front of what is behind what comes before it.
LEMMA SubSeqCut ==
    ASSUME NEW S, NEW s \in Seq(S), NEW m \in Nat, NEW l \in Nat, m + l <= Len(s)
    PROVE  SubSeq(s, m + 1, m + l) = First(From(s, m), l)
<1>1. Len(s) \in Nat /\ \A i \in 1..Len(s) : s[i] \in S
  OBVIOUS
<1>2. m <= Len(s)
  BY <1>1
<1> DEFINE d == From(s, m)
<1>3. d \in Seq(S) /\ Len(d) = Len(s) - m /\ \A i \in 1..Len(s) - m : d[i] = s[m + i]
  BY <1>1, <1>2, Cut
<1> HIDE DEF d
<1>4. l \in 0..Len(d)
  BY <1>1, <1>3
<1> DEFINE f == First(d, l)
<1>5. f \in Seq(S) /\ Len(f) = l /\ \A i \in 1..l : f[i] = d[i]
  BY <1>3, <1>4, Cut
<1> HIDE DEF f
<1> DEFINE e == SubSeq(s, m + 1, m + l)
<1>6. e \in Seq(S) /\ Len(e) = l /\ \A i \in 1..l : e[i] = s[m + i]
  BY <1>1
<1> HIDE DEF e
<1>7. ASSUME NEW i \in 1..l PROVE e[i] = f[i]
  <2>1. i \in 1..Len(s) - m
    BY <1>1
  <2>2. d[i] = s[m + i]
    BY <1>3, <2>1
  <2> QED BY <1>5, <1>6, <2>2
<1>8. e = f
  BY <1>5, <1>6, <1>7
<1> QED BY <1>8 DEF e, f, d

\* A segment is between the totals of the lengths before it and with it.
LEMMA FlatAt ==
    ASSUME NEW S, NEW segs \in Seq(Seq(S)), NEW k \in Nat, k < Len(segs)
    PROVE  LET from == Total(SegmentLens(segs), k)
               to == Total(SegmentLens(segs), k + 1)
           IN  /\ SubSeq(FlattenSeq(segs), from + 1, to) = segs[k + 1]
               /\ from \in Nat /\ to = from + Len(segs[k + 1]) /\ to <= Len(FlattenSeq(segs))
               /\ Len(segs[k + 1]) \in Nat /\ Len(FlattenSeq(segs)) \in Nat
<1> DEFINE a == First(segs, k)
           x == segs[k + 1]
           c == From(segs, k + 1)
           fa == FlattenSeq(a)
           fc == FlattenSeq(c)
           lens == SegmentLens(segs)
           from == Total(lens, k)
           to == Total(lens, k + 1)
           flat == FlattenSeq(segs)
<1>0. Len(segs) \in Nat /\ Len(lens) = Len(segs) /\ lens \in Seq(Nat) /\ lens[k + 1] = Len(x)
  <2>1. Len(segs) \in Nat
    OBVIOUS
  <2>2. k + 1 \in 1..Len(segs)
    BY <2>1
  <2> QED BY <2>1, <2>2, LensFacts
<1>1. segs = Cat(a, Cat(One(x), c)) /\ x \in Seq(S) /\ a \in Seq(Seq(S)) /\ c \in Seq(Seq(S))
  <2>1. First(segs, k) \in Seq(Seq(S)) /\ segs = Cat(First(segs, k), From(segs, k))
    <3>1. k <= Len(segs)
      BY <1>0
    <3> QED BY <3>1, CutCat
  <2>2. From(segs, k) = Cat(One(segs[k + 1]), From(segs, k + 1)) /\ From(segs, k + 1) \in Seq(Seq(S))
    BY FromCons
  <2>3. segs[k + 1] \in Seq(S)
    BY FirstCons
  <2> QED BY <2>1, <2>2, <2>3
<1>2. Len(fa) = from /\ fa \in Seq(S)
  BY <1>0, FlatFirst
<1>3. to = from + Len(x)
  <2>1. k \in 0..Len(lens) - 1
    BY <1>0
  <2> HIDE DEF lens, x
  <2> QED BY <1>0, <2>1, TotalFacts
<1> HIDE DEF from, to, a, x, c, lens
<1>4. flat = Cat(fa, Cat(x, fc)) /\ fc \in Seq(S)
  <2>1. Cat(One(x), c) \in Seq(Seq(S)) /\ FlattenSeq(Cat(One(x), c)) = Cat(x, fc) /\ fc \in Seq(S)
    BY <1>1, OneType, CatType, FlatCons, FlatType
  <2>2. FlattenSeq(Cat(a, Cat(One(x), c))) = Cat(fa, FlattenSeq(Cat(One(x), c)))
    BY <1>1, <2>1, FlatCat
  <2> QED BY <1>1, <2>1, <2>2
<1> HIDE DEF flat, fa, fc
<1>5. Cat(x, fc) \in Seq(S) /\ flat \in Seq(S)
  BY <1>1, <1>2, <1>4, CatType
<1>6. From(flat, from) = Cat(x, fc)
  BY <1>2, <1>4, <1>5, CatCut
<1>7. First(Cat(x, fc), Len(x)) = x
  BY <1>1, <1>4, CatCut
<1>8. /\ Len(x) \in Nat /\ from \in Nat /\ Len(flat) \in Nat /\ from + Len(x) <= Len(flat)
  <2>1. /\ Len(flat) = Len(fa) + Len(Cat(x, fc)) /\ Len(fa) \in Nat
    BY <1>2, <1>4, <1>5, CatLen
  <2>2. Len(Cat(x, fc)) = Len(x) + Len(fc) /\ Len(x) \in Nat /\ Len(fc) \in Nat
    BY <1>1, <1>4, CatLen
  <2> QED BY <1>2, <2>1, <2>2
<1>9. SubSeq(flat, from + 1, from + Len(x)) = First(From(flat, from), Len(x))
  BY <1>5, <1>8, SubSeqCut
<1>10. SubSeq(flat, from + 1, to) = x /\ to <= Len(flat)
  BY <1>3, <1>6, <1>7, <1>8, <1>9
<1> QED BY <1>3, <1>8, <1>10 DEF from, to, x, lens, flat

\* The set of segments of a message.
Starts(segs) == [k \in 1..Len(segs) - 1 |-> Total(SegmentLens(segs), k)]
MessageSet(segs) == SegmentSet(Starts(segs), FlattenSeq(segs))

\* Each start but the first is the total before it.
LEMMA StartsFacts ==
    ASSUME NEW S, NEW segs \in Seq(Seq(S)), segs # <<>>
    PROVE  /\ Len(Starts(segs)) = Len(segs) - 1
           /\ \A k \in 1..Len(segs) - 1 : Starts(segs)[k] = Total(SegmentLens(segs), k)
<1> DEFINE n == Len(segs) - 1
           f(k) == Total(SegmentLens(segs), k)
<1>1. n \in Nat
  <2>1. Len(segs) \in Nat \ {0}
    BY LenZero
  <2> QED BY <2>1
<1>2. Len([k \in 1..n |-> f(k)]) = n
  <2> DEFINE V == {f(k) : k \in 1..n}
  <2>1. \A k \in 1..n : f(k) \in V
    OBVIOUS
  <2> HIDE DEF n, f, V
  <2> QED BY <1>1, <2>1
<1> QED BY <1>2 DEF Starts

\* The segments of a SegmentSet, cut from the data by its starts, are those of the message.
THEOREM SegmentsOfSet ==
    ASSUME NEW S, NEW segs \in Seq(Seq(S)), segs # <<>>
    PROVE  SegmentsOf(MessageSet(segs)) = segs
<1> DEFINE lens == SegmentLens(segs)
           flat == FlattenSeq(segs)
           set == MessageSet(segs)
           N == Len(segs)
           st == Starts(segs)
<1>1. N \in Nat /\ N # 0 /\ segs = [i \in 1..N |-> segs[i]]
  BY LenZero
<1>2. Len(st) = N - 1 /\ \A k \in 1..N - 1 : st[k] = Total(lens, k)
  BY StartsFacts
<1>3. set.starts = st /\ set.data = flat
  BY DEF MessageSet, SegmentSet
<1>4. Total(lens, 0) = 0 /\ Total(lens, N) = Len(flat)
  <2>1. lens \in Seq(Nat) /\ Len(lens) = N
    BY LensFacts
  <2>2. Total(lens, 0) = 0
    <3> HIDE DEF lens
    <3> QED BY <2>1, TotalFacts
  <2>3. SumOf(lens) = Len(flat)
    BY SumIsLen
  <2> HIDE DEF lens, flat
  <2> QED BY <2>1, <2>2, <2>3 DEF SumOf
<1> HIDE DEF N
<1>5. ASSUME NEW i \in 1..N PROVE Segment(set, i - 1) = segs[i]
  <2> DEFINE id == i - 1
  <2>1. id \in Nat /\ id < N /\ id + 1 = i /\ ~(id > N - 1)
    BY <1>1
  <2> HIDE DEF id
  <2>2. SubSeq(flat, Total(lens, id) + 1, Total(lens, id + 1)) = segs[id + 1]
    BY <2>1, FlatAt DEF N
  <2> HIDE DEF lens, flat, set, st
  <2>3. (IF id = 0 THEN 0 ELSE st[id]) = Total(lens, id)
    BY <1>1, <1>2, <1>4, <2>1
  <2>4. (IF id < N - 1 THEN st[id + 1] ELSE Len(flat)) = Total(lens, id + 1)
    <3>1. CASE id < N - 1
      <4>1. id + 1 \in 1..N - 1
        BY <1>1, <2>1, <3>1
      <4> QED BY <1>2, <3>1, <4>1
    <3>2. CASE ~(id < N - 1)
      <4>1. id + 1 = N
        BY <1>1, <2>1, <3>2
      <4> QED BY <1>4, <3>2, <4>1
    <3> QED BY <3>1, <3>2
  <2>5. Segment(set, id) = SubSeq(flat, Total(lens, id) + 1, Total(lens, id + 1))
    BY <1>2, <1>3, <2>1, <2>3, <2>4 DEF Segment
  <2> QED BY <2>1, <2>2, <2>5 DEF id
<1>6. SegmentsOf(set) = [i \in 1..N |-> Segment(set, i - 1)]
  <2>1. Len(set.starts) + 1 = N
    <3> HIDE DEF st, set
    <3> QED BY <1>1, <1>2, <1>3
  <2> HIDE DEF set
  <2> QED BY <2>1 DEF SegmentsOf
<1> HIDE DEF set
<1>7. SegmentsOf(set) = [i \in 1..N |-> segs[i]]
  BY <1>5, <1>6
<1> QED BY <1>1, <1>7 DEF set

(***************************************************************************)
(* Numbers and their bytes                                                 *)
(***************************************************************************)
LEMMA PowerSum ==
    ASSUME NEW a \in Nat, NEW b \in Nat
    PROVE  2^(a + b) = 2^a * 2^b
<1> DEFINE T == {n \in Nat : 2^(a + n) = 2^a * 2^n}
           p == 2^a
<1>0. p \in Nat
  BY Doubling
<1>1. 0 \in T
  <2>1. a + 0 = a /\ 2^0 = 1
    BY PowerZero
  <2>2. 2^(a + 0) = 2^a * 2^0
    <3>1. 2^(a + 0) = p
      BY <2>1
    <3>2. p * 1 = p
      <4> HIDE DEF p
      <4> QED BY <1>0
    <3> QED BY <2>1, <3>1, <3>2
  <2> QED BY <2>2
<1>2. ASSUME NEW n \in Nat, n \in T PROVE n + 1 \in T
  <2> DEFINE q == 2^n
             m == a + n
             r == 2^m
  <2>1. m \in Nat /\ a + (n + 1) = m + 1
    OBVIOUS
  <2>2. q \in Nat /\ 2^(n + 1) = 2 * q
    BY Doubling
  <2>3. 2^(m + 1) = 2 * r /\ r \in Nat
    <3> HIDE DEF m
    <3> QED BY <2>1, Doubling
  <2>4. r = p * q
    BY <1>2
  <2>5. 2 * (p * q) = p * (2 * q)
    <3> HIDE DEF p, q
    <3> QED BY <1>0, <2>2
  <2>6. 2^(a + (n + 1)) = 2^a * 2^(n + 1)
    <3>1. 2^(a + (n + 1)) = 2 * r
      BY <2>1, <2>3
    <3> HIDE DEF r, m
    <3>2. 2 * r = p * (2 * q)
      <4> HIDE DEF p, q
      <4> QED BY <2>4, <2>5
    <3> QED BY <2>2, <3>1, <3>2
  <2> QED BY <2>6
<1>3. b \in T
  <2> HIDE DEF T
  <2> QED BY <1>1, <1>2, SetInduction
<1> QED BY <1>3

\* A quotient is less than what the dividend is less than a multiple of.
LEMMA DivLess ==
    ASSUME NEW x \in Nat, NEW a \in Nat, NEW m \in Nat \ {0}, x < m * a
    PROVE  x \div m < a /\ x \div m \in Nat
<1>1. x \div m \in Nat
  BY Division
<1>2. CASE a <= x \div m
  <2>1. m * a <= x /\ m * a \in Nat
    BY <1>2, Multiples
  <2> QED BY <2>1
<1> QED BY <1>1, <1>2

\* Division with remainder.
LEMMA DivMod ==
    ASSUME NEW x \in Nat, NEW m \in Nat \ {0}
    PROVE  x % m \in 0..m - 1 /\ x = (x % m) + m * (x \div m) /\ x \div m \in Nat
<1>1. x \div m \in Nat
  BY Division
<1> QED BY <1>1

\* Half a word has HalfBytes bytes and the numbers up to MaxNumber.
LEMMA HalfFacts ==
    /\ HalfBytes \in Nat \ {0} /\ WordBytes = HalfBytes + HalfBytes
    /\ ByteBase \in Nat \ {0} /\ ByteBase = 2^WordBytes /\ Byte = 0..ByteBase - 1
    /\ MaxNumber \in Nat /\ MaxNumber + 1 = 2^(WordBytes * HalfBytes)
<1>1. WordBytes \in Nat \ {0} /\ WordBytes % 2 = 0
  BY SizeFacts, FramingAssumption
<1>2. HalfBytes \in Nat \ {0} /\ WordBytes = HalfBytes + HalfBytes
  BY <1>1 DEF HalfBytes
<1>3. 2^WordBytes \in Nat /\ FullTag \in Nat
  BY <1>1, Doubling, ByteFacts
<1>4. ByteBase = 2^WordBytes /\ ByteBase \in Nat \ {0} /\ Byte = 0..ByteBase - 1
  <2> DEFINE p == 2^WordBytes
  <2>1. FullTag = p - 1 /\ p \in Nat /\ FullTag \in Nat
    BY <1>3 DEF FullTag
  <2> HIDE DEF p
  <2>2. ByteBase = p
    BY <2>1 DEF ByteBase
  <2>3. ByteBase \in Nat \ {0} /\ ByteBase - 1 = FullTag
    BY <2>1, <2>2
  <2> QED BY <2>2, <2>3 DEF Byte, p
<1>5. 2^(WordBytes * HalfBytes) \in Nat \ {0}
  <2> DEFINE n == WordBytes * HalfBytes
             T == {k \in Nat : 2^k \in Nat \ {0}}
  <2>1. n \in Nat
    <3> HIDE DEF n
    <3> QED BY <1>1, <1>2, Times DEF n
  <2>2. 0 \in T
    BY PowerZero
  <2>3. ASSUME NEW k \in Nat, k \in T PROVE k + 1 \in T
    <3> DEFINE q == 2^k
    <3>1. 2^(k + 1) = 2 * q /\ q \in Nat \ {0}
      BY <2>3, Doubling
    <3>2. 2 * q \in Nat \ {0}
      <4> HIDE DEF q
      <4> QED BY <3>1
    <3> QED BY <3>1, <3>2
  <2> HIDE DEF n
  <2>4. n \in T
    <3> HIDE DEF T
    <3> QED BY <2>1, <2>2, <2>3, SetInduction
  <2> QED BY <2>4 DEF n
<1>6. MaxNumber \in Nat /\ MaxNumber + 1 = 2^(WordBytes * HalfBytes)
  <2> DEFINE p == 2^(WordBytes * HalfBytes)
  <2>1. p \in Nat \ {0} /\ MaxNumber = p - 1
    BY <1>5 DEF MaxNumber
  <2> HIDE DEF p
  <2>2. MaxNumber \in Nat /\ MaxNumber + 1 = p
    BY <2>1
  <2> QED BY <2>2 DEF p
<1> QED BY <1>2, <1>4, <1>6

\* The numbers that NumberBytes takes the bytes from.
LEMMA ShiftFacts ==
    ASSUME NEW n \in Nat
    PROVE  \E s \in [0..HalfBytes -> Nat] :
             /\ s[0] = n /\ \A i \in 0..HalfBytes - 1 : s[i + 1] = s[i] \div ByteBase
             /\ NumberBytes(n) = [i \in 1..HalfBytes |-> s[i - 1] % ByteBase]
<1> DEFINE K == HalfBytes
           F == [p \in Nat \X Nat |-> p[2] \div ByteBase]
           G(g) == [i \in 0..HalfBytes |-> IF i = 0 THEN n ELSE g[i - 1] \div ByteBase]
           C == CHOOSE g : g = G(g)
<1>1. K \in Nat /\ ByteBase \in Nat \ {0}
  BY HalfFacts
<1>2. F \in [Nat \X Nat -> Nat]
  <2>1. \A x \in Nat : x \div ByteBase \in Nat
    BY <1>1, Division
  <2> QED BY <2>1
<1>3. PICK f \in [0..K -> Nat] : Follows(f, K, n, F)
  <2> HIDE DEF F, K
  <2> QED BY <1>1, <1>2, FollowsExists
<1>4. \A i \in 0..K : f[i] = IF i = 0 THEN n ELSE F[<<i - 1, f[i - 1]>>]
  <2> HIDE DEF F, K
  <2> QED BY <1>3 DEF Follows
<1>5. ASSUME NEW i \in 0..K PROVE f[i] = G(f)[i]
  <2>1. CASE i = 0
    BY <1>4, <2>1
  <2>2. CASE i # 0
    <3>1. i - 1 \in Nat /\ i - 1 \in 0..K
      BY <1>1, <2>2
    <3>2. f[i - 1] \in Nat
      BY <1>3, <3>1
    <3>3. F[<<i - 1, f[i - 1]>>] = f[i - 1] \div ByteBase
      BY <3>1, <3>2
    <3> HIDE DEF F
    <3> QED BY <1>4, <2>2, <3>3
  <2> QED BY <2>1, <2>2
<1>6. f = G(f)
  <2>1. f = [i \in 0..K |-> f[i]]
    BY <1>3
  <2> HIDE DEF F
  <2> QED BY <1>5, <2>1
<1>7. C = G(C)
  <2> HIDE DEF G
  <2> QED BY <1>6
<1>8. NumberBytes(n) = [i \in 1..HalfBytes |-> C[i - 1] % ByteBase]
  BY Zenon DEF NumberBytes
<1> HIDE DEF C
<1>9. C[0] = n /\ \A i \in 0..K : i # 0 => C[i] = C[i - 1] \div ByteBase
  BY <1>1, <1>7
<1>10. \A i \in 0..K - 1 : C[i + 1] = C[i] \div ByteBase
  <2> TAKE i \in 0..K - 1
  <2>1. i + 1 \in 0..K /\ i + 1 # 0 /\ (i + 1) - 1 = i
    BY <1>1
  <2> QED BY <1>9, <2>1
<1>11. \A i \in 0..K : C[i] \in Nat
  <2> DEFINE T == {k \in Nat : k <= K => C[k] \in Nat}
  <2>1. 0 \in T
    BY <1>9
  <2>2. ASSUME NEW k \in Nat, k \in T PROVE k + 1 \in T
    <3>1. CASE k + 1 <= K
      <4>1. k \in 0..K - 1 /\ C[k] \in Nat
        BY <1>1, <2>2, <3>1
      <4>2. C[k + 1] = C[k] \div ByteBase /\ C[k] \div ByteBase \in Nat
        BY <1>1, <1>10, <4>1, Division
      <4> QED BY <4>2
    <3>2. CASE ~(k + 1 <= K)
      BY <3>2
    <3> QED BY <3>1, <3>2
  <2> HIDE DEF T, K
  <2>3. \A k \in Nat : k \in T
    BY <2>1, <2>2, SetInduction
  <2> QED BY <1>1, <2>3 DEF T
<1>12. C \in [0..K -> Nat]
  <2> HIDE DEF K
  <2>1. C = [i \in 0..K |-> C[i]]
    BY <1>7 DEF K
  <2> QED BY <1>11, <2>1
<1> QED BY <1>8, <1>9, <1>10, <1>12

\* A number has HalfBytes bytes.
LEMMA NumberBytesFacts ==
    ASSUME NEW n \in Nat
    PROVE  NumberBytes(n) \in Seq(Byte) /\ Len(NumberBytes(n)) = HalfBytes
<1>1. PICK s \in [0..HalfBytes -> Nat] :
        NumberBytes(n) = [i \in 1..HalfBytes |-> s[i - 1] % ByteBase]
  BY ShiftFacts
<1> DEFINE f(i) == s[i - 1] % ByteBase
           K == HalfBytes
<1>2. K \in Nat
  BY HalfFacts
<1>3. ASSUME NEW i \in 1..K PROVE f(i) \in Byte
  <2>1. i - 1 \in 0..K
    BY <1>2
  <2>2. s[i - 1] \in Nat
    BY <2>1
  <2>3. f(i) \in 0..ByteBase - 1
    BY <2>2, HalfFacts, DivMod
  <2> QED BY <2>3, HalfFacts
<1> HIDE DEF f, K
<1>4. [i \in 1..K |-> f(i)] \in Seq(Byte) /\ Len([i \in 1..K |-> f(i)]) = K
  BY <1>2, <1>3
<1> QED BY <1>1, <1>4 DEF f, K

\* Number is a recursion over the bytes, from the highest on.
LEMMA NumberFacts ==
    ASSUME NEW b \in Seq(Byte)
    PROVE  \E v \in [0..Len(b) -> Nat] :
             /\ v[0] = 0 /\ Number(b) = v[Len(b)]
             /\ \A k \in 0..Len(b) - 1 : v[k + 1] = b[Len(b) - k] + ByteBase * v[k]
<1> DEFINE K == Len(b)
           At(i) == IF K - i \in 1..K THEN b[K - i] ELSE 0
           F == [p \in Nat \X Nat |-> At(p[1]) + ByteBase * p[2]]
           G(g) == [n \in 0..K |-> IF n = 0 THEN 0 ELSE b[K - n + 1] + ByteBase * g[n - 1]]
           C == CHOOSE g : g = G(g)
<1>1. K \in Nat /\ ByteBase \in Nat \ {0} /\ \A i \in 1..K : b[i] \in Nat
  BY HalfFacts
<1> HIDE DEF K
<1>2. F \in [Nat \X Nat -> Nat]
  <2>1. \A x \in Nat : ByteBase * x \in Nat
    BY <1>1
  <2>2. \A i \in Nat : At(i) \in Nat
    BY <1>1
  <2> HIDE DEF At
  <2>3. \A i \in Nat, x \in Nat : At(i) + ByteBase * x \in Nat
    <3> TAKE i \in Nat, x \in Nat
    <3> DEFINE q == ByteBase * x
    <3>1. q \in Nat /\ At(i) \in Nat
      BY <2>1, <2>2
    <3> HIDE DEF q
    <3>2. At(i) + q \in Nat
      BY <3>1
    <3> QED BY <3>2 DEF q
  <2> QED BY <2>3
<1>3. PICK f \in [0..K -> Nat] : Follows(f, K, 0, F)
  <2> HIDE DEF F
  <2> QED BY <1>1, <1>2, FollowsExists
<1>4. \A i \in 0..K : f[i] = IF i = 0 THEN 0 ELSE F[<<i - 1, f[i - 1]>>]
  <2> HIDE DEF F
  <2> QED BY <1>3 DEF Follows
<1>5. ASSUME NEW i \in 0..K PROVE f[i] = G(f)[i]
  <2>1. CASE i = 0
    BY <1>4, <2>1
  <2>2. CASE i # 0
    <3>1. i - 1 \in Nat /\ i - 1 \in 0..K /\ K - (i - 1) = K - i + 1 /\ K - (i - 1) \in 1..K
      BY <1>1, <2>2
    <3>2. f[i - 1] \in Nat
      BY <1>3, <3>1
    <3>3. F[<<i - 1, f[i - 1]>>] = At(i - 1) + ByteBase * f[i - 1]
      <4> HIDE DEF At
      <4> QED BY <3>1, <3>2
    <3>4. At(i - 1) = b[K - i + 1]
      BY <3>1
    <3> HIDE DEF F, At
    <3> QED BY <1>4, <2>2, <3>3, <3>4
  <2> QED BY <2>1, <2>2
<1>6. f = G(f)
  <2>1. f = [i \in 0..K |-> f[i]]
    BY <1>3
  <2> HIDE DEF F
  <2> QED BY <1>5, <2>1
<1>7. C = G(C)
  <2> HIDE DEF G
  <2> QED BY <1>6
<1>8. Number(b) = C[K]
  BY Zenon DEF Number, K
<1> HIDE DEF C
<1>9. C[0] = 0 /\ \A i \in 0..K : i # 0 => C[i] = b[K - i + 1] + ByteBase * C[i - 1]
  <2> DEFINE R(i) == IF i = 0 THEN 0 ELSE b[K - i + 1] + ByteBase * C[i - 1]
  <2>1. C = [i \in 0..K |-> R(i)]
    BY <1>7
  <2>2. 0 \in 0..K
    BY <1>1
  <2>3. \A i \in 0..K : C[i] = R(i)
    <3> HIDE DEF R
    <3> QED BY <2>1
  <2> QED BY <2>2, <2>3
<1>10. \A i \in 0..K - 1 : C[i + 1] = b[K - i] + ByteBase * C[i]
  <2> TAKE i \in 0..K - 1
  <2>1. i + 1 \in 0..K /\ i + 1 # 0 /\ (i + 1) - 1 = i /\ K - (i + 1) + 1 = K - i
    BY <1>1
  <2>2. C[i + 1] = b[K - (i + 1) + 1] + ByteBase * C[(i + 1) - 1]
    BY <1>9, <2>1
  <2> QED BY <2>1, <2>2
<1>11. \A i \in 0..K : C[i] \in Nat
  <2> DEFINE T == {k \in Nat : k <= K => C[k] \in Nat}
  <2>1. 0 \in T
    BY <1>9
  <2>2. ASSUME NEW k \in Nat, k \in T PROVE k + 1 \in T
    <3>1. CASE k + 1 <= K
      <4>1. k \in 0..K - 1 /\ C[k] \in Nat /\ K - k \in 1..K
        BY <1>1, <2>2, <3>1
      <4> DEFINE q == ByteBase * C[k]
                 d == b[K - k]
      <4>2. C[k + 1] = d + q
        BY <1>10, <4>1
      <4>3. q \in Nat /\ d \in Nat
        BY <1>1, <4>1
      <4> HIDE DEF q, d
      <4>4. C[k + 1] \in Nat
        BY <4>2, <4>3
      <4> QED BY <4>4
    <3>2. CASE ~(k + 1 <= K)
      BY <3>2
    <3> QED BY <3>1, <3>2
  <2> HIDE DEF T
  <2>3. \A k \in Nat : k \in T
    BY <2>1, <2>2, SetInduction
  <2> QED BY <1>1, <2>3 DEF T
<1>12. C \in [0..K -> Nat]
  <2>1. C = [i \in 0..K |-> C[i]]
    BY <1>7
  <2> QED BY <1>11, <2>1
<1> QED BY <1>8, <1>9, <1>10, <1>12 DEF K

\* A number of the table is read by SegmentLenReader as write_table has written it.
THEOREM NumberRoundTrip ==
    ASSUME NEW n \in Nat, n <= MaxNumber
    PROVE  Number(NumberBytes(n)) = n
<1> DEFINE K == HalfBytes
           b == NumberBytes(n)
           P(i) == 2^(WordBytes * i)
<1>0. K \in Nat \ {0} /\ ByteBase \in Nat \ {0} /\ WordBytes \in Nat \ {0}
  BY HalfFacts, SizeFacts
<1>1. b \in Seq(Byte) /\ Len(b) = K
  BY NumberBytesFacts
<1>2. PICK s \in [0..K -> Nat] :
        /\ s[0] = n /\ \A i \in 0..K - 1 : s[i + 1] = s[i] \div ByteBase
        /\ b = [i \in 1..K |-> s[i - 1] % ByteBase]
  BY ShiftFacts
<1>3. PICK v \in [0..K -> Nat] :
        /\ v[0] = 0 /\ Number(b) = v[K]
        /\ \A k \in 0..K - 1 : v[k + 1] = b[K - k] + ByteBase * v[k]
  <2> HIDE DEF b, K
  <2> QED BY <1>1, NumberFacts
<1> HIDE DEF b, K
<1>4. \A i \in Nat : P(i) \in Nat /\ P(i + 1) = ByteBase * P(i)
  <2> TAKE i \in Nat
  <2> DEFINE m == WordBytes * i
  <2>1. m \in Nat /\ WordBytes * (i + 1) = WordBytes + m
    BY <1>0, Times
  <2> HIDE DEF m
  <2>2. 2^m \in Nat /\ 2^(WordBytes + m) = 2^WordBytes * 2^m
    BY <1>0, <2>1, PowerSum, Doubling
  <2> QED BY <2>1, <2>2, HalfFacts DEF m
<1>5. P(0) = 1
  <2>1. WordBytes * 0 = 0
    BY <1>0
  <2> QED BY <2>1, PowerZero
<1>6. n < P(K)
  <2>1. P(K) = MaxNumber + 1 /\ MaxNumber \in Nat
    BY HalfFacts DEF K
  <2> HIDE DEF P
  <2> QED BY <2>1
<1> HIDE DEF P
<1>7. \A i \in Nat : i <= K => s[i] < P(K - i)
  <2> DEFINE T == {i \in Nat : i <= K => s[i] < P(K - i)}
  <2>1. 0 \in T
    <3>1. K - 0 = K
      BY <1>0
    <3> QED BY <1>2, <1>6, <3>1
  <2>2. ASSUME NEW i \in Nat, i \in T PROVE i + 1 \in T
    <3> SUFFICES ASSUME i + 1 <= K PROVE s[i + 1] < P(K - (i + 1))
      OBVIOUS
    <3> DEFINE m == K - (i + 1)
    <3>1. m \in Nat /\ m + 1 = K - i /\ i \in 0..K - 1 /\ i \in 0..K /\ i <= K
      BY <1>0
    <3> HIDE DEF m
    <3>2. s[i] < ByteBase * P(m) /\ P(m) \in Nat /\ s[i] \in Nat
      BY <1>2, <1>4, <2>2, <3>1
    <3>3. s[i] \div ByteBase < P(m)
      BY <1>0, <3>2, DivLess
    <3> QED BY <1>2, <3>1, <3>3 DEF m
  <2> HIDE DEF T
  <2>3. \A i \in Nat : i \in T
    BY <2>1, <2>2, SetInduction
  <2> QED BY <2>3 DEF T
<1>8. s[K] = 0
  <2>1. K - K = 0 /\ K \in 0..K
    BY <1>0
  <2>2. s[K] < 1 /\ s[K] \in Nat
    BY <1>0, <1>2, <1>5, <1>7, <2>1
  <2> QED BY <2>2
<1>9. \A k \in Nat : k <= K => v[k] = s[K - k]
  <2> DEFINE T == {k \in Nat : k <= K => v[k] = s[K - k]}
  <2>1. 0 \in T
    <3>1. K - 0 = K
      BY <1>0
    <3> QED BY <1>3, <1>8, <3>1
  <2>2. ASSUME NEW k \in Nat, k \in T PROVE k + 1 \in T
    <3> SUFFICES ASSUME k + 1 <= K PROVE v[k + 1] = s[K - (k + 1)]
      OBVIOUS
    <3> DEFINE m == K - (k + 1)
    <3>1. m \in Nat /\ m + 1 = K - k /\ m \in 0..K - 1 /\ m \in 0..K /\ k <= K /\ k \in 0..K - 1
          /\ K - k \in 1..K /\ (K - k) - 1 = m
      BY <1>0
    <3> HIDE DEF m
    <3>2. v[k + 1] = b[K - k] + ByteBase * v[k] /\ v[k] = s[K - k]
      BY <1>3, <2>2, <3>1
    <3>3. b[K - k] = s[m] % ByteBase
      BY <1>2, <3>1
    <3>4. v[k] = s[m] \div ByteBase
      BY <1>2, <3>1, <3>2
    <3>5. s[m] = (s[m] % ByteBase) + ByteBase * (s[m] \div ByteBase)
      BY <1>0, <1>2, <3>1, DivMod
    <3>6. v[k + 1] = s[m]
      BY <3>2, <3>3, <3>4, <3>5
    <3> QED BY <3>6 DEF m
  <2> HIDE DEF T
  <2>3. \A i \in Nat : i \in T
    BY <2>1, <2>2, SetInduction
  <2> QED BY <2>3 DEF T
<1>10. v[K] = n
  <2>1. K \in Nat /\ K <= K /\ K - K = 0
    BY <1>0
  <2> QED BY <1>2, <1>9, <2>1
<1> QED BY <1>3, <1>10 DEF b

\* Parts of the same length: the totals are its multiples.
LEMMA UniformTotal ==
    ASSUME NEW S, NEW c \in Seq(Seq(S)), NEW h \in Nat \ {0},
           \A i \in 1..Len(c) : Len(c[i]) = h,
           NEW k \in Nat, k <= Len(c)
    PROVE  Total(SegmentLens(c), k) = h * k
<1> DEFINE lens == SegmentLens(c)
           T == {n \in Nat : n <= Len(c) => Total(lens, n) = h * n}
<1>1. lens \in Seq(Nat) /\ Len(lens) = Len(c) /\ Len(c) \in Nat /\ \A i \in 1..Len(c) : lens[i] = h
  BY LensFacts
<1>2. 0 \in T
  <2>1. Total(lens, 0) = 0
    <3> HIDE DEF lens
    <3> QED BY <1>1, TotalFacts
  <2>2. h * 0 = 0
    BY Times
  <2> QED BY <2>1, <2>2
<1>3. ASSUME NEW n \in Nat, n \in T PROVE n + 1 \in T
  <2> SUFFICES ASSUME n + 1 <= Len(c) PROVE Total(lens, n + 1) = h * (n + 1)
    OBVIOUS
  <2>1. n \in 0..Len(c) - 1 /\ n + 1 \in 1..Len(c) /\ n <= Len(c)
    BY <1>1
  <2>2. Total(lens, n + 1) = Total(lens, n) + lens[n + 1]
    <3> HIDE DEF lens
    <3> QED BY <1>1, <2>1, TotalFacts
  <2>3. Total(lens, n) = h * n /\ lens[n + 1] = h
    BY <1>1, <1>3, <2>1
  <2>4. h * (n + 1) = h + h * n /\ h * n \in Nat
    BY Times
  <2> DEFINE q == h * n
  <2> HIDE DEF lens, q
  <2> QED BY <2>2, <2>3, <2>4 DEF q
<1>4. k \in T
  <2> HIDE DEF T
  <2> QED BY <1>2, <1>3, SetInduction
<1> QED BY <1>4

\* Parts of the same length are found at its multiples.
LEMMA UniformAt ==
    ASSUME NEW S, NEW c \in Seq(Seq(S)), NEW h \in Nat \ {0},
           \A i \in 1..Len(c) : Len(c[i]) = h,
           NEW k \in Nat, k < Len(c)
    PROVE  /\ First(From(FlattenSeq(c), h * k), h) = c[k + 1]
           /\ h * k \in Nat /\ h * k + h <= Len(FlattenSeq(c))
<1> DEFINE lens == SegmentLens(c)
           flat == FlattenSeq(c)
           m == h * k
<1>1. Len(c) \in Nat /\ k <= Len(c) /\ k + 1 \in 1..Len(c)
  OBVIOUS
<1>5. m \in Nat
  BY Times
<1>6. Total(lens, k) = m
  BY <1>1, UniformTotal
<1>7. Len(c[k + 1]) = h
  BY <1>1
<1>8. /\ SubSeq(flat, m + 1, m + h) = c[k + 1] /\ m + h <= Len(flat) /\ flat \in Seq(S)
  <2>1. /\ SubSeq(flat, Total(lens, k) + 1, Total(lens, k + 1)) = c[k + 1]
        /\ Total(lens, k + 1) = Total(lens, k) + Len(c[k + 1])
        /\ Total(lens, k + 1) <= Len(flat)
    BY FlatAt
  <2>2. flat \in Seq(S)
    BY FlatType
  <2> HIDE DEF lens, m, flat
  <2> QED BY <1>6, <1>7, <2>1, <2>2
<1> HIDE DEF m, flat
<1>9. SubSeq(flat, m + 1, m + h) = First(From(flat, m), h)
  BY <1>5, <1>8, SubSeqCut
<1> QED BY <1>5, <1>8, <1>9 DEF m, flat

\* Parts of the same length: they have as many times that length together.
LEMMA UniformLen ==
    ASSUME NEW S, NEW c \in Seq(Seq(S)), NEW h \in Nat \ {0},
           \A i \in 1..Len(c) : Len(c[i]) = h
    PROVE  Len(FlattenSeq(c)) = h * Len(c) /\ FlattenSeq(c) \in Seq(S)
<1> DEFINE n == Len(c)
           lens == SegmentLens(c)
<1>1. n \in Nat /\ n <= Len(c)
  OBVIOUS
<1>2. Total(lens, n) = h * n
  <2> HIDE DEF n
  <2> QED BY <1>1, UniformTotal
<1>3. Len(lens) = n /\ SumOf(lens) = Len(FlattenSeq(c)) /\ FlattenSeq(c) \in Seq(S)
  BY LensFacts, SumIsLen
<1> QED BY <1>2, <1>3 DEF SumOf

\* The numbers of the table of a message, and the padding.
IsTable(segs, p) ==
    /\ p \in Seq(Nat) /\ Len(p) = 2 * TableSize(Len(segs))
    /\ \A i \in 1..Len(p) : p[i] <= MaxNumber
    /\ p[1] = Len(segs) - 1
    /\ \A k \in 1..Len(segs) : p[k + 1] = Len(segs[k])

\* A message a table can be written for.
IsMessage(segs) ==
    /\ segs \in Seq(Seq(Word)) /\ Len(segs) \in 1..MaxNumber
    /\ \A k \in 1..Len(segs) : Len(segs[k]) <= MaxSegmentLen

\* The words of a table: the count, the lengths and the padding.
LEMMA SizeOfTable ==
    ASSUME NEW n \in Nat, n # 0
    PROVE  /\ TableSize(n) \in Nat \ {0} /\ n + 1 <= 2 * TableSize(n)
           /\ n % 2 = 0 => 2 * TableSize(n) = n + 2
           /\ n % 2 # 0 => 2 * TableSize(n) = n + 1
           /\ n > 1 => TableSize(n) > 1
BY DEF TableSize

\* A table that was resized has the length asked for.
LEMMA ResizedLen ==
    ASSUME NEW n \in Nat \ {0}
    PROVE  LET t == ResizeTo(NewTable, n)
           IN  Len(t.words) = n /\ \A x : [t EXCEPT !.words = x].words = x
<1> DEFINE w == NewTable.words
           t == ResizeTo(NewTable, n)
<1>1. w = One(NullWord) /\ NewTable.heap = FALSE /\ NewTable = [heap |-> FALSE, words |-> w]
  BY DEF NewTable, One
<1>2. NullWord \in Word
  BY ByteFacts
<1>3. w \in Seq(Word) /\ Len(w) = 1
  BY <1>1, <1>2, OneType
<1> HIDE DEF w
<1>4. CASE n = 1
  <2>1. t = NewTable
    BY <1>3, <1>4 DEF ResizeTo, w
  <2> QED BY <1>1, <1>3, <1>4, <2>1
<1>5. CASE n # 1 /\ n > InlineTable
  <2>1. t = [heap |-> TRUE, words |-> Nulls(n)]
    BY <1>1, <1>3, <1>5 DEF ResizeTo, w
  <2>2. Len(Nulls(n)) = n
    BY NullsFacts
  <2> QED BY <2>1, <2>2
<1>6. CASE n # 1 /\ ~(n > InlineTable)
  <2> DEFINE m == n - 1
             b == Nulls(m)
             e == Cat(w, b)
  <2>0. m \in Nat
    BY <1>6
  <2>1. b \in Seq(Word) /\ Len(b) = m
    <3> HIDE DEF m
    <3> QED BY <2>0, NullsFacts
  <2>2. t = [NewTable EXCEPT !.words = e]
    <3>1. t = [NewTable EXCEPT !.words = @ \o Nulls(n - Len(@))]
      BY <1>1, <1>3, <1>6 DEF ResizeTo, w
    <3>2. n - Len(NewTable.words) = m
      BY <1>3 DEF w
    <3> QED BY <3>1, <3>2 DEF Cat, w
  <2>3. Len(e) = Len(w) + Len(b)
    <3> HIDE DEF b
    <3> QED BY <1>3, <2>1, CatLen
  <2>4. Len(e) = n
    <3> HIDE DEF e, b
    <3> QED BY <1>3, <2>1, <2>3
  <2> HIDE DEF e, b
  <2>5. t = [heap |-> FALSE, words |-> e]
    BY <1>1, <2>2
  <2> QED BY <2>4, <2>5
<1> QED BY <1>4, <1>5, <1>6

\* The elements behind a new first one.
LEMMA ConsAt ==
    ASSUME NEW S, NEW x \in S, NEW s \in Seq(S)
    PROVE  /\ (<<x>> \o s) \in Seq(S) /\ Len(<<x>> \o s) = 1 + Len(s) /\ (<<x>> \o s)[1] = x
           /\ \A k \in 1..Len(s) : (<<x>> \o s)[k + 1] = s[k]
           /\ DOMAIN (<<x>> \o s) = 1..Len(<<x>> \o s)
<1> DEFINE e == <<x>>
<1>1. e \in Seq(S) /\ Len(e) = 1 /\ e[1] = x
  OBVIOUS
<1> HIDE DEF e
<1>2. /\ e \o s \in Seq(S) /\ Len(e \o s) = Len(e) + Len(s) /\ Len(s) \in Nat
      /\ \A i \in 1..Len(e) + Len(s) :
           (e \o s)[i] = IF i <= Len(e) THEN e[i] ELSE s[i - Len(e)]
  <2>1. e \in Seq(S) /\ s \in Seq(S)
    BY <1>1
  <2>2. Len(s) \in Nat
    BY LenProperties
  <2>3. /\ e \o s \in Seq(S) /\ Len(e \o s) = Len(e) + Len(s)
        /\ \A i \in 1..Len(e) + Len(s) :
             (e \o s)[i] = IF i <= Len(e) THEN e[i] ELSE s[i - Len(e)]
    BY ONLY <2>1, ConcatProperties
  <2> QED BY <2>2, <2>3
<1> DEFINE f == e \o s
           n == Len(s)
<1>3. /\ f \in Seq(S) /\ Len(f) = 1 + n /\ n \in Nat
      /\ \A i \in 1..1 + n : f[i] = IF i <= 1 THEN x ELSE s[i - 1]
  <2> HIDE DEF n, f
  <2>1. \A i \in 1..1 + n : f[i] = IF i <= 1 THEN e[i] ELSE s[i - 1]
    BY <1>1, <1>2 DEF n, f
  <2>2. \A i \in 1..1 + n : i <= 1 => i = 1
    OBVIOUS
  <2> QED BY <1>1, <1>2, <2>1, <2>2 DEF n, f
<1> HIDE DEF f, n
<1>4. f[1] = x /\ \A k \in 1..n : f[k + 1] = s[k]
  <2>1. 1 \in 1..1 + n
    BY <1>3
  <2>2. \A k \in 1..n : k + 1 \in 1..1 + n /\ ~(k + 1 <= 1) /\ (k + 1) - 1 = k
    BY <1>3
  <2> QED BY <1>3, <2>1, <2>2
<1>5. DOMAIN f = 1..Len(f)
  BY <1>3
<1> QED BY <1>3, <1>4, <1>5 DEF e, f, n

\* The elements before a new last one.
LEMMA AppendAt ==
    ASSUME NEW S, NEW x \in S, NEW s \in Seq(S)
    PROVE  /\ Append(s, x) \in Seq(S) /\ Len(Append(s, x)) = Len(s) + 1
           /\ Append(s, x)[Len(s) + 1] = x
           /\ \A k \in 1..Len(s) : Append(s, x)[k] = s[k]
           /\ DOMAIN Append(s, x) = 1..Len(Append(s, x)) /\ DOMAIN s = 1..Len(s)
OBVIOUS

Chunks(p) == [i \in 1..Len(p) |-> NumberBytes(p[i])]

\* write_table writes the number of segments less one, the lengths, and the padding.
LEMMA TableSpec ==
    ASSUME NEW segs, IsMessage(segs)
    PROVE  \E p : IsTable(segs, p) /\ TableOf(segs) = Words(FlattenSeq(Chunks(p)))
<1> DEFINE n == Len(segs)
           x == n - 1
           lens == SegmentLens(segs)
           numbers == <<x>> \o lens
           p == IF n % 2 = 0 THEN Append(numbers, 0) ELSE numbers
           t == ResizeTo(NewTable, TableSize(n))
<1>1. n \in Nat \ {0} /\ n <= MaxNumber /\ x \in Nat /\ x <= MaxNumber
  <2>1. n \in 1..MaxNumber /\ MaxNumber \in Nat
    BY HalfFacts DEF IsMessage
  <2> HIDE DEF n
  <2> QED BY <2>1
<1>2. lens \in Seq(Nat) /\ Len(lens) = n /\ \A k \in 1..n : lens[k] = Len(segs[k]) /\ lens[k] <= MaxNumber
  <2>1. segs \in Seq(Seq(Word)) /\ MaxSegmentLen <= MaxNumber /\ MaxSegmentLen \in Nat /\ MaxNumber \in Nat
    BY FramingAssumption, HalfFacts DEF IsMessage
  <2>2. lens \in Seq(Nat) /\ Len(lens) = n /\ \A k \in 1..n : lens[k] = Len(segs[k])
    BY <2>1, LensFacts
  <2>3. \A k \in 1..n : lens[k] \in Nat /\ Len(segs[k]) <= MaxSegmentLen
    <3> HIDE DEF lens
    <3> QED BY <2>2 DEF IsMessage
  <2> HIDE DEF lens, n
  <2> QED BY <2>1, <2>2, <2>3
<1> HIDE DEF lens, n, x
<1>3. /\ numbers \in Seq(Nat) /\ Len(numbers) = 1 + n /\ numbers[1] = x
      /\ \A k \in 1..n : numbers[k + 1] = lens[k]
      /\ DOMAIN numbers = 1..Len(numbers)
  BY <1>1, <1>2, ConsAt
<1> HIDE DEF numbers
<1>4. \A i \in 1..1 + n : numbers[i] \in Nat /\ numbers[i] <= MaxNumber
  <2> TAKE i \in 1..1 + n
  <2>1. CASE i = 1
    BY <1>1, <1>3, <2>1
  <2>2. CASE i # 1
    <3>1. i - 1 \in 1..n /\ (i - 1) + 1 = i
      BY <1>1, <2>2
    <3>2. numbers[(i - 1) + 1] = lens[i - 1] /\ lens[i - 1] \in Nat /\ lens[i - 1] <= MaxNumber
      BY <1>2, <1>3, <3>1
    <3> QED BY <3>1, <3>2
  <2> QED BY <2>1, <2>2
<1>5. /\ p \in Seq(Nat) /\ Len(p) = 2 * TableSize(n) /\ DOMAIN p = 1..Len(p)
      /\ p[1] = x /\ \A k \in 1..n : p[k + 1] = lens[k]
      /\ \A i \in 1..Len(p) : p[i] <= MaxNumber
  <2>0. 0 <= MaxNumber
    BY HalfFacts
  <2>1. CASE n % 2 = 0
    <3>1. 2 * TableSize(n) = n + 2
      BY <1>1, <2>1, SizeOfTable
    <3> DEFINE a == Append(numbers, 0)
    <3>2. /\ a \in Seq(Nat) /\ Len(a) = Len(numbers) + 1 /\ a[Len(numbers) + 1] = 0
          /\ \A k \in 1..Len(numbers) : a[k] = numbers[k]
          /\ DOMAIN a = 1..Len(a)
      BY <1>3, AppendAt
    <3>3. p = a
      BY <2>1
    <3> HIDE DEF a, p
    <3>4. /\ p \in Seq(Nat) /\ Len(p) = 2 * TableSize(n) /\ DOMAIN p = 1..Len(p)
      BY <1>1, <1>3, <3>1, <3>2, <3>3
    <3>5. p[1] = x /\ \A k \in 1..n : p[k + 1] = lens[k]
      <4>1. 1 \in 1..Len(numbers) /\ \A k \in 1..n : k + 1 \in 1..Len(numbers)
        BY <1>1, <1>3
      <4> QED BY <1>3, <3>2, <3>3, <4>1
    <3>6. ASSUME NEW i \in 1..Len(p) PROVE p[i] <= MaxNumber
      <4>1. Len(p) = n + 2
        BY <1>1, <1>3, <3>2, <3>3
      <4>2. CASE i = n + 2
        BY <1>1, <1>3, <2>0, <3>2, <3>3, <4>2
      <4>3. CASE i # n + 2
        <5>1. i \in 1..1 + n
          BY <1>1, <4>1, <4>3
        <5> QED BY <1>3, <1>4, <3>2, <3>3, <5>1
      <4> QED BY <4>2, <4>3
    <3> QED BY <3>4, <3>5, <3>6
  <2>2. CASE n % 2 # 0
    <3>1. 2 * TableSize(n) = n + 1
      BY <1>1, <2>2, SizeOfTable
    <3>2. p = numbers
      BY <2>2
    <3> HIDE DEF p
    <3> QED BY <1>1, <1>3, <1>4, <3>1, <3>2
  <2> QED BY <2>1, <2>2
<1>6. IsTable(segs, p)
  <2> HIDE DEF p
  <2> QED BY <1>2, <1>5 DEF IsTable, x, n
<1>7. Len(t.words) = TableSize(n) /\ \A y : [t EXCEPT !.words = y].words = y
  <2>1. TableSize(n) \in Nat \ {0}
    BY <1>1, SizeOfTable
  <2> QED BY <2>1, ResizedLen
<1> HIDE DEF t
<1>8. WriteTable(t, segs) = [t EXCEPT !.words = Words(FlattenSeq([i \in DOMAIN p |-> NumberBytes(p[i])]))]
  BY <1>7 DEF WriteTable, n, x, lens, numbers
<1>9. TableOf(segs) = WriteTable(t, segs).words
  BY DEF TableOf, t, n
<1> HIDE DEF p
<1>10. TableOf(segs) = Words(FlattenSeq(Chunks(p)))
  <2>1. [i \in DOMAIN p |-> NumberBytes(p[i])] = Chunks(p)
    BY <1>5 DEF Chunks
  <2> QED BY <1>7, <1>8, <1>9, <2>1
<1> QED BY <1>6, <1>10

\* The bytes of each number.
LEMMA ChunksFacts ==
    ASSUME NEW p \in Seq(Nat)
    PROVE  /\ Chunks(p) \in Seq(Seq(Byte)) /\ Len(Chunks(p)) = Len(p)
           /\ \A i \in 1..Len(p) : Len(Chunks(p)[i]) = HalfBytes /\ Chunks(p)[i] = NumberBytes(p[i])
<1> DEFINE n == Len(p)
           f(i) == NumberBytes(p[i])
<1>1. n \in Nat /\ \A i \in 1..n : p[i] \in Nat
  OBVIOUS
<1>2. \A i \in 1..n : f(i) \in Seq(Byte) /\ Len(f(i)) = HalfBytes
  <2> HIDE DEF n
  <2> QED BY <1>1, NumberBytesFacts
<1> HIDE DEF n, f
<1> DEFINE c == [i \in 1..n |-> f(i)]
<1>3. c \in Seq(Seq(Byte)) /\ Len(c) = n /\ \A i \in 1..n : c[i] = f(i)
  BY <1>1, <1>2
<1>4. Chunks(p) = c
  BY DEF Chunks, f, n
<1> HIDE DEF c
<1> QED BY <1>2, <1>3, <1>4 DEF n, f

\* Multiplication keeps the order.
LEMMA TimesMono ==
    ASSUME NEW m \in Nat \ {0}, NEW a \in Nat, NEW b \in Nat, a <= b
    PROVE  m * a <= m * b /\ m * a \in Nat /\ m * b \in Nat
<1> DEFINE T == {n \in Nat : a <= n => m * a <= m * n}
<1>1. 0 \in T
  <2>1. a <= 0 => a = 0
    OBVIOUS
  <2>2. m * 0 = 0
    BY Times
  <2> QED BY <2>1, <2>2
<1>2. ASSUME NEW n \in Nat, n \in T PROVE n + 1 \in T
  <2> SUFFICES ASSUME a <= n + 1 PROVE m * a <= m * (n + 1)
    OBVIOUS
  <2> DEFINE q == m * n
             e == m * (n + 1)
             d == m * a
  <2>1. e = m + q /\ q \in Nat /\ d \in Nat
    BY Times
  <2>2. CASE a = n + 1
    <3>1. d = e
      BY <2>2
    <3> HIDE DEF d, e
    <3>2. e \in Nat
      BY <2>1, <3>1
    <3>3. d <= e
      BY <3>1, <3>2
    <3> QED BY <3>3 DEF d, e
  <2>3. CASE a # n + 1
    <3>1. d <= q
      BY <1>2, <2>3
    <3> HIDE DEF d, q, e
    <3>2. d <= e
      BY <2>1, <3>1
    <3> QED BY <3>2 DEF d, e
  <2> QED BY <2>2, <2>3
<1>3. b \in T
  <2> HIDE DEF T
  <2> QED BY <1>1, <1>2, SetInduction
<1> QED BY <1>3, Times

\* A multiple is divided.
LEMMA DivExact ==
    ASSUME NEW m \in Nat \ {0}, NEW k \in Nat
    PROVE  (m * k) \div m = k
<1> DEFINE T == {n \in Nat : (m * n) \div m = n}
<1>1. 0 \in T
  <2>1. m * 0 = 0 /\ 0 < m
    BY Times
  <2>2. 0 \div m = 0
    OBVIOUS
  <2> QED BY <2>1, <2>2
<1>2. ASSUME NEW n \in Nat, n \in T PROVE n + 1 \in T
  <2> DEFINE q == m * n
  <2>1. m * (n + 1) = m + q /\ q \in Nat
    BY Times
  <2>2. q \div m = n
    BY <1>2
  <2> HIDE DEF q
  <2>3. (m + q) \div m = 1 + (q \div m)
    BY <2>1, Division
  <2>4. (m * (n + 1)) \div m = n + 1
    BY <2>1, <2>2, <2>3
  <2> QED BY <2>4
<1>3. k \in T
  <2> HIDE DEF T
  <2> QED BY <1>1, <1>2, SetInduction
<1> QED BY <1>3

\* The words of the table are those of its numbers.
LEMMA TableBytes ==
    ASSUME NEW segs, IsMessage(segs), NEW p, IsTable(segs, p)
    PROVE  LET T == Words(FlattenSeq(Chunks(p)))
           IN  /\ T \in Seq(Word) /\ Len(T) = TableSize(Len(segs))
               /\ Bytes(T) = FlattenSeq(Chunks(p))
<1> DEFINE c == Chunks(p)
           flat == FlattenSeq(c)
           n == TableSize(Len(segs))
           T == Words(flat)
<1>1. p \in Seq(Nat) /\ Len(p) = 2 * n
  BY DEF IsTable
<1>2. n \in Nat
  <2>1. Len(segs) \in Nat /\ Len(segs) # 0
    BY HalfFacts DEF IsMessage
  <2> QED BY <2>1, SizeOfTable
<1> HIDE DEF n
<1>3. c \in Seq(Seq(Byte)) /\ Len(c) = 2 * n /\ \A i \in 1..Len(c) : Len(c[i]) = HalfBytes
  BY <1>1, ChunksFacts
<1>4. HalfBytes \in Nat \ {0} /\ WordBytes = HalfBytes + HalfBytes /\ WordBytes \in Nat \ {0}
  BY HalfFacts, SizeFacts
<1>5. flat \in Seq(Byte) /\ Len(flat) = HalfBytes * (2 * n)
  <2> HIDE DEF c
  <2> QED BY <1>3, <1>4, UniformLen
<1>6. HalfBytes * (2 * n) = WordBytes * n
  <2> DEFINE h == HalfBytes
  <2>1. h * (2 * n) = (h + h) * n
    <3> HIDE DEF h
    <3>1. h \in Nat
      BY <1>4 DEF h
    <3> QED BY <1>2, <3>1
  <2> QED BY <1>4, <2>1
<1> HIDE DEF flat
<1>7. T \in Seq(Word) /\ Len(T) = Len(flat) \div WordBytes
  BY <1>5, WordsType
<1>8. Len(T) = n
  BY <1>2, <1>4, <1>5, <1>6, <1>7, DivExact
<1>9. PICK q \in Seq(Byte) : flat = Cat(Bytes(T), q)
  BY <1>5, BytesOfWords
<1> HIDE DEF T
<1>10. Len(Bytes(T)) = WordBytes * n /\ Bytes(T) \in Seq(Byte)
  BY <1>7, <1>8, BytesLen, BytesFacts
<1>11. Len(flat) = Len(Bytes(T)) + Len(q) /\ Len(q) \in Nat /\ Len(Bytes(T)) \in Nat
  BY <1>9, <1>10, CatLen
<1>12. Len(q) = 0
  <2> DEFINE x == Len(Bytes(T))
             y == Len(q)
             z == Len(flat)
  <2>1. z = x + y /\ z = x /\ x \in Nat /\ y \in Nat
    BY <1>5, <1>6, <1>10, <1>11
  <2> HIDE DEF x, y, z
  <2>2. y = 0
    BY <2>1
  <2> QED BY <2>2 DEF y
<1>13. q = <<>>
  BY <1>9, <1>12, LenZero
<1>14. Cat(Bytes(T), <<>>) = Bytes(T)
  BY <1>10, CatEmpty
<1> QED BY <1>7, <1>8, <1>9, <1>13, <1>14 DEF T, flat, n

\* What is read within a does not depend on what is behind a.
LEMMA ReadPart ==
    ASSUME NEW S, NEW a \in Seq(S), NEW b \in Seq(S), NEW m \in Nat, NEW h \in Nat,
           m + h <= Len(a)
    PROVE  First(From(Cat(a, b), m), h) = First(From(a, m), h)
<1>1. Len(a) \in Nat /\ m <= Len(a)
  OBVIOUS
<1>2. From(Cat(a, b), m) = Cat(From(a, m), b)
  BY <1>1, CutInFirst
<1> DEFINE d == From(a, m)
<1>3. d \in Seq(S) /\ Len(d) = Len(a) - m
  BY <1>1, CutCat
<1> HIDE DEF d
<1>4. h <= Len(d)
  BY <1>1, <1>3
<1>5. First(Cat(d, b), h) = First(d, h)
  BY <1>3, <1>4, CutInFirst
<1> QED BY <1>2, <1>5 DEF d

\* The numbers of the table are read wherever their words are at the front.
LEMMA NumberAt ==
    ASSUME NEW segs, IsMessage(segs), NEW p, IsTable(segs, p), NEW a \in Seq(Word),
           NEW r \in Seq(Word), NEW t \in Seq(Word), Words(FlattenSeq(Chunks(p))) = Cat(a, t)
    PROVE  /\ Len(a) \in Nat /\ 2 * Len(a) <= Len(p)
           /\ \A i \in 1..2 * Len(a) : NumbersOf(Cat(a, r))[i] = p[i]
<1> DEFINE c == Chunks(p)
           n == TableSize(Len(segs))
           h == HalfBytes
           L == Len(a)
           ba == Bytes(a)
           br == Bytes(r)
           bt == Bytes(t)
<1>0. h \in Nat \ {0} /\ WordBytes = h + h /\ Len(r) \in Nat /\ L \in Nat /\ Len(t) \in Nat
  BY HalfFacts, LenZero
<1>1. p \in Seq(Nat) /\ Len(p) = 2 * n /\ \A i \in 1..Len(p) : p[i] \in Nat /\ p[i] <= MaxNumber
  BY DEF IsTable
<1>2. Cat(a, t) \in Seq(Word) /\ Len(Cat(a, t)) = n /\ Bytes(Cat(a, t)) = FlattenSeq(c)
  BY TableBytes
<1>3. n = L + Len(t)
  BY <1>2, CatLen
<1>4. /\ c \in Seq(Seq(Byte)) /\ Len(c) = Len(p)
      /\ \A i \in 1..Len(p) : Len(c[i]) = h /\ c[i] = NumberBytes(p[i])
  BY <1>1, ChunksFacts
<1>5. /\ ba \in Seq(Byte) /\ br \in Seq(Byte) /\ bt \in Seq(Byte)
      /\ Bytes(Cat(a, r)) = Cat(ba, br) /\ FlattenSeq(c) = Cat(ba, bt)
      /\ Len(ba) = WordBytes * L
  BY <1>2, BytesFacts, BytesLen
<1> HIDE DEF n, c, ba, br, bt, h, L
<1>6. 2 * L <= Len(p)
  BY <1>0, <1>1, <1>3
<1>7. ASSUME NEW i \in 1..2 * L PROVE NumbersOf(Cat(a, r))[i] = p[i]
  <2> DEFINE k == i - 1
             m == h * k
  <2>1. k \in Nat /\ k + 1 = i /\ k + 1 <= 2 * L /\ i \in 1..Len(p) /\ k < Len(p)
    BY <1>0, <1>6
  <2> HIDE DEF k
  <2>2. m \in Nat /\ m + h <= Len(ba)
    <3>1. h * (k + 1) <= h * (2 * L) /\ h * (k + 1) = h + m /\ m \in Nat
      BY <1>0, <2>1, TimesMono, Times
    <3>2. h * (2 * L) = (h + h) * L
      BY <1>0
    <3> DEFINE x == h * (k + 1)
               y == h * (2 * L)
    <3>3. x <= y /\ x = h + m /\ y = Len(ba)
      BY <1>0, <1>5, <3>1, <3>2
    <3> HIDE DEF x, y, m
    <3> QED BY <1>0, <3>1, <3>3 DEF m
  <2>3. First(From(FlattenSeq(c), m), h) = c[i]
    <3>1. First(From(FlattenSeq(c), h * k), h) = c[k + 1]
      BY <1>0, <1>4, <2>1, UniformAt
    <3> QED BY <2>1, <3>1
  <2> HIDE DEF m
  <2>4. First(From(Cat(ba, br), m), h) = First(From(Cat(ba, bt), m), h)
    <3>1. h \in Nat /\ m + h <= Len(ba)
      BY <1>0, <2>2
    <3>2. First(From(Cat(ba, br), m), h) = First(From(ba, m), h)
      BY <1>5, <2>2, <3>1, ReadPart
    <3>3. First(From(Cat(ba, bt), m), h) = First(From(ba, m), h)
      BY <1>5, <2>2, <3>1, ReadPart
    <3> QED BY <3>2, <3>3
  <2>5. First(From(Bytes(Cat(a, r)), m), h) = NumberBytes(p[i])
    BY <1>4, <1>5, <2>1, <2>3, <2>4
  <2>6. Number(NumberBytes(p[i])) = p[i]
    BY <1>1, <2>1, NumberRoundTrip
  <2>7. i \in 1..2 * Len(Cat(a, r))
    <3>1. Len(Cat(a, r)) = L + Len(r)
      BY CatLen DEF L
    <3> QED BY <1>0, <3>1
  <2>8. NumbersOf(Cat(a, r))[i] = Number(First(From(Bytes(Cat(a, r)), h * (i - 1)), h))
    BY <2>7 DEF NumbersOf, h
  <2> QED BY <2>5, <2>6, <2>8 DEF m, k
<1> QED BY <1>0, <1>6, <1>7 DEF L

(***************************************************************************)
(* Reading the table                                                       *)
(***************************************************************************)
LEMMA TableFacts ==
    ASSUME NEW segs, IsMessage(segs)
    PROVE  /\ TableOf(segs) \in Seq(Word) /\ Len(TableOf(segs)) = TableSize(Len(segs))
           /\ TableSize(Len(segs)) \in Nat \ {0} /\ Len(segs) \in Nat \ {0}
           /\ Len(segs) <= MaxNumber
<1>1. PICK p : IsTable(segs, p) /\ TableOf(segs) = Words(FlattenSeq(Chunks(p)))
  BY TableSpec
<1>2. TableOf(segs) \in Seq(Word) /\ Len(TableOf(segs)) = TableSize(Len(segs))
  BY <1>1, TableBytes
<1>3. Len(segs) \in Nat \ {0} /\ Len(segs) <= MaxNumber
  BY HalfFacts DEF IsMessage
<1> QED BY <1>2, <1>3, SizeOfTable

\* No words are no table.
LEMMA TryReadEmpty ==
    TryRead(<<>>).err = "Empty"
BY DEF TryRead, TableError

\* A part of the table says how much is missing.
LEMMA TryReadPart ==
    ASSUME NEW segs, IsMessage(segs), NEW a \in Seq(Word), NEW t \in Seq(Word),
           TableOf(segs) = Cat(a, t), a # <<>>, t # <<>>
    PROVE  /\ TryRead(a).err = "Incomplete" /\ TryRead(a).count = Len(segs)
           /\ TryRead(a).more = Len(t)
<1>1. PICK p : IsTable(segs, p) /\ TableOf(segs) = Words(FlattenSeq(Chunks(p)))
  BY TableSpec
<1> DEFINE e == <<>>
           numbers == NumbersOf(a)
<1>2. e \in Seq(Word) /\ Cat(a, e) = a
  BY CatFacts, CatEmpty
<1> HIDE DEF e
<1>3. ASSUME NEW b \in Seq(Word) PROVE \A i \in 1..2 * Len(a) : NumbersOf(Cat(a, b))[i] = p[i]
  <2>1. Words(FlattenSeq(Chunks(p))) = Cat(a, t)
    BY <1>1
  <2> QED BY <1>1, <2>1, NumberAt
<1>4. Len(a) \in Nat \ {0} /\ Len(t) \in Nat \ {0}
  BY LenZero
<1>5. numbers[1] = Len(segs) - 1
  <2>1. 1 \in 1..2 * Len(a)
    BY <1>4
  <2>2. numbers[1] = p[1]
    BY <1>2, <1>3, <2>1
  <2> QED BY <1>1, <2>2 DEF IsTable
<1> HIDE DEF numbers
<1>6. /\ TableSize(Len(segs)) = Len(a) + Len(t) /\ Len(segs) \in Nat \ {0}
      /\ Len(segs) <= MaxNumber /\ MaxNumber \in Nat
  <2>1. Len(Cat(a, t)) = Len(a) + Len(t)
    BY CatLen
  <2> QED BY <2>1, TableFacts, HalfFacts
<1>7. numbers[1] + 1 = Len(segs) /\ ~(Len(segs) > MaxNumber)
      /\ TableSize(Len(segs)) > Len(a) /\ TableSize(Len(segs)) - Len(a) = Len(t)
  BY <1>4, <1>5, <1>6
<1>8. TryRead(a) = [err |-> "Incomplete", count |-> Len(segs), more |-> Len(t)]
  BY <1>6, <1>7 DEF TryRead, numbers
<1> QED BY <1>8

\* The table is read where it is whole, and what is behind it is left.
LEMMA TryReadWhole ==
    ASSUME NEW segs, IsMessage(segs), NEW r \in Seq(Word)
    PROVE  /\ TryRead(Cat(TableOf(segs), r)).err = ""
           /\ TryRead(Cat(TableOf(segs), r)).lens = SegmentLens(segs)
           /\ TryRead(Cat(TableOf(segs), r)).rest = r
<1>1. PICK p : IsTable(segs, p) /\ TableOf(segs) = Words(FlattenSeq(Chunks(p)))
  BY TableSpec
<1> DEFINE e == <<>>
           a == TableOf(segs)
           n == Len(segs)
           ar == Cat(a, r)
           numbers == NumbersOf(ar)
           lens == SegmentLens(segs)
<1>2. a \in Seq(Word) /\ Len(a) = TableSize(n) /\ n \in Nat \ {0} /\ n <= MaxNumber /\ MaxNumber \in Nat
      /\ TableSize(n) \in Nat \ {0}
  BY TableFacts, HalfFacts
<1>3. e \in Seq(Word) /\ Cat(a, e) = a
  BY <1>2, CatFacts, CatEmpty
<1> HIDE DEF e, a
<1>4. \A i \in 1..2 * Len(a) : numbers[i] = p[i]
  BY <1>1, <1>2, <1>3, NumberAt DEF a
<1>5. ar \in Seq(Word) /\ Len(ar) = Len(a) + Len(r) /\ Len(r) \in Nat /\ From(ar, Len(a)) = r
  BY <1>2, CatType, CatLen, CatCut
<1>6. numbers[1] = n - 1 /\ \A k \in 1..n : numbers[k + 1] = lens[k]
  <2>1. 1 \in 1..2 * Len(a) /\ \A k \in 1..n : k + 1 \in 1..2 * Len(a)
    <3>1. n + 1 <= 2 * TableSize(n)
      BY <1>2, SizeOfTable
    <3> HIDE DEF n
    <3> QED BY <1>2, <3>1
  <2>2. p[1] = n - 1 /\ \A k \in 1..n : p[k + 1] = Len(segs[k])
    BY <1>1 DEF IsTable
  <2>3. \A k \in 1..n : lens[k] = Len(segs[k])
    BY LensFacts DEF IsMessage
  <2> HIDE DEF numbers, lens, n
  <2> QED BY <1>4, <2>1, <2>2, <2>3
<1>7. SubSeq(numbers, 2, n + 1) = lens
  <2>1. lens \in Seq(Nat) /\ Len(lens) = n
    BY LensFacts DEF IsMessage
  <2>2. SubSeq(numbers, 2, n + 1) = [i \in 1..(1 + (n + 1) - 2) |-> numbers[2 + i - 1]]
    BY <1>2 DEF SubSeq
  <2>3. lens = [i \in 1..n |-> lens[i]]
    BY <2>1
  <2>4. 1 + (n + 1) - 2 = n /\ \A i \in 1..n : 2 + i - 1 = i + 1
    BY <1>2
  <2> HIDE DEF numbers, lens, n
  <2> QED BY <1>6, <2>2, <2>3, <2>4
<1> HIDE DEF numbers, ar, n, lens
<1>8. numbers[1] + 1 = n /\ ~(n > MaxNumber) /\ ~(TableSize(n) > Len(ar)) /\ ar # <<>>
  <2>1. numbers[1] + 1 = n /\ ~(n > MaxNumber) /\ ~(TableSize(n) > Len(ar)) /\ Len(ar) # 0
    BY <1>2, <1>5, <1>6
  <2> QED BY <1>5, <2>1, LenZero
<1>9. TryRead(ar) = [err |-> "", lens |-> lens, rest |-> From(ar, TableSize(n))]
  BY <1>7, <1>8 DEF TryRead, numbers
<1>10. TryRead(ar).err = "" /\ TryRead(ar).lens = lens /\ TryRead(ar).rest = r
  <2>1. From(ar, TableSize(n)) = r
    BY <1>2, <1>5
  <2> DEFINE x == From(ar, TableSize(n))
             q == TryRead(ar)
  <2>2. q = [err |-> "", lens |-> lens, rest |-> x]
    BY <1>9
  <2> HIDE DEF x, q
  <2>3. q.err = ""
    BY ONLY <2>2
  <2>4. q.lens = lens
    BY ONLY <2>2
  <2>5. q.rest = x
    BY ONLY <2>2
  <2> QED BY <2>1, <2>3, <2>4, <2>5 DEF x, q
<1> QED BY <1>10 DEF ar, a, lens

\* No segment of a message that was sent is too long.
LEMMA NoneTooLarge ==
    ASSUME NEW segs, IsMessage(segs)
    PROVE  TooLarge(SegmentLens(segs)) = 0
<1> DEFINE lens == SegmentLens(segs)
           n == Len(segs)
           I == {i \in 1..Len(lens) : lens[i] > MaxSegmentLen}
<1>1. lens \in Seq(Nat) /\ Len(lens) = n /\ \A k \in 1..n : lens[k] = Len(segs[k])
  BY LensFacts DEF IsMessage
<1>2. \A k \in 1..n : Len(segs[k]) <= MaxSegmentLen
  BY DEF IsMessage
<1>3. MaxSegmentLen \in Nat
  BY FramingAssumption, HalfFacts
<1> HIDE DEF lens, n
<1>4. I = {}
  BY <1>1, <1>2, <1>3
<1>5. TooLarge(lens) = IF I # {} THEN Min(I) ELSE 0
  BY DEF TooLarge, SelectInSeq
<1> QED BY <1>4, <1>5 DEF lens

\* The limit is exceeded by the totals exactly if it is by the last.
LEMMA BeyondFacts ==
    ASSUME NEW lens \in Seq(Nat), lens # <<>>, NEW limit \in Nat
    PROVE  LET beyond == SelectInSeq([k \in DOMAIN lens |-> Total(lens, k)], LAMBDA n : n > limit)
           IN  (beyond = 0) <=> SumOf(lens) <= limit
<1> DEFINE N == Len(lens)
           s == [k \in DOMAIN lens |-> Total(lens, k)]
           I == {i \in 1..Len(s) : s[i] > limit}
           beyond == SelectInSeq(s, LAMBDA n : n > limit)
<1>1. N \in Nat \ {0} /\ DOMAIN lens = 1..N
  BY LenZero
<1>2. \A k \in 1..N : Total(lens, k) \in Nat /\ Total(lens, k) <= Total(lens, N) /\ Total(lens, N) \in Nat
  <2> TAKE k \in 1..N
  <2>1. k \in Nat /\ N \in Nat /\ k <= N /\ N <= Len(lens)
    BY <1>1
  <2> QED BY <2>1, TotalMono
<1>3. Len(s) = N /\ \A i \in 1..N : s[i] = Total(lens, i)
  <2> DEFINE f(k) == Total(lens, k)
             r == [k \in 1..N |-> f(k)]
  <2>1. s = r
    BY <1>1
  <2>2. \A k \in 1..N : f(k) \in Nat
    BY <1>2
  <2> HIDE DEF f, N, s
  <2>3. r \in Seq(Nat) /\ Len(r) = N /\ \A i \in 1..N : r[i] = f(i)
    BY <1>1, <2>2
  <2> HIDE DEF r
  <2>4. Len(s) = N /\ \A i \in 1..N : s[i] = f(i)
    BY <2>1, <2>3
  <2> QED BY <2>4 DEF f
<1>4. SumOf(lens) = Total(lens, N)
  BY DEF SumOf
<1> HIDE DEF N, s
<1>5. beyond = IF I # {} THEN Min(I) ELSE 0
  BY DEF SelectInSeq
<1>6. I = {} <=> SumOf(lens) <= limit
  <2>1. N \in 1..N
    BY <1>1
  <2>2. ASSUME I = {} PROVE SumOf(lens) <= limit
    <3>1. ~(s[N] > limit)
      BY <1>3, <2>1, <2>2
    <3> QED BY <1>2, <1>3, <1>4, <2>1, <3>1
  <2>3. ASSUME SumOf(lens) <= limit PROVE I = {}
    BY <1>2, <1>3, <1>4, <2>3
  <2> QED BY <2>2, <2>3
<1>7. I # {} => Min(I) # 0
  <2>1. I \subseteq Nat /\ 0 \notin I
    OBVIOUS
  <2> HIDE DEF I
  <2> QED BY <2>1, MinFacts
<1> HIDE DEF I, beyond
<1>8. beyond = 0 <=> SumOf(lens) <= limit
  BY <1>5, <1>6, <1>7
<1> QED BY <1>8 DEF beyond, s

\* from_stream refuses exactly the messages over the limit, and gives the starts of the others.
LEMMA FromStreamSpec ==
    ASSUME NEW segs, IsMessage(segs), NEW limit \in Nat
    PROVE  LET f == FromStream(SegmentLens(segs), limit)
               sum == SumOf(SegmentLens(segs))
           IN  /\ sum <= limit => f.err = "" /\ f.len = sum /\ f.starts = Starts(segs)
               /\ sum > limit => f.err = "MessageTooLarge"
<1> DEFINE lens == SegmentLens(segs)
           f == FromStream(lens, limit)
           sum == SumOf(lens)
           beyond == SelectInSeq([k \in DOMAIN lens |-> Total(lens, k)], LAMBDA n : n > limit)
           large == TooLarge(lens)
           st == [k \in 1..Len(lens) - 1 |-> Total(lens, k)]
<1>1. segs \in Seq(Seq(Word)) /\ Len(segs) \in Nat \ {0}
  BY TableFacts DEF IsMessage
<1>2. lens \in Seq(Nat) /\ Len(lens) = Len(segs) /\ lens # <<>>
  <2>1. lens \in Seq(Nat) /\ Len(lens) = Len(segs)
    BY <1>1, LensFacts
  <2> HIDE DEF lens
  <2> QED BY <1>1, <2>1, LenZero
<1>3. large = 0
  BY NoneTooLarge
<1>4. sum \in Nat
  <2>1. sum = Len(FlattenSeq(segs)) /\ FlattenSeq(segs) \in Seq(Word)
    BY <1>1, SumIsLen
  <2> HIDE DEF sum
  <2> QED BY <2>1, LenZero
<1>5. beyond = 0 <=> sum <= limit
  <2> HIDE DEF lens
  <2> QED BY <1>2, BeyondFacts
<1>6. st = Starts(segs)
  BY <1>2 DEF Starts
<1> HIDE DEF lens
<1>7. CASE sum <= limit
  <2>1. beyond = 0
    BY <1>5, <1>7
  <2> DEFINE q == f
  <2>2. q = [err |-> "", len |-> sum, starts |-> st]
    BY <1>3, <2>1 DEF FromStream
  <2> HIDE DEF q, sum, st
  <2>3. q.err = ""
    BY ONLY <2>2
  <2>4. q.len = sum
    BY ONLY <2>2
  <2>5. q.starts = st
    BY ONLY <2>2
  <2>6. ~(sum > limit)
    BY <1>4, <1>7
  <2> QED BY <1>6, <2>3, <2>4, <2>5, <2>6 DEF q, sum, lens
<1>8. CASE sum > limit
  <2>1. beyond # 0 /\ ~(sum <= limit)
    BY <1>4, <1>5, <1>8
  <2>2. f = [err |-> "MessageTooLarge"]
    BY <1>3, <2>1 DEF FromStream
  <2>3. f.err = "MessageTooLarge"
    BY <2>2
  <2> QED BY <2>1, <2>3 DEF lens
<1> HIDE DEF sum
<1>9. sum <= limit \/ sum > limit
  BY <1>4
<1> QED BY <1>7, <1>8, <1>9 DEF sum

\* A message in words is its table and its segments.
LEMMA FrameFacts ==
    ASSUME NEW segs, IsMessage(segs)
    PROVE  /\ Frame(segs) = Cat(TableOf(segs), FlattenSeq(segs)) /\ Frame(segs) \in Seq(Word)
           /\ FlattenSeq(segs) \in Seq(Word) /\ SumOf(SegmentLens(segs)) = Len(FlattenSeq(segs))
           /\ Len(FlattenSeq(segs)) \in Nat /\ segs \in Seq(Seq(Word)) /\ segs # <<>>
<1> DEFINE T == TableOf(segs)
<1>1. T \in Seq(Word) /\ Len(segs) # 0
  BY TableFacts
<1>2. segs \in Seq(Seq(Word)) /\ segs # <<>>
  <2>1. segs \in Seq(Seq(Word))
    BY DEF IsMessage
  <2> QED BY <1>1, <2>1, LenZero
<1> HIDE DEF T
<1>3. FlattenSeq(Cat(One(T), segs)) = Cat(T, FlattenSeq(segs))
  BY <1>1, <1>2, FlatCons
<1>4. Frame(segs) = FlattenSeq(Cat(One(T), segs))
  BY DEF Frame, Slices, Cat, One, T
<1>5. FlattenSeq(segs) \in Seq(Word)
  BY <1>2, FlatType
<1>6. Cat(T, FlattenSeq(segs)) \in Seq(Word)
  BY <1>1, <1>5, CatType
<1>7. SumOf(SegmentLens(segs)) = Len(FlattenSeq(segs)) /\ Len(FlattenSeq(segs)) \in Nat
  BY <1>2, <1>5, SumIsLen, LenZero
<1> QED BY <1>2, <1>3, <1>4, <1>5, <1>6, <1>7 DEF T

\* read_from_slice and TableSegmentSet::new find a message at the front of a slice, and
\* leave what is behind it.
THEOREM SliceWhole ==
    ASSUME NEW segs, IsMessage(segs), NEW r \in Seq(Word)
    PROVE  LET slice == Frame(segs) \o r
               read == ReadFromSlice(slice)
               direct == TableSegmentSet(slice)
           IN  /\ read.err = "" /\ read.set = MessageSet(segs) /\ read.rest = r
               /\ direct.err = "" /\ direct.rest = r
               /\ direct.lens = SegmentLens(segs) /\ direct.data = FlattenSeq(segs)
<1> DEFINE T == TableOf(segs)
           flat == FlattenSeq(segs)
           lens == SegmentLens(segs)
           fr == Cat(flat, r)
           slice == Cat(T, fr)
           t == TryRead(slice)
           f == FromStream(lens, Len(fr))
           n == Len(flat)
<1>1. /\ flat \in Seq(Word) /\ T \in Seq(Word) /\ n \in Nat /\ SumOf(lens) = n
      /\ Frame(segs) = Cat(T, flat)
  BY FrameFacts, TableFacts
<1>2. Frame(segs) \o r = slice
  <2>1. Cat(Cat(T, flat), r) = slice
    BY <1>1, CatAssoc
  <2> QED BY <1>1, <2>1 DEF Cat
<1>3. fr \in Seq(Word) /\ Len(fr) = n + Len(r) /\ Len(r) \in Nat /\ First(fr, n) = flat /\ From(fr, n) = r
  BY <1>1, CatType, CatLen, CatCut
<1> HIDE DEF fr, n
<1>4. t.err = "" /\ t.lens = lens /\ t.rest = fr
  BY <1>3, TryReadWhole
<1> HIDE DEF t
<1>5. n <= Len(fr) /\ Len(fr) \in Nat
  BY <1>1, <1>3
<1>6. f.err = "" /\ f.len = n /\ f.starts = Starts(segs)
  <2> DEFINE m == Len(fr)
  <2>1. m \in Nat /\ SumOf(lens) <= m
    BY <1>1, <1>5
  <2> HIDE DEF m
  <2>2. FromStream(lens, m).err = "" /\ FromStream(lens, m).len = SumOf(lens)
        /\ FromStream(lens, m).starts = Starts(segs)
    BY <2>1, FromStreamSpec
  <2> QED BY <1>1, <2>2 DEF m
<1> HIDE DEF f
<1>7. TooLarge(lens) = 0
  BY NoneTooLarge
<1> DEFINE read == ReadFromSlice(slice)
           direct == TableSegmentSet(slice)
           set == SegmentSet(Starts(segs), flat)
<1> HIDE DEF lens, flat
<1>8. read = [err |-> "", set |-> set, rest |-> r]
  <2>1. FromStream(t.lens, Len(t.rest)) = f
    BY <1>4 DEF f
  <2>2. read = [err |-> "", set |-> SegmentSet(f.starts, First(t.rest, f.len)), rest |-> From(t.rest, f.len)]
    BY <1>4, <1>6, <2>1 DEF ReadFromSlice, t
  <2>3. First(t.rest, f.len) = flat /\ From(t.rest, f.len) = r /\ f.starts = Starts(segs)
    BY <1>3, <1>4, <1>6
  <2> HIDE DEF read
  <2> QED BY <2>2, <2>3
<1>9. direct = [err |-> "", lens |-> lens, data |-> flat, rest |-> r]
  <2>1. ~(n > Len(fr))
    BY <1>1, <1>5
  <2>2. direct = [err |-> "", lens |-> t.lens, data |-> First(t.rest, SumOf(t.lens)), rest |-> From(t.rest, SumOf(t.lens))]
    BY <1>1, <1>4, <1>7, <2>1 DEF TableSegmentSet, t
  <2>3. First(t.rest, SumOf(t.lens)) = flat /\ From(t.rest, SumOf(t.lens)) = r /\ t.lens = lens
    BY <1>1, <1>3, <1>4
  <2> HIDE DEF direct
  <2> QED BY <2>2, <2>3
<1> HIDE DEF read, direct, set, slice
<1>10. read.err = "" /\ read.set = set /\ read.rest = r
  BY ONLY <1>8
<1>11. direct.err = "" /\ direct.rest = r /\ direct.lens = lens /\ direct.data = flat
  BY ONLY <1>9
<1>12. set = MessageSet(segs)
  BY DEF MessageSet, set, flat
<1> QED BY <1>2, <1>10, <1>11, <1>12 DEF read, direct, lens, flat

\* While a part of a message is there, there is none.
LEMMA SlicePart ==
    ASSUME NEW words \in Seq(Word),
           \/ words = <<>>
           \/ \E segs : \E t \in Seq(Word) :
                IsMessage(segs) /\ TableOf(segs) = Cat(words, t) /\ words # <<>> /\ t # <<>>
           \/ \E segs : \E d \in Seq(Word) :
                /\ IsMessage(segs) /\ words = Cat(TableOf(segs), d)
                /\ Len(d) < Len(FlattenSeq(segs))
    PROVE  ReadFromSlice(words).err # "" /\ TableSegmentSet(words).err # ""
<1> DEFINE t == TryRead(words)
<1>1. CASE t.err # ""
  <2> DEFINE e == TableError(t.err, 0)
  <2>1. ReadFromSlice(words) = e /\ TableSegmentSet(words) = e
    BY <1>1 DEF ReadFromSlice, TableSegmentSet
  <2>2. e.err = t.err
    BY DEF TableError
  <2> QED BY <1>1, <2>1, <2>2
<1>2. CASE words = <<>>
  <2>1. t.err = "Empty"
    BY <1>2, TryReadEmpty
  <2> QED BY <1>1, <2>1
<1>3. ASSUME NEW segs, NEW u \in Seq(Word), IsMessage(segs), TableOf(segs) = Cat(words, u),
             words # <<>>, u # <<>>
      PROVE  t.err # ""
  <2>1. t.err = "Incomplete"
    BY <1>3, TryReadPart
  <2> QED BY <2>1
<1>4. ASSUME NEW segs, NEW d \in Seq(Word), IsMessage(segs), words = Cat(TableOf(segs), d),
             Len(d) < Len(FlattenSeq(segs))
      PROVE  ReadFromSlice(words).err # "" /\ TableSegmentSet(words).err # ""
  <2> DEFINE lens == SegmentLens(segs)
             m == Len(d)
             f == FromStream(lens, m)
  <2>1. t.err = "" /\ t.lens = lens /\ t.rest = d
    BY <1>4, TryReadWhole
  <2>2. m \in Nat /\ SumOf(lens) > m
    <3>1. SumOf(lens) = Len(FlattenSeq(segs)) /\ Len(FlattenSeq(segs)) \in Nat
      BY <1>4, FrameFacts
    <3>2. m \in Nat
      BY LenZero
    <3> HIDE DEF lens
    <3> QED BY <1>4, <3>1, <3>2
  <2>3. f.err = "MessageTooLarge"
    <3> HIDE DEF m
    <3> QED BY <1>4, <2>2, FromStreamSpec
  <2> HIDE DEF t, f, lens
  <2>4. ReadFromSlice(words) = TableError("MessageTooLarge", 0)
    <3>1. FromStream(t.lens, Len(t.rest)) = f
      BY <2>1 DEF f
    <3> QED BY <2>1, <2>3, <3>1 DEF ReadFromSlice, t
  <2>5. TooLarge(lens) = 0
    BY <1>4, NoneTooLarge DEF lens
  <2>6. TableSegmentSet(words) = TableError("Incomplete", 0)
    <3>1. SumOf(t.lens) > Len(t.rest)
      BY <2>1, <2>2
    <3> QED BY <2>1, <2>5, <3>1 DEF TableSegmentSet, t
  <2>7. \A x : TableError(x, 0).err = x
    BY DEF TableError
  <2>8. ReadFromSlice(words).err = "MessageTooLarge" /\ TableSegmentSet(words).err = "Incomplete"
    BY <2>4, <2>6, <2>7
  <2> QED BY <2>8
<1> HIDE DEF t
<1>5. CASE \E segs : \E u \in Seq(Word) :
             IsMessage(segs) /\ TableOf(segs) = Cat(words, u) /\ words # <<>> /\ u # <<>>
  BY <1>1, <1>3, <1>5
<1>6. CASE \E segs : \E d \in Seq(Word) :
             /\ IsMessage(segs) /\ words = Cat(TableOf(segs), d)
             /\ Len(d) < Len(FlattenSeq(segs))
  BY <1>4, <1>6
<1> QED BY <1>2, <1>5, <1>6

\* TableSegmentSet gives a segment that has words.
LEMMA DirectSegments ==
    ASSUME NEW segs, IsMessage(segs), NEW direct, direct.lens = SegmentLens(segs),
           direct.data = FlattenSeq(segs), NEW k \in DOMAIN segs, segs[k] # <<>>
    PROVE  TableSegment(direct, k - 1) = segs[k]
<1> DEFINE lens == SegmentLens(segs)
           flat == FlattenSeq(segs)
           id == k - 1
           start == Total(lens, id)
           len == Len(segs[k])
<1>1. segs \in Seq(Seq(Word)) /\ DOMAIN segs = 1..Len(segs) /\ Len(segs) \in Nat
  BY DEF IsMessage
<1>2. id \in Nat /\ id < Len(segs) /\ id + 1 = k
  BY <1>1
<1>3. len \in Nat \ {0}
  <2>1. segs[k] \in Seq(Word)
    BY <1>1
  <2> QED BY <2>1, LenZero
<1>4. lens[k] = len /\ Len(lens) = Len(segs)
  BY <1>1, LensFacts
<1> HIDE DEF id
<1>5. /\ SubSeq(flat, Total(lens, id) + 1, Total(lens, id + 1)) = segs[id + 1]
      /\ Total(lens, id) \in Nat /\ Total(lens, id + 1) = Total(lens, id) + Len(segs[id + 1])
      /\ Total(lens, id + 1) <= Len(flat) /\ Len(flat) \in Nat
  BY <1>1, <1>2, FlatAt
<1> HIDE DEF lens, flat, start, len
<1>6. SubSeq(flat, start + 1, start + len) = segs[k] /\ start \in Nat /\ start + len <= Len(flat)
  BY <1>2, <1>5 DEF start, len
<1>7. ~(start >= Len(flat)) /\ ~(id >= Len(lens))
  BY <1>2, <1>3, <1>4, <1>5, <1>6
<1>8. direct.lens = lens /\ direct.data = flat
  BY DEF lens, flat
<1>9. TableSegment(direct, id) = SubSeq(flat, start + 1, start + lens[id + 1])
  BY <1>7, <1>8 DEF TableSegment, start
<1> QED BY <1>2, <1>4, <1>6, <1>9 DEF id

\* What is to hold of a message that has been read.
LEMMA Agreed ==
    ASSUME NEW i, IsMessage(sent[i]), got[i] = MessageSet(sent[i]), Received \in Seq(Word)
    PROVE  SegmentsOf(got[i]) = sent[i] /\ SlicesAgree(i)
<1> DEFINE m == sent[i]
           r == Received
           slice == Frame(m) \o r
           read == ReadFromSlice(slice)
           direct == TableSegmentSet(slice)
<1>1. m \in Seq(Seq(Word)) /\ m # <<>>
  BY FrameFacts
<1>2. SegmentsOf(MessageSet(m)) = m
  BY <1>1, SegmentsOfSet
<1>3. /\ read.err = "" /\ read.set = MessageSet(m) /\ read.rest = r
      /\ direct.err = "" /\ direct.rest = r
      /\ direct.lens = SegmentLens(m) /\ direct.data = FlattenSeq(m)
  <2> HIDE DEF m, r
  <2>1. IsMessage(m) /\ r \in Seq(Word)
    BY DEF m, r
  <2> QED BY <2>1, SliceWhole
<1> HIDE DEF read, direct
<1>4. ASSUME NEW k \in DOMAIN m, m[k] # <<>> PROVE TableSegment(direct, k - 1) = m[k]
  <2> HIDE DEF m
  <2>1. IsMessage(m)
    BY DEF m
  <2> QED BY <1>3, <1>4, <2>1, DirectSegments
<1>5. SlicesAgree(i)
  BY <1>3, <1>4 DEF SlicesAgree, read, direct, slice, r, m
<1> QED BY <1>2, <1>5

(***************************************************************************)
(* The slices of the messages                                              *)
(***************************************************************************)
Messages == {m \in Seq(Seq(Word)) : IsMessage(m)}
SlicesOf(msgs) == [i \in DOMAIN msgs |-> Slices(msgs[i])]

\* The slices of a message are its table and its segments.
LEMMA SlicesType ==
    ASSUME NEW m \in Messages
    PROVE  /\ Slices(m) \in Seq(Seq(Word)) /\ IsMessage(m)
           /\ Slices(m) = Cat(One(TableOf(m)), m) /\ TableOf(m) \in Seq(Word)
           /\ m \in Seq(Seq(Word))
<1>1. IsMessage(m) /\ m \in Seq(Seq(Word))
  BY DEF Messages
<1>2. TableOf(m) \in Seq(Word)
  BY <1>1, TableFacts
<1>3. Slices(m) = Cat(One(TableOf(m)), m)
  BY DEF Slices, Cat, One
<1>4. Cat(One(TableOf(m)), m) \in Seq(Seq(Word))
  BY <1>1, <1>2, ConsCat
<1> QED BY <1>1, <1>2, <1>3, <1>4

\* The slices of messages in two parts.
LEMMA SlicesOfCat ==
    ASSUME NEW a \in Seq(Messages), NEW b \in Seq(Messages)
    PROVE  /\ SlicesOf(a) \in Seq(Seq(Seq(Word))) /\ SlicesOf(b) \in Seq(Seq(Seq(Word)))
           /\ SlicesOf(Cat(a, b)) = Cat(SlicesOf(a), SlicesOf(b))
<1>1. ASSUME NEW ms \in Seq(Messages)
      PROVE  /\ SlicesOf(ms) \in Seq(Seq(Seq(Word))) /\ Len(SlicesOf(ms)) = Len(ms)
             /\ \A i \in 1..Len(ms) : SlicesOf(ms)[i] = Slices(ms[i])
  <2> DEFINE n == Len(ms)
             f(i) == Slices(ms[i])
             r == [i \in 1..n |-> f(i)]
  <2>1. n \in Nat /\ DOMAIN ms = 1..n /\ \A i \in 1..n : ms[i] \in Messages
    OBVIOUS
  <2>2. SlicesOf(ms) = r
    BY <2>1 DEF SlicesOf
  <2>3. \A i \in 1..n : f(i) \in Seq(Seq(Word))
    BY <2>1, SlicesType
  <2> HIDE DEF f, n
  <2>4. r \in Seq(Seq(Seq(Word))) /\ Len(r) = n /\ \A i \in 1..n : r[i] = f(i)
    BY <2>1, <2>3
  <2> HIDE DEF r
  <2> QED BY <2>2, <2>4 DEF f, n
<1> DEFINE c == Cat(a, b)
           sa == SlicesOf(a)
           sb == SlicesOf(b)
           sc == SlicesOf(c)
           d == sa \o sb
<1>2. /\ c \in Seq(Messages) /\ Len(c) = Len(a) + Len(b) /\ Len(a) \in Nat /\ Len(b) \in Nat
      /\ \A i \in 1..Len(a) + Len(b) : c[i] = IF i <= Len(a) THEN a[i] ELSE b[i - Len(a)]
  BY ConcatProperties DEF Cat
<1> HIDE DEF c
<1>3. /\ sa \in Seq(Seq(Seq(Word))) /\ Len(sa) = Len(a) /\ \A i \in 1..Len(a) : sa[i] = Slices(a[i])
  BY <1>1
<1>4. /\ sb \in Seq(Seq(Seq(Word))) /\ Len(sb) = Len(b) /\ \A i \in 1..Len(b) : sb[i] = Slices(b[i])
  BY <1>1
<1>5. /\ sc \in Seq(Seq(Seq(Word))) /\ Len(sc) = Len(c) /\ \A i \in 1..Len(c) : sc[i] = Slices(c[i])
  BY <1>1, <1>2
<1> HIDE DEF sa, sb, sc
<1>6. /\ d \in Seq(Seq(Seq(Word))) /\ Len(d) = Len(sa) + Len(sb)
      /\ \A i \in 1..Len(sa) + Len(sb) : d[i] = IF i <= Len(sa) THEN sa[i] ELSE sb[i - Len(sa)]
  <2> DEFINE V == Seq(Seq(Word))
  <2>1. sa \in Seq(V) /\ sb \in Seq(V)
    BY <1>3, <1>4
  <2> HIDE DEF V
  <2>2. /\ d \in Seq(V) /\ Len(d) = Len(sa) + Len(sb)
        /\ \A i \in 1..Len(sa) + Len(sb) : d[i] = IF i <= Len(sa) THEN sa[i] ELSE sb[i - Len(sa)]
    BY <2>1, ConcatProperties
  <2> QED BY <2>2 DEF V
<1> HIDE DEF d
<1>7. ASSUME NEW i \in 1..Len(a) + Len(b) PROVE sc[i] = d[i]
  <2>1. CASE i <= Len(a)
    <3>1. i \in 1..Len(a)
      BY <1>2, <2>1
    <3> QED BY <1>2, <1>3, <1>4, <1>5, <1>6, <2>1, <3>1
  <2>2. CASE ~(i <= Len(a))
    <3>1. i - Len(a) \in 1..Len(b)
      BY <1>2, <2>2
    <3> QED BY <1>2, <1>3, <1>4, <1>5, <1>6, <2>2, <3>1
  <2> QED BY <2>1, <2>2
<1>8. sc = d
  BY <1>2, <1>3, <1>4, <1>5, <1>6, <1>7
<1> QED BY <1>3, <1>4, <1>8 DEF sa, sb, sc, c, d, Cat

\* All slices, of messages in two parts.
LEMMA AllSlicesFacts ==
    /\ AllSlices(<<>>) = <<>>
    /\ \A a \in Seq(Messages) : AllSlices(a) \in Seq(Seq(Word))
    /\ \A a, b \in Seq(Messages) : AllSlices(Cat(a, b)) = Cat(AllSlices(a), AllSlices(b))
    /\ \A m \in Messages, b \in Seq(Messages) : AllSlices(Cat(One(m), b)) = Cat(Slices(m), AllSlices(b))
<1>1. \A a : AllSlices(a) = FlattenSeq(SlicesOf(a))
  BY DEF AllSlices, SlicesOf
<1>2. AllSlices(<<>>) = <<>>
  <2>1. SlicesOf(<<>>) = <<>>
    BY DEF SlicesOf
  <2> QED BY <1>1, <2>1, FlatEmpty
<1>3. ASSUME NEW a \in Seq(Messages) PROVE SlicesOf(a) \in Seq(Seq(Seq(Word)))
  BY SlicesOfCat
<1>4. ASSUME NEW a \in Seq(Messages) PROVE AllSlices(a) \in Seq(Seq(Word))
  <2> DEFINE V == Seq(Word)
             s == SlicesOf(a)
  <2>1. s \in Seq(Seq(V))
    BY <1>3
  <2> HIDE DEF V, s
  <2>2. FlattenSeq(s) \in Seq(V)
    BY <2>1, FlatType
  <2> QED BY <1>1, <2>2 DEF V, s
<1>5. ASSUME NEW a \in Seq(Messages), NEW b \in Seq(Messages)
      PROVE  AllSlices(Cat(a, b)) = Cat(AllSlices(a), AllSlices(b))
  <2> DEFINE V == Seq(Word)
             s == SlicesOf(a)
             t == SlicesOf(b)
  <2>1. s \in Seq(Seq(V)) /\ t \in Seq(Seq(V)) /\ SlicesOf(Cat(a, b)) = Cat(s, t)
    BY SlicesOfCat
  <2> HIDE DEF V, s, t
  <2>2. FlattenSeq(Cat(s, t)) = Cat(FlattenSeq(s), FlattenSeq(t))
    BY <2>1, FlatCat
  <2> QED BY <1>1, <2>1, <2>2 DEF s, t
<1>6. ASSUME NEW m \in Messages PROVE AllSlices(One(m)) = Slices(m)
  <2>1. SlicesOf(One(m)) = One(Slices(m))
    <3> DEFINE e == One(m)
    <3>1. DOMAIN e = 1..1 /\ e[1] = m
      BY DEF One
    <3> HIDE DEF e
    <3>2. SlicesOf(e) = [i \in 1..1 |-> Slices(e[i])]
      BY <3>1 DEF SlicesOf
    <3>3. \A i \in 1..1 : i = 1
      OBVIOUS
    <3>4. SlicesOf(e) = [i \in 1..1 |-> Slices(m)]
      BY <3>1, <3>2, <3>3
    <3> DEFINE x == Slices(m)
    <3> HIDE DEF x
    <3>5. [i \in 1..1 |-> x] = <<x>>
      OBVIOUS
    <3> QED BY <3>4, <3>5 DEF e, x, One
  <2>2. Slices(m) \in Seq(Seq(Word))
    BY SlicesType
  <2> DEFINE x == Slices(m)
             V == Seq(Word)
  <2>3. x \in Seq(V)
    BY <2>2
  <2> HIDE DEF x, V
  <2>4. FlattenSeq(One(x)) = x
    BY <2>3, FlatOne
  <2> QED BY <1>1, <2>1, <2>4 DEF x
<1>7. ASSUME NEW m \in Messages, NEW b \in Seq(Messages)
      PROVE  AllSlices(Cat(One(m), b)) = Cat(Slices(m), AllSlices(b))
  <2>1. One(m) \in Seq(Messages)
    BY OneType
  <2> QED BY <1>5, <1>6, <2>1
<1> QED BY <1>2, <1>4, <1>5, <1>7

\* The words of the messages behind the first i.
LaterOf(ms, i) == FlattenSeq(AllSlices(From(ms, i)))

\* The words of the messages to come begin with those of the next.
LEMMA LaterFacts ==
    ASSUME NEW ms \in Seq(Messages), NEW i \in Nat, i < Len(ms)
    PROVE  LET m == ms[i + 1]
           IN  /\ m \in Messages /\ LaterOf(ms, i + 1) \in Seq(Word) /\ LaterOf(ms, i) \in Seq(Word)
               /\ LaterOf(ms, i) = Cat(TableOf(m), Cat(FlattenSeq(m), LaterOf(ms, i + 1)))
<1> DEFINE m == ms[i + 1]
           b == From(ms, i + 1)
           sb == AllSlices(b)
           T == TableOf(m)
<1>1. From(ms, i) = Cat(One(m), b) /\ b \in Seq(Messages)
  BY FromCons
<1>2. m \in Messages
  BY FirstCons
<1> HIDE DEF m, b
<1>3. AllSlices(From(ms, i)) = Cat(Slices(m), sb) /\ sb \in Seq(Seq(Word))
  BY <1>1, <1>2, AllSlicesFacts
<1>4. Slices(m) = Cat(One(T), m) /\ T \in Seq(Word) /\ m \in Seq(Seq(Word)) /\ Slices(m) \in Seq(Seq(Word))
  BY <1>2, SlicesType
<1> HIDE DEF T, sb
<1>5. FlattenSeq(Cat(Slices(m), sb)) = Cat(FlattenSeq(Slices(m)), FlattenSeq(sb))
  BY <1>3, <1>4, FlatCat
<1>6. FlattenSeq(Slices(m)) = Cat(T, FlattenSeq(m))
  BY <1>4, FlatCons
<1>7. FlattenSeq(m) \in Seq(Word) /\ FlattenSeq(sb) \in Seq(Word)
  BY <1>3, <1>4, FlatType
<1>8. Cat(Cat(T, FlattenSeq(m)), FlattenSeq(sb)) = Cat(T, Cat(FlattenSeq(m), FlattenSeq(sb)))
  BY <1>4, <1>7, CatAssoc
<1>9. Cat(T, Cat(FlattenSeq(m), FlattenSeq(sb))) \in Seq(Word)
  BY <1>4, <1>7, CatType
<1>10. LaterOf(ms, i) = FlattenSeq(Cat(Slices(m), sb)) /\ LaterOf(ms, i + 1) = FlattenSeq(sb)
  BY <1>3 DEF LaterOf, sb, b
<1> QED BY <1>2, <1>5, <1>6, <1>7, <1>8, <1>9, <1>10 DEF m, T

\* Behind the last message there are none.
LEMMA LaterLast ==
    ASSUME NEW ms \in Seq(Messages)
    PROVE  LaterOf(ms, Len(ms)) = <<>> /\ LaterOf(ms, 0) = FlattenSeq(AllSlices(ms))
<1>1. Len(ms) \in Nat /\ From(ms, Len(ms)) = <<>>
  BY DEF From
<1>2. From(ms, 0) = ms
  BY DEF From
<1> QED BY <1>1, <1>2, AllSlicesFacts, FlatEmpty DEF LaterOf

\* Where a slice ends: how many words are behind it.
Ends(slices) ==
    {n \in Nat : \E A, B \in Seq(Seq(Word)) : slices = Cat(A, B) /\ n = Len(FlattenSeq(B))}

\* None ends within a slice.
LEMMA EndsApart ==
    ASSUME NEW A \in Seq(Seq(Word)), NEW s \in Seq(Word), NEW B \in Seq(Seq(Word))
    PROVE  NoEnd(Ends(Cat(A, Cat(One(s), B))), Len(FlattenSeq(B)), Len(s))
<1> DEFINE V == Seq(Word)
           sB == Cat(One(s), B)
           all == Cat(A, sB)
           m == Len(FlattenSeq(B))
           l == Len(s)
<1>1. sB \in Seq(V) /\ One(s) \in Seq(V) /\ s \in V /\ A \in Seq(V) /\ B \in Seq(V)
  BY ConsCat, OneType
<1>2. FlattenSeq(sB) = Cat(s, FlattenSeq(B)) /\ FlattenSeq(B) \in V /\ FlattenSeq(sB) \in V
  <2>1. FlattenSeq(sB) = Cat(s, FlattenSeq(B)) /\ FlattenSeq(B) \in V
    BY FlatCons, FlatType
  <2>2. FlattenSeq(sB) \in V
    BY <1>1, FlatType
  <2> QED BY <2>1, <2>2
<1>3. Len(FlattenSeq(sB)) = l + m /\ l \in Nat /\ m \in Nat
  BY <1>2, CatLen
<1> SUFFICES ASSUME NEW e \in Ends(all) PROVE e <= m \/ e >= m + l
  BY DEF NoEnd
<1>4. PICK C, D \in Seq(V) : all = Cat(C, D) /\ e = Len(FlattenSeq(D)) /\ e \in Nat
  BY DEF Ends
<1> HIDE DEF sB, m, l
<1>5. Len(A) \in Nat /\ Len(C) \in Nat
  BY <1>1, <1>4
<1>6. FlattenSeq(D) \in V
  BY <1>4, FlatType
<1>7. CASE Len(C) <= Len(A)
  <2>1. PICK x \in Seq(V) : A = Cat(C, x) /\ D = Cat(x, sB)
    <3> HIDE DEF V
    <3> QED BY <1>1, <1>4, <1>7, Overlap
  <2>2. FlattenSeq(D) = Cat(FlattenSeq(x), FlattenSeq(sB)) /\ FlattenSeq(x) \in V
    BY <1>1, <2>1, FlatCat, FlatType
  <2>3. Len(FlattenSeq(D)) = Len(FlattenSeq(x)) + Len(FlattenSeq(sB)) /\ Len(FlattenSeq(x)) \in Nat
    BY <1>2, <2>2, CatLen
  <2> QED BY <1>3, <1>4, <2>3
<1>8. CASE ~(Len(C) <= Len(A))
  <2>0. Len(A) <= Len(C)
    BY <1>5, <1>8
  <2>1. PICK x \in Seq(V) : C = Cat(A, x) /\ sB = Cat(x, D)
    <3> HIDE DEF V
    <3> QED BY <1>1, <1>4, <2>0, Overlap
  <2>2. x # <<>>
    <3>1. x = <<>> => C = A
      BY <1>1, <2>1, CatEmpty
    <3> QED BY <1>5, <1>8, <3>1
  <2> DEFINE h == Head(x)
             u == Tail(x)
  <2>3. h \in V /\ u \in Seq(V) /\ x = Cat(One(h), u)
    <3> HIDE DEF V
    <3> QED BY <2>1, <2>2, UnconsCat
  <2> HIDE DEF h, u
  <2>4. Cat(x, D) = Cat(One(h), Cat(u, D)) /\ Cat(u, D) \in Seq(V)
    <3> HIDE DEF V
    <3> QED BY <1>4, <2>3, OneType, CatAssoc, CatType
  <2>5. Tail(Cat(One(h), Cat(u, D))) = Cat(u, D) /\ Tail(Cat(One(s), B)) = B
    <3> HIDE DEF V
    <3> QED BY <1>1, <2>3, <2>4, ConsCat
  <2>6. B = Cat(u, D)
    BY <2>1, <2>4, <2>5 DEF sB
  <2>7. FlattenSeq(B) = Cat(FlattenSeq(u), FlattenSeq(D)) /\ FlattenSeq(u) \in V
    BY <1>4, <2>3, <2>6, FlatCat, FlatType
  <2>8. Len(FlattenSeq(B)) = Len(FlattenSeq(u)) + Len(FlattenSeq(D)) /\ Len(FlattenSeq(u)) \in Nat
    BY <1>6, <2>7, CatLen
  <2>9. e <= m
    BY <1>4, <2>8 DEF m
  <2> QED BY <2>9
<1> QED BY <1>7, <1>8

\* A message ends where a slice does, and so does its table.
LEMMA EndsHave ==
    ASSUME NEW ms \in Seq(Messages)
    PROVE  /\ Ends(AllSlices(ms)) \subseteq Nat
           /\ \A i \in 0..Len(ms) : Len(LaterOf(ms, i)) \in Ends(AllSlices(ms)) /\ LaterOf(ms, i) \in Seq(Word)
           /\ \A i \in 0..Len(ms) - 1 :
                Len(Cat(FlattenSeq(ms[i + 1]), LaterOf(ms, i + 1))) \in Ends(AllSlices(ms))
<1> DEFINE V == Seq(Word)
           all == AllSlices(ms)
<1>0. Ends(all) \subseteq Nat /\ Len(ms) \in Nat
  BY DEF Ends
<1>1. ASSUME NEW i \in 0..Len(ms)
      PROVE  Len(LaterOf(ms, i)) \in Ends(all) /\ LaterOf(ms, i) \in Seq(Word)
  <2> DEFINE a == First(ms, i)
             b == From(ms, i)
  <2>1. a \in Seq(Messages) /\ b \in Seq(Messages) /\ ms = Cat(a, b)
    <3>1. i \in Nat /\ i <= Len(ms)
      BY <1>0
    <3> QED BY <3>1, CutCat
  <2> HIDE DEF a, b
  <2>2. all = Cat(AllSlices(a), AllSlices(b)) /\ AllSlices(a) \in Seq(V) /\ AllSlices(b) \in Seq(V)
    BY <2>1, AllSlicesFacts
  <2>3. FlattenSeq(AllSlices(b)) \in V
    BY <2>2, FlatType
  <2>4. LaterOf(ms, i) = FlattenSeq(AllSlices(b))
    BY DEF LaterOf, b
  <2>5. Len(FlattenSeq(AllSlices(b))) \in Nat
    BY <2>3, LenZero
  <2> HIDE DEF all
  <2>6. Len(LaterOf(ms, i)) \in Ends(all)
    BY <2>2, <2>4, <2>5 DEF Ends
  <2> QED BY <2>3, <2>4, <2>6
<1>2. ASSUME NEW i \in 0..Len(ms) - 1
      PROVE  Len(Cat(FlattenSeq(ms[i + 1]), LaterOf(ms, i + 1))) \in Ends(all)
  <2> DEFINE a == First(ms, i)
             b == From(ms, i + 1)
             m == ms[i + 1]
             sa == AllSlices(a)
             sb == AllSlices(b)
             T == TableOf(m)
  <2>1. i \in Nat /\ i < Len(ms) /\ i <= Len(ms)
    BY <1>0
  <2>2. a \in Seq(Messages) /\ ms = Cat(a, From(ms, i))
    BY <2>1, CutCat
  <2>3. From(ms, i) = Cat(One(m), b) /\ b \in Seq(Messages) /\ m \in Messages
    BY <2>1, FromCons, FirstCons
  <2> HIDE DEF a, b, m
  <2>4. Cat(One(m), b) \in Seq(Messages)
    BY <2>3, ConsCat
  <2>5. all = Cat(sa, Cat(Slices(m), sb)) /\ sa \in Seq(V) /\ sb \in Seq(V)
    BY <2>2, <2>3, <2>4, AllSlicesFacts
  <2>6. Slices(m) = Cat(One(T), m) /\ T \in V /\ m \in Seq(V)
    BY <2>3, SlicesType
  <2> HIDE DEF sa, sb, T, all, V
  <2>7. Cat(Cat(One(T), m), sb) = Cat(One(T), Cat(m, sb)) /\ Cat(m, sb) \in Seq(V) /\ One(T) \in Seq(V)
    BY <2>5, <2>6, OneType, CatAssoc, CatType
  <2>8. Cat(sa, Cat(One(T), Cat(m, sb))) = Cat(Cat(sa, One(T)), Cat(m, sb)) /\ Cat(sa, One(T)) \in Seq(V)
    BY <2>5, <2>7, CatAssoc, CatType
  <2>9. all = Cat(Cat(sa, One(T)), Cat(m, sb))
    BY <2>5, <2>6, <2>7, <2>8
  <2>10. FlattenSeq(Cat(m, sb)) = Cat(FlattenSeq(m), FlattenSeq(sb)) /\ FlattenSeq(Cat(m, sb)) \in Seq(Word)
    BY <2>5, <2>6, <2>7, FlatCat, FlatType DEF V
  <2>11. Len(FlattenSeq(Cat(m, sb))) \in Nat
    BY <2>10, LenZero
  <2>12. LaterOf(ms, i + 1) = FlattenSeq(sb)
    BY DEF LaterOf, sb, b
  <2>13. Len(FlattenSeq(Cat(m, sb))) \in Ends(all)
    BY <2>7, <2>8, <2>9, <2>11 DEF Ends, V
  <2> QED BY <2>10, <2>12, <2>13 DEF m
<1> QED BY <1>0, <1>1, <1>2

(***************************************************************************)
(* What is to come                                                         *)
(***************************************************************************)
\* The bytes o in the buffer, the unpacker and the bytes w to come stand for these words.
Holds(E, pk, u, o, w, words) ==
    /\ o \in Seq(Byte) /\ w \in Seq(Byte) /\ words \in Seq(Word)
    /\ pk => \E a, rest \in Seq(Word) :
                o = Bytes(a) /\ words = Cat(a, rest) /\ Pend(E, u, w, rest) /\ u \in Unpackers
    /\ ~pk => u = Idle /\ Cat(o, w) = Bytes(words)

\* Bytes that make n words are the bytes of the first n.
LEMMA BytesCut ==
    ASSUME NEW words \in Seq(Word), NEW n \in Nat, NEW o \in Seq(Byte), NEW w \in Seq(Byte),
           Cat(o, w) = Bytes(words), Len(o) = WordBytes * n
    PROVE  \E a, rest \in Seq(Word) :
             Len(a) = n /\ words = Cat(a, rest) /\ o = Bytes(a) /\ w = Bytes(rest)
<1>1. WordBytes \in Nat \ {0} /\ Len(words) \in Nat
  BY SizeFacts, LenZero
<1>2. n <= Len(words)
  <2> DEFINE x == WordBytes * n
             y == WordBytes * Len(words)
             z == Len(w)
  <2>1. y = x + z /\ z \in Nat /\ x \in Nat
    <3>1. Len(Cat(o, w)) = Len(o) + Len(w) /\ Len(w) \in Nat /\ Len(o) \in Nat
      BY CatLen
    <3>2. Len(Bytes(words)) = y
      BY BytesLen
    <3> QED BY <3>1, <3>2
  <2>2. CASE Len(words) + 1 <= n
    <3>1. WordBytes * (Len(words) + 1) <= x
      BY <1>1, <2>2, TimesMono
    <3>2. WordBytes * (Len(words) + 1) = WordBytes + y
      BY <1>1, Times
    <3>3. WordBytes + y <= x
      BY <3>1, <3>2
    <3> HIDE DEF x, y, z
    <3> QED BY <1>1, <2>1, <3>3
  <2> QED BY <1>1, <2>2
<1>3. PICK a, rest \in Seq(Word) : words = Cat(a, rest) /\ Len(a) = n
  BY <1>2, RunSplit
<1>4. Bytes(words) = Cat(Bytes(a), Bytes(rest)) /\ Bytes(a) \in Seq(Byte) /\ Bytes(rest) \in Seq(Byte)
  BY <1>3, BytesFacts
<1>5. Len(Bytes(a)) = Len(o)
  BY <1>3, BytesLen
<1>6. o = Bytes(a) /\ w = Bytes(rest)
  <2>1. Cat(o, w) = Cat(Bytes(a), Bytes(rest))
    BY <1>4
  <2> QED BY <1>4, <1>5, <2>1, CatCancel
<1> QED BY <1>3, <1>6

\* Words are taken from their bytes.
LEMMA WordsBytes ==
    ASSUME NEW ws \in Seq(Word)
    PROVE  Words(Bytes(ws)) = ws
<1> DEFINE e == <<>>
<1>1. e \in Seq(Byte) /\ Len(e) = 0 /\ 0 < WordBytes
  BY CatFacts, SizeFacts
<1>2. Bytes(ws) \in Seq(Byte) /\ Cat(Bytes(ws), e) = Bytes(ws)
  BY BytesFacts, CatEmpty
<1>3. Len(e) < WordBytes
  BY <1>1
<1> HIDE DEF e
<1>4. Words(Cat(Bytes(ws), e)) = ws
  BY <1>1, <1>3, WordsOfBytes
<1> QED BY <1>2, <1>4

\* A buffer that is full has the front of the words, and the rest is still to come.
LEMMA HoldsFull ==
    ASSUME NEW E, NEW pk \in BOOLEAN, NEW u, NEW o, NEW w, NEW words, NEW n \in Nat,
           Holds(E, pk, u, o, w, words), Len(o) = WordBytes * n
    PROVE  \E a, rest \in Seq(Word) :
             Len(a) = n /\ words = Cat(a, rest) /\ Words(o) = a /\ Holds(E, pk, u, <<>>, w, rest)
<1>1. o \in Seq(Byte) /\ w \in Seq(Byte) /\ words \in Seq(Word)
  BY DEF Holds
<1> DEFINE e == <<>>
<1>2. e \in Seq(Byte) /\ e \in Seq(Word) /\ Bytes(e) = e /\ \A s \in Seq(Byte) : Cat(e, s) = s
  BY CatFacts, BytesFacts
<1>3. \A s \in Seq(Word) : Cat(e, s) = s
  BY CatEmpty
<1> HIDE DEF e
<1>4. CASE pk
  <2>1. PICK a, rest \in Seq(Word) :
          o = Bytes(a) /\ words = Cat(a, rest) /\ Pend(E, u, w, rest) /\ u \in Unpackers
    BY <1>4 DEF Holds
  <2>2. Words(o) = a
    BY <2>1, WordsBytes
  <2>3. Len(a) = n
    <3>1. Len(o) = WordBytes * Len(a)
      BY <2>1, BytesLen
    <3>2. (WordBytes * n) \div WordBytes = n /\ (WordBytes * Len(a)) \div WordBytes = Len(a)
      BY SizeFacts, LenZero, DivExact
    <3> QED BY <3>1, <3>2
  <2>4. e = Bytes(e) /\ rest = Cat(e, rest)
    BY <1>2, <1>3
  <2>5. Holds(E, pk, u, e, w, rest)
    BY <1>1, <1>2, <1>4, <2>1, <2>4 DEF Holds
  <2> QED BY <2>1, <2>2, <2>3, <2>5 DEF e
<1>5. CASE ~pk
  <2>1. u = Idle /\ Cat(o, w) = Bytes(words)
    BY <1>5 DEF Holds
  <2>2. PICK a, rest \in Seq(Word) :
          Len(a) = n /\ words = Cat(a, rest) /\ o = Bytes(a) /\ w = Bytes(rest)
    BY <1>1, <2>1, BytesCut
  <2>3. Words(o) = a
    BY <2>2, WordsBytes
  <2>4. Holds(E, pk, u, e, w, rest)
    BY <1>1, <1>2, <1>5, <2>1, <2>2 DEF Holds
  <2> QED BY <2>2, <2>3, <2>4 DEF e
<1> QED BY <1>4, <1>5

\* The words in a buffer are the front of the words to come.
LEMMA HoldsPart ==
    ASSUME NEW E, NEW pk \in BOOLEAN, NEW u, NEW o, NEW w, NEW words, Holds(E, pk, u, o, w, words)
    PROVE  Words(o) \in Seq(Word) /\ \E rest \in Seq(Word) : words = Cat(Words(o), rest)
<1>1. o \in Seq(Byte) /\ w \in Seq(Byte) /\ words \in Seq(Word)
  BY DEF Holds
<1>2. CASE pk
  <2>1. PICK a, rest \in Seq(Word) : o = Bytes(a) /\ words = Cat(a, rest)
    BY <1>2 DEF Holds
  <2>2. Words(o) = a
    BY <2>1, WordsBytes
  <2> QED BY <2>1, <2>2
<1>3. CASE ~pk
  <2>1. Cat(o, w) = Bytes(words)
    BY <1>3 DEF Holds
  <2> DEFINE x == Words(o)
  <2>2. PICK p \in Seq(Byte) : o = Cat(Bytes(x), p)
    BY <1>1, BytesOfWords
  <2>3. x \in Seq(Word)
    BY <1>1, WordsType
  <2> HIDE DEF x
  <2>4. Bytes(x) \in Seq(Byte) /\ Len(Bytes(x)) = WordBytes * Len(x) /\ Len(x) \in Nat
    BY <2>3, BytesFacts, BytesLen, LenZero
  <2>5. Cat(Cat(Bytes(x), p), w) = Cat(Bytes(x), Cat(p, w)) /\ Cat(p, w) \in Seq(Byte)
    BY <1>1, <2>2, <2>4, CatAssoc, CatType
  <2>6. Cat(Bytes(x), Cat(p, w)) = Bytes(words)
    BY <2>1, <2>2, <2>5
  <2>7. PICK a, rest \in Seq(Word) : words = Cat(a, rest) /\ Bytes(x) = Bytes(a)
    <3> DEFINE bx == Bytes(x)
               pw == Cat(p, w)
               n == Len(x)
    <3>1. bx \in Seq(Byte) /\ pw \in Seq(Byte) /\ Cat(bx, pw) = Bytes(words) /\ Len(bx) = WordBytes * n /\ n \in Nat
      BY <2>4, <2>5, <2>6
    <3> HIDE DEF bx, pw, n
    <3>2. \E a, rest \in Seq(Word) : Len(a) = n /\ words = Cat(a, rest) /\ bx = Bytes(a) /\ pw = Bytes(rest)
      BY <1>1, <3>1, BytesCut
    <3> QED BY <3>2 DEF bx
  <2>8. x = a
    <3>1. Words(Bytes(x)) = x /\ Words(Bytes(a)) = a
      BY <2>3, <2>7, WordsBytes
    <3> QED BY <2>7, <3>1
  <2> QED BY <2>3, <2>7, <2>8 DEF x
<1> QED BY <1>2, <1>3

\* What is sent is messages.
LEMMA SentFacts ==
    ASSUME NEW s \in Sendings
    PROVE  s \in Seq(Messages) /\ s # <<>>
<1>1. /\ s \in Seq(Seq(Seq(Word))) /\ s # <<>>
      /\ \A i \in DOMAIN s : /\ Len(s[i]) \in 1..MaxNumber
                             /\ \A k \in DOMAIN s[i] : Len(s[i][k]) <= MaxSegmentLen
  BY StreamAssumption
<1> DEFINE V == Seq(Seq(Word))
<1>2. s \in Seq(V) /\ \A i \in 1..Len(s) : s[i] \in V
  <2>1. s \in Seq(V)
    BY <1>1
  <2> HIDE DEF V
  <2> QED BY <2>1
<1>3. ASSUME NEW i \in 1..Len(s) PROVE s[i] \in Messages
  <2> DEFINE m == s[i]
  <2>1. m \in Seq(Seq(Word)) /\ i \in DOMAIN s
    BY <1>2
  <2>2. Len(m) \in 1..MaxNumber /\ \A k \in DOMAIN m : Len(m[k]) <= MaxSegmentLen
    BY <1>1, <2>1
  <2> HIDE DEF m
  <2>3. DOMAIN m = 1..Len(m)
    BY <2>1
  <2>4. IsMessage(m)
    BY <2>1, <2>2, <2>3 DEF IsMessage
  <2>5. m \in Messages
    BY <2>1, <2>4 DEF Messages
  <2> QED BY <2>5 DEF m
<1>4. s \in Seq(Messages)
  <2> HIDE DEF V
  <2>1. Len(s) \in Nat /\ s = [i \in 1..Len(s) |-> s[i]]
    BY <1>2
  <2> QED BY <1>3, <2>1
<1> QED BY <1>1, <1>4

\* The number of bytes that are null is 0.
LEMMA NumberOfNulls ==
    ASSUME NEW b \in Seq(Byte), \A i \in 1..Len(b) : b[i] = 0
    PROVE  Number(b) = 0
<1>1. PICK v \in [0..Len(b) -> Nat] :
        /\ v[0] = 0 /\ Number(b) = v[Len(b)]
        /\ \A k \in 0..Len(b) - 1 : v[k + 1] = b[Len(b) - k] + ByteBase * v[k]
  BY NumberFacts
<1>2. Len(b) \in Nat
  BY LenZero
<1> DEFINE T == {n \in Nat : n <= Len(b) => v[n] = 0}
<1>3. 0 \in T
  BY <1>1
<1>4. ASSUME NEW n \in Nat, n \in T PROVE n + 1 \in T
  <2>1. CASE n + 1 <= Len(b)
    <3>1. n \in 0..Len(b) - 1 /\ v[n] = 0 /\ Len(b) - n \in 1..Len(b)
      BY <1>2, <1>4, <2>1
    <3>2. v[n + 1] = b[Len(b) - n] + ByteBase * v[n] /\ b[Len(b) - n] = 0
      BY <1>1, <3>1
    <3>3. ByteBase * 0 = 0 /\ ByteBase \in Nat
      BY HalfFacts
    <3> QED BY <3>1, <3>2, <3>3
  <2> QED BY <2>1
<1> HIDE DEF T
<1>5. Len(b) \in T
  BY <1>2, <1>3, <1>4, SetInduction
<1> QED BY <1>1, <1>2, <1>5 DEF T

\* A table of more than one word begins with the number of segments less one, not 0.
LEMMA TableBegins ==
    ASSUME NEW segs, IsMessage(segs), NEW w \in Word, NEW t \in Seq(Word),
           TableOf(segs) = Cat(One(w), t), t # <<>>
    PROVE  w # NullWord
<1> DEFINE a == One(w)
           e == <<>>
           n == Len(segs)
<1>1. a \in Seq(Word) /\ Len(a) = 1 /\ Bytes(a) = w /\ e \in Seq(Word) /\ Cat(a, e) = a
  BY OneType, CatFacts, CatEmpty, BytesFacts
<1>2. PICK p : IsTable(segs, p) /\ TableOf(segs) = Words(FlattenSeq(Chunks(p)))
  BY TableSpec
<1> HIDE DEF a, e
<1>3. Words(FlattenSeq(Chunks(p))) = Cat(a, t)
  BY <1>2 DEF a
<1>4. \A i \in 1..2 * Len(a) : NumbersOf(Cat(a, e))[i] = p[i]
  BY <1>1, <1>2, <1>3, NumberAt
<1>5. NumbersOf(a)[1] = Len(segs) - 1
  BY <1>1, <1>2, <1>4 DEF IsTable
<1>6. n \in Nat /\ n > 1
  <2>1. TableSize(n) = Len(Cat(a, t)) /\ n \in Nat \ {0}
    BY TableFacts DEF a
  <2>2. Len(t) \in Nat \ {0}
    BY LenZero
  <2>3. Len(Cat(a, t)) = 1 + Len(t)
    BY <1>1, CatLen
  <2> HIDE DEF n
  <2>4. n = 1 => TableSize(n) = 1
    BY DEF TableSize
  <2> QED BY <2>1, <2>2, <2>3, <2>4
<1>7. SUFFICES ASSUME w = NullWord PROVE NumbersOf(a)[1] = 0
  <2>1. NumbersOf(a)[1] = n - 1
    BY <1>5
  <2> HIDE DEF n
  <2> QED BY <1>6, <2>1
<1> DEFINE b == First(From(w, 0), HalfBytes)
<1>8. NumbersOf(a)[1] = Number(b)
  <2>1. HalfBytes * (1 - 1) = 0
    BY HalfFacts
  <2>2. 1 \in 1..2 * Len(a)
    BY <1>1
  <2>3. NumbersOf(a)[1] = Number(First(From(Bytes(a), HalfBytes * (1 - 1)), HalfBytes))
    BY <2>2 DEF NumbersOf
  <2> QED BY <1>1, <2>1, <2>3
<1>9. b \in Seq(Byte) /\ \A i \in 1..Len(b) : b[i] = 0
  <2>1. w \in Seq(Byte) /\ Len(w) = WordBytes /\ \A i \in 1..WordBytes : w[i] = 0
    BY <1>7, WordFacts DEF NullWord
  <2>2. HalfBytes \in Nat \ {0} /\ HalfBytes <= WordBytes /\ WordBytes \in Nat
    BY HalfFacts
  <2>3. From(w, 0) = w
    BY <2>1 DEF From
  <2> DEFINE h == HalfBytes
  <2>4. h \in 0..Len(w)
    BY <2>1, <2>2
  <2>5. /\ First(w, h) \in Seq(Byte) /\ Len(First(w, h)) = h
        /\ \A i \in 1..h : First(w, h)[i] = w[i]
    BY <2>1, <2>4, Cut
  <2>6. b = First(w, h)
    BY <2>3
  <2> HIDE DEF b
  <2>7. \A i \in 1..h : i \in 1..WordBytes
    BY <2>2
  <2> HIDE DEF h
  <2> QED BY <2>1, <2>5, <2>6, <2>7
<1> HIDE DEF b
<1> QED BY <1>8, <1>9, NumberOfNulls

\* A part of what is on the wire is unpacked, and what is left of it stays there.
WireUnpacked(E, u, w, f, n, room, ws) ==
    LET src == First(w, Least(n, Len(w)))
        c == Unpack(u, src, room)
        w1 == From(w, Len(src) - Len(c.src))
    IN  /\ w1 \in Seq(Byte)
        /\ \E y \in Seq(Byte) : \E rest :
             Unpacked(E, c, src, room, y, ws, rest) /\ Cat(w1, f) = Cat(c.src, y)

\* A call of unpack on part of the wire: what stays there still stands for the other words.
LEMMA UnpackWire ==
    ASSUME NEW E, E \subseteq Nat, NEW u, NEW w \in Seq(Byte), NEW f \in Seq(Byte), w # <<>>,
           NEW n \in Nat \ {0}, NEW room \in Nat, NEW ws \in Seq(Word), Pend(E, u, Cat(w, f), ws),
           room # 0 \/ u.k \in {"none", "nullCount", "fullCount"}
    PROVE  WireUnpacked(E, u, w, f, n, room, ws)
<1> DEFINE k == Least(n, Len(w))
           src == First(w, k)
           c == Unpack(u, src, room)
           w1 == From(w, Len(src) - Len(c.src))
           back == From(w, k)
           y == Cat(back, f)
<1>1. k \in Nat \ {0} /\ k <= Len(w)
  <2>1. Len(w) \in Nat \ {0}
    BY LenZero
  <2> QED BY <2>1 DEF Least
<1> HIDE DEF k
<1>2. src \in Seq(Byte) /\ Len(src) = k /\ back \in Seq(Byte) /\ w = Cat(src, back)
  BY <1>1, CutCat
<1> HIDE DEF src, back
<1>3. y \in Seq(Byte) /\ Cat(src, y) = Cat(w, f) /\ src # <<>>
  <2>1. y \in Seq(Byte)
    BY <1>2, CatType
  <2>2. Cat(src, y) = Cat(Cat(src, back), f)
    BY <1>2, CatAssoc
  <2>3. src # <<>>
    BY <1>1, <1>2, LenZero
  <2> QED BY <1>2, <2>1, <2>2, <2>3
<1> HIDE DEF y
<1>4. PICK rest : Unpacked(E, c, src, room, y, ws, rest)
  <2>1. Pend(E, u, Cat(src, y), ws)
    BY <1>3
  <2> QED BY <1>2, <1>3, <2>1, UnpackSpec
<1> HIDE DEF c
<1>5. PICK e \in Seq(Byte) : c.src \in Seq(Byte) /\ src = Cat(e, c.src)
  BY <1>4 DEF Unpacked
<1> DEFINE s1 == c.src
<1>6. w = Cat(e, Cat(s1, back)) /\ Cat(s1, back) \in Seq(Byte)
  <2>1. s1 \in Seq(Byte) /\ src = Cat(e, s1)
    BY <1>5
  <2> HIDE DEF s1
  <2>2. Cat(Cat(e, s1), back) = Cat(e, Cat(s1, back))
    BY <1>2, <1>5, <2>1, CatAssoc
  <2> QED BY <1>2, <2>1, <2>2, CatType
<1>7. Len(src) - Len(s1) = Len(e)
  <2>1. s1 \in Seq(Byte) /\ src = Cat(e, s1)
    BY <1>5
  <2> HIDE DEF s1
  <2>2. Len(Cat(e, s1)) = Len(e) + Len(s1) /\ Len(e) \in Nat /\ Len(s1) \in Nat
    BY <1>5, <2>1, CatLen
  <2> QED BY <2>1, <2>2
<1>8. w1 = Cat(c.src, back)
  <2>1. From(Cat(e, Cat(c.src, back)), Len(e)) = Cat(c.src, back)
    BY <1>6, CatCut
  <2> QED BY <1>6, <1>7, <2>1
<1>9. Cat(w1, f) = Cat(c.src, y)
  <2>1. Cat(Cat(c.src, back), f) = Cat(c.src, Cat(back, f))
    BY <1>2, <1>5, CatAssoc
  <2> QED BY <1>8, <2>1 DEF y
<1> HIDE DEF w1
<1>10. w1 \in Seq(Byte)
  BY <1>6, <1>8
<1> QED BY <1>3, <1>4, <1>9, <1>10 DEF WireUnpacked, w1, c, src, k

\* What may be in a buffer that was filled, and in the unpacker with it: n words are asked for.
Kept(u, o, n) ==
    /\ Len(o) <= WordBytes * n
    /\ Len(o) < WordBytes * n => u.k # "nulls"
    /\ Len(o) = WordBytes * n =>
         u.k \notin {"word", "full"} /\ (u.k = "nulls" => EndsNull(Words(o)))

\* A read from a packed stream adds to the buffer and keeps what it stands for.
LEMMA ReadPackedSpec ==
    ASSUME NEW E, E \subseteq Nat, NEW u, NEW o, NEW w \in Seq(Byte), NEW f \in Seq(Byte),
           NEW words, Holds(E, TRUE, u, o, Cat(w, f), words), w # <<>>,
           NEW n \in Nat \ {0}, NEW wa \in Nat, Len(o) < WordBytes * wa
    PROVE  LET src == First(w, Least(n, Len(w)))
               c == Unpack(u, src, wa - (Len(o) \div WordBytes))
               w1 == From(w, Len(src) - Len(c.src))
               o1 == Cat(o, Bytes(c.out))
           IN  /\ c.stop # "Panic" /\ w1 \in Seq(Byte)
               /\ Holds(E, TRUE, c.u, o1, Cat(w1, f), words) /\ Kept(c.u, o1, wa)
<1>1. PICK a, ws \in Seq(Word) : o = Bytes(a) /\ words = Cat(a, ws) /\ Pend(E, u, Cat(w, f), ws)
  BY DEF Holds
<1> DEFINE src == First(w, Least(n, Len(w)))
           room == wa - (Len(o) \div WordBytes)
           c == Unpack(u, src, room)
           w1 == From(w, Len(src) - Len(c.src))
           o1 == Cat(o, Bytes(c.out))
           l == Len(a)
<1>2. l \in Nat /\ Len(o) = WordBytes * l /\ WordBytes \in Nat \ {0}
  BY <1>1, LenZero, BytesLen, SizeFacts
<1> HIDE DEF l
<1>3. Len(o) \div WordBytes = l
  BY <1>2, DivExact
<1>4. l < wa
  <2>1. wa <= l => WordBytes * wa <= WordBytes * l
    BY <1>2, TimesMono
  <2>2. WordBytes * wa \in Nat /\ WordBytes * l \in Nat
    BY <1>2, Times
  <2> QED BY <1>2, <2>1, <2>2
<1>5. room \in Nat \ {0} /\ room = wa - l
  BY <1>2, <1>3, <1>4
<1> HIDE DEF room
<1>6. /\ w1 \in Seq(Byte)
      /\ \E y, rest : Unpacked(E, c, src, room, y, ws, rest) /\ Cat(w1, f) = Cat(c.src, y)
  <2>1. room \in Nat /\ (room # 0 \/ u.k \in {"none", "nullCount", "fullCount"})
    BY <1>5
  <2> HIDE DEF src, w1, c
  <2>2. WireUnpacked(E, u, w, f, n, room, ws)
    BY <1>1, <2>1, UnpackWire
  <2> QED BY <2>2 DEF WireUnpacked, src, w1, c
<1>7. PICK y, rest : Unpacked(E, c, src, room, y, ws, rest) /\ Cat(w1, f) = Cat(c.src, y)
  BY <1>6
<1> HIDE DEF src, w1, c
<1>8. /\ c.out \in Seq(Word) /\ c.u \in Unpackers /\ rest \in Seq(Word) /\ ws = Cat(c.out, rest)
      /\ Pend(E, c.u, Cat(w1, f), rest) /\ c.room \in Nat /\ c.room + Len(c.out) = room
      /\ c.stop # "Panic"
  BY <1>7 DEF Unpacked
<1> DEFINE b == Cat(a, c.out)
<1>9. b \in Seq(Word) /\ o1 = Bytes(b) /\ words = Cat(b, rest)
  <2>1. b \in Seq(Word)
    BY <1>1, <1>8, CatType
  <2>2. Bytes(b) = Cat(Bytes(a), Bytes(c.out))
    BY <1>1, <1>8, BytesFacts
  <2>3. words = Cat(b, rest)
    BY <1>1, <1>8, CatAssoc
  <2> QED BY <1>1, <2>1, <2>2, <2>3
<1>10. Holds(E, TRUE, c.u, o1, Cat(w1, f), words)
  <2>1. o1 \in Seq(Byte) /\ Cat(w1, f) \in Seq(Byte) /\ words \in Seq(Word)
    BY <1>6, <1>9, BytesFacts, CatType DEF Holds
  <2> HIDE DEF o1, b
  <2> QED BY <1>8, <1>9, <2>1 DEF Holds
<1>11. Kept(c.u, o1, wa)
  <2>1. /\ Len(o1) = WordBytes * (l + Len(c.out)) /\ Len(c.out) \in Nat
        /\ l + Len(c.out) = wa - c.room
    <3>1. Len(b) = l + Len(c.out) /\ Len(c.out) \in Nat
      BY <1>1, <1>8, CatLen DEF l
    <3>2. Len(o1) = WordBytes * Len(b)
      BY <1>9, BytesLen
    <3>4. l \in Nat /\ room = wa - l /\ c.room \in Nat /\ c.room + Len(c.out) = room
      BY <1>2, <1>5, <1>8
    <3>5. Len(c.out) \in Nat
      BY <3>1
    <3> DEFINE x == Len(c.out)
               d == c.room
    <3>6. l \in Nat /\ room = wa - l /\ d \in Nat /\ d + x = room /\ x \in Nat
      BY <3>4, <3>5
    <3> HIDE DEF x, d
    <3>7. l + x = wa - d
      BY ONLY <3>6, wa \in Nat
    <3>3. l + Len(c.out) = wa - c.room
      BY <3>7 DEF x, d
    <3> HIDE DEF b, o1
    <3> QED BY <3>1, <3>2, <3>3
  <2> DEFINE q == l + Len(c.out)
  <2>2. q \in Nat /\ Len(o1) = WordBytes * q /\ q = wa - c.room
    BY <1>2, <2>1
  <2>3. Words(o1) = b
    BY <1>9, WordsBytes
  <2>4. c.u.k = "nulls" => EndsNull(b)
    <3> SUFFICES ASSUME c.u.k = "nulls" PROVE EndsNull(b)
      OBVIOUS
    <3>1. EndsNull(c.out)
      BY <1>5, <1>7 DEF Unpacked
    <3>2. PICK v \in Seq(Word) : c.out = Cat(v, One(NullWord))
      BY <3>1 DEF EndsNull
    <3>3. One(NullWord) \in Seq(Word)
      BY ByteFacts, OneType
    <3>4. b = Cat(Cat(a, v), One(NullWord)) /\ Cat(a, v) \in Seq(Word)
      BY <1>1, <3>2, <3>3, CatAssoc, CatType
    <3> QED BY <3>4 DEF EndsNull
  <2>5. \/ c.stop = "NeedInput" /\ c.u.k # "nulls" /\ (c.room = 0 => c.u.k \notin {"word", "full"})
        \/ c.room = 0 /\ c.u.k \in {"none", "nulls", "run"}
    BY <1>7 DEF Unpacked
  <2> HIDE DEF q, o1, b
  <2>6. CASE c.room = 0
    <3>1. q = wa
      BY <1>5, <2>2, <2>6
    <3>2. Len(o1) = WordBytes * wa /\ WordBytes * wa \in Nat
      BY <1>2, <2>2, <3>1, Times
    <3> QED BY <2>3, <2>4, <2>5, <2>6, <3>2 DEF Kept
  <2>7. CASE c.room # 0
    <3>1. q + 1 <= wa
      BY <1>8, <2>2, <2>7
    <3> DEFINE r == q + 1
    <3>5. q \in Nat
      BY <2>2
    <3>6. r \in Nat /\ r <= wa
      BY <3>1, <3>5
    <3>7. WordBytes * r = WordBytes + WordBytes * q /\ WordBytes * q \in Nat
      BY <1>2, <3>5, Times
    <3>4. r \in Nat /\ r <= wa /\ WordBytes * r = WordBytes + WordBytes * q /\ WordBytes * q \in Nat
      BY <3>6, <3>7
    <3> HIDE DEF r
    <3>2. WordBytes * r <= WordBytes * wa /\ WordBytes * wa \in Nat
      BY <1>2, <3>4, TimesMono
    <3>3. Len(o1) < WordBytes * wa
      BY <1>2, <2>2, <3>2, <3>4
    <3> QED BY <2>5, <2>7, <3>2, <3>3 DEF Kept
  <2> QED BY <2>6, <2>7
<1> QED BY <1>6, <1>8, <1>10, <1>11 DEF o1, w1, c, src, room

\* So does a read from one that is not packed.
LEMMA ReadRawSpec ==
    ASSUME NEW E, NEW u, NEW o, NEW w \in Seq(Byte), NEW f \in Seq(Byte),
           NEW words, Holds(E, FALSE, u, o, Cat(w, f), words),
           NEW n \in Nat, NEW wa \in Nat, Len(o) < WordBytes * wa
    PROVE  LET k == Least(Least(n, Len(w)), WordBytes * wa - Len(o))
               w1 == From(w, k)
               o1 == Cat(o, First(w, k))
           IN  /\ w1 \in Seq(Byte)
               /\ Holds(E, FALSE, u, o1, Cat(w1, f), words) /\ Kept(u, o1, wa)
<1> DEFINE k == Least(Least(n, Len(w)), WordBytes * wa - Len(o))
           w1 == From(w, k)
           front == First(w, k)
           o1 == Cat(o, front)
<1>1. /\ o \in Seq(Byte) /\ words \in Seq(Word) /\ u = Idle /\ Cat(o, Cat(w, f)) = Bytes(words)
      /\ Len(o) \in Nat /\ Len(w) \in Nat
  BY LenZero DEF Holds
<1>2. k \in Nat /\ k <= Len(w) /\ Len(o) + k <= WordBytes * wa
  <2>1. WordBytes * wa \in Nat
    BY SizeFacts, Times
  <2> QED BY <1>1, <2>1 DEF Least
<1> HIDE DEF k
<1>3. w1 \in Seq(Byte) /\ front \in Seq(Byte) /\ w = Cat(front, w1) /\ Len(front) = k
  BY <1>2, CutCat
<1> HIDE DEF w1, front
<1>4. o1 \in Seq(Byte) /\ Len(o1) = Len(o) + k /\ Cat(w1, f) \in Seq(Byte)
  BY <1>1, <1>3, CatType, CatLen
<1>5. Cat(o1, Cat(w1, f)) = Bytes(words)
  <2>1. Cat(w, f) = Cat(front, Cat(w1, f))
    BY <1>3, CatAssoc
  <2>2. Cat(o1, Cat(w1, f)) = Cat(o, Cat(front, Cat(w1, f)))
    BY <1>1, <1>3, <1>4, CatAssoc
  <2> QED BY <1>1, <2>1, <2>2
<1>6. Holds(E, FALSE, u, o1, Cat(w1, f), words)
  BY <1>1, <1>4, <1>5 DEF Holds
<1>7. Kept(u, o1, wa)
  <2>1. u.k = "none"
    BY <1>1, Kinds
  <2> HIDE DEF o1
  <2> QED BY <1>2, <1>4, <2>1 DEF Kept
<1> QED BY <1>3, <1>6, <1>7 DEF o1, w1, front, k

(***************************************************************************)
(* Where the reader is                                                     *)
(***************************************************************************)
\* The words behind the table of the next message.
DataOf(ms, i) == Cat(FlattenSeq(ms[i + 1]), LaterOf(ms, i + 1))

\* Before the first word of a table, in the rest of it, in the data, and between messages:
\* the table read so far, the words wanted, the messages read, and the words to come.
AtFirst(ms, tb, wa, i, words) ==
    tb = <<>> /\ wa = 1 /\ i < Len(ms) /\ words = LaterOf(ms, i)
AtRest(ms, tb, wa, i, words) ==
    /\ i < Len(ms)
    /\ \E t \in Seq(Word) :
         /\ tb \in Seq(Word) /\ tb # <<>> /\ t # <<>> /\ TableOf(ms[i + 1]) = Cat(tb, t)
         /\ wa = Len(t) /\ words = Cat(t, DataOf(ms, i))
AtData(ms, tb, wa, i, words) ==
    /\ i < Len(ms) /\ tb = TableOf(ms[i + 1]) /\ wa = Len(FlattenSeq(ms[i + 1])) /\ wa # 0
    /\ wa <= ReadLimit /\ words = DataOf(ms, i)
AtEnd(ms, tb, wa, i, words) ==
    tb = <<>> /\ wa = 1 /\ i <= Len(ms) /\ words = LaterOf(ms, i)

AtBuffer(ms, st, tb, wa, i, words) ==
    \/ st = "first" /\ AtFirst(ms, tb, wa, i, words)
    \/ st = "rest" /\ AtRest(ms, tb, wa, i, words)
    \/ st = "data" /\ AtData(ms, tb, wa, i, words)

BetweenKinds == {"none", "nullCount", "fullCount"}
At(ms, st, tb, wa, i, u, o, words) ==
    \/ AtBuffer(ms, st, tb, wa, i, words) /\ Len(o) < WordBytes * wa /\ u.k # "nulls"
    \/ /\ st \in {"between", "finishing"} /\ AtEnd(ms, tb, wa, i, words)
       /\ o = <<>> /\ u.k \in BetweenKinds

\* The next message and the words behind its table.
LEMMA DataFacts ==
    ASSUME NEW ms \in Seq(Messages), NEW i \in Nat, i < Len(ms)
    PROVE  LET m == ms[i + 1]
           IN  /\ m \in Messages /\ IsMessage(m) /\ FlattenSeq(m) \in Seq(Word)
               /\ TableOf(m) \in Seq(Word) /\ TableOf(m) # <<>>
               /\ DataOf(ms, i) \in Seq(Word) /\ LaterOf(ms, i + 1) \in Seq(Word)
               /\ LaterOf(ms, i) = Cat(TableOf(m), DataOf(ms, i))
               /\ DataOf(ms, i) = Cat(FlattenSeq(m), LaterOf(ms, i + 1))
               /\ SumOf(SegmentLens(m)) = Len(FlattenSeq(m)) /\ Len(FlattenSeq(m)) \in Nat
<1> DEFINE m == ms[i + 1]
<1>1. /\ m \in Messages /\ LaterOf(ms, i + 1) \in Seq(Word)
      /\ LaterOf(ms, i) = Cat(TableOf(m), Cat(FlattenSeq(m), LaterOf(ms, i + 1)))
  BY LaterFacts
<1> HIDE DEF m
<1>2. IsMessage(m)
  BY <1>1 DEF Messages
<1>3. /\ FlattenSeq(m) \in Seq(Word) /\ SumOf(SegmentLens(m)) = Len(FlattenSeq(m))
      /\ Len(FlattenSeq(m)) \in Nat
  BY <1>2, FrameFacts
<1>4. TableOf(m) \in Seq(Word) /\ TableOf(m) # <<>>
  BY <1>2, TableFacts, LenZero
<1>5. DataOf(ms, i) = Cat(FlattenSeq(m), LaterOf(ms, i + 1))
  BY DEF DataOf, m
<1>6. DataOf(ms, i) \in Seq(Word)
  BY <1>1, <1>3, <1>5, CatType
<1> QED BY <1>1, <1>2, <1>3, <1>4, <1>5, <1>6 DEF m

\* What the buffer is to have is to come.
LEMMA WantedComes ==
    ASSUME NEW ms \in Seq(Messages), NEW st, NEW tb, NEW wa, NEW i \in Nat, NEW words,
           AtBuffer(ms, st, tb, wa, i, words)
    PROVE  wa \in Nat \ {0} /\ words \in Seq(Word) /\ wa <= Len(words) /\ i < Len(ms)
<1>1. CASE AtFirst(ms, tb, wa, i, words)
  <2>1. i < Len(ms)
    BY <1>1 DEF AtFirst
  <2> DEFINE T == TableOf(ms[i + 1])
             D == DataOf(ms, i)
  <2>2. T \in Seq(Word) /\ T # <<>> /\ D \in Seq(Word) /\ LaterOf(ms, i) = Cat(T, D)
    BY <2>1, DataFacts
  <2> HIDE DEF T, D
  <2>3. Len(words) = Len(T) + Len(D) /\ Len(T) \in Nat \ {0} /\ Len(D) \in Nat /\ words \in Seq(Word)
    BY <1>1, <2>2, CatLen, CatType, LenZero DEF AtFirst
  <2> QED BY <1>1, <2>1, <2>3 DEF AtFirst
<1>2. CASE AtRest(ms, tb, wa, i, words)
  <2>1. i < Len(ms)
    BY <1>2 DEF AtRest
  <2> DEFINE D == DataOf(ms, i)
  <2>2. PICK t \in Seq(Word) : t # <<>> /\ wa = Len(t) /\ words = Cat(t, D)
    BY <1>2 DEF AtRest
  <2>3. D \in Seq(Word)
    BY <2>1, DataFacts
  <2> HIDE DEF D
  <2>4. Len(words) = Len(t) + Len(D) /\ Len(t) \in Nat \ {0} /\ Len(D) \in Nat /\ words \in Seq(Word)
    BY <2>2, <2>3, CatLen, CatType, LenZero
  <2> QED BY <2>1, <2>2, <2>4
<1>3. CASE AtData(ms, tb, wa, i, words)
  <2>1. i < Len(ms) /\ wa = Len(FlattenSeq(ms[i + 1])) /\ wa # 0 /\ words = DataOf(ms, i)
    BY <1>3 DEF AtData
  <2> DEFINE F == FlattenSeq(ms[i + 1])
             L == LaterOf(ms, i + 1)
  <2>2. F \in Seq(Word) /\ L \in Seq(Word) /\ words = Cat(F, L)
    BY <2>1, DataFacts
  <2>3. wa = Len(F)
    BY <2>1
  <2> HIDE DEF F, L
  <2>4. Len(words) = Len(F) + Len(L) /\ Len(F) \in Nat /\ Len(L) \in Nat /\ words \in Seq(Word)
    BY <2>2, CatLen, CatType, LenZero
  <2> QED BY <2>1, <2>3, <2>4
<1> QED BY <1>1, <1>2, <1>3 DEF AtBuffer

\* No bytes are those of no words.
LEMMA EmptyBytes ==
    ASSUME NEW a \in Seq(Word), Bytes(a) = <<>>
    PROVE  a = <<>>
BY BytesSome

\* Where a slice ends, the unpacker is between words.
LEMMA HoldsKinds ==
    ASSUME NEW E, E \subseteq Nat, NEW pk \in BOOLEAN, NEW u, NEW w, NEW words,
           Holds(E, pk, u, <<>>, w, words), Len(words) \in E, u.k \notin {"word", "full"}
    PROVE  u.k \in BetweenKinds
<1>1. CASE pk
  <2>1. PICK a, rest \in Seq(Word) :
          <<>> = Bytes(a) /\ words = Cat(a, rest) /\ Pend(E, u, w, rest) /\ u \in Unpackers
    BY <1>1 DEF Holds
  <2>2. words = rest
    BY <2>1, EmptyBytes, CatEmpty
  <2>3. u.k \notin {"nulls", "run"}
    BY <2>1, <2>2, AtAnEnd
  <2> QED BY <2>1, <2>3, UnpackerKinds DEF BetweenKinds
<1>2. CASE ~pk
  BY <1>2, Kinds DEF Holds, BetweenKinds
<1> QED BY <1>1, <1>2

MessageSets == {MessageSet(m) : m \in Messages}

(***************************************************************************)
(* What a buffer that is filled leads to: the message is refused for its   *)
(* size, or the words that are still to come are held as before.           *)
(***************************************************************************)
Refused(ms, g, st, g1) ==
    /\ g1 = g
    /\ \/ st = "TooManySegments" /\ Len(ms[Len(g) + 1]) >= SegmentLimit
       \/ st = "MessageTooLarge" /\ SumOf(SegmentLens(ms[Len(g) + 1])) > ReadLimit
GoesOn(E, pk, ms, u, w, st, tb, wa, o, g) ==
    \E words : Holds(E, pk, u, o, w, words) /\ At(ms, st, tb, wa, Len(g), u, o, words)
Gets(ms, g, g1) == g1 = g \/ g1 = Append(g, MessageSet(ms[Len(g) + 1]))
Outcome(E, pk, ms, u, w, g, st, tb, wa, o, g1) ==
    \/ Refused(ms, g, st, g1)
    \/ GoesOn(E, pk, ms, u, w, st, tb, wa, o, g1) /\ Gets(ms, g, g1)

\* An empty buffer is not full.
LEMMA NothingInBuffer ==
    ASSUME NEW wa \in Nat \ {0}, NEW e, e = <<>>
    PROVE  Len(e) < WordBytes * wa
<1>1. Len(e) = 0
  BY SizeFacts
<1>2. WordBytes * wa >= WordBytes /\ WordBytes \in Nat \ {0}
  BY SizeFacts, Times
<1> QED BY <1>1, <1>2

\* A message is complete: the reader is between messages.
LEMMA CompleteSpec ==
    ASSUME NEW ms \in Seq(Messages), got \in Seq(MessageSets), Len(got) < Len(ms),
           NEW pk \in BOOLEAN, NEW u, NEW w, NEW words,
           LET E == Ends(AllSlices(ms)) IN Holds(E, pk, u, <<>>, w, words),
           words = LaterOf(ms, Len(got) + 1), u.k \notin {"word", "full"},
           NEW starts, NEW data, starts = Starts(ms[Len(got) + 1]),
           data = FlattenSeq(ms[Len(got) + 1]), Complete(starts, data)
    PROVE  Outcome(Ends(AllSlices(ms)), pk, ms, u, w, got, stage', table', want', out', got')
<1> DEFINE E == Ends(AllSlices(ms))
           i == Len(got)
           e == <<>>
<1>1. i \in Nat /\ Len(ms) \in Nat /\ i + 1 <= Len(ms)
  BY LenZero
<1>2. /\ stage' = "between" /\ out' = e /\ table' = e /\ want' = 1
      /\ got' = Append(got, SegmentSet(starts, data))
  BY DEF Complete
<1>3. got' = Append(got, MessageSet(ms[i + 1])) /\ Len(got') = i + 1
  <2>1. MessageSet(ms[i + 1]) = SegmentSet(starts, data)
    BY DEF MessageSet
  <2>2. got' = Append(got, MessageSet(ms[i + 1]))
    BY <1>2, <2>1
  <2>3. DataOf(ms, i) \in Seq(Word) /\ ms[i + 1] \in Messages
    BY <1>1, DataFacts
  <2>4. MessageSet(ms[i + 1]) \in MessageSets
    BY <2>3 DEF MessageSets
  <2>5. Len(Append(got, MessageSet(ms[i + 1]))) = i + 1
    BY <2>4, AppendAt
  <2> QED BY <2>2, <2>5
<1>4. u.k \in BetweenKinds
  <2>1. E \subseteq Nat /\ Len(words) \in E
    <3>1. i + 1 \in 0..Len(ms)
      BY <1>1
    <3> QED BY <3>1, EndsHave
  <2>2. Holds(E, pk, u, <<>>, w, words)
    OBVIOUS
  <2> HIDE DEF E
  <2> QED BY <2>1, <2>2, HoldsKinds
<1> DEFINE j == i + 1
<1>5. AtEnd(ms, table', want', j, words)
  BY <1>1, <1>2 DEF AtEnd
<1>6. At(ms, stage', table', want', j, u, out', words)
  <2> HIDE DEF j
  <2> QED BY <1>2, <1>4, <1>5 DEF At
<1>7. Holds(E, pk, u, out', w, words)
  BY <1>2
<1>8. GoesOn(E, pk, ms, u, w, stage', table', want', out', got')
  <2> HIDE DEF E
  <2> QED BY <1>3, <1>6, <1>7 DEF GoesOn, j
<1>9. Gets(ms, got, got')
  BY <1>3 DEF Gets
<1> QED BY <1>8, <1>9 DEF Outcome

\* What is done with the words of a table, complete or not.
LEMMA TableReadSpec ==
    ASSUME NEW ms \in Seq(Messages), got \in Seq(MessageSets), Len(got) < Len(ms),
           NEW pk \in BOOLEAN, NEW u, NEW w, NEW x \in Seq(Word), x # <<>>, NEW t \in Seq(Word),
           TableOf(ms[Len(got) + 1]) = Cat(x, t), NEW words, words = Cat(t, DataOf(ms, Len(got))),
           Holds(Ends(AllSlices(ms)), pk, u, <<>>, w, words),
           u.k \notin {"word", "full"}, u.k = "nulls" => t = <<>>, TableRead(x)
    PROVE  Outcome(Ends(AllSlices(ms)), pk, ms, u, w, got, stage', table', want', out', got')
<1> DEFINE E == Ends(AllSlices(ms))
           i == Len(got)
           m == ms[i + 1]
           D == DataOf(ms, i)
           L == LaterOf(ms, i + 1)
           e == <<>>
<1>1. i \in Nat /\ Len(ms) \in Nat /\ i < Len(ms)
  BY LenZero
<1>2. /\ IsMessage(m) /\ m \in Messages /\ FlattenSeq(m) \in Seq(Word) /\ D \in Seq(Word)
      /\ L \in Seq(Word) /\ D = Cat(FlattenSeq(m), L) /\ SumOf(SegmentLens(m)) = Len(FlattenSeq(m))
      /\ Len(FlattenSeq(m)) \in Nat /\ TableOf(m) \in Seq(Word)
  BY <1>1, DataFacts
<1>3. words = Cat(t, D) /\ TableOf(m) = Cat(x, t)
  OBVIOUS
<1>4. CASE t # <<>>
  <2>1. /\ TryRead(x).err = "Incomplete" /\ TryRead(x).count = Len(m)
        /\ TryRead(x).more = Len(t)
    BY <1>2, <1>3, <1>4, TryReadPart
  <2>2. Len(m) \in Nat /\ SegmentLimit \in Nat /\ Len(t) \in Nat \ {0}
    BY <1>2, <1>4, TableFacts, FramingAssumption, LenZero
  <2>3. CASE Len(m) >= SegmentLimit
    <3>0. ~(Len(m) < SegmentLimit)
      BY <2>2, <2>3
    <3> HIDE DEF m
    <3>1. stage' = "TooManySegments" /\ got' = got
      BY <2>1, <2>3, <3>0 DEF TableRead, Stops
    <3>2. Refused(ms, got, stage', got')
      BY <2>3, <3>1 DEF Refused, m
    <3> QED BY <3>2 DEF Outcome
  <2>4. CASE ~(Len(m) >= SegmentLimit)
    <3>1. Len(m) < SegmentLimit
      BY <2>2, <2>4
    <3>2. stage' = "rest" /\ got' = got /\ want' = Len(t) /\ out' = e /\ table' = x
      BY <2>1, <2>4, <3>1 DEF TableRead, Fills
    <3>3. AtRest(ms, table', want', i, words)
      <4> HIDE DEF D
      <4>1. i < Len(ms) /\ table' \in Seq(Word) /\ table' # <<>> /\ TableOf(ms[i + 1]) = Cat(table', t)
            /\ want' = Len(t) /\ words = Cat(t, DataOf(ms, i))
        BY <1>1, <1>3, <3>2 DEF D
      <4> QED BY <1>4, <4>1 DEF AtRest
    <3>4. Len(out') < WordBytes * want'
      BY <2>2, <3>2, NothingInBuffer
    <3>5. At(ms, stage', table', want', i, u, out', words)
      <4> HIDE DEF i
      <4> QED BY <1>4, <3>2, <3>3, <3>4 DEF At, AtBuffer
    <3>6. GoesOn(E, pk, ms, u, w, stage', table', want', out', got')
      <4>1. Holds(E, pk, u, out', w, words) /\ Len(got') = i
        BY <3>2
      <4> HIDE DEF E, i
      <4> QED BY <3>5, <4>1 DEF GoesOn
    <3> QED BY <3>2, <3>6 DEF Outcome, Gets
  <2> QED BY <2>3, <2>4
<1>5. CASE t = <<>>
  <2>1. x = TableOf(m) /\ words = D
    BY <1>2, <1>3, <1>5, CatEmpty
  <2>2. TryRead(x).err = "" /\ TryRead(x).lens = SegmentLens(m)
    <3>1. e \in Seq(Word) /\ Cat(TableOf(m), e) = x
      BY <1>2, <2>1, CatFacts, CatEmpty
    <3> HIDE DEF e, m
    <3>2. TryRead(Cat(TableOf(m), e)).err = "" /\ TryRead(Cat(TableOf(m), e)).lens = SegmentLens(m)
      BY <1>2, <3>1, TryReadWhole
    <3> QED BY <3>1, <3>2
  <2> DEFINE f == FromStream(SegmentLens(m), ReadLimit)
             sum == SumOf(SegmentLens(m))
  <2>3. /\ sum <= ReadLimit => f.err = "" /\ f.len = sum /\ f.starts = Starts(m)
        /\ sum > ReadLimit => f.err = "MessageTooLarge"
    <3>1. ReadLimit \in Nat
      BY FramingAssumption
    <3> HIDE DEF m
    <3> QED BY <1>2, <3>1, FromStreamSpec
  <2>4. sum \in Nat /\ ReadLimit \in Nat /\ sum = Len(FlattenSeq(m))
    BY <1>2, FramingAssumption
  <2>5. f = FromStream(TryRead(x).lens, ReadLimit)
    BY <2>2
  <2> HIDE DEF f, m
  <2>6. CASE sum > ReadLimit
    <3>1. stage' = "MessageTooLarge" /\ got' = got
      BY <2>2, <2>3, <2>5, <2>6 DEF TableRead, Stops
    <3>2. Refused(ms, got, stage', got')
      BY <2>6, <3>1 DEF Refused, m
    <3> QED BY <3>2 DEF Outcome
  <2>7. CASE sum <= ReadLimit /\ sum = 0
    <3>0. f.err = "" /\ f.len = 0 /\ ~(f.len > 0) /\ f.starts = Starts(m)
      <4> HIDE DEF sum
      <4>1. f.err = "" /\ f.len = sum /\ f.starts = Starts(m)
        BY <2>3, <2>7
      <4>2. ~(0 > 0)
        OBVIOUS
      <4>3. f.len = 0
        BY <2>7, <4>1
      <4> QED BY <4>1, <4>2, <4>3
    <3>1. Complete(Starts(m), <<>>)
      BY <2>2, <2>5, <3>0 DEF TableRead
    <3>2. FlattenSeq(m) = <<>>
      BY <1>2, <2>4, <2>7, LenZero
    <3>3. D = L
      BY <1>2, <3>2, CatEmpty
    <3> DEFINE st == Starts(m)
               da == FlattenSeq(m)
    <3>4. words = LaterOf(ms, Len(got) + 1) /\ st = Starts(ms[Len(got) + 1])
          /\ da = FlattenSeq(ms[Len(got) + 1]) /\ Complete(st, da)
      BY <2>1, <3>1, <3>2, <3>3 DEF m
    <3> HIDE DEF st, da
    <3>5. Holds(E, pk, u, <<>>, w, words)
      OBVIOUS
    <3> QED BY <3>4, <3>5, CompleteSpec
  <2>8. CASE sum <= ReadLimit /\ sum # 0
    <3>1. stage' = "data" /\ want' = sum /\ out' = e /\ table' = x /\ got' = got
      <4> HIDE DEF sum
      <4>0. sum > 0
        BY <2>4, <2>8
      <4>2. f.err = "" /\ f.len = sum
        BY <2>3, <2>8
      <4>1. f.err = "" /\ f.len = sum /\ f.len > 0 /\ f.len # 0
        BY <2>8, <4>0, <4>2
      <4> QED BY <2>2, <2>5, <4>1 DEF TableRead, Fills
    <3>2. AtData(ms, table', want', i, words)
      BY <1>1, <2>1, <2>4, <2>8, <3>1 DEF AtData, m
    <3>3. Len(out') < WordBytes * want'
      BY <2>4, <2>8, <3>1, NothingInBuffer
    <3>4. u.k # "nulls"
      <4>1. u.k \in BetweenKinds
        <5>1. E \subseteq Nat /\ Len(words) \in E
          <6>1. i \in 0..Len(ms) - 1
            BY <1>1
          <6>2. Len(Cat(FlattenSeq(m), L)) \in E
            BY <6>1, EndsHave DEF m
          <6> QED BY <1>2, <2>1, <6>2, EndsHave
        <5>2. Holds(E, pk, u, <<>>, w, words)
          OBVIOUS
        <5> HIDE DEF E
        <5> QED BY <5>1, <5>2, HoldsKinds
      <4> QED BY <4>1 DEF BetweenKinds
    <3>5. At(ms, stage', table', want', i, u, out', words)
      <4> HIDE DEF i
      <4> QED BY <3>1, <3>2, <3>3, <3>4 DEF At, AtBuffer
    <3>6. GoesOn(E, pk, ms, u, w, stage', table', want', out', got')
      <4>1. Holds(E, pk, u, out', w, words) /\ Len(got') = i
        BY <3>1
      <4> HIDE DEF E, i
      <4> QED BY <3>5, <4>1 DEF GoesOn
    <3> QED BY <3>1, <3>6 DEF Outcome, Gets
  <2> QED BY <2>4, <2>6, <2>7, <2>8
<1> QED BY <1>4, <1>5

\* One word that ends with a null is null.
LEMMA EndsWithNull ==
    ASSUME NEW a \in Seq(Word), Len(a) = 1, EndsNull(a)
    PROVE  a = One(NullWord)
<1>1. PICK v \in Seq(Word) : a = Cat(v, One(NullWord))
  BY DEF EndsNull
<1>2. One(NullWord) \in Seq(Word) /\ Len(One(NullWord)) = 1
  BY ByteFacts, OneType
<1>3. Len(v) = 0
  <2>1. Len(Cat(v, One(NullWord))) = Len(v) + Len(One(NullWord)) /\ Len(v) \in Nat
    BY <1>2, CatLen
  <2> DEFINE l == Len(v)
             k == Len(One(NullWord))
  <2>2. 1 = l + k /\ k = 1 /\ l \in Nat
    BY <1>1, <1>2, <2>1
  <2> HIDE DEF l, k
  <2>3. l = 0
    BY <2>2
  <2> QED BY <2>3 DEF l
<1>4. v = <<>>
  BY <1>3, LenZero
<1> QED BY <1>1, <1>2, <1>4, CatEmpty

\* The first word of a table is read.
LEMMA FirstFull ==
    ASSUME NEW ms \in Seq(Messages), got \in Seq(MessageSets), NEW pk \in BOOLEAN, NEW u, NEW w,
           NEW words, NEW tb, NEW wa, AtFirst(ms, tb, wa, Len(got), words), NEW a \in Seq(Word),
           NEW rest \in Seq(Word), Len(a) = wa, words = Cat(a, rest),
           Holds(Ends(AllSlices(ms)), pk, u, <<>>, w, rest), u.k \notin {"word", "full"},
           u.k = "nulls" => EndsNull(a), TableRead(tb \o a)
    PROVE  Outcome(Ends(AllSlices(ms)), pk, ms, u, w, got, stage', table', want', out', got')
<1> DEFINE i == Len(got)
           m == ms[i + 1]
           T == TableOf(m)
           D == DataOf(ms, i)
<1>1. tb = <<>> /\ wa = 1 /\ i < Len(ms) /\ words = LaterOf(ms, i) /\ i \in Nat
  BY LenZero DEF AtFirst
<1>2. IsMessage(m) /\ T \in Seq(Word) /\ T # <<>> /\ D \in Seq(Word) /\ words = Cat(T, D)
  BY <1>1, DataFacts
<1>3. Len(a) = 1 /\ a # <<>> /\ 1 <= Len(T)
  <2>1. Len(T) \in Nat /\ Len(T) # 0
    <3> HIDE DEF T
    <3> QED BY <1>2, LenZero
  <2>2. Len(a) = 1 /\ 1 # 0
    BY <1>1
  <2>3. a # <<>>
    BY <2>2, LenZero
  <2> HIDE DEF T
  <2> QED BY <2>1, <2>2, <2>3
<1>4. PICK t \in Seq(Word) : T = Cat(a, t) /\ rest = Cat(t, D)
  <2>1. Cat(a, rest) = Cat(T, D) /\ Len(a) <= Len(T)
    BY <1>2, <1>3
  <2> HIDE DEF T, D
  <2> QED BY <1>2, <2>1, Overlap
<1>5. u.k = "nulls" => t = <<>>
  <2> SUFFICES ASSUME u.k = "nulls", t # <<>> PROVE FALSE
    OBVIOUS
  <2>1. a = One(NullWord) /\ NullWord \in Word
    BY <1>3, EndsWithNull, ByteFacts
  <2>2. TableOf(m) = Cat(One(NullWord), t)
    BY <1>4, <2>1
  <2> HIDE DEF m
  <2> QED BY <1>2, <2>1, <2>2, TableBegins
<1>6. tb \o a = a
  <2>1. Cat(<<>>, a) = a
    BY CatEmpty
  <2> QED BY <1>1, <2>1 DEF Cat
<1>7. TableRead(a)
  BY <1>6
<1>8. TableOf(ms[Len(got) + 1]) = Cat(a, t) /\ rest = Cat(t, DataOf(ms, Len(got)))
      /\ Len(got) < Len(ms)
  BY <1>1, <1>4
<1> HIDE DEF T, D, m, i
<1> QED BY <1>3, <1>5, <1>7, <1>8, TableReadSpec

\* The table is read.
LEMMA RestFull ==
    ASSUME NEW ms \in Seq(Messages), got \in Seq(MessageSets), NEW pk \in BOOLEAN, NEW u, NEW w,
           NEW words, NEW tb, NEW wa, AtRest(ms, tb, wa, Len(got), words), NEW a \in Seq(Word),
           NEW rest \in Seq(Word), Len(a) = wa, words = Cat(a, rest),
           Holds(Ends(AllSlices(ms)), pk, u, <<>>, w, rest), u.k \notin {"word", "full"},
           TableRead(tb \o a)
    PROVE  Outcome(Ends(AllSlices(ms)), pk, ms, u, w, got, stage', table', want', out', got')
<1> DEFINE i == Len(got)
           T == TableOf(ms[i + 1])
           D == DataOf(ms, i)
           e == <<>>
<1>1. i < Len(ms) /\ i \in Nat
  BY LenZero DEF AtRest
<1>2. PICK t \in Seq(Word) : /\ tb \in Seq(Word) /\ tb # <<>> /\ T = Cat(tb, t) /\ wa = Len(t)
                             /\ words = Cat(t, D)
  BY DEF AtRest
<1>3. D \in Seq(Word) /\ T \in Seq(Word) /\ T # <<>>
  BY <1>1, DataFacts
<1>4. a = t /\ rest = D
  <2>1. Cat(a, rest) = Cat(t, D) /\ Len(a) = Len(t)
    BY <1>2
  <2> HIDE DEF D
  <2> QED BY <1>3, <2>1, CatCancel
<1>5. tb \o a = T
  BY <1>2, <1>4 DEF Cat
<1>6. e \in Seq(Word) /\ Cat(T, e) = T /\ Cat(e, D) = D
  BY <1>3, CatFacts, CatEmpty
<1>7. TableRead(T) /\ TableOf(ms[Len(got) + 1]) = Cat(T, e) /\ rest = Cat(e, DataOf(ms, Len(got)))
      /\ Len(got) < Len(ms)
  BY <1>1, <1>4, <1>5, <1>6
<1>8. u.k = "nulls" => e = <<>>
  OBVIOUS
<1> HIDE DEF T, D, i, e
<1> QED BY <1>3, <1>6, <1>7, <1>8, TableReadSpec

\* The data is read.
LEMMA DataFull ==
    ASSUME NEW ms \in Seq(Messages), got \in Seq(MessageSets), NEW pk \in BOOLEAN, NEW u, NEW w,
           NEW words, NEW tb, NEW wa, AtData(ms, tb, wa, Len(got), words), NEW a \in Seq(Word),
           NEW rest \in Seq(Word), Len(a) = wa, words = Cat(a, rest),
           Holds(Ends(AllSlices(ms)), pk, u, <<>>, w, rest), u.k \notin {"word", "full"},
           Complete(FromStream(TryRead(tb).lens, ReadLimit).starts, a)
    PROVE  Outcome(Ends(AllSlices(ms)), pk, ms, u, w, got, stage', table', want', out', got')
<1> DEFINE i == Len(got)
           m == ms[i + 1]
           F == FlattenSeq(m)
           L == LaterOf(ms, i + 1)
           e == <<>>
           st == FromStream(TryRead(tb).lens, ReadLimit).starts
<1>1. /\ i < Len(ms) /\ i \in Nat /\ tb = TableOf(m) /\ wa = Len(F) /\ wa <= ReadLimit
      /\ words = DataOf(ms, i)
  BY LenZero DEF AtData
<1>2. /\ IsMessage(m) /\ F \in Seq(Word) /\ L \in Seq(Word) /\ words = Cat(F, L)
      /\ SumOf(SegmentLens(m)) = Len(F) /\ TableOf(m) \in Seq(Word)
  BY <1>1, DataFacts
<1>3. a = F /\ rest = L
  <2>1. Cat(a, rest) = Cat(F, L) /\ Len(a) = Len(F)
    BY <1>1, <1>2
  <2> HIDE DEF F, L
  <2> QED BY <1>2, <2>1, CatCancel
<1>4. st = Starts(m)
  <2>1. TryRead(tb).lens = SegmentLens(m)
    <3>1. e \in Seq(Word) /\ Cat(TableOf(m), e) = tb
      BY <1>1, <1>2, CatFacts, CatEmpty
    <3> HIDE DEF e, m
    <3>2. TryRead(Cat(TableOf(m), e)).lens = SegmentLens(m)
      BY <1>2, <3>1, TryReadWhole
    <3> QED BY <3>1, <3>2
  <2>2. ReadLimit \in Nat /\ SumOf(SegmentLens(m)) <= ReadLimit
    BY <1>1, <1>2, FramingAssumption
  <2> HIDE DEF m
  <2>3. FromStream(SegmentLens(m), ReadLimit).starts = Starts(m)
    BY <1>2, <2>2, FromStreamSpec
  <2> QED BY <2>1, <2>3
<1>5. /\ Len(got) < Len(ms) /\ rest = LaterOf(ms, Len(got) + 1)
      /\ st = Starts(ms[Len(got) + 1]) /\ a = FlattenSeq(ms[Len(got) + 1]) /\ Complete(st, a)
  BY <1>1, <1>3, <1>4
<1> HIDE DEF i, m, F, L, st
<1> QED BY <1>5, CompleteSpec

\* The buffer has got more, or is full.
LEMMA FilledSpec ==
    ASSUME NEW ms \in Seq(Messages), got \in Seq(MessageSets), NEW pk \in BOOLEAN, NEW u, NEW w,
           NEW words, AtBuffer(ms, stage, table, want, Len(got), words), NEW o,
           Holds(Ends(AllSlices(ms)), pk, u, o, w, words), Kept(u, o, want), Filled(o)
    PROVE  Outcome(Ends(AllSlices(ms)), pk, ms, u, w, got, stage', table', want', out', got')
<1> DEFINE E == Ends(AllSlices(ms))
<1>1. want \in Nat \ {0} /\ Len(got) < Len(ms) /\ Len(got) \in Nat
  BY LenZero, WantedComes
<1>2. WordBytes * want \in Nat /\ Len(o) \in Nat
  <2>1. o \in Seq(Byte)
    BY DEF Holds
  <2> QED BY <1>1, <2>1, LenZero, SizeFacts, Times
<1>3. CASE Len(o) < WordBytes * want
  <2>1. out' = o /\ UNCHANGED <<stage, table, want, got>>
    BY <1>3 DEF Filled
  <2>2. u.k # "nulls"
    BY <1>3 DEF Kept
  <2>3. At(ms, stage', table', want', Len(got'), u, out', words)
    BY <1>3, <2>1, <2>2 DEF At
  <2>4. Holds(E, pk, u, out', w, words)
    BY <2>1
  <2> HIDE DEF E
  <2>5. GoesOn(E, pk, ms, u, w, stage', table', want', out', got')
    BY <2>3, <2>4 DEF GoesOn
  <2>6. Gets(ms, got, got')
    BY <2>1 DEF Gets
  <2> QED BY <2>5, <2>6 DEF Outcome, E
<1>4. CASE ~(Len(o) < WordBytes * want)
  <2>1. Len(o) = WordBytes * want
    BY <1>2, <1>4 DEF Kept
  <2>2. PICK a, rest \in Seq(Word) :
          /\ Len(a) = want /\ words = Cat(a, rest) /\ Words(o) = a
          /\ Holds(E, pk, u, <<>>, w, rest)
    <3> HIDE DEF E
    <3> QED BY <1>1, <2>1, HoldsFull DEF E
  <2>3. u.k \notin {"word", "full"} /\ (u.k = "nulls" => EndsNull(a))
    BY <2>1, <2>2 DEF Kept
  <2>4. CASE stage = "first" /\ AtFirst(ms, table, want, Len(got), words)
    <3>1. TableRead(table \o a)
      BY <1>4, <2>2, <2>4 DEF Filled
    <3>2. Len(a) = want
      BY <2>2
    <3> QED BY <2>2, <2>3, <2>4, <3>1, <3>2, FirstFull
  <2>5. CASE stage = "rest" /\ AtRest(ms, table, want, Len(got), words)
    <3>1. TableRead(table \o a)
      BY <1>4, <2>2, <2>5 DEF Filled
    <3> QED BY <2>2, <2>3, <2>5, <3>1, RestFull
  <2>6. CASE stage = "data" /\ AtData(ms, table, want, Len(got), words)
    <3>1. Complete(FromStream(TryRead(table).lens, ReadLimit).starts, a)
      BY <1>4, <2>2, <2>6 DEF Filled
    <3> QED BY <2>2, <2>3, <2>6, <3>1, DataFull
  <2> QED BY <2>4, <2>5, <2>6 DEF AtBuffer
<1> QED BY <1>3, <1>4

(***************************************************************************)
(* The writer                                                              *)
(***************************************************************************)
\* The bytes f the writer has still to write, if it does not fail.
Owed(pk, E, td, p, f) ==
    \/ td = <<>> /\ f = <<>>
    \/ td # <<>> /\ pk /\ Owes(E, p, FlattenSeq(Tail(td)), f)
    \/ td # <<>> /\ ~pk /\ f = Cat(p.copy, Cat(Bytes(p.input), Bytes(FlattenSeq(Tail(td)))))

WriterOk(pk, slices, td, p) ==
    /\ td \in Seq(Seq(Word)) /\ p.input \in Seq(Word) /\ p.copy \in Seq(Byte)
    /\ pk => /\ \E A \in Seq(Seq(Word)) : slices = Cat(A, td)
             /\ td # <<>> => Len(p.input) <= Len(Head(td))

\* The slice being written and those behind it.
LEMMA SlicesSplit ==
    ASSUME NEW td \in Seq(Seq(Word)), td # <<>>
    PROVE  /\ Head(td) \in Seq(Word) /\ Tail(td) \in Seq(Seq(Word))
           /\ td = Cat(One(Head(td)), Tail(td)) /\ FlattenSeq(Tail(td)) \in Seq(Word)
           /\ FlattenSeq(td) = Cat(Head(td), FlattenSeq(Tail(td)))
<1> DEFINE V == Seq(Word)
           h == Head(td)
           l == Tail(td)
<1>1. h \in V /\ l \in Seq(V) /\ td = Cat(One(h), l)
  <2>1. td \in Seq(V)
    OBVIOUS
  <2> HIDE DEF V
  <2> QED BY <2>1, UnconsCat
<1> HIDE DEF h, l
<1>2. FlattenSeq(l) \in V /\ FlattenSeq(td) = Cat(h, FlattenSeq(l))
  BY <1>1, FlatType, FlatCons
<1> QED BY <1>1, <1>2 DEF h, l

\* What the writer owes is bytes.
LEMMA OwedType ==
    ASSUME NEW pk, NEW E, NEW slices, NEW td, NEW p, NEW f, WriterOk(pk, slices, td, p),
           Owed(pk, E, td, p, f)
    PROVE  f \in Seq(Byte)
<1>1. td \in Seq(Seq(Word)) /\ p.input \in Seq(Word) /\ p.copy \in Seq(Byte)
  BY DEF WriterOk
<1>2. CASE td = <<>> /\ f = <<>>
  BY <1>2
<1>3. CASE td # <<>> /\ pk /\ Owes(E, p, FlattenSeq(Tail(td)), f)
  BY <1>1, <1>3, OwesType
<1>4. CASE td # <<>> /\ ~pk /\ f = Cat(p.copy, Cat(Bytes(p.input), Bytes(FlattenSeq(Tail(td)))))
  <2> DEFINE a == Bytes(p.input)
             b == Bytes(FlattenSeq(Tail(td)))
             c == p.copy
  <2>1. a \in Seq(Byte) /\ b \in Seq(Byte) /\ c \in Seq(Byte)
    BY <1>1, <1>4, SlicesSplit, BytesFacts
  <2>2. f = Cat(c, Cat(a, b))
    BY <1>4
  <2> HIDE DEF a, b, c
  <2> QED BY <2>1, <2>2, CatType
<1> QED BY <1>2, <1>3, <1>4 DEF Owed

\* There is always something that completes the stream.
LEMMA OwedExists ==
    ASSUME NEW pk, NEW E, E \subseteq Nat, NEW slices, NEW td, NEW p, WriterOk(pk, slices, td, p)
    PROVE  \E f \in Seq(Byte) : Owed(pk, E, td, p, f)
<1> SUFFICES \E f : Owed(pk, E, td, p, f)
  BY OwedType
<1>1. td \in Seq(Seq(Word)) /\ p.input \in Seq(Word) /\ p.copy \in Seq(Byte)
  BY DEF WriterOk
<1>2. CASE td = <<>>
  BY <1>2 DEF Owed
<1>3. CASE td # <<>> /\ ~pk
  BY <1>3 DEF Owed
<1>4. CASE td # <<>> /\ pk
  <2> DEFINE l == FlattenSeq(Tail(td))
             i == p.input
  <2>1. Cat(i, l) \in Seq(Word)
    <3>1. l \in Seq(Word) /\ i \in Seq(Word)
      BY <1>1, <1>4, SlicesSplit
    <3> HIDE DEF l, i
    <3> QED BY <3>1, CatType
  <2>2. PICK g : Codes(E, g, Cat(i, l))
    <3> HIDE DEF l, i
    <3> QED BY <2>1, CodeExists
  <2>3. Owes(E, p, l, Cat(p.copy, g))
    BY <2>2 DEF Owes
  <2> QED BY <1>4, <2>3 DEF Owed
<1> QED BY <1>2, <1>3, <1>4

\* What is left when a packer is through is owed by the next one.
LEMMA NextPacker ==
    ASSUME NEW E, NEW p, p.input = <<>>, p.copy = <<>>, NEW td \in Seq(Seq(Word)), NEW f,
           Owed(TRUE, E, td, PackerAt(td), f)
    PROVE  Owes(E, p, FlattenSeq(td), f)
<1> SUFFICES ASSUME NEW e, e = <<>> PROVE Owes(E, p, FlattenSeq(td), f)
  OBVIOUS
<1> DEFINE later == FlattenSeq(td)
<1>1. later \in Seq(Word) /\ e \in Seq(Byte) /\ e \in Seq(Word)
  BY FlatType, CatFacts
<1>2. SUFFICES Codes(E, f, later)
  <2>1. f \in Seq(Byte)
    BY <1>2, CodesType
  <2>2. Cat(p.input, later) = later /\ f = Cat(p.copy, f)
    <3> HIDE DEF later
    <3> QED BY <1>1, <2>1, CatEmpty
  <2> QED BY <1>2, <2>2 DEF Owes
<1>3. CASE td = <<>>
  <2>1. f = <<>> /\ later = <<>>
    BY <1>3, FlatEmpty DEF Owed
  <2> QED BY <2>1, CodesEmpty
<1>4. CASE td # <<>>
  <2> DEFINE h == Head(td)
             l == FlattenSeq(Tail(td))
  <2>1. h \in Seq(Word) /\ l \in Seq(Word) /\ later = Cat(h, l)
    BY <1>4, SlicesSplit
  <2>2. Owes(E, Packer(h), l, f)
    BY <1>4 DEF Owed, PackerAt
  <2>3. Packer(h).input = h /\ Packer(h).copy = e
    BY DEF Packer
  <2> HIDE DEF h, l, later
  <2>4. PICK g : Codes(E, g, Cat(h, l)) /\ f = Cat(e, g)
    BY <2>2, <2>3 DEF Owes
  <2>5. g \in Seq(Byte)
    BY <2>4, CodesType
  <2>6. f = g
    BY <2>4, <2>5, CatEmpty
  <2> QED BY <2>1, <2>4, <2>6
<1> QED BY <1>3, <1>4

\* The packer of the next slice.
LEMMA PackerAtOk ==
    ASSUME NEW td \in Seq(Seq(Word))
    PROVE  /\ PackerAt(td).input \in Seq(Word) /\ PackerAt(td).copy \in Seq(Byte)
           /\ td # <<>> => Len(PackerAt(td).input) <= Len(Head(td))
<1>1. CASE td = <<>>
  <2>1. PackerAt(td).input = <<>> /\ PackerAt(td).copy = <<>>
    BY <1>1 DEF PackerAt, Packer
  <2>2. \A S : <<>> \in Seq(S)
    BY CatFacts
  <2>3. PackerAt(td).input \in Seq(Word)
    BY <2>1, <2>2
  <2>4. PackerAt(td).copy \in Seq(Byte)
    BY <2>1, <2>2
  <2> QED BY <1>1, <2>3, <2>4
<1>2. CASE td # <<>>
  <2>1. PackerAt(td).input = Head(td) /\ PackerAt(td).copy = <<>>
    BY <1>2 DEF PackerAt, Packer
  <2>2. Head(td) \in Seq(Word)
    BY <1>2, SlicesSplit
  <2>3. Len(Head(td)) \in Nat
    BY <2>2, LenZero
  <2>4. PackerAt(td).copy \in Seq(Byte)
    <3>1. \A S : <<>> \in Seq(S)
      BY CatFacts
    <3> QED BY <2>1, <3>1
  <2> QED BY <2>1, <2>2, <2>3, <2>4
<1> QED BY <1>1, <1>2

\* A turn of the writer writes the front of what it owes.
LEMMA PackStep ==
    ASSUME NEW slices \in Seq(Seq(Word)), NEW td, NEW p, WriterOk(TRUE, slices, td, p), td # <<>>,
           NEW n \in Nat
    PROVE  LET r == Pack(p, n)
               td1 == IF r.completed THEN Tail(td) ELSE td
               p1 == IF r.completed THEN PackerAt(Tail(td)) ELSE r.packer
           IN  /\ r.bytes \in Seq(Byte) /\ WriterOk(TRUE, slices, td1, p1)
               /\ \A f : Owed(TRUE, Ends(slices), td1, p1, f) =>
                           Owed(TRUE, Ends(slices), td, p, Cat(r.bytes, f))
<1> DEFINE E == Ends(slices)
           s == Head(td)
           B == Tail(td)
           later == FlattenSeq(B)
           r == Pack(p, n)
<1>1. td \in Seq(Seq(Word)) /\ p.input \in Seq(Word) /\ p.copy \in Seq(Byte)
      /\ Len(p.input) <= Len(s)
  BY DEF WriterOk
<1>2. PICK A \in Seq(Seq(Word)) : slices = Cat(A, td)
  BY DEF WriterOk
<1>3. s \in Seq(Word) /\ B \in Seq(Seq(Word)) /\ td = Cat(One(s), B) /\ later \in Seq(Word)
  BY <1>1, SlicesSplit
<1> HIDE DEF s, B, later
<1>4. NoEnd(E, Len(later), Len(s)) /\ E \subseteq Nat
  <2>1. slices = Cat(A, Cat(One(s), B))
    BY <1>2, <1>3
  <2>2. NoEnd(Ends(Cat(A, Cat(One(s), B))), Len(FlattenSeq(B)), Len(s))
    BY <1>3, EndsApart
  <2>3. E \subseteq Nat
    BY DEF Ends
  <2> QED BY <2>1, <2>2, <2>3 DEF later
<1> HIDE DEF E
<1>5. NoEnd(E, Len(later), Len(p.input))
  <2> DEFINE l == Len(later)
             m == Len(s)
             k == Len(p.input)
  <2>1. l \in Nat /\ m \in Nat /\ k \in Nat /\ k <= m /\ NoEnd(E, l, m)
    BY <1>1, <1>3, <1>4, LenZero
  <2> HIDE DEF l, m, k
  <2>2. NoEnd(E, l, k)
    BY <1>4, <2>1, NoEndLess
  <2> QED BY <2>2 DEF l, k
<1>6. /\ r.packer.input \in Seq(Word) /\ r.packer.copy \in Seq(Byte)
      /\ Len(r.packer.input) <= Len(p.input) /\ r.bytes \in Seq(Byte)
      /\ r.completed = (r.packer.copy = <<>> /\ r.packer.input = <<>>)
      /\ \A f : Owes(E, r.packer, later, f) => Owes(E, p, later, Cat(r.bytes, f))
  BY <1>1, <1>3, <1>4, <1>5, PackSpec
<1> HIDE DEF r
<1>7. \A f : Owes(E, p, later, f) => Owed(TRUE, E, td, p, f)
  BY DEF Owed, later, B
<1>8. CASE r.completed
  <2>1. r.packer.copy = <<>> /\ r.packer.input = <<>>
    BY <1>6, <1>8
  <2>2. \A f : Owed(TRUE, E, B, PackerAt(B), f) => Owes(E, r.packer, later, f)
    BY <1>3, <2>1, NextPacker DEF later
  <2>3. WriterOk(TRUE, slices, B, PackerAt(B))
    <3> DEFINE C == Cat(A, One(s))
               V == Seq(Word)
    <3>1. C \in Seq(Seq(Word)) /\ slices = Cat(C, B)
      <4>1. A \in Seq(V) /\ s \in V /\ B \in Seq(V)
        BY <1>2, <1>3
      <4> HIDE DEF V
      <4>2. C \in Seq(V) /\ Cat(A, Cat(One(s), B)) = Cat(C, B)
        <5> DEFINE x == One(s)
        <5>1. x \in Seq(V)
          BY <4>1, OneType
        <5> HIDE DEF x
        <5>2. Cat(A, x) \in Seq(V) /\ Cat(A, Cat(x, B)) = Cat(Cat(A, x), B)
          BY <4>1, <5>1, CatType, CatAssoc
        <5> QED BY <5>2 DEF x
      <4> QED BY <1>2, <1>3, <4>2 DEF V
    <3> HIDE DEF C
    <3> QED BY <1>3, <3>1, PackerAtOk DEF WriterOk
  <2> QED BY <1>6, <1>7, <1>8, <2>2, <2>3 DEF E, r, B
<1>9. CASE ~r.completed
  <2>1. \A f : Owed(TRUE, E, td, r.packer, f) => Owes(E, r.packer, later, f)
    BY DEF Owed, later, B
  <2>2. WriterOk(TRUE, slices, td, r.packer)
    <3>1. Len(r.packer.input) <= Len(s)
      <4>1. Len(r.packer.input) \in Nat /\ Len(p.input) \in Nat /\ Len(s) \in Nat
        BY <1>1, <1>3, <1>6, LenZero
      <4> QED BY <1>1, <1>6, <4>1
    <3> QED BY <1>1, <1>2, <1>6, <3>1 DEF WriterOk, s
  <2> QED BY <1>6, <1>7, <1>9, <2>1, <2>2 DEF E, r, B
<1> QED BY <1>8, <1>9

\* What is unwritten is what is owed.
LEMMA UnwrittenFacts ==
    ASSUME NEW pk, NEW slices, WriterOk(pk, slices, todo, packer), todo # <<>>
    PROVE  /\ Unwritten \in Seq(Byte)
           /\ ~pk => \A E : Owed(pk, E, todo, packer, Unwritten)
<1> DEFINE a == packer.copy
           b == Bytes(packer.input)
           c == Bytes(FlattenSeq(Tail(todo)))
<1>1. a \in Seq(Byte) /\ b \in Seq(Byte) /\ c \in Seq(Byte)
  <2>1. todo \in Seq(Seq(Word)) /\ packer.input \in Seq(Word) /\ packer.copy \in Seq(Byte)
    BY DEF WriterOk
  <2> QED BY <2>1, SlicesSplit, BytesFacts
<1>2. Unwritten = Cat(Cat(a, b), c)
  BY DEF Unwritten, Cat
<1> HIDE DEF a, b, c
<1>3. Unwritten = Cat(a, Cat(b, c)) /\ Unwritten \in Seq(Byte)
  BY <1>1, <1>2, CatAssoc, CatType
<1>4. ~pk => \A E : Owed(pk, E, todo, packer, Unwritten)
  BY <1>3 DEF Owed, a, b, c
<1> QED BY <1>3, <1>4

\* A write takes any part of what is unwritten.
LEMMA RawStep ==
    ASSUME NEW slices, WriterOk(FALSE, slices, todo, packer), todo # <<>>, NEW n \in Nat
    PROVE  LET k == Least(n, Len(Unwritten))
               d == First(Unwritten, k)
               td1 == IF k = Len(Unwritten) THEN <<>> ELSE <<<<>>>>
               p1 == [input |-> <<>>, copy |-> From(Unwritten, k)]
           IN  /\ d \in Seq(Byte) /\ WriterOk(FALSE, slices, td1, p1)
               /\ \A E, f : Owed(FALSE, E, td1, p1, f) => Owed(FALSE, E, todo, packer, Cat(d, f))
<1> DEFINE e == <<>>
           k == Least(n, Len(Unwritten))
           d == First(Unwritten, k)
           r == From(Unwritten, k)
           td1 == IF k = Len(Unwritten) THEN e ELSE One(e)
           p1 == [input |-> e, copy |-> r]
<1>1. Unwritten \in Seq(Byte) /\ \A E : Owed(FALSE, E, todo, packer, Unwritten)
  BY UnwrittenFacts
<1>2. k \in Nat /\ k <= Len(Unwritten)
  <2>1. Len(Unwritten) \in Nat
    BY <1>1, LenZero
  <2> QED BY <2>1 DEF Least
<1> HIDE DEF k
<1>3. d \in Seq(Byte) /\ r \in Seq(Byte) /\ Unwritten = Cat(d, r) /\ Len(r) = Len(Unwritten) - k
  BY <1>1, <1>2, CutCat
<1> HIDE DEF d, r
<1>4. e \in Seq(Word) /\ e \in Seq(Byte) /\ e \in Seq(Seq(Word)) /\ One(e) \in Seq(Seq(Word))
  <2>1. \A S : e \in Seq(S)
    BY CatFacts
  <2> HIDE DEF e
  <2>2. One(e) \in Seq(Seq(Word))
    BY <2>1, OneType
  <2> QED BY <2>1, <2>2
<1>5. WriterOk(FALSE, slices, td1, p1)
  <2>1. td1 \in Seq(Seq(Word))
    BY <1>4
  <2>2. p1.input = e /\ p1.copy = r
    OBVIOUS
  <2> HIDE DEF td1, p1, e
  <2> QED BY <1>3, <1>4, <2>1, <2>2 DEF WriterOk
<1>6. ASSUME NEW E, NEW f, Owed(FALSE, E, td1, p1, f)
      PROVE  Owed(FALSE, E, todo, packer, Cat(d, f))
  <2>1. f = r
    <3>1. CASE k = Len(Unwritten)
      <4>1. td1 = <<>>
        BY <3>1
      <4>2. f = <<>>
        BY <1>6, <4>1 DEF Owed
      <4>3. r = <<>>
        <5>1. Len(r) = 0
          <6>1. Len(Unwritten) \in Nat
            BY <1>1, LenZero
          <6> QED BY <1>3, <3>1, <6>1
        <5> QED BY <1>3, <5>1, LenZero
      <4> QED BY <4>2, <4>3
    <3>2. CASE k # Len(Unwritten)
      <4>1. td1 = One(e) /\ td1 # <<>> /\ Tail(td1) = <<>>
        BY <3>2 DEF One
      <4>2. p1.input = e /\ p1.copy = r
        OBVIOUS
      <4>3. Bytes(FlattenSeq(Tail(td1))) = e /\ Bytes(p1.input) = e
        BY <4>1, <4>2, FlatEmpty, BytesFacts
      <4> HIDE DEF td1, p1, e
      <4>4. f = Cat(r, Cat(e, e))
        BY <1>6, <4>1, <4>2, <4>3 DEF Owed
      <4> QED BY <1>3, <1>4, <4>4, CatEmpty DEF e
    <3> QED BY <3>1, <3>2
  <2> QED BY <1>1, <1>3, <2>1
<1>7. td1 = (IF k = Len(Unwritten) THEN <<>> ELSE <<<<>>>>) /\ p1 = [input |-> <<>>, copy |-> r]
  BY DEF One
<1> HIDE DEF td1, p1, e
<1>8. d \in Seq(Byte) /\ WriterOk(FALSE, slices, td1, p1)
      /\ \A E, f : Owed(FALSE, E, td1, p1, f) => Owed(FALSE, E, todo, packer, Cat(d, f))
  BY <1>3, <1>5, <1>6
<1> QED BY <1>7, <1>8 DEF d, r, k

\* Where the stream fails, some of what is owed is not written.
LEMMA FailStep ==
    ASSUME packed \in BOOLEAN, NEW slices \in Seq(Seq(Word)),
           WriterOk(packed, slices, todo, packer), todo # <<>>,
           NEW n \in Nat, NEW k \in Nat, k < Len(NextBytes(n))
    PROVE  LET d == First(NextBytes(n), k)
           IN  /\ d \in Seq(Byte)
               /\ \E f \in Seq(Byte) : f # <<>> /\ Owed(packed, Ends(slices), todo, packer, Cat(d, f))
<1> DEFINE b == NextBytes(n)
           E == Ends(slices)
           d == First(b, k)
           r == From(b, k)
<1>1. b \in Seq(Byte) /\ \E f \in Seq(Byte) : Owed(packed, E, todo, packer, Cat(b, f))
  <2>1. CASE packed
    <3> DEFINE q == Pack(packer, n)
               td1 == IF q.completed THEN Tail(todo) ELSE todo
               p1 == IF q.completed THEN PackerAt(Tail(todo)) ELSE q.packer
    <3>0. packed = TRUE
      BY <2>1
    <3>1. WriterOk(TRUE, slices, todo, packer)
      BY <3>0
    <3>2. /\ q.bytes \in Seq(Byte) /\ WriterOk(TRUE, slices, td1, p1)
          /\ \A f : Owed(TRUE, E, td1, p1, f) => Owed(TRUE, E, todo, packer, Cat(q.bytes, f))
      BY <3>1, PackStep
    <3>3. b = q.bytes
      BY <2>1 DEF NextBytes
    <3>4. E \subseteq Nat
      BY DEF Ends
    <3> HIDE DEF q, td1, p1, E, b
    <3>5. PICK f \in Seq(Byte) : Owed(TRUE, E, td1, p1, f)
      BY <3>2, <3>4, OwedExists
    <3> QED BY <3>0, <3>2, <3>3, <3>5
  <2>2. CASE ~packed
    <3>1. b = Unwritten
      BY <2>2 DEF NextBytes
    <3>2. Unwritten \in Seq(Byte) /\ Owed(packed, E, todo, packer, Unwritten)
      BY <2>2, UnwrittenFacts
    <3>3. Cat(Unwritten, <<>>) = Unwritten /\ <<>> \in Seq(Byte)
      BY <3>2, CatEmpty, CatFacts
    <3> QED BY <3>1, <3>2, <3>3
  <2> QED BY <2>1, <2>2
<1>2. PICK f \in Seq(Byte) : Owed(packed, E, todo, packer, Cat(b, f))
  BY <1>1
<1>3. k < Len(b)
  OBVIOUS
<1> HIDE DEF b
<1>4. d \in Seq(Byte) /\ r \in Seq(Byte) /\ Len(r) = Len(b) - k /\ b = Cat(d, r) /\ Len(b) \in Nat
  <2>1. b \in Seq(Byte) /\ Len(b) \in Nat /\ k <= Len(b)
    <3>1. b \in Seq(Byte)
      BY <1>1
    <3>2. Len(b) \in Nat
      BY <3>1, LenZero
    <3> QED BY <1>3, <3>1, <3>2
  <2> QED BY <2>1, CutCat
<1> HIDE DEF d, r
<1>5. Cat(b, f) = Cat(d, Cat(r, f)) /\ Cat(r, f) \in Seq(Byte)
  BY <1>4, CatAssoc, CatType
<1>6. Cat(r, f) # <<>>
  <2>1. r # <<>>
    <3>1. Len(r) # 0
      BY <1>3, <1>4
    <3> QED BY <1>4, <3>1, LenZero
  <2> QED BY <1>4, <2>1, CatSome
<1>7. Owed(packed, E, todo, packer, Cat(d, Cat(r, f)))
  BY <1>2, <1>5
<1> HIDE DEF E
<1> QED BY <1>4, <1>5, <1>6, <1>7 DEF d, E, b

(***************************************************************************)
(* The invariant                                                           *)
(***************************************************************************)
SentEnds == Ends(AllSlices(sent))
Live == stage \in {"first", "rest", "data", "between", "finishing"}
\* The writer has failed: the stream ends before the messages do.
CutOff == closed /\ todo # <<>>

\* Bytes that would complete what is written.
Completes(f) ==
    /\ f \in Seq(Byte)
    /\ IF CutOff THEN f # <<>> ELSE Owed(packed, SentEnds, todo, packer, f)
\* With f behind the bytes on the wire, the reader would get the words it expects.
Reads(f) == GoesOn(SentEnds, packed, sent, unpacker, wire \o f, stage, table, want, out, got)
ToCome ==
    IF CutOff THEN \E f : Completes(f) /\ Reads(f) ELSE \A f : Completes(f) => Reads(f)

Ended ==
    \/ stage = "UnexpectedEof" /\ CutOff
    \/ stage = "TooManySegments" /\ Len(Coming) >= SegmentLimit
    \/ stage = "MessageTooLarge" /\ SumOf(SegmentLens(Coming)) > ReadLimit
    \/ stage = "done" /\ Len(got) = Len(sent) /\ todo = <<>> /\ wire = <<>>

StreamTypes ==
    /\ sent \in Sendings /\ packed \in BOOLEAN /\ wire \in Seq(Byte) /\ closed \in BOOLEAN
    /\ WriterOk(packed, AllSlices(sent), todo, packer)
    /\ table \in Seq(Word) /\ out \in Seq(Byte) /\ got \in Seq(MessageSets)
ReadSoFar ==
    /\ Len(got) <= Len(sent)
    /\ \A k \in 1..Len(got) : got[k] = MessageSet(sent[k])

StreamInv == StreamTypes /\ ReadSoFar /\ ((Live /\ ToCome) \/ Ended)

\* What is sent is messages.
LEMMA SentIs ==
    ASSUME StreamTypes
    PROVE  /\ sent \in Seq(Messages) /\ AllSlices(sent) \in Seq(Seq(Word))
           /\ SentEnds \subseteq Nat /\ Len(sent) \in Nat /\ Len(got) \in Nat
<1>1. sent \in Seq(Messages)
  BY SentFacts DEF StreamTypes
<1>2. AllSlices(sent) \in Seq(Seq(Word)) /\ SentEnds \subseteq Nat
  BY <1>1, AllSlicesFacts, EndsHave DEF SentEnds
<1>3. Len(sent) \in Nat /\ Len(got) \in Nat
  BY <1>1, LenZero DEF StreamTypes
<1> QED BY <1>1, <1>2, <1>3

\* There are bytes that complete the stream, and with them the reader goes on.
LEMMA SomeComplete ==
    ASSUME StreamTypes, ToCome
    PROVE  \E f : Completes(f) /\ Reads(f)
<1>1. CASE CutOff
  BY <1>1 DEF ToCome
<1>2. CASE ~CutOff
  <2>1. PICK f \in Seq(Byte) : Owed(packed, SentEnds, todo, packer, f)
    BY SentIs, OwedExists DEF StreamTypes
  <2>2. Completes(f)
    BY <1>2, <2>1 DEF Completes
  <2> QED BY <1>2, <2>2 DEF ToCome
<1> QED BY <1>1, <1>2

\* A message that is read is the next one that was sent.
LEMMA GotMore ==
    ASSUME StreamTypes, ReadSoFar, Len(got) < Len(sent), sent' = sent,
           Gets(sent, got, got') \/ got' = got
    PROVE  got' \in Seq(MessageSets) /\ ReadSoFar'
<1>1. CASE got' = got
  BY <1>1 DEF StreamTypes, ReadSoFar
<1>2. CASE got' = Append(got, MessageSet(sent[Len(got) + 1]))
  <2> DEFINE x == MessageSet(sent[Len(got) + 1])
             i == Len(got)
  <2>1. sent \in Seq(Messages) /\ i \in Nat /\ Len(sent) \in Nat
    BY SentIs
  <2>2. sent[i + 1] \in Messages
    BY <2>1, DataFacts
  <2>3. x \in MessageSets
    BY <2>2 DEF MessageSets
  <2>4. x = MessageSet(sent[i + 1])
    OBVIOUS
  <2> HIDE DEF x
  <2>5. /\ got' \in Seq(MessageSets) /\ Len(got') = i + 1 /\ got'[i + 1] = x
        /\ \A k \in 1..i : got'[k] = got[k]
    BY <1>2, <2>3, AppendAt DEF StreamTypes, x
  <2>6. \A k \in 1..i : got[k] = MessageSet(sent[k])
    BY DEF ReadSoFar
  <2>7. \A k \in 1..Len(got') : got'[k] = MessageSet(sent[k])
    <3> TAKE k \in 1..Len(got')
    <3>1. CASE k \in 1..i
      BY <2>5, <2>6, <3>1
    <3>2. CASE ~(k \in 1..i)
      <4>1. k = i + 1
        BY <2>1, <2>5, <3>2
      <4> QED BY <2>4, <2>5, <4>1
    <3> QED BY <3>1, <3>2
  <2>8. Len(got') <= Len(sent)
    BY <2>1, <2>5
  <2> QED BY <2>5, <2>7, <2>8 DEF ReadSoFar
<1> QED BY <1>1, <1>2 DEF Gets

\* A step of the reader: for all that would complete the stream, it goes on or it ends.
LEMMA ReaderStep ==
    ASSUME StreamTypes, ReadSoFar, Live, ToCome, Len(got) < Len(sent) \/ got' = got,
           UNCHANGED <<sent, packed, closed, writer>>,
           wire' \in Seq(Byte), table' \in Seq(Word), out' \in Seq(Byte),
           \A f : Completes(f) /\ Reads(f) =>
                    \/ Reads(f)' /\ Gets(sent, got, got') /\ Live'
                    \/ Ended' /\ got' = got
    PROVE  StreamInv'
<1>1. UNCHANGED <<sent, packed, closed, todo, packer>>
  BY DEF writer
<1>2. PICK f : Completes(f) /\ Reads(f)
  BY SomeComplete
<1>3. Gets(sent, got, got') \/ got' = got
  BY <1>2
<1>4. got' \in Seq(MessageSets) /\ ReadSoFar'
  <2>1. CASE Len(got) < Len(sent)
    BY <1>1, <1>3, <2>1, GotMore
  <2>2. CASE got' = got
    BY <1>1, <2>2 DEF StreamTypes, ReadSoFar
  <2> QED BY <2>1, <2>2
<1>5. StreamTypes'
  BY <1>1, <1>4 DEF StreamTypes
<1>6. ASSUME ~Ended' PROVE Live' /\ ToCome'
  <2>1. Live'
    BY <1>2, <1>6
  <2>2. \A g : Completes(g)' <=> Completes(g)
    BY <1>1 DEF Completes, CutOff, SentEnds
  <2>3. CutOff' = CutOff
    BY <1>1 DEF CutOff
  <2>4. \A g : Completes(g) /\ Reads(g) => Reads(g)'
    BY <1>6
  <2>5. CASE CutOff
    BY <1>1, <1>2, <2>1, <2>4, <2>5 DEF ToCome, Completes, Reads, CutOff, SentEnds
  <2>6. CASE ~CutOff
    <3>1. \A g : Completes(g) => Reads(g)
      BY <2>6 DEF ToCome
    <3> QED BY <1>1, <2>1, <2>4, <2>6, <3>1 DEF ToCome, Completes, Reads, CutOff, SentEnds
  <2> QED BY <2>1, <2>5, <2>6
<1> QED BY <1>4, <1>5, <1>6 DEF StreamInv

\* What is owed before anything is written is the code of all the words.
LEMMA OwedAll ==
    ASSUME NEW pk \in BOOLEAN, NEW E, NEW td \in Seq(Seq(Word)), NEW f, Owed(pk, E, td, PackerAt(td), f)
    PROVE  /\ pk => Codes(E, f, FlattenSeq(td))
           /\ ~pk => f = Bytes(FlattenSeq(td))
<1> SUFFICES ASSUME NEW e, e = <<>>
             PROVE  /\ pk => Codes(E, f, FlattenSeq(td))
                    /\ ~pk => f = Bytes(FlattenSeq(td))
  OBVIOUS
<1> DEFINE all == FlattenSeq(td)
           p == Packer(e)
<1>1. e \in Seq(Byte) /\ e \in Seq(Word) /\ all \in Seq(Word)
  BY CatFacts, FlatType
<1>2. CASE pk
  <2>1. p.input = <<>> /\ p.copy = <<>>
    BY DEF Packer
  <2>2. Owed(TRUE, E, td, PackerAt(td), f)
    BY <1>2
  <2> HIDE DEF p
  <2>3. Owes(E, p, all, f)
    BY <2>1, <2>2, NextPacker
  <2> HIDE DEF all
  <2>4. PICK g : Codes(E, g, Cat(e, all)) /\ f = Cat(e, g)
    BY <2>1, <2>3 DEF Owes
  <2>5. g \in Seq(Byte)
    BY <2>4, CodesType
  <2>6. f = g /\ Cat(e, all) = all
    BY <1>1, <2>4, <2>5, CatEmpty
  <2> QED BY <1>2, <2>4, <2>6 DEF all
<1>3. CASE ~pk /\ td = <<>>
  <2>1. f = <<>> /\ all = <<>>
    BY <1>3, FlatEmpty DEF Owed
  <2> QED BY <1>3, <2>1, BytesFacts
<1>4. CASE ~pk /\ td # <<>>
  <2> DEFINE h == Head(td)
             l == FlattenSeq(Tail(td))
  <2>1. h \in Seq(Word) /\ l \in Seq(Word) /\ all = Cat(h, l)
    BY <1>4, SlicesSplit
  <2>2. PackerAt(td).input = h /\ PackerAt(td).copy = e
    BY <1>4 DEF PackerAt, Packer
  <2>3. f = Cat(e, Cat(Bytes(h), Bytes(l)))
    BY <1>4, <2>2 DEF Owed
  <2> HIDE DEF h, l, all
  <2>4. Bytes(all) = Cat(Bytes(h), Bytes(l)) /\ Bytes(all) \in Seq(Byte)
    BY <1>1, <2>1, BytesFacts
  <2>5. f = Bytes(all)
    <3> DEFINE b == Bytes(all)
    <3>1. f = Cat(e, b) /\ b \in Seq(Byte)
      BY <2>3, <2>4
    <3> HIDE DEF b
    <3>2. f = b
      BY <3>1, CatEmpty
    <3> QED BY <3>2 DEF b
  <2> QED BY <1>4, <2>5 DEF all
<1> QED BY <1>2, <1>3, <1>4

\* Nothing is read, and what is owed is all.
LEMMA InitInv ==
    ASSUME Init
    PROVE  StreamInv
<1> SUFFICES ASSUME NEW e, e = <<>> PROVE StreamInv
  OBVIOUS
<1>1. /\ sent \in Sendings /\ packed \in BOOLEAN /\ todo = AllSlices(sent) /\ packer = PackerAt(todo)
      /\ wire = e /\ closed = FALSE /\ unpacker = Idle /\ stage = "first" /\ table = e /\ out = e
      /\ want = 1 /\ got = e
  BY DEF Init
<1>2. \A S : e \in Seq(S)
  BY CatFacts
<1>3. sent \in Seq(Messages) /\ sent # <<>> /\ todo \in Seq(Seq(Word))
  BY <1>1, SentFacts, AllSlicesFacts
<1>4. WriterOk(packed, AllSlices(sent), todo, packer)
  <2> DEFINE V == Seq(Word)
  <2>1. e \in Seq(V) /\ Cat(e, todo) = todo
    <3>1. todo \in Seq(V)
      BY <1>3
    <3> HIDE DEF V
    <3> QED BY <1>2, <3>1, CatEmpty
  <2>2. e \in Seq(Seq(Word)) /\ AllSlices(sent) = Cat(e, todo)
    BY <1>1, <2>1
  <2>3. /\ packer.input \in Seq(Word) /\ packer.copy \in Seq(Byte)
        /\ todo # <<>> => Len(packer.input) <= Len(Head(todo))
    BY <1>1, <1>3, PackerAtOk
  <2> QED BY <1>3, <2>2, <2>3 DEF WriterOk
<1>5. StreamTypes
  BY <1>1, <1>2, <1>4 DEF StreamTypes
<1>6. Len(got) = 0 /\ Len(sent) \in Nat \ {0}
  <2>1. Len(e) = 0
    OBVIOUS
  <2>2. Len(sent) \in Nat /\ Len(sent) # 0
    BY <1>3, LenZero
  <2> QED BY <1>1, <2>1, <2>2
<1>7. ReadSoFar
  <2>1. 1..0 = {}
    OBVIOUS
  <2> QED BY <1>6, <2>1 DEF ReadSoFar
<1>8. Live
  BY <1>1 DEF Live
<1>9. ~CutOff
  BY <1>1 DEF CutOff
<1> DEFINE all == LaterOf(sent, 0)
           E == SentEnds
<1>10. all = FlattenSeq(todo) /\ all \in Seq(Word)
  BY <1>1, <1>3, LaterLast, FlatType
<1> HIDE DEF all
<1>11. ASSUME NEW f, Completes(f) PROVE Reads(f)
  <2>1. f \in Seq(Byte) /\ Owed(packed, E, todo, PackerAt(todo), f)
    BY <1>1, <1>9, <1>11 DEF Completes
  <2> HIDE DEF E
  <2>2. (packed => Codes(E, f, all)) /\ (~packed => f = Bytes(all))
    BY <1>1, <1>3, <1>10, <2>1, OwedAll
  <2>3. wire \o f = f
    <3>1. Cat(e, f) = f
      BY <2>1, CatEmpty
    <3> QED BY <1>1, <3>1 DEF Cat
  <2>4. Holds(E, packed, Idle, e, f, all)
    <3>1. CASE packed
      <4>1. Pend(E, Idle, f, all)
        BY <2>2, <3>1 DEF Pend
      <4>2. e = Bytes(e) /\ all = Cat(e, all) /\ e \in Seq(Word) /\ Idle \in Unpackers
        BY <1>2, <1>10, BytesFacts, CatEmpty, KindTypes
      <4> QED BY <1>2, <1>10, <2>1, <3>1, <4>1, <4>2 DEF Holds
    <3>2. CASE ~packed
      <4>1. Cat(e, f) = f
        BY <2>1, CatEmpty
      <4> QED BY <1>2, <1>10, <2>1, <2>2, <3>2, <4>1 DEF Holds
    <3> QED BY <3>1, <3>2
  <2>5. At(sent, stage, table, want, Len(got), Idle, out, all)
    <3>1. AtFirst(sent, table, want, Len(got), all)
      BY <1>1, <1>6 DEF AtFirst, all
    <3>2. Len(out) < WordBytes * want
      <4>1. want \in Nat \ {0} /\ out = <<>>
        BY <1>1
      <4> QED BY <4>1, NothingInBuffer
    <3>3. Idle.k # "nulls"
      BY Kinds
    <3> QED BY <1>1, <3>1, <3>2, <3>3 DEF At, AtBuffer
  <2> QED BY <1>1, <2>3, <2>4, <2>5 DEF Reads, GoesOn, E
<1>12. ToCome
  BY <1>9, <1>11 DEF ToCome
<1> QED BY <1>5, <1>7, <1>8, <1>12 DEF StreamInv

\* A step of the writer: it writes the front of what it owes.
LEMMA WriterStep ==
    ASSUME StreamInv, Writing, UNCHANGED <<sent, packed, closed, reader>>, NEW d \in Seq(Byte),
           wire' = wire \o d, WriterOk(packed, AllSlices(sent), todo', packer'),
           \A f : Owed(packed, SentEnds, todo', packer', f) =>
                    Owed(packed, SentEnds, todo, packer, Cat(d, f))
    PROVE  StreamInv'
<1>1. /\ UNCHANGED <<sent, packed, closed, unpacker, stage, table, out, want, got>>
      /\ todo # <<>> /\ ~closed
  BY DEF reader, Writing
<1>2. StreamTypes /\ ReadSoFar
  BY DEF StreamInv
<1>3. wire \in Seq(Byte) /\ wire' = Cat(wire, d) /\ wire' \in Seq(Byte)
  <2>1. wire \in Seq(Byte) /\ wire' = Cat(wire, d)
    BY <1>2 DEF StreamTypes, Cat
  <2> QED BY <2>1, CatType
<1>4. StreamTypes' /\ ReadSoFar'
  BY <1>1, <1>2, <1>3 DEF StreamTypes, ReadSoFar
<1>5. CASE Ended
  BY <1>1, <1>4, <1>5 DEF Ended, CutOff, StreamInv, Coming
<1>6. CASE Live /\ ToCome
  <2>1. ~CutOff /\ ~CutOff' /\ SentEnds' = SentEnds
    BY <1>1 DEF CutOff, SentEnds
  <2>2. \A g : Completes(g) => Reads(g)
    BY <1>6, <2>1 DEF ToCome
  <2>3. ASSUME NEW f \in Seq(Byte), Owed(packed, SentEnds, todo', packer', f)
        PROVE  GoesOn(SentEnds, packed, sent, unpacker, wire' \o f, stage, table, want, out, got)
    <3>1. Cat(d, f) \in Seq(Byte)
      BY CatType
    <3>2. Completes(Cat(d, f))
      BY <2>1, <2>3, <3>1 DEF Completes
    <3>3. Reads(Cat(d, f))
      BY <2>2, <3>2
    <3>4. Cat(wire, Cat(d, f)) = Cat(wire', f)
      BY <1>3, CatAssoc
    <3>5. wire \o Cat(d, f) = wire' \o f
      BY <3>4 DEF Cat
    <3> QED BY <3>3, <3>5 DEF Reads
  <2>4. ToCome'
    BY <1>1, <2>1, <2>3 DEF ToCome, Completes, Reads
  <2>5. Live'
    BY <1>1, <1>6 DEF Live
  <2> QED BY <1>4, <2>4, <2>5 DEF StreamInv
<1> QED BY <1>5, <1>6 DEF StreamInv

\* A turn of write_message_packed keeps the invariant.
LEMMA WritePackedInv ==
    ASSUME StreamInv, NEW n \in BufSizes, WritePacked(n)
    PROVE  StreamInv'
<1> DEFINE r == Pack(packer, n)
           td1 == IF r.completed THEN Tail(todo) ELSE todo
           p1 == IF r.completed THEN PackerAt(Tail(todo)) ELSE r.packer
<1>1. /\ Writing /\ packed /\ todo' = td1 /\ packer' = p1 /\ wire' = wire \o r.bytes
      /\ UNCHANGED <<sent, packed, closed, reader>>
  BY DEF WritePacked, PackWith
<1>2. StreamTypes /\ n \in Nat
  BY StreamAssumption DEF StreamInv
<1>3. packed = TRUE /\ todo # <<>>
  BY <1>1, <1>2 DEF StreamTypes, Writing
<1>4. WriterOk(TRUE, AllSlices(sent), todo, packer) /\ AllSlices(sent) \in Seq(Seq(Word))
  BY <1>2, <1>3, SentIs DEF StreamTypes
<1>5. /\ r.bytes \in Seq(Byte) /\ WriterOk(TRUE, AllSlices(sent), td1, p1)
      /\ \A f : Owed(TRUE, SentEnds, td1, p1, f) => Owed(TRUE, SentEnds, todo, packer, Cat(r.bytes, f))
  BY <1>2, <1>3, <1>4, PackStep DEF SentEnds
<1> HIDE DEF r, td1, p1
<1>6. /\ WriterOk(packed, AllSlices(sent), todo', packer')
      /\ \A f : Owed(packed, SentEnds, todo', packer', f) =>
                  Owed(packed, SentEnds, todo, packer, Cat(r.bytes, f))
  BY <1>1, <1>3, <1>5
<1> QED BY <1>1, <1>5, <1>6, WriterStep

\* So does a part of write_vectored.
LEMMA WriteRawInv ==
    ASSUME StreamInv, NEW n \in BufSizes, WriteRaw(n)
    PROVE  StreamInv'
<1> DEFINE k == Least(n, Len(Unwritten))
           d == First(Unwritten, k)
           td1 == IF k = Len(Unwritten) THEN <<>> ELSE <<<<>>>>
           p1 == [input |-> <<>>, copy |-> From(Unwritten, k)]
<1>1. /\ Writing /\ ~packed /\ todo' = td1 /\ packer' = p1 /\ wire' = wire \o d
      /\ UNCHANGED <<sent, packed, closed, reader>>
  BY DEF WriteRaw
<1>2. StreamTypes /\ n \in Nat
  BY StreamAssumption DEF StreamInv
<1>3. packed = FALSE /\ todo # <<>>
  BY <1>1, <1>2 DEF StreamTypes, Writing
<1>4. WriterOk(FALSE, AllSlices(sent), todo, packer)
  BY <1>2, <1>3 DEF StreamTypes
<1>5. /\ d \in Seq(Byte) /\ WriterOk(FALSE, AllSlices(sent), td1, p1)
      /\ \A E, f : Owed(FALSE, E, td1, p1, f) => Owed(FALSE, E, todo, packer, Cat(d, f))
  BY <1>2, <1>3, <1>4, RawStep
<1> HIDE DEF d, td1, p1, k
<1>6. /\ WriterOk(packed, AllSlices(sent), todo', packer')
      /\ \A f : Owed(packed, SentEnds, todo', packer', f) =>
                  Owed(packed, SentEnds, todo, packer, Cat(d, f))
  BY <1>1, <1>3, <1>5
<1> QED BY <1>1, <1>5, <1>6, WriterStep

\* So does a write that fails: there are still bytes that would have completed the stream.
LEMMA WriterFailsInv ==
    ASSUME StreamInv, NEW n \in BufSizes, NEW k \in 0..n - 1, WriterFails(n, k)
    PROVE  StreamInv'
<1> DEFINE d == First(NextBytes(n), k)
<1>1. /\ todo # <<>> /\ ~closed /\ closed' = TRUE /\ wire' = wire \o d /\ k < Len(NextBytes(n))
      /\ UNCHANGED <<sent, packed, todo, packer, unpacker, stage, table, out, want, got>>
  BY DEF WriterFails, Writing, writer, reader
<1>2. StreamTypes /\ ReadSoFar /\ n \in Nat /\ k \in Nat
  BY StreamAssumption DEF StreamInv
<1>3. /\ packed \in BOOLEAN /\ AllSlices(sent) \in Seq(Seq(Word))
      /\ WriterOk(packed, AllSlices(sent), todo, packer)
  BY <1>2, SentIs DEF StreamTypes
<1>4. d \in Seq(Byte) /\ \E f \in Seq(Byte) : f # <<>> /\ Owed(packed, SentEnds, todo, packer, Cat(d, f))
  BY <1>1, <1>2, <1>3, FailStep DEF SentEnds
<1> HIDE DEF d
<1>5. PICK f \in Seq(Byte) : f # <<>> /\ Owed(packed, SentEnds, todo, packer, Cat(d, f))
  BY <1>4
<1>6. wire \in Seq(Byte) /\ wire' = Cat(wire, d) /\ wire' \in Seq(Byte) /\ Cat(d, f) \in Seq(Byte)
  <2>1. wire \in Seq(Byte) /\ wire' = Cat(wire, d)
    BY <1>1, <1>2 DEF StreamTypes, Cat
  <2> QED BY <1>4, <2>1, CatType
<1>7. StreamTypes' /\ ReadSoFar'
  BY <1>1, <1>2, <1>6 DEF StreamTypes, ReadSoFar
<1>8. CASE Ended
  BY <1>1, <1>7, <1>8 DEF Ended, CutOff, StreamInv, Coming
<1>9. CASE Live /\ ToCome
  <2>1. ~CutOff /\ CutOff' /\ SentEnds' = SentEnds
    BY <1>1 DEF CutOff, SentEnds
  <2>2. Reads(Cat(d, f))
    BY <1>5, <1>6, <1>9, <2>1 DEF ToCome, Completes
  <2>3. Cat(wire, Cat(d, f)) = Cat(wire', f)
    BY <1>4, <1>5, <1>6, CatAssoc
  <2>4. wire \o Cat(d, f) = wire' \o f
    BY <2>3 DEF Cat
  <2>5. GoesOn(SentEnds, packed, sent, unpacker, wire' \o f, stage, table, want, out, got)
    BY <2>2, <2>4 DEF Reads
  <2>6. ToCome'
    BY <1>1, <1>5, <2>1, <2>5 DEF ToCome, Completes, Reads
  <2>7. Live'
    BY <1>1, <1>9 DEF Live
  <2> QED BY <1>7, <2>6, <2>7 DEF StreamInv
<1> QED BY <1>8, <1>9 DEF StreamInv

\* So does the end of the writer: nothing is owed any more.
LEMMA CloseInv ==
    ASSUME StreamInv, Close
    PROVE  StreamInv'
<1>1. /\ todo = <<>> /\ ~closed /\ closed' = TRUE
      /\ UNCHANGED <<sent, packed, todo, packer, wire, unpacker, stage, table, out, want, got>>
  BY DEF Close, writer, reader
<1>2. StreamTypes' /\ ReadSoFar'
  BY <1>1 DEF StreamInv, StreamTypes, ReadSoFar
<1>3. CASE Ended
  BY <1>1, <1>2, <1>3 DEF Ended, CutOff, StreamInv, Coming
<1>4. CASE Live /\ ToCome
  <2>1. ~CutOff /\ ~CutOff' /\ SentEnds' = SentEnds
    BY <1>1 DEF CutOff, SentEnds
  <2>2. ToCome'
    BY <1>1, <1>4, <2>1 DEF ToCome, Completes, Reads
  <2>3. Live'
    BY <1>1, <1>4 DEF Live
  <2> QED BY <1>2, <2>2, <2>3 DEF StreamInv
<1> QED BY <1>3, <1>4 DEF StreamInv

\* The types of the table and the buffer.
LEMMA FilledKeeps ==
    ASSUME NEW o \in Seq(Byte), table \in Seq(Word), Filled(o)
    PROVE  table' \in Seq(Word) /\ out' \in Seq(Byte)
<1>1. \A S : <<>> \in Seq(S)
  BY CatFacts
<1>2. table \o Words(o) \in Seq(Word)
  <2>1. Words(o) \in Seq(Word)
    BY WordsType
  <2> QED BY <2>1
<1>3. ASSUME NEW x \in Seq(Word), TableRead(x)
      PROVE  table' \in Seq(Word) /\ out' \in Seq(Byte)
  <2> DEFINE t == TryRead(x)
             f == FromStream(t.lens, ReadLimit)
  <2>1. /\ out' = <<>>
        /\ table' = table \/ table' = x \/ table' = <<>>
    <3> HIDE DEF t, f
    <3> QED BY <1>3 DEF TableRead, Stops, Fills, Complete, t, f
  <2> QED BY <1>1, <2>1
<1>4. CASE Len(o) < WordBytes * want
  BY <1>4 DEF Filled
<1>5. CASE ~(Len(o) < WordBytes * want) /\ stage = "data"
  BY <1>1, <1>5 DEF Filled, Complete
<1>6. CASE ~(Len(o) < WordBytes * want) /\ stage # "data"
  <2>1. TableRead(table \o Words(o))
    BY <1>6 DEF Filled
  <2> QED BY <1>2, <1>3, <2>1
<1> QED BY <1>4, <1>5, <1>6

\* An outcome is a state of the invariant.
LEMMA OutcomeStep ==
    ASSUME sent' = sent, packed' = packed, NEW f \in Seq(Byte),
           Outcome(SentEnds, packed, sent, unpacker', Cat(wire', f), got,
                   stage', table', want', out', got')
    PROVE  \/ Reads(f)' /\ Gets(sent, got, got') /\ Live'
           \/ Ended' /\ got' = got
<1>1. CASE Refused(sent, got, stage', got')
  BY <1>1 DEF Refused, Ended, Coming
<1>2. CASE /\ GoesOn(SentEnds, packed, sent, unpacker', Cat(wire', f), stage', table', want', out', got')
           /\ Gets(sent, got, got')
  <2>1. SentEnds' = SentEnds
    BY DEF SentEnds
  <2>2. Reads(f)'
    BY <1>2, <2>1 DEF Reads, Cat
  <2>3. Live'
    BY <1>2 DEF GoesOn, At, AtBuffer, Live
  <2> QED BY <1>2, <2>2, <2>3
<1> QED BY <1>1, <1>2 DEF Outcome

\* While a buffer is filled, for all that would complete the stream.
LEMMA Buffers ==
    ASSUME StreamInv, Reading
    PROVE  /\ StreamTypes /\ ReadSoFar /\ Live /\ ToCome /\ Len(got) < Len(sent)
           /\ want \in Nat \ {0} /\ Len(out) < WordBytes * want /\ unpacker.k # "nulls"
           /\ \A f : Reads(f) =>
                \E words : /\ Holds(SentEnds, packed, unpacker, out, Cat(wire, f), words)
                           /\ AtBuffer(sent, stage, table, want, Len(got), words)
<1>1. StreamTypes /\ ReadSoFar /\ Live /\ ToCome
  BY DEF StreamInv, Reading, Ended, Live
<1>2. ASSUME NEW f, Reads(f)
      PROVE  /\ Len(out) < WordBytes * want /\ unpacker.k # "nulls"
             /\ \E words : /\ Holds(SentEnds, packed, unpacker, out, Cat(wire, f), words)
                           /\ AtBuffer(sent, stage, table, want, Len(got), words)
  <2>1. PICK words : /\ Holds(SentEnds, packed, unpacker, out, wire \o f, words)
                     /\ At(sent, stage, table, want, Len(got), unpacker, out, words)
    BY <1>2 DEF Reads, GoesOn
  <2>2. stage \notin {"between", "finishing"}
    BY DEF Reading
  <2>3. /\ AtBuffer(sent, stage, table, want, Len(got), words)
        /\ Len(out) < WordBytes * want /\ unpacker.k # "nulls"
    BY <2>1, <2>2 DEF At
  <2> QED BY <2>1, <2>3 DEF Cat
<1>3. PICK f : Completes(f) /\ Reads(f)
  BY <1>1, SomeComplete
<1>4. PICK words : AtBuffer(sent, stage, table, want, Len(got), words)
  BY <1>2, <1>3
<1>5. want \in Nat \ {0} /\ Len(got) < Len(sent)
  BY <1>1, <1>4, SentIs, WantedComes
<1> QED BY <1>1, <1>2, <1>3, <1>5

\* A read from a stream that is not packed keeps the invariant.
LEMMA ReadRawInv ==
    ASSUME StreamInv, NEW n \in ReadSizes, ReadRaw(n)
    PROVE  StreamInv'
<1> DEFINE k == Least(Least(n, Len(wire)), WordBytes * want - Len(out))
           w1 == From(wire, k)
           o1 == Cat(out, First(wire, k))
<1>1. /\ Reading /\ ~packed /\ wire # <<>> /\ Filled(o1) /\ wire' = w1
      /\ UNCHANGED <<sent, packed, closed, writer>> /\ unpacker' = unpacker
  BY DEF ReadRaw, Cat
<1>2. /\ StreamTypes /\ ReadSoFar /\ Live /\ ToCome /\ Len(got) < Len(sent)
      /\ want \in Nat \ {0} /\ Len(out) < WordBytes * want /\ n \in Nat /\ packed = FALSE
      /\ sent \in Seq(Messages) /\ wire \in Seq(Byte) /\ got \in Seq(MessageSets)
      /\ table \in Seq(Word)
  BY <1>1, Buffers, SentIs, StreamAssumption DEF StreamTypes
<1>3. ASSUME NEW f, Completes(f), Reads(f)
      PROVE  /\ o1 \in Seq(Byte) /\ w1 \in Seq(Byte)
             /\ \/ Reads(f)' /\ Gets(sent, got, got') /\ Live'
                \/ Ended' /\ got' = got
  <2>1. f \in Seq(Byte)
    BY <1>3 DEF Completes
  <2>2. PICK words : /\ Holds(SentEnds, FALSE, unpacker, out, Cat(wire, f), words)
                     /\ AtBuffer(sent, stage, table, want, Len(got), words)
    BY <1>1, <1>2, <1>3, Buffers
  <2>3. /\ w1 \in Seq(Byte)
        /\ Holds(SentEnds, FALSE, unpacker, o1, Cat(w1, f), words) /\ Kept(unpacker, o1, want)
    BY <1>2, <2>1, <2>2, ReadRawSpec
  <2>4. o1 \in Seq(Byte)
    BY <2>3 DEF Holds
  <2> HIDE DEF w1, o1, k
  <2>5. Outcome(SentEnds, FALSE, sent, unpacker, Cat(w1, f), got, stage', table', want', out', got')
    BY <1>1, <1>2, <2>2, <2>3, FilledSpec DEF SentEnds
  <2>6. Outcome(SentEnds, packed, sent, unpacker', Cat(wire', f), got, stage', table', want', out', got')
    BY <1>1, <1>2, <2>5
  <2>7. sent' = sent /\ packed' = packed
    BY <1>1
  <2> QED BY <2>1, <2>3, <2>4, <2>6, <2>7, OutcomeStep
<1> HIDE DEF w1, o1, k
<1>4. o1 \in Seq(Byte) /\ w1 \in Seq(Byte)
  BY <1>2, <1>3, SomeComplete
<1>5. table' \in Seq(Word) /\ out' \in Seq(Byte) /\ wire' \in Seq(Byte)
  BY <1>1, <1>2, <1>4, FilledKeeps
<1> QED BY <1>1, <1>2, <1>3, <1>5, ReaderStep

\* So does a read from a packed stream.
LEMMA ReadPackedInv ==
    ASSUME StreamInv, NEW n \in ReadSizes, ReadPacked(n)
    PROVE  StreamInv'
<1> DEFINE src == First(wire, Least(n, Len(wire)))
           c == Unpack(unpacker, src, want - (Len(out) \div WordBytes))
           w1 == From(wire, Len(src) - Len(c.src))
           o1 == Cat(out, Bytes(c.out))
<1>1. /\ Reading /\ packed /\ wire # <<>> /\ wire' = w1
      /\ UNCHANGED <<sent, packed, closed, writer>> /\ unpacker' = c.u
      /\ c.stop # "Panic" => Filled(o1)
  BY DEF ReadPacked, Cat
<1>2. /\ StreamTypes /\ ReadSoFar /\ Live /\ ToCome /\ Len(got) < Len(sent)
      /\ want \in Nat \ {0} /\ Len(out) < WordBytes * want /\ n \in Nat \ {0} /\ packed = TRUE
      /\ sent \in Seq(Messages) /\ wire \in Seq(Byte) /\ got \in Seq(MessageSets)
      /\ table \in Seq(Word) /\ SentEnds \subseteq Nat
  BY <1>1, Buffers, SentIs, StreamAssumption DEF StreamTypes
<1>3. ASSUME NEW f, Completes(f), Reads(f)
      PROVE  /\ o1 \in Seq(Byte) /\ w1 \in Seq(Byte) /\ Filled(o1)
             /\ \/ Reads(f)' /\ Gets(sent, got, got') /\ Live'
                \/ Ended' /\ got' = got
  <2>1. f \in Seq(Byte)
    BY <1>3 DEF Completes
  <2>2. PICK words : /\ Holds(SentEnds, TRUE, unpacker, out, Cat(wire, f), words)
                     /\ AtBuffer(sent, stage, table, want, Len(got), words)
    BY <1>1, <1>2, <1>3, Buffers
  <2>3. /\ w1 \in Seq(Byte) /\ c.stop # "Panic"
        /\ Holds(SentEnds, TRUE, c.u, o1, Cat(w1, f), words) /\ Kept(c.u, o1, want)
    BY <1>1, <1>2, <2>1, <2>2, ReadPackedSpec
  <2>4. o1 \in Seq(Byte)
    BY <2>3 DEF Holds
  <2> HIDE DEF w1, o1, c, src
  <2>5. Outcome(SentEnds, TRUE, sent, c.u, Cat(w1, f), got, stage', table', want', out', got')
    BY <1>1, <1>2, <2>2, <2>3, FilledSpec DEF SentEnds
  <2>6. Outcome(SentEnds, packed, sent, unpacker', Cat(wire', f), got, stage', table', want', out', got')
    BY <1>1, <1>2, <2>5
  <2>7. sent' = sent /\ packed' = packed
    BY <1>1
  <2> QED BY <1>1, <2>1, <2>3, <2>4, <2>6, <2>7, OutcomeStep
<1> HIDE DEF w1, o1, c, src
<1>4. o1 \in Seq(Byte) /\ w1 \in Seq(Byte) /\ Filled(o1)
  BY <1>2, <1>3, SomeComplete
<1>5. table' \in Seq(Word) /\ out' \in Seq(Byte) /\ wire' \in Seq(Byte)
  BY <1>1, <1>2, <1>4, FilledKeeps
<1> QED BY <1>1, <1>2, <1>3, <1>5, ReaderStep

\* Where no more bytes come, the words are all in the buffer.
LEMMA NoMoreWords ==
    ASSUME NEW E, NEW pk \in BOOLEAN, NEW u, NEW o, NEW words, Holds(E, pk, u, o, <<>>, words),
           u.k # "nulls"
    PROVE  u = Idle /\ o = Bytes(words) /\ words \in Seq(Word)
<1>1. o \in Seq(Byte) /\ words \in Seq(Word)
  BY DEF Holds
<1>2. CASE pk
  <2>1. PICK a, rest \in Seq(Word) : o = Bytes(a) /\ words = Cat(a, rest) /\ Pend(E, u, <<>>, rest)
    BY <1>2 DEF Holds
  <2>2. u = Idle /\ rest = <<>>
    BY <2>1, NothingPends
  <2>3. words = a
    BY <2>1, <2>2, CatEmpty
  <2> QED BY <1>1, <2>1, <2>2, <2>3
<1>3. CASE ~pk
  <2>1. u = Idle /\ Cat(o, <<>>) = Bytes(words)
    BY <1>3 DEF Holds
  <2>2. Cat(o, <<>>) = o
    BY <1>1, CatEmpty
  <2> QED BY <1>1, <2>1, <2>2
<1> QED BY <1>2, <1>3

\* So does the end of the stream: if nothing is missing, no buffer is waiting.
LEMMA ReadEndsInv ==
    ASSUME StreamInv, ReadEnds
    PROVE  StreamInv'
<1>1. /\ Reading /\ wire = <<>> /\ closed /\ stage' = "UnexpectedEof" /\ out' = <<>>
      /\ UNCHANGED <<table, want, got, sent, packed, closed, todo, packer, wire, unpacker>>
  BY DEF ReadEnds, Stops, writer
<1>2. /\ StreamTypes /\ ReadSoFar /\ ToCome /\ want \in Nat \ {0} /\ Len(out) < WordBytes * want
      /\ unpacker.k # "nulls" /\ packed \in BOOLEAN /\ Len(got) \in Nat /\ sent \in Seq(Messages)
  BY <1>1, Buffers, SentIs DEF StreamTypes
<1>3. CutOff
  <2> SUFFICES ASSUME ~CutOff PROVE FALSE
    OBVIOUS
  <2>1. todo = <<>>
    BY <1>1 DEF CutOff
  <2>2. <<>> \in Seq(Byte) /\ Cat(<<>>, <<>>) = <<>>
    BY CatFacts
  <2>3. Completes(<<>>)
    BY <2>1, <2>2 DEF Completes, Owed, CutOff
  <2>4. Reads(<<>>)
    BY <1>2, <2>3 DEF ToCome
  <2>5. PICK words : /\ Holds(SentEnds, packed, unpacker, out, Cat(wire, <<>>), words)
                     /\ AtBuffer(sent, stage, table, want, Len(got), words)
    BY <1>1, <2>4, Buffers
  <2>6. out = Bytes(words) /\ words \in Seq(Word)
    BY <1>1, <1>2, <2>2, <2>5, NoMoreWords
  <2>7. want <= Len(words)
    BY <1>2, <2>5, WantedComes
  <2>8. Len(out) = WordBytes * Len(words) /\ Len(words) \in Nat
    BY <2>6, BytesLen, LenZero
  <2> DEFINE l == Len(words)
  <2>9. l \in Nat /\ want <= l /\ Len(out) = WordBytes * l
    BY <2>7, <2>8
  <2> HIDE DEF l
  <2>10. WordBytes * want <= WordBytes * l /\ WordBytes * want \in Nat /\ WordBytes * l \in Nat
    BY <1>2, <2>9, SizeFacts, TimesMono
  <2> QED BY <1>2, <2>9, <2>10
<1>4. CutOff' /\ Ended'
  BY <1>1, <1>3 DEF CutOff, Ended
<1>5. StreamTypes' /\ ReadSoFar'
  <2>1. out' \in Seq(Byte)
    BY <1>1, CatFacts
  <2> QED BY <1>1, <1>2, <2>1 DEF StreamTypes, ReadSoFar
<1> QED BY <1>4, <1>5 DEF StreamInv

\* Between messages: a message has been read, or none is begun.
LEMMA Between ==
    ASSUME StreamInv, stage \in {"between", "finishing"}
    PROVE  /\ StreamTypes /\ ReadSoFar /\ Live /\ ToCome /\ out = <<>> /\ unpacker.k \in BetweenKinds
           /\ \A f : Reads(f) =>
                \E words : /\ Holds(SentEnds, packed, unpacker, <<>>, Cat(wire, f), words)
                           /\ AtEnd(sent, table, want, Len(got), words)
<1>1. StreamTypes /\ ReadSoFar /\ Live /\ ToCome
  BY DEF StreamInv, Ended, Live
<1>2. ASSUME NEW f, Reads(f)
      PROVE  /\ out = <<>> /\ unpacker.k \in BetweenKinds
             /\ \E words : /\ Holds(SentEnds, packed, unpacker, <<>>, Cat(wire, f), words)
                           /\ AtEnd(sent, table, want, Len(got), words)
  <2>1. PICK words : /\ Holds(SentEnds, packed, unpacker, out, wire \o f, words)
                     /\ At(sent, stage, table, want, Len(got), unpacker, out, words)
    BY <1>2 DEF Reads, GoesOn
  <2>2. /\ AtEnd(sent, table, want, Len(got), words) /\ out = <<>> /\ unpacker.k \in BetweenKinds
    BY <2>1 DEF At, AtBuffer
  <2> QED BY <2>1, <2>2 DEF Cat
<1>3. PICK f : Completes(f) /\ Reads(f)
  BY <1>1, SomeComplete
<1> QED BY <1>1, <1>2, <1>3

\* Between two messages the reader may go on.
LEMMA BetweenGoesOn ==
    ASSUME NEW E, NEW pk, NEW ms, NEW u, NEW w, NEW words, NEW tb, NEW wa, NEW g, NEW st,
           Holds(E, pk, u, <<>>, w, words), AtEnd(ms, tb, wa, Len(g), words), u.k \in BetweenKinds,
           st = "finishing" \/ (st = "first" /\ Len(g) < Len(ms))
    PROVE  GoesOn(E, pk, ms, u, w, st, tb, wa, <<>>, g)
<1> SUFFICES ASSUME NEW e, e = <<>> PROVE GoesOn(E, pk, ms, u, w, st, tb, wa, e, g)
  OBVIOUS
<1>1. Holds(E, pk, u, e, w, words)
  OBVIOUS
<1>2. CASE st = "finishing"
  <2>1. At(ms, st, tb, wa, Len(g), u, e, words)
    BY <1>2 DEF At
  <2> QED BY <1>1, <2>1 DEF GoesOn
<1>3. CASE st = "first" /\ Len(g) < Len(ms)
  <2>1. AtFirst(ms, tb, wa, Len(g), words) /\ wa \in Nat \ {0}
    BY <1>3 DEF AtEnd, AtFirst
  <2>2. Len(e) < WordBytes * wa /\ u.k # "nulls"
    BY <2>1, NothingInBuffer DEF BetweenKinds
  <2>3. At(ms, st, tb, wa, Len(g), u, e, words)
    BY <1>3, <2>1, <2>2 DEF At, AtBuffer
  <2> QED BY <1>1, <2>3 DEF GoesOn
<1> QED BY <1>2, <1>3

\* So does going on to the next message.
LEMMA ReadNextInv ==
    ASSUME StreamInv, ReadNext
    PROVE  StreamInv'
<1>1. /\ stage = "between" /\ Len(got) < Len(sent) /\ stage' = "first"
      /\ UNCHANGED <<sent, packed, closed, writer, wire, unpacker, table, out, want, got>>
  BY DEF ReadNext
<1>2. /\ StreamTypes /\ ReadSoFar /\ Live /\ ToCome /\ out = <<>> /\ unpacker.k \in BetweenKinds
      /\ wire \in Seq(Byte) /\ table \in Seq(Word) /\ out \in Seq(Byte)
  BY <1>1, Between DEF StreamTypes
<1>3. ASSUME NEW f, Completes(f), Reads(f)
      PROVE  Reads(f)' /\ Gets(sent, got, got') /\ Live'
  <2>1. PICK words : /\ Holds(SentEnds, packed, unpacker, <<>>, Cat(wire, f), words)
                     /\ AtEnd(sent, table, want, Len(got), words)
    BY <1>1, <1>3, Between
  <2>2. GoesOn(SentEnds, packed, sent, unpacker, Cat(wire, f), stage', table, want, <<>>, got)
    BY <1>1, <1>2, <2>1, BetweenGoesOn
  <2>3. Reads(f)'
    BY <1>1, <1>2, <2>2 DEF Reads, Cat, SentEnds
  <2> QED BY <1>1, <2>3 DEF Gets, Live
<1> QED BY <1>1, <1>2, <1>3, ReaderStep

\* Only behind the last message there are no words.
LEMMA NothingLater ==
    ASSUME NEW ms \in Seq(Messages), NEW i \in Nat, i <= Len(ms)
    PROVE  (LaterOf(ms, i) = <<>>) <=> (i = Len(ms))
<1>1. Len(ms) \in Nat
  BY LenZero
<1>2. CASE i = Len(ms)
  BY <1>2, LaterLast
<1>3. CASE i # Len(ms)
  <2>1. i < Len(ms)
    BY <1>1, <1>3
  <2> DEFINE T == TableOf(ms[i + 1])
             D == DataOf(ms, i)
  <2>2. T \in Seq(Word) /\ T # <<>> /\ D \in Seq(Word) /\ LaterOf(ms, i) = Cat(T, D)
    BY <2>1, DataFacts
  <2> HIDE DEF T, D
  <2>3. Cat(T, D) # <<>>
    BY <2>2, CatSome
  <2> QED BY <1>3, <2>2, <2>3
<1> QED BY <1>2, <1>3

\* The stream is finished: the end of the last message, or of what there is of the next.
LEMMA FinishAtEnd ==
    ASSUME StreamInv, stage \in {"between", "finishing"}, packed, wire = <<>>, closed,
           Finished(unpacker, "UnexpectedEof"),
           UNCHANGED <<wire, sent, packed, closed, writer, table, out, want, got>>
    PROVE  StreamInv'
<1>1. /\ StreamTypes /\ ReadSoFar /\ Live /\ ToCome /\ out = <<>> /\ unpacker.k \in BetweenKinds
      /\ wire \in Seq(Byte) /\ table \in Seq(Word) /\ out \in Seq(Byte) /\ packed = TRUE
      /\ sent \in Seq(Messages) /\ Len(got) \in Nat /\ Len(sent) \in Nat /\ Len(got) <= Len(sent)
  BY Between, SentIs DEF StreamTypes, ReadSoFar
<1>2. /\ unpacker = Idle => /\ stage' = (IF Len(got) = Len(sent) THEN "done" ELSE "first")
                            /\ unpacker' = Idle
      /\ unpacker # Idle => stage' = "UnexpectedEof" /\ unpacker' = unpacker
  BY DEF Finished, Finishes
<1>3. UNCHANGED <<todo, packer>> /\ sent' = sent /\ packed' = packed /\ closed' = closed /\ wire' = wire
  BY DEF writer
<1>4. ASSUME NEW f, Completes(f), Reads(f)
      PROVE  \/ Reads(f)' /\ Gets(sent, got, got') /\ Live'
             \/ Ended' /\ got' = got
  <2>1. PICK words : /\ Holds(SentEnds, packed, unpacker, <<>>, Cat(wire, f), words)
                     /\ AtEnd(sent, table, want, Len(got), words)
    BY <1>4, Between
  <2>2. f \in Seq(Byte) /\ Cat(wire, f) = f /\ words = LaterOf(sent, Len(got))
    BY <1>4, <2>1, CatEmpty DEF Completes, AtEnd
  <2>3. CASE CutOff /\ unpacker # Idle
    BY <1>2, <1>3, <2>3 DEF Ended, CutOff
  <2>4. CASE CutOff /\ unpacker = Idle
    <3>1. f # <<>>
      BY <1>4, <2>4 DEF Completes
    <3>2. PICK a, rest \in Seq(Word) :
            <<>> = Bytes(a) /\ words = Cat(a, rest) /\ Pend(SentEnds, Idle, f, rest)
      BY <1>1, <2>1, <2>2, <2>4 DEF Holds
    <3>3. words = rest
      BY <3>2, EmptyBytes, CatEmpty
    <3>4. words # <<>>
      BY <3>1, <3>2, <3>3, IdlePends, NothingCoded
    <3>5. Len(got) < Len(sent)
      <4>1. Len(got) # Len(sent)
        BY <1>1, <2>2, <3>4, NothingLater
      <4> QED BY <1>1, <4>1
    <3>6. stage' = "first" /\ unpacker' = unpacker
      BY <1>1, <1>2, <2>4, <3>5
    <3>7. GoesOn(SentEnds, packed, sent, unpacker, Cat(wire, f), stage', table, want, <<>>, got)
      BY <1>1, <2>1, <3>5, <3>6, BetweenGoesOn
    <3>8. Reads(f)'
      BY <1>1, <1>3, <3>6, <3>7 DEF Reads, Cat, SentEnds
    <3> QED BY <3>6, <3>8 DEF Gets, Live
  <2>5. CASE ~CutOff
    <3>1. todo = <<>> /\ f = <<>>
      BY <1>4, <2>5 DEF CutOff, Completes, Owed
    <3>2. unpacker = Idle /\ <<>> = Bytes(words) /\ words \in Seq(Word)
      <4>1. Holds(SentEnds, TRUE, unpacker, <<>>, <<>>, words)
        BY <1>1, <2>1, <2>2, <3>1
      <4>2. unpacker.k # "nulls"
        BY <1>1 DEF BetweenKinds
      <4> QED BY <4>1, <4>2, NoMoreWords
    <3>3. words = <<>>
      BY <3>2, EmptyBytes
    <3>4. Len(got) = Len(sent)
      BY <1>1, <2>2, <3>3, NothingLater
    <3> QED BY <1>2, <1>3, <3>1, <3>2, <3>4 DEF Ended
  <2> QED BY <2>3, <2>4, <2>5
<1>5. wire' \in Seq(Byte) /\ table' \in Seq(Word) /\ out' \in Seq(Byte) /\ got' = got
  BY <1>1
<1> QED BY <1>1, <1>4, <1>5, ReaderStep

\* Finishing with bytes behind the message: they are unpacked into no room.
LEMMA FinishOnWire ==
    ASSUME StreamInv, stage \in {"between", "finishing"}, packed, wire # <<>>, NEW n \in ReadSizes,
           UNCHANGED <<sent, packed, closed, writer, table, out, want, got>>,
           LET src == First(wire, Least(n, Len(wire)))
               c == Unpack(unpacker, src, 0)
           IN  /\ wire' = From(wire, Len(src) - Len(c.src))
               /\ CASE c.stop = "NeedInput" -> unpacker' = c.u /\ stage' = "finishing"
                    [] c.stop = "NeedOutput" -> Finished(c.u, "WriteZero")
                    [] OTHER -> unpacker' = c.u /\ stage' = "Panic"
    PROVE  StreamInv'
<1> DEFINE zero == 0
           src == First(wire, Least(n, Len(wire)))
           c == Unpack(unpacker, src, zero)
           w1 == From(wire, Len(src) - Len(c.src))
<1>1. /\ StreamTypes /\ ReadSoFar /\ Live /\ ToCome /\ out = <<>> /\ unpacker.k \in BetweenKinds
      /\ wire \in Seq(Byte) /\ table \in Seq(Word) /\ out \in Seq(Byte) /\ packed = TRUE
      /\ sent \in Seq(Messages) /\ Len(got) \in Nat /\ Len(sent) \in Nat /\ Len(got) <= Len(sent)
      /\ n \in Nat \ {0} /\ SentEnds \subseteq Nat
  BY Between, SentIs, StreamAssumption DEF StreamTypes, ReadSoFar
<1>2. /\ wire' = w1
      /\ c.stop = "NeedInput" => unpacker' = c.u /\ stage' = "finishing"
      /\ c.stop = "NeedOutput" => Finished(c.u, "WriteZero")
  OBVIOUS
<1> HIDE DEF w1, c, src
<1>3. ASSUME NEW f, Completes(f), Reads(f)
      PROVE  w1 \in Seq(Byte) /\ Reads(f)' /\ Gets(sent, got, got') /\ Live'
  <2>1. PICK words : /\ Holds(SentEnds, packed, unpacker, <<>>, Cat(wire, f), words)
                     /\ AtEnd(sent, table, want, Len(got), words)
    BY <1>3, Between
  <2>2. f \in Seq(Byte) /\ words = LaterOf(sent, Len(got))
    BY <1>3, <2>1 DEF Completes, AtEnd
  <2>3. PICK a, ws \in Seq(Word) :
          /\ <<>> = Bytes(a) /\ words = Cat(a, ws) /\ Pend(SentEnds, unpacker, Cat(wire, f), ws)
    BY <1>1, <2>1 DEF Holds
  <2>4. words = ws
    BY <2>3, EmptyBytes, CatEmpty
  <2>5. WireUnpacked(SentEnds, unpacker, wire, f, n, zero, ws)
    <3>1. zero \in Nat /\ unpacker.k \in {"none", "nullCount", "fullCount"}
      BY <1>1 DEF BetweenKinds
    <3> HIDE DEF zero
    <3> QED BY <1>1, <2>2, <2>3, <3>1, UnpackWire
  <2>6. /\ w1 \in Seq(Byte)
        /\ \E y \in Seq(Byte) : \E rest :
             Unpacked(SentEnds, c, src, zero, y, ws, rest) /\ Cat(w1, f) = Cat(c.src, y)
    BY <2>5 DEF WireUnpacked, w1, c, src
  <2>7. PICK y \in Seq(Byte) : \E rest :
          Unpacked(SentEnds, c, src, zero, y, ws, rest) /\ Cat(w1, f) = Cat(c.src, y)
    BY <2>6
  <2>14. PICK rest : Unpacked(SentEnds, c, src, zero, y, ws, rest) /\ Cat(w1, f) = Cat(c.src, y)
    BY <2>7
  <2>8. /\ c.out \in Seq(Word) /\ c.u \in Unpackers /\ rest \in Seq(Word) /\ ws = Cat(c.out, rest)
        /\ Pend(SentEnds, c.u, Cat(w1, f), rest) /\ c.room \in Nat /\ c.room + Len(c.out) = 0
        /\ c.src \in Seq(Byte)
        /\ \/ c.stop = "NeedInput" /\ c.u.k # "nulls" /\ (c.room = 0 => c.u.k \notin {"word", "full"})
           \/ c.stop = "NeedOutput" /\ c.u.k \in {"none", "nulls", "run"} /\ (c.u.k = "none" => c.src # <<>>)
    BY <2>14 DEF Unpacked
  <2>9. c.room = 0 /\ words = rest
    <3> DEFINE q == c.out
               l == Len(q)
    <3>1. l \in Nat /\ c.room + l = 0 /\ c.room \in Nat
      BY <2>8, LenZero
    <3> HIDE DEF l
    <3>2. l = 0 /\ c.room = 0
      BY <3>1
    <3>3. q = <<>>
      BY <2>8, <3>2, LenZero DEF l
    <3> HIDE DEF q
    <3>4. Cat(q, rest) = rest
      BY <2>8, <3>3, CatEmpty
    <3> QED BY <2>4, <2>8, <3>2, <3>4 DEF q
  <2>10. c.u.k \notin {"nulls", "run"}
    <3>1. Len(words) \in SentEnds
      <4>1. Len(got) \in 0..Len(sent)
        BY <1>1
      <4> QED BY <1>1, <2>2, <4>1, EndsHave DEF SentEnds
    <3> QED BY <1>1, <2>8, <2>9, <3>1, AtAnEnd
  <2>11. Holds(SentEnds, packed, c.u, <<>>, Cat(w1, f), words)
    <3> DEFINE e == <<>>
    <3>1. e \in Seq(Byte) /\ e \in Seq(Word) /\ e = Bytes(e) /\ Cat(w1, f) \in Seq(Byte)
      BY <2>2, <2>6, CatFacts, CatType, BytesFacts
    <3>2. words = Cat(e, words) /\ words \in Seq(Word)
      BY <2>8, <2>9, CatEmpty
    <3> HIDE DEF e
    <3>3. Holds(SentEnds, packed, c.u, e, Cat(w1, f), words)
      BY <1>1, <2>8, <2>9, <3>1, <3>2 DEF Holds
    <3> QED BY <3>3 DEF e
  <2>12. CASE c.stop = "NeedInput"
    <3>1. c.u.k \in BetweenKinds
      BY <2>8, <2>9, <2>10, <2>12, UnpackerKinds DEF BetweenKinds
    <3>2. unpacker' = c.u /\ stage' = "finishing"
      BY <1>2, <2>12
    <3>3. GoesOn(SentEnds, packed, sent, c.u, Cat(w1, f), stage', table, want, <<>>, got)
      BY <2>1, <2>11, <3>1, <3>2, BetweenGoesOn
    <3>4. Reads(f)'
      BY <1>1, <1>2, <3>2, <3>3 DEF Reads, Cat, SentEnds
    <3> QED BY <2>6, <3>2, <3>4 DEF Gets, Live
  <2>13. CASE c.stop = "NeedOutput"
    <3>1. c.u.k = "none" /\ c.src # <<>>
      BY <2>8, <2>10, <2>13
    <3>2. c.u = Idle
      BY <2>8, <3>1, UnpackerKinds
    <3>3. Cat(w1, f) # <<>>
      <4> DEFINE s1 == c.src
      <4>1. s1 \in Seq(Byte) /\ s1 # <<>> /\ Cat(s1, y) = Cat(w1, f)
        BY <2>8, <2>14, <3>1
      <4> HIDE DEF s1
      <4> QED BY <4>1, CatSome
    <3>4. words # <<>>
      BY <2>8, <2>9, <3>2, <3>3, IdlePends, NothingCoded
    <3>5. Len(got) < Len(sent)
      <4>1. Len(got) # Len(sent)
        BY <1>1, <2>2, <3>4, NothingLater
      <4> QED BY <1>1, <4>1
    <3>6. stage' = "first" /\ unpacker' = c.u
      BY <1>1, <1>2, <2>13, <3>2, <3>5 DEF Finished, Finishes
    <3>7. c.u.k \in BetweenKinds
      BY <3>1 DEF BetweenKinds
    <3>8. GoesOn(SentEnds, packed, sent, c.u, Cat(w1, f), stage', table, want, <<>>, got)
      BY <2>1, <2>11, <3>5, <3>6, <3>7, BetweenGoesOn
    <3>9. Reads(f)'
      BY <1>1, <1>2, <3>6, <3>8 DEF Reads, Cat, SentEnds
    <3> QED BY <2>6, <3>6, <3>9 DEF Gets, Live
  <2> QED BY <2>8, <2>12, <2>13
<1>4. wire' \in Seq(Byte)
  BY <1>1, <1>2, <1>3, SomeComplete
<1>5. table' \in Seq(Word) /\ out' \in Seq(Byte) /\ got' = got
  BY <1>1
<1> QED BY <1>1, <1>3, <1>4, <1>5, ReaderStep

\* Finishing keeps the invariant.
LEMMA FinishInv ==
    ASSUME StreamInv, NEW n \in ReadSizes, Finish(n)
    PROVE  StreamInv'
<1>1. /\ stage \in {"between", "finishing"} /\ packed
      /\ UNCHANGED <<sent, packed, closed, writer, table, out, want, got>>
  BY DEF Finish
<1>2. CASE wire = <<>>
  <2>1. wire = <<>> /\ closed /\ Finished(unpacker, "UnexpectedEof") /\ UNCHANGED wire
    BY <1>2 DEF Finish
  <2> QED BY <1>1, <2>1, FinishAtEnd
<1>3. CASE wire # <<>>
  <2>1. LET src == First(wire, Least(n, Len(wire)))
            c == Unpack(unpacker, src, 0)
        IN  /\ wire' = From(wire, Len(src) - Len(c.src))
            /\ CASE c.stop = "NeedInput" -> unpacker' = c.u /\ stage' = "finishing"
                 [] c.stop = "NeedOutput" -> Finished(c.u, "WriteZero")
                 [] OTHER -> unpacker' = c.u /\ stage' = "Panic"
    BY <1>3 DEF Finish
  <2> QED BY <1>1, <1>3, <2>1, FinishOnWire
<1> QED BY <1>2, <1>3

\* Nothing changes.
LEMMA StutterInv ==
    ASSUME StreamInv, UNCHANGED vars
    PROVE  StreamInv'
<1>1. UNCHANGED <<sent, packed, todo, packer, wire, closed, unpacker, stage, table, out, want, got>>
  BY DEF vars, reader
<1>2. StreamTypes' /\ ReadSoFar'
  BY <1>1 DEF StreamInv, StreamTypes, ReadSoFar
<1>3. ASSUME Ended PROVE Ended'
  BY <1>1, <1>3 DEF Ended, CutOff, Coming
<1>4. ASSUME Live, ToCome PROVE Live' /\ ToCome'
  <2>1. Live' /\ (CutOff' <=> CutOff)
    BY <1>1, <1>4 DEF Live, CutOff
  <2>2. ASSUME NEW f PROVE Completes(f)' <=> Completes(f)
    BY <1>1, <2>1 DEF Completes, SentEnds
  <2>3. ASSUME NEW f PROVE Reads(f)' <=> Reads(f)
    BY <1>1 DEF Reads, SentEnds
  <2>4. CASE CutOff
    <3>1. PICK f : Completes(f) /\ Reads(f)
      BY <1>4, <2>4 DEF ToCome
    <3>2. Completes(f)' /\ Reads(f)'
      BY <2>2, <2>3, <3>1
    <3> QED BY <2>1, <2>4, <3>2 DEF ToCome
  <2>5. CASE ~CutOff
    <3>1. \A f : Completes(f)' => Reads(f)'
      BY <1>4, <2>2, <2>3, <2>5 DEF ToCome
    <3> QED BY <2>1, <2>5, <3>1 DEF ToCome
  <2> QED BY <2>4, <2>5
<1> QED BY <1>2, <1>3, <1>4 DEF StreamInv

(***************************************************************************)
(* The theorems                                                            *)
(***************************************************************************)
\* However the bytes are cut into writes and reads, for all that would complete what is on
\* the wire the reader of io.rs gets the words of the messages that are still to come, as
\* long as it has not come to an end for one of the reasons of Ended.
THEOREM StreamInvariant == Spec => []StreamInv
<1>1. Init => StreamInv
  BY InitInv
<1>2. StreamInv /\ [Next]_vars => StreamInv'
  <2> SUFFICES ASSUME StreamInv, [Next]_vars PROVE StreamInv'
    OBVIOUS
  <2>1. ASSUME NEW n \in BufSizes, WritePacked(n) PROVE StreamInv'
    BY <2>1, WritePackedInv
  <2>2. ASSUME NEW n \in BufSizes, WriteRaw(n) PROVE StreamInv'
    BY <2>2, WriteRawInv
  <2>3. ASSUME NEW n \in BufSizes, NEW k \in 0..n - 1, WriterFails(n, k) PROVE StreamInv'
    BY <2>3, WriterFailsInv
  <2>4. CASE Close
    BY <2>4, CloseInv
  <2>5. ASSUME NEW n \in ReadSizes, ReadRaw(n) PROVE StreamInv'
    BY <2>5, ReadRawInv
  <2>6. ASSUME NEW n \in ReadSizes, ReadPacked(n) PROVE StreamInv'
    BY <2>6, ReadPackedInv
  <2>7. ASSUME NEW n \in ReadSizes, Finish(n) PROVE StreamInv'
    BY <2>7, FinishInv
  <2>8. CASE ReadEnds
    BY <2>8, ReadEndsInv
  <2>9. CASE ReadNext
    BY <2>9, ReadNextInv
  <2>10. CASE UNCHANGED vars
    BY <2>10, StutterInv
  <2> QED BY <2>1, <2>2, <2>3, <2>4, <2>5, <2>6, <2>7, <2>8, <2>9, <2>10 DEF Next
<1> QED BY <1>1, <1>2, PTL DEF Spec

\* The ends of the invariant are those that RefusedOnlyIfCut allows.
LEMMA InvRefuses == StreamInv => RefusedOnlyIfCut
<1> SUFFICES ASSUME StreamInv PROVE RefusedOnlyIfCut
  OBVIOUS
<1>1. Live \/ Ended
  BY DEF StreamInv
<1> QED BY <1>1 DEF Live, Ended, CutOff, RefusedOnlyIfCut

\* Reading a message from a stream fails only where the writer has failed before its last
\* byte, or where the message is over a limit, and nothing panics (io.rs, packing.rs).
THEOREM RefusedOnlyIfCutAlways == Spec => []RefusedOnlyIfCut
<1> QED BY StreamInvariant, InvRefuses, PTL

\* A buffer that is not full has fewer words than are wanted.
LEMMA FewWords ==
    ASSUME NEW o \in Seq(Byte), NEW n \in Nat \ {0}, Len(o) < WordBytes * n
    PROVE  Len(Words(o)) \in Nat /\ Len(Words(o)) < n
<1>1. Len(o) \in Nat /\ WordBytes \in Nat \ {0} /\ Len(Words(o)) = Len(o) \div WordBytes
  BY SizeFacts, LenZero, WordsType
<1> QED BY <1>1, DivLess

\* The words a buffer has got of the message that is being read.
LEMMA PartReceived ==
    ASSUME StreamInv, Reading
    PROVE  ReadFromSlice(Received).err # "" /\ TableSegmentSet(Received).err # ""
<1> DEFINE r == Words(out)
           l == Len(r)
           m == sent[Len(got) + 1]
<1>1. /\ StreamTypes /\ ToCome /\ Len(got) < Len(sent) /\ want \in Nat \ {0}
      /\ Len(out) < WordBytes * want /\ out \in Seq(Byte) /\ table \in Seq(Word)
      /\ sent \in Seq(Messages) /\ Len(got) \in Nat /\ packed \in BOOLEAN
  BY Buffers, SentIs DEF StreamTypes
<1>2. PICK f : Reads(f)
  BY <1>1, SomeComplete
<1>3. PICK words : /\ Holds(SentEnds, packed, unpacker, out, Cat(wire, f), words)
                   /\ AtBuffer(sent, stage, table, want, Len(got), words)
  BY <1>2, Buffers
<1>4. r \in Seq(Word) /\ \E rest \in Seq(Word) : words = Cat(r, rest)
  BY <1>1, <1>3, HoldsPart
<1>5. PICK rest \in Seq(Word) : words = Cat(r, rest)
  BY <1>4
<1>6. l \in Nat /\ l < want
  BY <1>1, FewWords
<1>7. /\ m \in Messages /\ IsMessage(m) /\ FlattenSeq(m) \in Seq(Word)
      /\ TableOf(m) \in Seq(Word) /\ DataOf(sent, Len(got)) \in Seq(Word)
  BY <1>1, DataFacts
<1>8. Received = Cat(table, r)
  BY DEF Received, Cat
<1> HIDE DEF r, m
<1>9. Received \in Seq(Word)
  BY <1>1, <1>4, <1>8, CatType
<1>10. CASE stage = "first"
  <2>1. table = <<>> /\ want = 1
    BY <1>3, <1>10 DEF AtBuffer, AtFirst
  <2>2. l = 0
    BY <1>6, <2>1
  <2>3. r = <<>>
    BY <1>4, <2>2, LenZero
  <2> DEFINE e == <<>>
  <2>4. e \in Seq(Word) /\ Cat(e, e) = e
    BY CatFacts
  <2>5. Received = e
    BY <1>8, <2>1, <2>3, <2>4
  <2> QED BY <1>9, <2>5, SlicePart
<1>11. CASE stage = "rest"
  <2>1. AtRest(sent, table, want, Len(got), words)
    BY <1>3, <1>11 DEF AtBuffer
  <2>2. PICK t \in Seq(Word) :
          /\ table # <<>> /\ TableOf(m) = Cat(table, t)
          /\ want = Len(t) /\ words = Cat(t, DataOf(sent, Len(got)))
    BY <2>1 DEF AtRest, m
  <2> DEFINE D == DataOf(sent, Len(got))
  <2>3. D \in Seq(Word) /\ Cat(r, rest) = Cat(t, D) /\ Len(r) <= Len(t) /\ Len(r) # Len(t)
    BY <1>5, <1>6, <1>7, <2>2
  <2> HIDE DEF D
  <2>4. PICK t2 \in Seq(Word) : t = Cat(r, t2)
    BY <1>4, <2>3, Overlap
  <2>5. t2 # <<>>
    BY <1>4, <2>3, <2>4, CatEmpty
  <2>6. TableOf(m) = Cat(Received, t2)
    BY <1>1, <1>4, <1>8, <2>2, <2>4, CatAssoc
  <2>7. Received # <<>>
    BY <1>1, <1>4, <1>8, <2>2, CatSome
  <2> QED BY <1>7, <1>9, <2>5, <2>6, <2>7, SlicePart
<1>12. CASE stage = "data"
  <2>1. table = TableOf(m) /\ want = Len(FlattenSeq(m))
    BY <1>3, <1>12 DEF AtBuffer, AtData, m
  <2> DEFINE d == r
  <2>2. Received = Cat(TableOf(m), d) /\ d \in Seq(Word) /\ Len(d) < Len(FlattenSeq(m))
    BY <1>4, <1>6, <1>8, <2>1
  <2> HIDE DEF d
  <2> QED BY <1>7, <1>9, <2>2, SlicePart
<1> QED BY <1>10, <1>11, <1>12 DEF Reading

\* What was read is what was sent, by the invariant.
LEMMA InvReads == StreamInv => ReadIsWritten
<1> SUFFICES ASSUME StreamInv PROVE ReadIsWritten
  OBVIOUS
<1>1. /\ StreamTypes /\ ReadSoFar /\ sent \in Seq(Messages) /\ Len(got) \in Nat /\ Len(sent) \in Nat
      /\ got \in Seq(MessageSets) /\ out \in Seq(Byte) /\ table \in Seq(Word)
  BY SentIs DEF StreamInv, StreamTypes
<1>2. Received \in Seq(Word)
  <2>1. Words(out) \in Seq(Word)
    BY <1>1, WordsType
  <2> QED BY <1>1, <2>1, CatType DEF Received, Cat
<1>3. ASSUME NEW i \in DOMAIN got
      PROVE  SegmentsOf(got[i]) = sent[i] /\ SlicesAgree(i)
  <2>1. i \in 1..Len(got) /\ i \in 1..Len(sent)
    BY <1>1 DEF ReadSoFar
  <2>2. got[i] = MessageSet(sent[i])
    BY <1>1, <2>1 DEF ReadSoFar
  <2>3. sent[i] \in Messages
    BY <1>1, <2>1
  <2>4. IsMessage(sent[i])
    BY <2>3 DEF Messages
  <2> QED BY <1>2, <2>2, <2>4, Agreed
<1>4. Reading => ReadFromSlice(Received).err # "" /\ TableSegmentSet(Received).err # ""
  BY PartReceived
<1>5. Len(got) <= Len(sent)
  BY <1>1 DEF ReadSoFar
<1> QED BY <1>3, <1>4, <1>5 DEF ReadIsWritten

\* The messages read from a stream, packed or not, are those written to it, segment by
\* segment; slices give the same, and nothing while a message is not whole (io.rs).
THEOREM ReadIsWrittenAlways == Spec => []ReadIsWritten
<1> QED BY StreamInvariant, InvReads, PTL
=============================================================================
