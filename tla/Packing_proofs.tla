--------------------------- MODULE Packing_proofs ---------------------------
(***************************************************************************)
(* What the packer writes is a code of the words it was given, and the     *)
(* unpacker gets the words from their code, whatever pieces the bytes come *)
(* in.  Recursive functions are dealt with by induction over sets of       *)
(* numbers and sets of sequences.                                          *)
(***************************************************************************)
EXTENDS Packing, SequenceTheorems, FiniteSetTheorems, WellFoundedInduction, TLAPS

\* Induction over the naturals, for a set: it needs no operator as a parameter.
LEMMA SetInduction ==
    ASSUME NEW T, 0 \in T, \A n \in Nat : n \in T => n + 1 \in T
    PROVE  \A n \in Nat : n \in T
<1> DEFINE Missing == Nat \ T
<1>1. SUFFICES ASSUME Missing # {} PROVE FALSE
  OBVIOUS
<1>2. PICK x \in Missing : \A y \in Missing : ~(<<y, x>> \in OpToRel(<, Nat))
  BY <1>1, NatLessThanWellFounded, WFMin
<1>3. x \in Nat /\ x # 0 /\ x - 1 \in Nat /\ x - 1 < x
  OBVIOUS
<1>4. x - 1 \notin Missing
  BY <1>2, <1>3 DEF OpToRel
<1>5. x - 1 + 1 \in T
  BY <1>3, <1>4
<1> QED BY <1>3, <1>5

\* r begins the sequence x, F[0, x], F[1, F[0, x]] and so on, up to n.
Begins(r, n, x, F) ==
    /\ r[0] = x
    /\ \A i \in Nat : i < n => r[i + 1] = F[<<i, r[i]>>]

\* Two beginnings of the same recursion agree as far as both go.
LEMMA BeginningsAgree ==
    ASSUME NEW x, NEW F, NEW n \in Nat, NEW r, NEW s, Begins(r, n, x, F), Begins(s, n, x, F)
    PROVE  r[n] = s[n]
<1> DEFINE U == { i \in Nat : i <= n => r[i] = s[i] }
<1>1. 0 \in U
  BY DEF Begins
<1>2. ASSUME NEW i \in Nat, i \in U PROVE i + 1 \in U
  <2> SUFFICES ASSUME i + 1 <= n PROVE r[i + 1] = s[i + 1]
    OBVIOUS
  <2>1. r[i] = s[i] /\ i < n
    BY <1>2
  <2>2. r[i + 1] = F[<<i, r[i]>>] /\ s[i + 1] = F[<<i, s[i]>>]
    BY <2>1 DEF Begins
  <2> QED BY <2>1, <2>2
<1>3. \A i \in Nat : i \in U
  <2> HIDE DEF U
  <2> QED BY <1>1, <1>2, SetInduction
<1> QED BY <1>3

Iterates(r, x, F) == r[0] = x /\ \A n \in Nat : r[n + 1] = F[<<n, r[n]>>]

\* A function defined by recursion on the naturals exists.
LEMMA Recursion ==
    ASSUME NEW S, NEW x \in S, NEW F \in [Nat \X S -> S]
    PROVE  \E r \in [Nat -> S] : Iterates(r, x, F)
<1> DEFINE T == { n \in Nat : \E r \in [Nat -> S] : Begins(r, n, x, F) }
<1>1. 0 \in T
  <2>1. [i \in Nat |-> x] \in [Nat -> S] /\ Begins([i \in Nat |-> x], 0, x, F)
    BY DEF Begins
  <2> QED BY <2>1
<1>2. ASSUME NEW n \in Nat, n \in T PROVE n + 1 \in T
  <2>1. PICK r \in [Nat -> S] : Begins(r, n, x, F)
    BY <1>2
  <2> DEFINE s == [r EXCEPT ![n + 1] = F[<<n, r[n]>>]]
  <2>2. r[n] \in S /\ <<n, r[n]>> \in Nat \X S /\ F[<<n, r[n]>>] \in S
    BY <2>1
  <2>3. s \in [Nat -> S]
    BY <2>2
  <2>4. s[n + 1] = F[<<n, r[n]>>] /\ \A i \in Nat : i <= n => s[i] = r[i]
    BY <2>2
  <2>5. Begins(s, n + 1, x, F)
    <3> HIDE DEF s
    <3>1. s[0] = x
      BY <2>1, <2>4 DEF Begins
    <3>2. ASSUME NEW i \in Nat, i < n + 1 PROVE s[i + 1] = F[<<i, s[i]>>]
      <4>1. CASE i < n
        <5>1. s[i + 1] = r[i + 1] /\ s[i] = r[i]
          BY <2>4, <4>1
        <5> QED BY <5>1, <4>1, <2>1 DEF Begins
      <4>2. CASE i = n
        BY <2>4, <4>2
      <4> QED BY <3>2, <4>1, <4>2
    <3> QED BY <3>1, <3>2 DEF Begins
  <2>6. n + 1 \in Nat /\ \E t \in [Nat -> S] : Begins(t, n + 1, x, F)
    <3> HIDE DEF s
    <3> QED BY <2>3, <2>5
  <2> QED BY <2>6
<1>3. \A n \in Nat : n \in T
  <2> HIDE DEF T
  <2> QED BY <1>1, <1>2, SetInduction
<1> DEFINE Of(n) == CHOOSE r \in [Nat -> S] : Begins(r, n, x, F)
           R == [n \in Nat |-> Of(n)[n]]
<1>4. ASSUME NEW n \in Nat PROVE Of(n) \in [Nat -> S] /\ Begins(Of(n), n, x, F)
  BY <1>3
<1> HIDE DEF Of
<1>5. R \in [Nat -> S]
  BY <1>4
<1>6. R[0] = x
  BY <1>4 DEF Begins
<1>7. ASSUME NEW n \in Nat PROVE R[n + 1] = F[<<n, R[n]>>]
  <2>1. Begins(Of(n + 1), n + 1, x, F) /\ Begins(Of(n), n, x, F)
    BY <1>4
  <2>2. Of(n + 1)[n + 1] = F[<<n, Of(n + 1)[n]>>] /\ Begins(Of(n + 1), n, x, F)
    BY <2>1 DEF Begins
  <2>3. Of(n + 1)[n] = Of(n)[n]
    BY <2>1, <2>2, BeginningsAgree
  <2> QED BY <2>2, <2>3
<1> QED BY <1>5, <1>6, <1>7 DEF Iterates

(***************************************************************************)
(* Sequences                                                               *)
(***************************************************************************)
LEMMA ConsFacts ==
    ASSUME NEW S, NEW x \in S, NEW s \in Seq(S)
    PROVE  /\ <<x>> \in Seq(S) /\ <<x>> \o s \in Seq(S) /\ Len(<<x>> \o s) = 1 + Len(s)
           /\ Head(<<x>> \o s) = x /\ Tail(<<x>> \o s) = s /\ <<x>> \o s # <<>>
<1>1. <<x>> \in Seq(S) /\ Len(<<x>>) = 1
  OBVIOUS
<1>2. /\ <<x>> \o s \in Seq(S) /\ Len(<<x>> \o s) = 1 + Len(s)
      /\ \A i \in 1..1 + Len(s) : (<<x>> \o s)[i] = IF i <= 1 THEN <<x>>[i] ELSE s[i - 1]
  BY <1>1, ConcatProperties
<1>3. Len(s) \in Nat /\ <<x>> \o s # <<>>
  BY <1>2, LenProperties, EmptySeq
<1>4. Tail(<<x>> \o s) = s
  <2>1. /\ Tail(<<x>> \o s) \in Seq(S) /\ Len(Tail(<<x>> \o s)) = Len(s)
        /\ \A i \in 1..Len(s) : Tail(<<x>> \o s)[i] = (<<x>> \o s)[i + 1]
    BY <1>2, <1>3, HeadTailProperties
  <2>2. \A i \in 1..Len(s) : Tail(<<x>> \o s)[i] = s[i]
    BY <1>2, <1>3, <2>1
  <2> QED BY <2>1, <2>2, SeqEqual
<1>5. Head(<<x>> \o s) = x
  BY <1>1, <1>2, <1>3
<1> QED BY <1>1, <1>2, <1>3, <1>4, <1>5

\* A sequence that is not empty is its head and its tail.
LEMMA UnconsFacts ==
    ASSUME NEW S, NEW s \in Seq(S), s # <<>>
    PROVE  /\ Head(s) \in S /\ Tail(s) \in Seq(S) /\ s = <<Head(s)>> \o Tail(s)
           /\ Len(s) \in Nat \ {0} /\ Len(Tail(s)) = Len(s) - 1
<1>1. Len(s) \in Nat \ {0}
  BY EmptySeq
<1>2. /\ Head(s) \in S /\ Tail(s) \in Seq(S) /\ Len(Tail(s)) = Len(s) - 1
      /\ \A i \in 1..Len(Tail(s)) : Tail(s)[i] = s[i + 1]
  BY HeadTailProperties
<1>3. Head(s) = s[1]
  OBVIOUS
<1>4. /\ <<Head(s)>> \o Tail(s) \in Seq(S)
      /\ Len(<<Head(s)>> \o Tail(s)) = 1 + Len(Tail(s))
      /\ \A i \in 1..1 + Len(Tail(s)) :
           (<<Head(s)>> \o Tail(s))[i] = IF i <= 1 THEN <<Head(s)>>[i] ELSE Tail(s)[i - 1]
  <2>1. <<Head(s)>> \in Seq(S) /\ Len(<<Head(s)>>) = 1
    BY <1>2
  <2> QED BY <1>2, <2>1, ConcatProperties
<1>5. \A i \in 1..Len(s) : s[i] = (<<Head(s)>> \o Tail(s))[i]
  BY <1>1, <1>2, <1>3, <1>4
<1>6. Len(s) = Len(<<Head(s)>> \o Tail(s))
  BY <1>1, <1>2, <1>4
<1>7. s = <<Head(s)>> \o Tail(s)
  BY <1>4, <1>5, <1>6, SeqEqual
<1> QED BY <1>1, <1>2, <1>7

\* Induction over sequences, from the front, for a set of sequences.
LEMMA SeqInduction ==
    ASSUME NEW S, NEW T, <<>> \in T,
           \A x \in S, s \in Seq(S) : s \in T => <<x>> \o s \in T
    PROVE  \A s \in Seq(S) : s \in T
<1> DEFINE U == { n \in Nat : \A s \in Seq(S) : Len(s) = n => s \in T }
<1>1. 0 \in U
  BY EmptySeq
<1>2. ASSUME NEW n \in Nat, n \in U PROVE n + 1 \in U
  <2> SUFFICES ASSUME NEW s \in Seq(S), Len(s) = n + 1 PROVE s \in T
    OBVIOUS
  <2>1. s # <<>>
    BY EmptySeq
  <2>2. /\ Head(s) \in S /\ Tail(s) \in Seq(S) /\ s = <<Head(s)>> \o Tail(s)
        /\ Len(Tail(s)) = Len(s) - 1
    BY <2>1, UnconsFacts
  <2>3. \A t \in Seq(S) : Len(t) = n => t \in T
    BY <1>2
  <2>4. Len(Tail(s)) = n
    BY <2>2
  <2>5. Tail(s) \in T
    BY <2>2, <2>3, <2>4
  <2> QED BY <2>2, <2>5
<1>3. \A n \in Nat : n \in U
  <2> HIDE DEF U
  <2> QED BY <1>1, <1>2, SetInduction
<1> QED BY <1>3, LenProperties

\* A sequence is what is before and what is behind a place in it.
LEMMA Cut ==
    ASSUME NEW S, NEW s \in Seq(S), NEW n \in 0..Len(s)
    PROVE  /\ First(s, n) \in Seq(S) /\ Len(First(s, n)) = n
           /\ From(s, n) \in Seq(S) /\ Len(From(s, n)) = Len(s) - n
           /\ s = First(s, n) \o From(s, n)
           /\ \A i \in 1..n : First(s, n)[i] = s[i]
           /\ \A i \in 1..Len(s) - n : From(s, n)[i] = s[n + i]
<1>1. Len(s) \in Nat /\ \A i \in 1..Len(s) : s[i] \in S
  BY LenProperties, ElementOfSeq
<1>2. /\ First(s, n) \in Seq(S) /\ Len(First(s, n)) = n
      /\ \A i \in 1..n : First(s, n)[i] = s[i]
  <2>1. n \in Int /\ 1 \in Int /\ \A i \in 1..n : s[i] \in S
    BY <1>1
  <2>2. /\ SubSeq(s, 1, n) \in Seq(S) /\ Len(SubSeq(s, 1, n)) = IF 1 <= n THEN n - 1 + 1 ELSE 0
        /\ \A i \in 1..n - 1 + 1 : SubSeq(s, 1, n)[i] = s[1 + i - 1]
    BY <2>1, SubSeqProperties
  <2> QED BY <1>1, <2>2 DEF First
<1>3. /\ From(s, n) \in Seq(S) /\ Len(From(s, n)) = Len(s) - n
      /\ \A i \in 1..Len(s) - n : From(s, n)[i] = s[n + i]
  <2>1. n + 1 \in Int /\ Len(s) \in Int /\ \A i \in n + 1..Len(s) : s[i] \in S
    BY <1>1
  <2>2. /\ SubSeq(s, n + 1, Len(s)) \in Seq(S)
        /\ Len(SubSeq(s, n + 1, Len(s))) = IF n + 1 <= Len(s) THEN Len(s) - (n + 1) + 1 ELSE 0
        /\ \A i \in 1..Len(s) - (n + 1) + 1 : SubSeq(s, n + 1, Len(s))[i] = s[(n + 1) + i - 1]
    BY <2>1, SubSeqProperties
  <2>3. Len(s) - (n + 1) + 1 = Len(s) - n /\ Len(From(s, n)) = Len(s) - n
    BY <1>1, <2>2 DEF From
  <2>4. ASSUME NEW i \in 1..Len(s) - n PROVE From(s, n)[i] = s[n + i]
    <3>1. i \in 1..Len(s) - (n + 1) + 1 /\ (n + 1) + i - 1 = n + i
      BY <1>1
    <3> QED BY <2>2, <3>1 DEF From
  <2> QED BY <2>2, <2>3, <2>4 DEF From
<1>4. s = First(s, n) \o From(s, n)
  <2>1. /\ First(s, n) \o From(s, n) \in Seq(S)
        /\ Len(First(s, n) \o From(s, n)) = n + (Len(s) - n)
        /\ \A i \in 1..n + (Len(s) - n) : (First(s, n) \o From(s, n))[i] =
             IF i <= n THEN First(s, n)[i] ELSE From(s, n)[i - n]
    BY <1>2, <1>3, ConcatProperties
  <2>2. Len(s) = n + (Len(s) - n)
    BY <1>1
  <2>3. ASSUME NEW i \in 1..Len(s) PROVE s[i] = (First(s, n) \o From(s, n))[i]
    <3>1. CASE i <= n
      BY <1>1, <1>2, <2>1, <3>1
    <3>2. CASE i > n
      <4>1. i - n \in 1..Len(s) - n /\ n + (i - n) = i
        BY <1>1, <3>2
      <4>2. (First(s, n) \o From(s, n))[i] = From(s, n)[i - n]
        BY <1>1, <2>1, <3>2
      <4> QED BY <1>3, <4>1, <4>2
    <3>3. i <= n \/ i > n
      BY <1>1
    <3> QED BY <3>1, <3>2, <3>3
  <2> QED BY <2>1, <2>2, <2>3, SeqEqual
<1> QED BY <1>2, <1>3, <1>4

\* Cutting a concatenation where it was put together gives its two parts.
LEMMA CutOfCat ==
    ASSUME NEW S, NEW a \in Seq(S), NEW b \in Seq(S)
    PROVE  /\ Len(a \o b) = Len(a) + Len(b) /\ a \o b \in Seq(S)
           /\ First(a \o b, Len(a)) = a /\ From(a \o b, Len(a)) = b
<1>1. /\ a \o b \in Seq(S) /\ Len(a \o b) = Len(a) + Len(b) /\ Len(a) \in Nat /\ Len(b) \in Nat
      /\ \A i \in 1..Len(a) + Len(b) : (a \o b)[i] = IF i <= Len(a) THEN a[i] ELSE b[i - Len(a)]
  BY ConcatProperties, LenProperties
<1>2. Len(a) \in 0..Len(a \o b)
  BY <1>1
<1>3. First(a \o b, Len(a)) = a
  <2>1. /\ First(a \o b, Len(a)) \in Seq(S) /\ Len(First(a \o b, Len(a))) = Len(a)
        /\ \A i \in 1..Len(a) : First(a \o b, Len(a))[i] = (a \o b)[i]
    BY <1>1, <1>2, Cut
  <2>2. \A i \in 1..Len(a) : First(a \o b, Len(a))[i] = a[i]
    BY <1>1, <2>1
  <2> QED BY <2>1, <2>2, SeqEqual
<1>4. From(a \o b, Len(a)) = b
  <2>1. /\ From(a \o b, Len(a)) \in Seq(S) /\ Len(From(a \o b, Len(a))) = Len(a \o b) - Len(a)
        /\ \A i \in 1..Len(a \o b) - Len(a) : From(a \o b, Len(a))[i] = (a \o b)[Len(a) + i]
    BY <1>1, <1>2, Cut
  <2>2. Len(a \o b) - Len(a) = Len(b)
    BY <1>1
  <2>3. ASSUME NEW i \in 1..Len(b) PROVE From(a \o b, Len(a))[i] = b[i]
    <3>1. From(a \o b, Len(a))[i] = (a \o b)[Len(a) + i]
      BY <2>1, <2>2
    <3>2. Len(a) + i \in 1..Len(a) + Len(b) /\ ~(Len(a) + i <= Len(a)) /\ Len(a) + i - Len(a) = i
      BY <1>1
    <3> QED BY <1>1, <3>1, <3>2
  <2> QED BY <2>1, <2>2, <2>3, SeqEqual
<1> QED BY <1>1, <1>3, <1>4

\* Concatenation and a sequence of one, as the provers see them below: by these facts alone.
Cat(a, b) == a \o b
One(x) == <<x>>

\* What the next lemmas say of concatenation one by one.
LEMMA CatFacts ==
    ASSUME NEW S
    PROVE  /\ <<>> \in Seq(S) /\ \A x \in S : <<x>> \in Seq(S)
           /\ \A a, b \in Seq(S) : Cat(a, b) \in Seq(S)
           /\ \A a, b, c \in Seq(S) : Cat(Cat(a, b), c) = Cat(a, Cat(b, c))
           /\ \A a \in Seq(S) : Cat(a, <<>>) = a /\ Cat(<<>>, a) = a
BY ConcatProperties, ConcatAssociative, ConcatEmptySeq DEF Cat

\* A concatenation of sequences over S is one.
LEMMA CatType ==
    ASSUME NEW S, NEW a \in Seq(S), NEW b \in Seq(S)
    PROVE  Cat(a, b) \in Seq(S)
BY CatFacts

\* Concatenation is associative.
LEMMA CatAssoc ==
    ASSUME NEW S, NEW a \in Seq(S), NEW b \in Seq(S), NEW c \in Seq(S)
    PROVE  Cat(Cat(a, b), c) = Cat(a, Cat(b, c))
BY CatFacts

\* Nothing before or behind a sequence changes it.
LEMMA CatEmpty ==
    ASSUME NEW S, NEW a \in Seq(S)
    PROVE  Cat(a, <<>>) = a /\ Cat(<<>>, a) = a
BY CatFacts

\* A sequence of one element.
LEMMA OneType ==
    ASSUME NEW S, NEW x \in S
    PROVE  One(x) \in Seq(S) /\ Len(One(x)) = 1
BY DEF One

\* The length of a concatenation.
LEMMA CatLen ==
    ASSUME NEW S, NEW a \in Seq(S), NEW b \in Seq(S)
    PROVE  Len(Cat(a, b)) = Len(a) + Len(b) /\ Len(a) \in Nat /\ Len(b) \in Nat
BY ConcatProperties, LenProperties DEF Cat

\* A sequence is empty exactly if its length is 0.
LEMMA LenZero ==
    ASSUME NEW S, NEW s \in Seq(S)
    PROVE  Len(s) \in Nat /\ (s = <<>> <=> Len(s) = 0)
BY EmptySeq, LenProperties

\* Where two concatenations agree and their fronts are as long, the parts agree.
LEMMA CatCancel ==
    ASSUME NEW S, NEW a \in Seq(S), NEW b \in Seq(S), NEW c \in Seq(S), NEW d \in Seq(S),
           Cat(a, b) = Cat(c, d), Len(a) = Len(c)
    PROVE  a = c /\ b = d
<1>1. First(Cat(a, b), Len(a)) = a /\ From(Cat(a, b), Len(a)) = b
  BY CutOfCat DEF Cat
<1>2. First(Cat(c, d), Len(c)) = c /\ From(Cat(c, d), Len(c)) = d
  BY CutOfCat DEF Cat
<1> QED BY <1>1, <1>2

\* An element in front of a sequence is its head.
LEMMA ConsCat ==
    ASSUME NEW S, NEW x \in S, NEW s \in Seq(S)
    PROVE  /\ Cat(One(x), s) \in Seq(S) /\ Len(Cat(One(x), s)) = 1 + Len(s)
           /\ Head(Cat(One(x), s)) = x /\ Tail(Cat(One(x), s)) = s /\ Cat(One(x), s) # <<>>
BY ConsFacts DEF Cat, One

\* A sequence that is not empty has a first element in front of the rest.
LEMMA UnconsCat ==
    ASSUME NEW S, NEW s \in Seq(S), s # <<>>
    PROVE  /\ Head(s) \in S /\ Tail(s) \in Seq(S) /\ s = Cat(One(Head(s)), Tail(s))
           /\ Len(s) \in Nat \ {0} /\ Len(Tail(s)) = Len(s) - 1
BY UnconsFacts DEF Cat, One

\* Induction over sequences, put together by concatenation.
LEMMA CatInduction ==
    ASSUME NEW S, NEW T, <<>> \in T,
           \A x \in S, s \in Seq(S) : s \in T => Cat(One(x), s) \in T
    PROVE  \A s \in Seq(S) : s \in T
BY SeqInduction DEF Cat, One

\* The front of a sequence and what is behind it are the sequence.
LEMMA CutCat ==
    ASSUME NEW S, NEW s \in Seq(S), NEW n \in Nat, n <= Len(s)
    PROVE  /\ First(s, n) \in Seq(S) /\ Len(First(s, n)) = n
           /\ From(s, n) \in Seq(S) /\ Len(From(s, n)) = Len(s) - n
           /\ s = Cat(First(s, n), From(s, n))
<1>1. n \in 0..Len(s)
  BY LenProperties
<1> QED BY <1>1, Cut DEF Cat

\* The front of a concatenation that is as long as its first part is that part.
LEMMA CatCut ==
    ASSUME NEW S, NEW a \in Seq(S), NEW b \in Seq(S)
    PROVE  First(Cat(a, b), Len(a)) = a /\ From(Cat(a, b), Len(a)) = b
BY CutOfCat DEF Cat

\* Of two ways to cut a sequence, one has what is between the cuts.
LEMMA Overlap ==
    ASSUME NEW S, NEW a \in Seq(S), NEW b \in Seq(S), NEW c \in Seq(S), NEW d \in Seq(S),
           Cat(a, b) = Cat(c, d), Len(a) <= Len(c)
    PROVE  \E m \in Seq(S) : c = Cat(a, m) /\ b = Cat(m, d)
<1>1. Len(a) \in Nat /\ Len(c) \in Nat
  BY LenProperties
<1>2. /\ First(c, Len(a)) \in Seq(S) /\ From(c, Len(a)) \in Seq(S)
      /\ Len(First(c, Len(a))) = Len(a) /\ c = Cat(First(c, Len(a)), From(c, Len(a)))
  BY <1>1, CutCat
<1>3. PICK f \in Seq(S), m \in Seq(S) : c = Cat(f, m) /\ Len(f) = Len(a)
  BY <1>2
<1>4. Cat(a, b) = Cat(f, Cat(m, d)) /\ Cat(m, d) \in Seq(S)
  BY <1>3, CatFacts
<1>5. a = f /\ b = Cat(m, d)
  BY <1>3, <1>4, CatCancel
<1> QED BY <1>3, <1>5

(***************************************************************************)
(* Sequences put together                                                  *)
(***************************************************************************)
Flattens(f, s) == f = [i \in 1..Len(s) |-> IF i = 1 THEN s[i] ELSE f[i - 1] \o s[i]]

\* FlattenSeq is a function defined by recursion over the sequence of sequences.
LEMMA Flattening ==
    ASSUME NEW S, NEW s \in Seq(Seq(S)), s # <<>>
    PROVE  /\ Len(s) \in Nat \ {0}
           /\ \E f \in [1..Len(s) -> Seq(S)] : Flattens(f, s) /\ FlattenSeq(s) = f[Len(s)]
<1>1. Len(s) \in Nat \ {0} /\ \A i \in 1..Len(s) : s[i] \in Seq(S)
  BY EmptySeq, ElementOfSeq
<1> DEFINE F == [p \in Nat \X Seq(S) |-> IF p[1] + 2 <= Len(s) THEN p[2] \o s[p[1] + 2] ELSE p[2]]
<1>2. F \in [Nat \X Seq(S) -> Seq(S)]
  BY <1>1, ConcatProperties
<1>3. \A i \in Nat, v \in Seq(S) : i + 2 <= Len(s) => F[<<i, v>>] = v \o s[i + 2]
  OBVIOUS
<1>4. PICK r \in [Nat -> Seq(S)] : r[0] = s[1] /\ \A n \in Nat : r[n + 1] = F[<<n, r[n]>>]
  <2> DEFINE T == Seq(S)
             x == s[1]
  <2>1. x \in T /\ F \in [Nat \X T -> T]
    BY <1>1, <1>2
  <2> HIDE DEF F, T, x
  <2>2. \E r \in [Nat -> T] : Iterates(r, x, F)
    BY <2>1, Recursion
  <2> QED BY <2>2 DEF T, x, Iterates
<1> HIDE DEF F
<1> DEFINE f == [i \in 1..Len(s) |-> r[i - 1]]
<1>5. f \in [1..Len(s) -> Seq(S)]
  <2>1. \A i \in 1..Len(s) : i - 1 \in Nat
    BY <1>1
  <2> QED BY <1>4, <2>1
<1>6. ASSUME NEW i \in 1..Len(s)
      PROVE  f[i] = IF i = 1 THEN s[i] ELSE f[i - 1] \o s[i]
  <2>1. CASE i = 1
    BY <1>4, <2>1
  <2>2. CASE i # 1
    <3>1. i - 2 \in Nat /\ (i - 2) + 2 <= Len(s) /\ (i - 2) + 1 = i - 1 /\ i - 1 \in 1..Len(s)
          /\ (i - 1) - 1 = i - 2 /\ (i - 2) + 2 = i
      BY <1>1, <2>2
    <3>2. r[(i - 2) + 1] = F[<<i - 2, r[i - 2]>>] /\ r[i - 2] \in Seq(S)
      BY <1>4, <3>1
    <3>3. r[i - 1] = r[i - 2] \o s[i]
      BY <1>3, <3>1, <3>2
    <3> QED BY <2>2, <3>1, <3>3
  <2> QED BY <2>1, <2>2
<1>7. Flattens(f, s)
  <2> HIDE DEF f
  <2>1. f = [i \in 1..Len(s) |-> f[i]]
    BY <1>5
  <2> QED BY <1>6, <2>1 DEF Flattens
<1> HIDE DEF f
<1>8. Flattens(CHOOSE g : Flattens(g, s), s)
  BY <1>7
<1>9. (CHOOSE g : Flattens(g, s)) = f
  <2> DEFINE g == CHOOSE h : Flattens(h, s)
             U == { n \in Nat : n + 1 <= Len(s) => g[n + 1] = f[n + 1] }
  <2> HIDE DEF g
  <2>1. Flattens(g, s)
    BY <1>8 DEF g
  <2>2. \A i \in 1..Len(s) : /\ g[i] = IF i = 1 THEN s[i] ELSE g[i - 1] \o s[i]
                             /\ f[i] = IF i = 1 THEN s[i] ELSE f[i - 1] \o s[i]
    BY <1>7, <2>1 DEF Flattens
  <2>3. 0 \in U
    BY <2>2
  <2>4. ASSUME NEW n \in Nat, n \in U PROVE n + 1 \in U
    <3>1. ASSUME n + 1 + 1 <= Len(s) PROVE g[n + 1 + 1] = f[n + 1 + 1]
      <4>1. g[n + 1] = f[n + 1]
        BY <1>1, <2>4, <3>1
      <4>2. n + 1 + 1 \in 1..Len(s) /\ n + 1 + 1 # 1 /\ (n + 1 + 1) - 1 = n + 1
        BY <1>1, <3>1
      <4>3. /\ g[n + 1 + 1] = g[(n + 1 + 1) - 1] \o s[n + 1 + 1]
            /\ f[n + 1 + 1] = f[(n + 1 + 1) - 1] \o s[n + 1 + 1]
        BY <2>2, <4>2
      <4> QED BY <4>1, <4>2, <4>3
    <3>2. n + 1 \in Nat
      OBVIOUS
    <3> QED BY <3>1, <3>2
  <2>5. \A n \in Nat : n \in U
    <3> HIDE DEF U
    <3> QED BY <2>3, <2>4, SetInduction
  <2>6. ASSUME NEW i \in 1..Len(s) PROVE g[i] = f[i]
    <3>1. i - 1 \in Nat /\ (i - 1) + 1 = i /\ i <= Len(s)
      BY <1>1
    <3>2. i - 1 \in U
      BY <2>5, <3>1
    <3> QED BY <3>1, <3>2
  <2>7. g = [i \in 1..Len(s) |-> g[i]] /\ f = [i \in 1..Len(s) |-> f[i]]
    BY <1>5, <2>1 DEF Flattens
  <2> QED BY <2>6, <2>7 DEF g
<1>10. FlattenSeq(s) = (CHOOSE g : Flattens(g, s))[Len(s)]
  BY <1>1, Zenon DEF FlattenSeq, Flattens
<1> QED BY <1>1, <1>5, <1>7, <1>9, <1>10

\* The sequences put together, from the first one on.
LEMMA FlatEmpty == FlattenSeq(<<>>) = <<>>
BY Zenon DEF FlattenSeq

\* One sequence, flattened, is that sequence.
LEMMA FlatOne ==
    ASSUME NEW S, NEW x \in Seq(S)
    PROVE  FlattenSeq(One(x)) = x
<1>1. <<x>> \in Seq(Seq(S)) /\ <<x>> # <<>> /\ Len(<<x>>) = 1 /\ <<x>>[1] = x
  OBVIOUS
<1>2. PICK f \in [1..Len(<<x>>) -> Seq(S)] : Flattens(f, <<x>>) /\ FlattenSeq(<<x>>) = f[Len(<<x>>)]
  BY <1>1, Flattening
<1>3. f[1] = <<x>>[1]
  BY <1>1, <1>2 DEF Flattens
<1> QED BY <1>1, <1>2, <1>3 DEF One

\* Sequences over S, flattened, are one.
LEMMA FlatType ==
    ASSUME NEW S, NEW s \in Seq(Seq(S))
    PROVE  FlattenSeq(s) \in Seq(S)
<1>1. CASE s = <<>>
  BY <1>1, FlatEmpty, CatFacts
<1>2. CASE s # <<>>
  <2>1. PICK f \in [1..Len(s) -> Seq(S)] : FlattenSeq(s) = f[Len(s)]
    BY <1>2, Flattening
  <2>2. Len(s) \in 1..Len(s)
    BY <1>2, Flattening
  <2> QED BY <2>1, <2>2
<1> QED BY <1>1, <1>2

\* The first of the sequences comes first.
LEMMA FlatCons ==
    ASSUME NEW S, NEW x \in Seq(S), NEW s \in Seq(Seq(S))
    PROVE  FlattenSeq(Cat(One(x), s)) = Cat(x, FlattenSeq(s))
<1>1. CASE s = <<>>
  <2>1. One(x) \in Seq(Seq(S))
    BY OneType
  <2>2. Cat(One(x), s) = One(x) /\ Cat(x, <<>>) = x
    BY <1>1, <2>1, CatEmpty
  <2> QED BY <1>1, <2>2, FlatOne, FlatEmpty
<1>2. CASE s # <<>>
  <2> DEFINE t == Cat(One(x), s)
  <2>1. /\ t \in Seq(Seq(S)) /\ Len(t) = 1 + Len(s) /\ t # <<>> /\ Len(s) \in Nat \ {0}
        /\ t[1] = x /\ \A i \in 1..Len(s) : t[i + 1] = s[i]
    <3>1. t \in Seq(Seq(S)) /\ Len(t) = 1 + Len(s) /\ t # <<>> /\ Head(t) = x /\ Tail(t) = s
      BY ConsCat
    <3>2. Len(s) \in Nat \ {0}
      BY <1>2, UnconsCat
    <3>3. \A i \in 1..Len(Tail(t)) : Tail(t)[i] = t[i + 1]
      <4> HIDE DEF t
      <4> QED BY <3>1, HeadTailProperties
    <3>4. \A i \in 1..Len(s) : t[i + 1] = s[i]
      <4> HIDE DEF t
      <4> QED BY <3>1, <3>3
    <3>5. t[1] = x
      <4> HIDE DEF t
      <4> QED BY <3>1
    <3> QED BY <3>1, <3>2, <3>4, <3>5
  <2> HIDE DEF t
  <2>2. PICK f \in [1..Len(s) -> Seq(S)] : Flattens(f, s) /\ FlattenSeq(s) = f[Len(s)]
    BY <1>2, Flattening
  <2>3. PICK g \in [1..Len(t) -> Seq(S)] : Flattens(g, t) /\ FlattenSeq(t) = g[Len(t)]
    BY <2>1, Flattening
  <2> DEFINE U == { n \in Nat : n + 1 <= Len(s) => g[n + 2] = Cat(x, f[n + 1]) }
  <2>4. \A i \in 1..Len(s) : f[i] = IF i = 1 THEN s[i] ELSE Cat(f[i - 1], s[i])
    BY <2>2 DEF Flattens, Cat
  <2>5. \A i \in 1..Len(t) : g[i] = IF i = 1 THEN t[i] ELSE Cat(g[i - 1], t[i])
    BY <2>3 DEF Flattens, Cat
  <2>6. \A i \in 1..Len(s) : s[i] \in Seq(S) /\ f[i] \in Seq(S)
    BY <2>2, ElementOfSeq
  <2>7. 0 \in U
    <3>1. 1 \in 1..Len(s) /\ 1 \in 1..Len(t) /\ 2 \in 1..Len(t) /\ 2 - 1 = 1 /\ 1 + 1 = 2
      BY <2>1
    <3>2. g[1] = x /\ f[1] = s[1] /\ t[2] = s[1]
      BY <2>1, <2>4, <2>5, <3>1
    <3>3. g[2] = Cat(g[1], t[2])
      BY <2>5, <3>1
    <3> QED BY <3>2, <3>3
  <2>8. ASSUME NEW n \in Nat, n \in U PROVE n + 1 \in U
    <3> SUFFICES ASSUME n + 1 + 1 <= Len(s) PROVE g[n + 1 + 2] = Cat(x, f[n + 1 + 1])
      OBVIOUS
    <3>1. /\ n + 2 \in 1..Len(s) /\ n + 3 \in 1..Len(t) /\ n + 1 \in 1..Len(s) /\ (n + 3) - 1 = n + 2
          /\ (n + 2) + 1 = n + 3 /\ (n + 2) - 1 = n + 1 /\ n + 2 # 1 /\ n + 3 # 1
          /\ n + 1 + 2 = n + 3 /\ n + 1 + 1 = n + 2 /\ n + 1 <= Len(s)
      BY <2>1
    <3>2. g[n + 2] = Cat(x, f[n + 1])
      BY <2>8, <3>1
    <3>3. g[n + 3] = Cat(g[n + 2], t[n + 3]) /\ t[n + 3] = s[n + 2]
      BY <2>1, <2>5, <3>1
    <3>4. f[n + 2] = Cat(f[n + 1], s[n + 2])
      BY <2>4, <3>1
    <3>5. f[n + 1] \in Seq(S) /\ s[n + 2] \in Seq(S)
      BY <2>6, <3>1
    <3>6. Cat(Cat(x, f[n + 1]), s[n + 2]) = Cat(x, Cat(f[n + 1], s[n + 2]))
      BY <3>5, CatAssoc
    <3> QED BY <3>1, <3>2, <3>3, <3>4, <3>6
  <2>9. \A n \in Nat : n \in U
    <3> HIDE DEF U
    <3> QED BY <2>7, <2>8, SetInduction
  <2>10. Len(s) - 1 \in Nat /\ Len(s) - 1 + 1 = Len(s) /\ Len(s) - 1 + 2 = Len(t)
    BY <2>1
  <2>11. Len(s) - 1 \in U
    BY <2>9, <2>10
  <2>12. g[Len(t)] = Cat(x, f[Len(s)])
    BY <2>1, <2>10, <2>11
  <2> QED BY <2>2, <2>3, <2>12 DEF t
<1> QED BY <1>1, <1>2

\* What is flattened in two parts is concatenated.
LEMMA FlatCat ==
    ASSUME NEW S, NEW a \in Seq(Seq(S)), NEW b \in Seq(Seq(S))
    PROVE  FlattenSeq(Cat(a, b)) = Cat(FlattenSeq(a), FlattenSeq(b))
<1> DEFINE T == Seq(S)
           U == { s \in Seq(T) : FlattenSeq(Cat(s, b)) = Cat(FlattenSeq(s), FlattenSeq(b)) }
<1>1. <<>> \in U
  BY FlatEmpty, FlatType, CatFacts
<1>2. ASSUME NEW x \in T, NEW s \in Seq(T), s \in U PROVE Cat(One(x), s) \in U
  <2>1. /\ One(x) \in Seq(T) /\ Cat(s, b) \in Seq(T) /\ Cat(One(x), s) \in Seq(T)
        /\ Cat(Cat(One(x), s), b) = Cat(One(x), Cat(s, b))
    <3> HIDE DEF T
    <3>1. One(x) \in Seq(T)
      BY OneType
    <3>2. b \in Seq(T)
      BY DEF T
    <3>3. Cat(s, b) \in Seq(T) /\ Cat(One(x), s) \in Seq(T)
      BY <3>1, <3>2, CatType
    <3>4. Cat(Cat(One(x), s), b) = Cat(One(x), Cat(s, b))
      BY <3>1, <3>2, CatAssoc
    <3> QED BY <3>1, <3>3, <3>4
  <2>2. FlattenSeq(Cat(One(x), Cat(s, b))) = Cat(x, FlattenSeq(Cat(s, b)))
    BY <2>1, FlatCons
  <2>3. FlattenSeq(Cat(One(x), s)) = Cat(x, FlattenSeq(s))
    BY FlatCons
  <2>4. Cat(Cat(x, FlattenSeq(s)), FlattenSeq(b)) = Cat(x, Cat(FlattenSeq(s), FlattenSeq(b)))
    BY FlatType, CatFacts
  <2> QED BY <1>2, <2>1, <2>2, <2>3, <2>4
<1>3. \A s \in Seq(T) : s \in U
  <2> HIDE DEF T, U
  <2> QED BY <1>1, <1>2, CatInduction
<1> QED BY <1>3

\* f is the sequence that begins with x and goes on by F, up to K: what a recursive function
\* of the model says of itself.
Follows(f, K, x, F) == f = [n \in 0..K |-> IF n = 0 THEN x ELSE F[<<n - 1, f[n - 1]>>]]

\* A function defined by recursion up to K exists.
LEMMA FollowsExists ==
    ASSUME NEW S, NEW x \in S, NEW F \in [Nat \X S -> S], NEW K \in Nat
    PROVE  \E f \in [0..K -> S] : Follows(f, K, x, F)
<1>1. PICK r \in [Nat -> S] : Iterates(r, x, F)
  BY Recursion
<1> DEFINE f == [n \in 0..K |-> r[n]]
<1>2. f \in [0..K -> S]
  OBVIOUS
<1>3. ASSUME NEW n \in 0..K PROVE f[n] = IF n = 0 THEN x ELSE F[<<n - 1, f[n - 1]>>]
  <2>1. CASE n = 0
    BY <1>1, <2>1 DEF Iterates
  <2>2. CASE n # 0
    <3>1. n - 1 \in Nat /\ n - 1 \in 0..K /\ (n - 1) + 1 = n
      BY <2>2
    <3>2. r[(n - 1) + 1] = F[<<n - 1, r[n - 1]>>]
      BY <1>1, <3>1 DEF Iterates
    <3> QED BY <2>2, <3>1, <3>2
  <2> QED BY <2>1, <2>2
<1> HIDE DEF f
<1>4. f = [n \in 0..K |-> f[n]]
  BY <1>2
<1>5. Follows(f, K, x, F)
  BY <1>3, <1>4 DEF Follows
<1> QED BY <1>2, <1>5

(***************************************************************************)
(* The tag of a word and the bytes that are written                        *)
(***************************************************************************)
TagFrom(w, n) == Coded(w)[n].tag
BytesFrom(w, n) == Coded(w)[n].bytes

\* The sizes are numbers.
LEMMA SizeFacts == WordBytes \in Nat \ {0} /\ MaxRun \in Nat
BY PackingAssumption

\* Coded is the recursion over the bytes of a word that it is defined by.
LEMMA CodedFacts ==
    ASSUME NEW w \in Word
    PROVE  /\ TagFrom(w, 0) = 0 /\ BytesFrom(w, 0) = <<>>
           /\ \A n \in 0..WordBytes : TagFrom(w, n) \in Nat /\ BytesFrom(w, n) \in Seq(Byte)
           /\ \A n \in 0..WordBytes - 1 :
                IF w[WordBytes - n] = 0
                THEN /\ TagFrom(w, n + 1) = 2 * TagFrom(w, n)
                     /\ BytesFrom(w, n + 1) = BytesFrom(w, n)
                ELSE /\ TagFrom(w, n + 1) = 2 * TagFrom(w, n) + 1
                     /\ BytesFrom(w, n + 1) = Cat(One(w[WordBytes - n]), BytesFrom(w, n))
<1> DEFINE S == [tag : Nat, bytes : Seq(Byte)]
           x == [tag |-> 0, bytes |-> <<>>]
           Next1(b, c) == IF b = 0 THEN [c EXCEPT !.tag = 2 * @]
                          ELSE [tag |-> 2 * c.tag + 1, bytes |-> <<b>> \o c.bytes]
           At(i) == IF WordBytes - i \in 1..WordBytes THEN w[WordBytes - i] ELSE 0
           F == [p \in Nat \X S |-> Next1(At(p[1]), p[2])]
<1>1. WordBytes \in Nat \ {0} /\ \A i \in 1..WordBytes : w[i] \in Byte
  BY SizeFacts DEF Word
<1>2. ASSUME NEW b, b = 0 \/ b \in Byte, NEW c \in S PROVE Next1(b, c) \in S
  <2>1. CASE b = 0
    BY <2>1
  <2>2. CASE b # 0
    <3>1. <<b>> \o c.bytes \in Seq(Byte)
      BY <1>2, <2>2, ConsFacts
    <3>2. 2 * c.tag + 1 \in Nat
      OBVIOUS
    <3> QED BY <2>2, <3>1, <3>2
  <2> QED BY <2>1, <2>2
<1>3. x \in S
  BY CatFacts
<1>4. F \in [Nat \X S -> S]
  <2> HIDE DEF S, Next1
  <2>1. \A i \in Nat : At(i) = 0 \/ At(i) \in Byte
    BY <1>1
  <2> QED BY <1>2, <2>1
<1>5. PICK f \in [0..WordBytes -> S] : Follows(f, WordBytes, x, F)
  <2> HIDE DEF S, x, F
  <2> QED BY <1>1, <1>3, <1>4, FollowsExists
<1> DEFINE G(g) == [n \in 0..WordBytes |->
                      IF n = 0 THEN [tag |-> 0, bytes |-> <<>>]
                      ELSE LET b == w[WordBytes - n + 1]
                               rest == g[n - 1]
                           IN  IF b = 0 THEN [rest EXCEPT !.tag = 2 * @]
                               ELSE [tag |-> 2 * rest.tag + 1, bytes |-> <<b>> \o rest.bytes]]
<1>6. f = G(f)
  <2>1. \A n \in 0..WordBytes : f[n] = IF n = 0 THEN x ELSE F[<<n - 1, f[n - 1]>>]
    BY <1>5 DEF Follows
  <2>2. ASSUME NEW n \in 0..WordBytes PROVE f[n] = G(f)[n]
    <3>1. CASE n = 0
      BY <2>1, <3>1
    <3>2. CASE n # 0
      <4>1. /\ n - 1 \in Nat /\ n - 1 \in 0..WordBytes /\ WordBytes - (n - 1) \in 1..WordBytes
            /\ WordBytes - (n - 1) = WordBytes - n + 1
        BY <1>1, <3>2
      <4>2. f[n - 1] \in S
        BY <1>5, <4>1
      <4>3. f[n] = Next1(At(n - 1), f[n - 1])
        <5> HIDE DEF S, Next1, At
        <5> QED BY <2>1, <3>2, <4>1, <4>2
      <4>4. At(n - 1) = w[WordBytes - n + 1]
        BY <4>1
      <4>5. f[n] = Next1(w[WordBytes - n + 1], f[n - 1])
        BY <4>3, <4>4
      <4> QED BY <3>2, <4>5
    <3> QED BY <3>1, <3>2
  <2>3. f = [n \in 0..WordBytes |-> f[n]]
    BY <1>5
  <2> QED BY <2>2, <2>3
<1>7. Coded(w) = CHOOSE g : g = G(g)
  BY Zenon DEF Coded
<1> DEFINE C == CHOOSE g : g = G(g)
<1>8. C = G(C)
  <2> HIDE DEF G
  <2> QED BY <1>6
<1>9. Coded(w) = C
  BY <1>7
<1> HIDE DEF C
<1>10. /\ C[0] = x
       /\ \A n \in 0..WordBytes - 1 : C[n + 1] = Next1(w[WordBytes - n], C[n])
  <2>1. C[0] = x
    BY <1>1, <1>8
  <2>2. ASSUME NEW n \in 0..WordBytes - 1 PROVE C[n + 1] = Next1(w[WordBytes - n], C[n])
    <3>1. n + 1 \in 0..WordBytes /\ n + 1 # 0 /\ WordBytes - (n + 1) + 1 = WordBytes - n
          /\ (n + 1) - 1 = n
      BY <1>1
    <3> QED BY <1>8, <3>1
  <2> QED BY <2>1, <2>2
<1> DEFINE U == { n \in Nat : n <= WordBytes => C[n] \in S }
<1>11. \A n \in Nat : n \in U
  <2>1. 0 \in U
    BY <1>3, <1>10
  <2>2. ASSUME NEW n \in Nat, n \in U PROVE n + 1 \in U
    <3> HIDE DEF S, x, Next1
    <3>1. ASSUME n + 1 <= WordBytes PROVE C[n + 1] \in S
      <4>1. n \in 0..WordBytes - 1 /\ WordBytes - n \in 1..WordBytes /\ n <= WordBytes
        BY <1>1, <3>1
      <4>2. C[n] \in S /\ w[WordBytes - n] \in Byte
        BY <1>1, <2>2, <4>1
      <4> QED BY <1>2, <1>10, <4>1, <4>2
    <3>2. n + 1 \in Nat
      OBVIOUS
    <3> QED BY <3>1, <3>2
  <2> HIDE DEF U
  <2> QED BY <2>1, <2>2, SetInduction
<1>12. \A n \in 0..WordBytes : C[n] \in S
  <2> HIDE DEF S
  <2> QED BY <1>1, <1>11
<1>13. ASSUME NEW n \in 0..WordBytes PROVE TagFrom(w, n) \in Nat /\ BytesFrom(w, n) \in Seq(Byte)
  BY <1>9, <1>12 DEF TagFrom, BytesFrom
<1>14. ASSUME NEW n \in 0..WordBytes - 1
       PROVE  IF w[WordBytes - n] = 0
              THEN /\ TagFrom(w, n + 1) = 2 * TagFrom(w, n)
                   /\ BytesFrom(w, n + 1) = BytesFrom(w, n)
              ELSE /\ TagFrom(w, n + 1) = 2 * TagFrom(w, n) + 1
                   /\ BytesFrom(w, n + 1) = Cat(One(w[WordBytes - n]), BytesFrom(w, n))
  <2>1. C[n + 1] = Next1(w[WordBytes - n], C[n]) /\ C[n] \in S
    <3> HIDE DEF S, Next1
    <3>1. n \in 0..WordBytes
      BY <1>1
    <3> QED BY <1>10, <1>12, <3>1
  <2> QED BY <1>9, <2>1 DEF TagFrom, BytesFrom, Cat, One
<1> QED BY <1>9, <1>10, <1>13, <1>14 DEF TagFrom, BytesFrom

\* A word is a sequence of WordBytes bytes.
LEMMA WordFacts ==
    ASSUME NEW w \in Word
    PROVE  w \in Seq(Byte) /\ Len(w) = WordBytes /\ \A i \in 1..WordBytes : w[i] \in Byte
BY SizeFacts DEF Word

\* The first n + 1 elements are the first n and the next.
LEMMA FirstNext ==
    ASSUME NEW S, NEW s \in Seq(S), NEW n \in Nat, n < Len(s)
    PROVE  First(s, n + 1) = Append(First(s, n), s[n + 1])
<1>1. Len(s) \in Nat /\ n \in 0..Len(s) /\ n + 1 \in 0..Len(s) /\ n + 1 \in 1..Len(s)
  BY LenProperties
<1>2. /\ First(s, n) \in Seq(S) /\ Len(First(s, n)) = n /\ \A i \in 1..n : First(s, n)[i] = s[i]
  BY <1>1, Cut
<1>3. /\ First(s, n + 1) \in Seq(S) /\ Len(First(s, n + 1)) = n + 1
      /\ \A i \in 1..n + 1 : First(s, n + 1)[i] = s[i]
  BY <1>1, Cut
<1>4. s[n + 1] \in S
  BY <1>1, ElementOfSeq
<1> DEFINE a == First(s, n)
           b == First(s, n + 1)
           e == s[n + 1]
<1>5. /\ Append(a, e) \in Seq(S) /\ Len(Append(a, e)) = Len(a) + 1
      /\ \A i \in 1..Len(a) : Append(a, e)[i] = a[i]
      /\ Append(a, e)[Len(a) + 1] = e
  <2> HIDE DEF a, e
  <2> QED BY <1>2, <1>4, AppendProperties DEF a, e
<1>6. \A i \in 1..n + 1 : b[i] = Append(a, e)[i]
  <2>1. \A i \in 1..n : b[i] = Append(a, e)[i]
    BY <1>2, <1>3, <1>5
  <2>2. b[n + 1] = Append(a, e)[n + 1]
    BY <1>1, <1>2, <1>3, <1>5
  <2>3. \A i \in 1..n + 1 : i \in 1..n \/ i = n + 1
    OBVIOUS
  <2> HIDE DEF a, b, e
  <2> QED BY <2>1, <2>2, <2>3
<1>7. b = Append(a, e)
  <2> HIDE DEF a, b, e
  <2>1. b \in Seq(S) /\ Len(b) = n + 1 /\ Len(a) = n
    BY <1>2, <1>3 DEF a, b
  <2> QED BY <1>5, <1>6, <2>1, SeqEqual
<1> QED BY <1>7

\* A tag of 0 stands for bytes that are null, and none of them is written.
LEMMA TagZero ==
    ASSUME NEW w \in Word, NEW n \in 0..WordBytes, TagFrom(w, n) = 0
    PROVE  BytesFrom(w, n) = <<>> /\ \A i \in WordBytes - n + 1..WordBytes : w[i] = 0
<1> DEFINE P(k) == TagFrom(w, k) = 0 =>
                     BytesFrom(w, k) = <<>> /\ \A i \in WordBytes - k + 1..WordBytes : w[i] = 0
           U == { k \in Nat : k <= WordBytes => P(k) }
<1>1. 0 \in U
  BY SizeFacts, CodedFacts
<1>2. ASSUME NEW k \in Nat, k \in U PROVE k + 1 \in U
  <2>1. ASSUME k + 1 <= WordBytes, TagFrom(w, k + 1) = 0
        PROVE  /\ BytesFrom(w, k + 1) = <<>>
               /\ \A i \in WordBytes - (k + 1) + 1..WordBytes : w[i] = 0
    <3>1. k \in 0..WordBytes - 1 /\ k \in 0..WordBytes /\ WordBytes \in Nat /\ k <= WordBytes
      BY <2>1, SizeFacts
    <3>2. TagFrom(w, k) \in Nat
      BY <3>1, CodedFacts
    <3>3. w[WordBytes - k] = 0 /\ TagFrom(w, k) = 0 /\ BytesFrom(w, k + 1) = BytesFrom(w, k)
      <4>1. IF w[WordBytes - k] = 0
            THEN /\ TagFrom(w, k + 1) = 2 * TagFrom(w, k)
                 /\ BytesFrom(w, k + 1) = BytesFrom(w, k)
            ELSE TagFrom(w, k + 1) = 2 * TagFrom(w, k) + 1
        BY <3>1, CodedFacts
      <4> QED BY <2>1, <3>2, <4>1
    <3>4. BytesFrom(w, k) = <<>> /\ \A i \in WordBytes - k + 1..WordBytes : w[i] = 0
      BY <1>2, <3>1, <3>3
    <3>5. ASSUME NEW i \in WordBytes - (k + 1) + 1..WordBytes PROVE w[i] = 0
      <4>1. i = WordBytes - k \/ i \in WordBytes - k + 1..WordBytes
        BY <3>1
      <4> QED BY <3>3, <3>4, <4>1
    <3> QED BY <3>3, <3>4, <3>5
  <2>2. k + 1 \in Nat
    OBVIOUS
  <2> QED BY <2>1, <2>2
<1>3. \A k \in Nat : k \in U
  <2> HIDE DEF U
  <2> QED BY <1>1, <1>2, SetInduction
<1>4. n \in Nat /\ n <= WordBytes
  BY SizeFacts
<1>5. n \in U
  BY <1>3, <1>4
<1> QED BY <1>4, <1>5

(***************************************************************************)
(* Powers of two                                                           *)
(***************************************************************************)
LEMMA PowerZero == 2^0 = 1
<1>1. IsFiniteSet({}) /\ Cardinality({}) = 0
  BY FS_EmptySet
<1>2. Cardinality(SUBSET {}) = 2^Cardinality({})
  BY <1>1, FS_SUBSET
<1>3. SUBSET {} = {{}}
  OBVIOUS
<1>4. Cardinality({{}}) = 1
  BY FS_Singleton
<1> QED BY <1>1, <1>2, <1>3, <1>4

\* Powers of 2.
LEMMA Doubling ==
    ASSUME NEW n \in Nat
    PROVE  2^n \in Nat /\ 2^(n + 1) = 2 * 2^n
<1> DEFINE A == 1..n
           B == 1..n + 1
           P == SUBSET A
           Q == { T \in SUBSET B : n + 1 \in T }
<1>1. IsFiniteSet(A) /\ Cardinality(A) = n /\ IsFiniteSet(B) /\ Cardinality(B) = n + 1
  <2>1. 1 \in Int /\ n \in Int /\ n + 1 \in Int
    OBVIOUS
  <2> QED BY <2>1, FS_Interval
<1>2. /\ IsFiniteSet(P) /\ Cardinality(P) = 2^n
      /\ IsFiniteSet(SUBSET B) /\ Cardinality(SUBSET B) = 2^(n + 1)
  <2> HIDE DEF A, B
  <2> QED BY <1>1, FS_SUBSET
<1>3. SUBSET B = P \cup Q /\ P \cap Q = {}
  <2>1. B = A \cup {n + 1} /\ n + 1 \notin A
    OBVIOUS
  <2> HIDE DEF A, B
  <2> QED BY <2>1
<1> DEFINE f == [T \in P |-> T \cup {n + 1}]
<1>4. f \in Bijection(P, Q)
  <2>1. B = A \cup {n + 1} /\ n + 1 \notin A
    OBVIOUS
  <2> HIDE DEF A, B
  <2>2. f \in [P -> Q]
    BY <2>1
  <2>3. ASSUME NEW T1 \in P, NEW T2 \in P, f[T1] = f[T2] PROVE T1 = T2
    BY <2>1, <2>3
  <2>4. ASSUME NEW T \in Q PROVE \E R \in P : f[R] = T
    <3>1. T \ {n + 1} \in P
      BY <2>1
    <3>2. f[T \ {n + 1}] = T
      BY <2>1, <3>1
    <3> QED BY <3>1, <3>2
  <2> QED BY <2>2, <2>3, <2>4 DEF Bijection, Injection, Surjection, IsInjective
<1>5. IsFiniteSet(Q) /\ Cardinality(Q) = Cardinality(P)
  <2> HIDE DEF f, P, Q
  <2>1. ExistsBijection(P, Q)
    BY <1>4 DEF ExistsBijection
  <2> QED BY <1>2, <2>1, FS_Bijection
<1>6. Cardinality(SUBSET B) = Cardinality(P) + Cardinality(Q) - Cardinality(P \cap Q)
  <2> HIDE DEF P, Q
  <2> QED BY <1>2, <1>3, <1>5, FS_Union
<1>7. Cardinality(P \cap Q) = 0
  BY <1>3, FS_EmptySet
<1>8. Cardinality(P) \in Nat
  <2> HIDE DEF P
  <2> QED BY <1>2, FS_CardinalityType
<1> HIDE DEF P, Q, A, B
<1> QED BY <1>2, <1>5, <1>6, <1>7, <1>8

\* The bits of n bytes are less than 2 to the n.
LEMMA TagBound ==
    ASSUME NEW w \in Word, NEW n \in 0..WordBytes
    PROVE  TagFrom(w, n) < 2^n
<1> DEFINE U == { k \in Nat : k <= WordBytes => TagFrom(w, k) < 2^k }
<1>1. 0 \in U
  BY PowerZero, SizeFacts, CodedFacts
<1>2. ASSUME NEW k \in Nat, k \in U PROVE k + 1 \in U
  <2>1. ASSUME k + 1 <= WordBytes PROVE TagFrom(w, k + 1) < 2^(k + 1)
    <3>1. k \in 0..WordBytes - 1 /\ k \in 0..WordBytes /\ k <= WordBytes
      BY <2>1, SizeFacts
    <3>2. TagFrom(w, k) \in Nat /\ TagFrom(w, k) < 2^k
      BY <1>2, <3>1, CodedFacts
    <3>3. TagFrom(w, k + 1) = 2 * TagFrom(w, k) \/ TagFrom(w, k + 1) = 2 * TagFrom(w, k) + 1
      BY <3>1, CodedFacts
    <3>4. 2^k \in Nat /\ 2^(k + 1) = 2 * 2^k
      BY Doubling
    <3> QED BY <3>2, <3>3, <3>4
  <2>2. k + 1 \in Nat
    OBVIOUS
  <2> QED BY <2>1, <2>2
<1>3. \A k \in Nat : k \in U
  <2> HIDE DEF U
  <2> QED BY <1>1, <1>2, SetInduction
<1>4. n \in Nat /\ n <= WordBytes
  BY SizeFacts
<1> QED BY <1>3, <1>4

\* Tags, counts and the other bytes fit in a byte.
LEMMA ByteFacts ==
    /\ FullTag \in Nat /\ 0 \in Byte /\ FullTag \in Byte
    /\ \A n \in 0..MaxRun : n \in Byte
    /\ \A w \in Word : TagOf(w) \in Byte /\ NonZero(w) \in Seq(Byte)
    /\ NullWord \in Word
<1>1. 2^WordBytes \in Nat
  BY SizeFacts, Doubling
<1>2. MaxRun \in 0..FullTag /\ FullTag \in Nat
  BY PackingAssumption, <1>1 DEF FullTag
<1>3. ASSUME NEW w \in Word PROVE TagOf(w) \in Byte /\ NonZero(w) \in Seq(Byte)
  <2>1. WordBytes \in 0..WordBytes
    BY SizeFacts
  <2>2. TagFrom(w, WordBytes) \in Nat /\ BytesFrom(w, WordBytes) \in Seq(Byte)
    BY <2>1, CodedFacts
  <2>3. TagFrom(w, WordBytes) < 2^WordBytes
    BY <2>1, TagBound
  <2> QED BY <1>1, <2>2, <2>3 DEF TagOf, NonZero, TagFrom, BytesFrom, Byte, FullTag
<1>4. NullWord \in Word
  BY <1>2 DEF NullWord, Word, Byte
<1> QED BY <1>2, <1>3, <1>4 DEF Byte

(***************************************************************************)
(* Reading a word by its tag                                               *)
(***************************************************************************)
FillState == [buf : Seq(Byte), tag : Nat, src : Seq(Byte)]

\* A turn of Fill keeps the types.
LEMMA FillByteType ==
    ASSUME NEW f \in FillState
    PROVE  FillByte(f) \in FillState
<1>1. f.buf \in Seq(Byte) /\ f.tag \in Nat /\ f.src \in Seq(Byte)
  BY DEF FillState
<1>2. f.tag \div 2 \in Nat
  BY <1>1
<1>3. Append(f.buf, 0) \in Seq(Byte)
  BY <1>1, ByteFacts, AppendProperties
<1>4. f.src # <<>> => Append(f.buf, Head(f.src)) \in Seq(Byte) /\ Tail(f.src) \in Seq(Byte)
  BY <1>1, UnconsCat, AppendProperties
<1>5. CASE f.tag = 0 \/ (f.tag % 2 = 1 /\ f.src = <<>>)
  BY <1>5 DEF FillByte
<1>6. CASE ~(f.tag = 0 \/ (f.tag % 2 = 1 /\ f.src = <<>>)) /\ f.tag % 2 = 0
  <2>1. FillByte(f) = [f EXCEPT !.buf = Append(@, 0), !.tag = @ \div 2]
    BY <1>6 DEF FillByte
  <2> QED BY <1>1, <1>2, <1>3, <2>1 DEF FillState
<1>7. CASE ~(f.tag = 0 \/ (f.tag % 2 = 1 /\ f.src = <<>>)) /\ f.tag % 2 # 0
  <2>1. FillByte(f) = [buf |-> Append(f.buf, Head(f.src)), tag |-> f.tag \div 2, src |-> Tail(f.src)]
    BY <1>7 DEF FillByte
  <2>2. f.src # <<>>
    BY <1>1, <1>7
  <2> QED BY <1>1, <1>2, <1>4, <2>1, <2>2 DEF FillState
<1> QED BY <1>5, <1>6, <1>7

\* Fill is WordBytes turns of FillByte.
LEMMA FillTurns ==
    ASSUME NEW x \in FillState
    PROVE  \E r : /\ r[0] = x /\ Fill(x.buf, x.tag, x.src) = r[WordBytes]
                  /\ \A n \in 0..WordBytes : r[n] \in FillState
                  /\ \A n \in 0..WordBytes - 1 : r[n + 1] = FillByte(r[n])
<1> DEFINE F == [p \in Nat \X FillState |-> FillByte(p[2])]
           G(g) == [n \in 0..WordBytes |->
                      IF n = 0 THEN [buf |-> x.buf, tag |-> x.tag, src |-> x.src]
                      ELSE FillByte(g[n - 1])]
           C == CHOOSE g : g = G(g)
<1>1. WordBytes \in Nat \ {0} /\ x = [buf |-> x.buf, tag |-> x.tag, src |-> x.src]
  BY SizeFacts DEF FillState
<1>2. F \in [Nat \X FillState -> FillState]
  BY FillByteType
<1>3. PICK f \in [0..WordBytes -> FillState] : Follows(f, WordBytes, x, F)
  <2> HIDE DEF F
  <2> QED BY <1>1, <1>2, FollowsExists
<1>4. \A n \in 0..WordBytes : f[n] = IF n = 0 THEN x ELSE F[<<n - 1, f[n - 1]>>]
  BY <1>3 DEF Follows
<1>5. f = G(f)
  <2>1. ASSUME NEW n \in 0..WordBytes PROVE f[n] = G(f)[n]
    <3>1. CASE n = 0
      BY <1>1, <1>4, <3>1
    <3>2. CASE n # 0
      <4>1. n - 1 \in Nat /\ n - 1 \in 0..WordBytes
        BY <1>1, <3>2
      <4>2. f[n - 1] \in FillState
        BY <1>3, <4>1
      <4> QED BY <1>4, <3>2, <4>1, <4>2
    <3> QED BY <3>1, <3>2
  <2>2. f = [n \in 0..WordBytes |-> f[n]]
    BY <1>3
  <2> HIDE DEF F
  <2> QED BY <2>1, <2>2
<1>6. C = G(C)
  <2> HIDE DEF G
  <2> QED BY <1>5
<1>7. Fill(x.buf, x.tag, x.src) = C[WordBytes]
  BY Zenon DEF Fill
<1> HIDE DEF C
<1>8. C[0] = x /\ \A n \in 0..WordBytes - 1 : C[n + 1] = FillByte(C[n])
  <2>1. C[0] = x
    BY <1>1, <1>6
  <2>2. ASSUME NEW n \in 0..WordBytes - 1 PROVE C[n + 1] = FillByte(C[n])
    <3>1. n + 1 \in 0..WordBytes /\ n + 1 # 0 /\ (n + 1) - 1 = n
      BY <1>1
    <3> QED BY <1>6, <3>1
  <2> QED BY <2>1, <2>2
<1> DEFINE U == { n \in Nat : n <= WordBytes => C[n] \in FillState }
<1>9. 0 \in U
  BY <1>8
<1>10. ASSUME NEW n \in Nat, n \in U PROVE n + 1 \in U
  <2>1. n + 1 <= WordBytes => n \in 0..WordBytes - 1 /\ n <= WordBytes
    BY <1>1
  <2>2. n + 1 <= WordBytes => C[n + 1] \in FillState
    BY <1>8, <1>10, <2>1, FillByteType
  <2> QED BY <2>2
<1>11. \A n \in Nat : n \in U
  <2> HIDE DEF U
  <2> QED BY <1>9, <1>10, SetInduction
<1>12. \A n \in 0..WordBytes : C[n] \in FillState
  BY <1>1, <1>11
<1> QED BY <1>7, <1>8, <1>12

\* f has the first bytes of w, and the tag of its last j; what is to come is the bytes of
\* that tag, and then b. Of src it has read the front.
Filling(f, w, b, y, src, j) ==
    /\ j \in 0..WordBytes /\ f \in FillState
    /\ f.tag = TagFrom(w, j) /\ f.buf = First(w, WordBytes - j)
    /\ Cat(f.src, y) = Cat(BytesFrom(w, j), b)
    /\ \E e \in Seq(Byte) : src = Cat(e, f.src)

\* An odd number, halved.
LEMMA Odd ==
    ASSUME NEW n \in Nat
    PROVE  (2 * n + 1) % 2 = 1 /\ (2 * n + 1) \div 2 = n
OBVIOUS

\* One more element is taken from the second part into the first.
LEMMA CatStep ==
    ASSUME NEW S, NEW e \in Seq(S), NEW x \in S, NEW t \in Seq(S)
    PROVE  Cat(e, One(x)) \in Seq(S) /\ Cat(e, Cat(One(x), t)) = Cat(Cat(e, One(x)), t)
<1>1. One(x) \in Seq(S)
  BY OneType
<1> QED BY <1>1, CatType, CatAssoc

\* The first byte is taken from the input.
LEMMA EatOne ==
    ASSUME NEW S, NEW e \in Seq(S), NEW s \in Seq(S), s # <<>>
    PROVE  \E d \in Seq(S) : Cat(e, s) = Cat(d, Tail(s))
<1>2. PICK h \in S, t \in Seq(S) : t = Tail(s) /\ s = Cat(One(h), t)
  <2>1. Head(s) \in S /\ Tail(s) \in Seq(S) /\ s = Cat(One(Head(s)), Tail(s))
    BY UnconsCat
  <2> DEFINE h == Head(s)
             t == Tail(s)
  <2>2. h \in S /\ t \in Seq(S) /\ t = Tail(s) /\ s = Cat(One(h), t)
    BY <2>1
  <2> HIDE DEF h, t
  <2> QED BY <2>2
<1>3. Cat(e, One(h)) \in Seq(S) /\ Cat(e, Cat(One(h), t)) = Cat(Cat(e, One(h)), t)
  BY CatStep
<1> QED BY <1>2, <1>3

\* One turn of Fill does what the lowest bit of the tag says with one byte of the word.
LEMMA FillByteSpec ==
    ASSUME NEW w \in Word, NEW b \in Seq(Byte), NEW y \in Seq(Byte), NEW src \in Seq(Byte),
           NEW f, NEW j, Filling(f, w, b, y, src, j), f.tag # 0, f.src # <<>> \/ f.tag % 2 = 0
    PROVE  Filling(FillByte(f), w, b, y, src, j - 1)
<1>1. /\ WordBytes \in Nat \ {0} /\ j \in 0..WordBytes /\ f.buf \in Seq(Byte) /\ f.tag \in Nat
      /\ f.src \in Seq(Byte) /\ f \in FillState
  BY SizeFacts DEF Filling, FillState
<1>2. j # 0
  BY CodedFacts DEF Filling
<1> DEFINE i == j - 1
<1>3. /\ i \in 0..WordBytes - 1 /\ i \in 0..WordBytes /\ i + 1 = j
      /\ WordBytes - j \in Nat /\ WordBytes - j < WordBytes
      /\ (WordBytes - j) + 1 = WordBytes - i
      /\ WordBytes - i \in 1..WordBytes
  BY <1>1, <1>2
<1> HIDE DEF i
<1>4. TagFrom(w, i) \in Nat /\ BytesFrom(w, i) \in Seq(Byte) /\ w[WordBytes - i] \in Byte
  BY <1>3, CodedFacts, WordFacts
<1>5. First(w, WordBytes - i) = Append(First(w, WordBytes - j), w[WordBytes - i])
  <2>1. w \in Seq(Byte) /\ Len(w) = WordBytes
    BY WordFacts
  <2> QED BY <1>3, <2>1, FirstNext
<1>6. IF w[WordBytes - i] = 0
      THEN TagFrom(w, j) = 2 * TagFrom(w, i) /\ BytesFrom(w, j) = BytesFrom(w, i)
      ELSE /\ TagFrom(w, j) = 2 * TagFrom(w, i) + 1
           /\ BytesFrom(w, j) = Cat(One(w[WordBytes - i]), BytesFrom(w, i))
  BY <1>3, CodedFacts
<1>7. f.tag = TagFrom(w, j) /\ f.buf = First(w, WordBytes - j)
      /\ Cat(f.src, y) = Cat(BytesFrom(w, j), b) /\ \E e \in Seq(Byte) : src = Cat(e, f.src)
  BY DEF Filling
<1>8. FillByte(f) \in FillState
  BY <1>1, FillByteType
<1>9. CASE w[WordBytes - i] = 0
  <2>1. f.tag = 2 * TagFrom(w, i) /\ BytesFrom(w, j) = BytesFrom(w, i)
    BY <1>6, <1>7, <1>9
  <2>2. f.tag % 2 = 0 /\ f.tag \div 2 = TagFrom(w, i)
    BY <1>4, <2>1
  <2>3. FillByte(f) = [f EXCEPT !.buf = Append(@, 0), !.tag = @ \div 2]
    BY <2>2 DEF FillByte
  <2>4. /\ FillByte(f).tag = TagFrom(w, i) /\ FillByte(f).buf = Append(f.buf, 0)
        /\ FillByte(f).src = f.src
    BY <1>1, <2>2, <2>3 DEF FillState
  <2> QED BY <1>3, <1>5, <1>7, <1>8, <1>9, <2>1, <2>4 DEF Filling, i
<1>10. CASE w[WordBytes - i] # 0
  <2>1. f.tag = 2 * TagFrom(w, i) + 1 /\ BytesFrom(w, j) = Cat(One(w[WordBytes - i]), BytesFrom(w, i))
    BY <1>6, <1>7, <1>10
  <2>2. f.tag % 2 = 1 /\ f.tag \div 2 = TagFrom(w, i)
    BY <1>4, <2>1, Odd
  <2>3. f.src # <<>>
    BY <2>2
  <2>4. FillByte(f) = [buf |-> Append(f.buf, Head(f.src)), tag |-> f.tag \div 2, src |-> Tail(f.src)]
    BY <2>2, <2>3 DEF FillByte
  <2>5. Head(f.src) \in Byte /\ Tail(f.src) \in Seq(Byte) /\ f.src = Cat(One(Head(f.src)), Tail(f.src))
    BY <1>1, <2>3, UnconsCat
  <2>6. Head(f.src) = w[WordBytes - i] /\ Cat(Tail(f.src), y) = Cat(BytesFrom(w, i), b)
    <3> DEFINE h == Head(f.src)
               t == Tail(f.src)
               c == w[WordBytes - i]
               r == BytesFrom(w, i)
    <3>1. Cat(Cat(One(h), t), y) = Cat(Cat(One(c), r), b)
      BY <1>7, <2>1, <2>5
    <3>2. h \in Byte /\ t \in Seq(Byte) /\ c \in Byte /\ r \in Seq(Byte)
      BY <1>4, <2>5
    <3> HIDE DEF h, t, c, r
    <3>3. One(h) \in Seq(Byte) /\ One(c) \in Seq(Byte) /\ Cat(t, y) \in Seq(Byte) /\ Cat(r, b) \in Seq(Byte)
      BY <3>2, OneType, CatType
    <3>4. Cat(One(h), Cat(t, y)) = Cat(One(c), Cat(r, b))
      BY <3>1, <3>2, <3>3, CatAssoc
    <3>5. Head(Cat(One(h), Cat(t, y))) = h /\ Tail(Cat(One(h), Cat(t, y))) = Cat(t, y)
      BY <3>2, <3>3, ConsCat
    <3>6. Head(Cat(One(c), Cat(r, b))) = c /\ Tail(Cat(One(c), Cat(r, b))) = Cat(r, b)
      BY <3>2, <3>3, ConsCat
    <3>7. h = c /\ Cat(t, y) = Cat(r, b)
      BY <3>4, <3>5, <3>6
    <3> QED BY <3>7 DEF h, t, c, r
  <2>7. \E e \in Seq(Byte) : src = Cat(e, Tail(f.src))
    <3> DEFINE q == f.src
    <3>1. q \in Seq(Byte) /\ q # <<>> /\ \E e \in Seq(Byte) : src = Cat(e, q)
      BY <1>1, <1>7, <2>3
    <3> HIDE DEF q
    <3>2. PICK e \in Seq(Byte) : src = Cat(e, q)
      BY <3>1
    <3>3. \E d \in Seq(Byte) : Cat(e, q) = Cat(d, Tail(q))
      BY <3>1, EatOne
    <3> QED BY <3>2, <3>3 DEF q
  <2>8. /\ FillByte(f).tag = TagFrom(w, i) /\ FillByte(f).buf = Append(f.buf, w[WordBytes - i])
        /\ FillByte(f).src = Tail(f.src)
    BY <2>2, <2>4, <2>6
  <2> QED BY <1>3, <1>5, <1>7, <1>8, <2>6, <2>7, <2>8 DEF Filling, i
<1> QED BY <1>9, <1>10

\* Fill takes the bytes of a word as far as the input goes, and keeps the rest of its tag.
LEMMA FillSpec ==
    ASSUME NEW w \in Word, NEW b \in Seq(Byte), NEW y \in Seq(Byte), NEW src \in Seq(Byte),
           NEW x, NEW k, Filling(x, w, b, y, src, k)
    PROVE  \E f, j : /\ f = Fill(x.buf, x.tag, x.src) /\ Filling(f, w, b, y, src, j)
                     /\ f.tag = 0 \/ f.src = <<>>
<1>1. WordBytes \in Nat \ {0} /\ x \in FillState /\ k \in 0..WordBytes
  BY SizeFacts DEF Filling
<1>2. PICK r : /\ r[0] = x /\ Fill(x.buf, x.tag, x.src) = r[WordBytes]
               /\ \A n \in 0..WordBytes : r[n] \in FillState
               /\ \A n \in 0..WordBytes - 1 : r[n + 1] = FillByte(r[n])
  BY <1>1, FillTurns
<1> DEFINE Good(n, j) == /\ Filling(r[n], w, b, y, src, j)
                         /\ r[n].tag = 0 \/ r[n].src = <<>> \/ j + n <= k
           U == { n \in Nat : n <= WordBytes => \E j : Good(n, j) }
<1>3. 0 \in U
  <2>1. k + 0 <= k
    BY <1>1
  <2>2. Good(0, k)
    BY <1>2, <2>1
  <2> QED BY <2>2
<1>4. ASSUME NEW n \in Nat, n \in U PROVE n + 1 \in U
  <2>1. ASSUME n + 1 <= WordBytes PROVE \E j : Good(n + 1, j)
    <3>1. n \in 0..WordBytes - 1 /\ n <= WordBytes
      BY <1>1, <2>1
    <3>2. PICK j : Good(n, j)
      BY <1>4, <3>1
    <3>3. r[n + 1] = FillByte(r[n])
      BY <1>2, <3>1
    <3>4. j \in 0..WordBytes /\ r[n].tag \in Nat
      BY <3>2 DEF Filling, FillState
    <3>5. CASE r[n].tag = 0 \/ (r[n].src = <<>> /\ r[n].tag % 2 = 1)
      <4>1. r[n + 1] = r[n]
        BY <3>3, <3>5 DEF FillByte
      <4>2. Good(n + 1, j)
        BY <3>2, <3>5, <4>1
      <4> QED BY <4>2
    <3>6. CASE ~(r[n].tag = 0 \/ (r[n].src = <<>> /\ r[n].tag % 2 = 1))
      <4>1. r[n].tag # 0 /\ (r[n].src # <<>> \/ r[n].tag % 2 = 0)
        BY <3>4, <3>6
      <4>2. Filling(r[n + 1], w, b, y, src, j - 1)
        BY <3>2, <3>3, <4>1, FillByteSpec
      <4>3. CASE r[n].src = <<>>
        <5>1. r[n].tag % 2 = 0
          BY <4>1, <4>3
        <5>2. r[n + 1].src = <<>>
          <6>1. r[n] \in FillState
            BY <3>2 DEF Filling
          <6>2. FillByte(r[n]) = [r[n] EXCEPT !.buf = Append(@, 0), !.tag = @ \div 2]
            BY <4>1, <5>1 DEF FillByte
          <6> QED BY <3>3, <4>3, <6>1, <6>2 DEF FillState
        <5> QED BY <4>2, <5>2
      <4>4. CASE r[n].src # <<>>
        <5>1. j + n <= k
          BY <3>2, <4>1, <4>4
        <5>2. (j - 1) + (n + 1) <= k
          BY <1>1, <3>4, <5>1
        <5>3. Good(n + 1, j - 1)
          BY <4>2, <5>2
        <5> QED BY <5>3
      <4> QED BY <4>3, <4>4
    <3> QED BY <3>5, <3>6
  <2>2. n + 1 \in Nat
    OBVIOUS
  <2> QED BY <2>1, <2>2
<1>5. \A n \in Nat : n \in U
  <2> HIDE DEF U
  <2> QED BY <1>3, <1>4, SetInduction
<1>6. WordBytes \in U /\ WordBytes <= WordBytes
  BY <1>1, <1>5
<1>7. PICK j : Good(WordBytes, j)
  BY <1>6
<1>8. r[WordBytes].tag = 0 \/ r[WordBytes].src = <<>>
  <2>1. CASE j + WordBytes <= k
    <3>1. j \in 0..WordBytes
      BY <1>7 DEF Filling
    <3>2. j = 0
      BY <1>1, <2>1, <3>1
    <3> QED BY <1>7, <3>2, CodedFacts DEF Filling
  <2> QED BY <1>7, <2>1
<1> QED BY <1>2, <1>7, <1>8

\* A cut in the first part of a concatenation.
LEMMA CutInFirst ==
    ASSUME NEW S, NEW a \in Seq(S), NEW b \in Seq(S), NEW n \in Nat, n <= Len(a)
    PROVE  First(Cat(a, b), n) = First(a, n) /\ From(Cat(a, b), n) = Cat(From(a, n), b)
<1>1. /\ First(a, n) \in Seq(S) /\ From(a, n) \in Seq(S) /\ Len(First(a, n)) = n
      /\ a = Cat(First(a, n), From(a, n))
  BY CutCat
<1>2. PICK f \in Seq(S), g \in Seq(S) : f = First(a, n) /\ g = From(a, n) /\ a = Cat(f, g) /\ Len(f) = n
  BY <1>1
<1>3. Cat(a, b) = Cat(f, Cat(g, b)) /\ Cat(g, b) \in Seq(S)
  BY <1>2, CatAssoc, CatType
<1>4. First(Cat(f, Cat(g, b)), Len(f)) = f /\ From(Cat(f, Cat(g, b)), Len(f)) = Cat(g, b)
  BY <1>3, CatCut
<1> QED BY <1>2, <1>3, <1>4

\* A cut in the second part of a concatenation.
LEMMA CutInSecond ==
    ASSUME NEW S, NEW a \in Seq(S), NEW b \in Seq(S), NEW n \in Nat, n <= Len(b)
    PROVE  /\ First(Cat(a, b), Len(a) + n) = Cat(a, First(b, n))
           /\ From(Cat(a, b), Len(a) + n) = From(b, n)
<1>1. /\ First(b, n) \in Seq(S) /\ From(b, n) \in Seq(S) /\ Len(First(b, n)) = n
      /\ b = Cat(First(b, n), From(b, n))
  BY CutCat
<1>2. PICK f \in Seq(S), g \in Seq(S) : f = First(b, n) /\ g = From(b, n) /\ b = Cat(f, g) /\ Len(f) = n
  BY <1>1
<1>3. Cat(a, b) = Cat(Cat(a, f), g) /\ Cat(a, f) \in Seq(S) /\ Len(Cat(a, f)) = Len(a) + n
  <2>1. Cat(a, f) \in Seq(S) /\ Len(Cat(a, f)) = Len(a) + n
    BY <1>2, CatType, CatLen
  <2>2. Cat(a, Cat(f, g)) = Cat(Cat(a, f), g)
    BY <1>2, CatAssoc
  <2> QED BY <1>2, <2>1, <2>2
<1>4. /\ First(Cat(Cat(a, f), g), Len(Cat(a, f))) = Cat(a, f)
      /\ From(Cat(Cat(a, f), g), Len(Cat(a, f))) = g
  BY <1>2, <1>3, CatCut
<1> QED BY <1>2, <1>3, <1>4

(***************************************************************************)
(* Words and their bytes                                                   *)
(***************************************************************************)
LEMMA Division ==
    ASSUME NEW n \in Nat, NEW m \in Nat \ {0}
    PROVE  /\ n \div m \in Nat /\ m * (n \div m) \in Nat
           /\ m * (n \div m) <= n /\ n < m * (n \div m) + m
           /\ (m + n) \div m = 1 + (n \div m)
           /\ n < m => n \div m = 0
           /\ n >= m => n \div m >= 1
OBVIOUS

\* A multiple within the quotient is within the number.
LEMMA Multiples ==
    ASSUME NEW n \in Nat, NEW m \in Nat \ {0}, NEW k \in Nat, k <= n \div m
    PROVE  m * k \in Nat /\ m * k <= n
OBVIOUS

\* Facts of products.
LEMMA Times ==
    ASSUME NEW k \in Nat, NEW m \in Nat \ {0}
    PROVE  m * (k + 1) = m + m * k /\ m * k \in Nat /\ m * 0 = 0 /\ (k # 0 => m * k >= m)
OBVIOUS

\* WordBytes bytes are a word.
LEMMA IsWord ==
    ASSUME NEW w \in Seq(Byte), Len(w) = WordBytes
    PROVE  w \in Word
<1>1. w \in [1..Len(w) -> Byte]
  BY SizeFacts
<1> QED BY <1>1 DEF Word

\* Words cuts bytes into words, and leaves out those at the end that are less than one.
LEMMA WordsType ==
    ASSUME NEW b \in Seq(Byte)
    PROVE  /\ Words(b) \in Seq(Word) /\ Len(Words(b)) = Len(b) \div WordBytes
           /\ \A i \in 1..Len(b) \div WordBytes :
                Words(b)[i] = First(From(b, WordBytes * (i - 1)), WordBytes)
<1>1. WordBytes \in Nat \ {0} /\ Len(b) \in Nat /\ Len(b) \div WordBytes \in Nat
  BY SizeFacts, LenProperties, Division
<1>2. ASSUME NEW i \in 1..Len(b) \div WordBytes
      PROVE  First(From(b, WordBytes * (i - 1)), WordBytes) \in Word
  <2>1. i - 1 \in Nat /\ i \in Nat /\ i <= Len(b) \div WordBytes /\ i = (i - 1) + 1
    BY <1>1
  <2>2. WordBytes * i <= Len(b) /\ WordBytes * (i - 1) \in Nat /\ WordBytes * i = WordBytes + WordBytes * (i - 1)
    BY <1>1, <2>1, Multiples, Times
  <2> DEFINE n == WordBytes * (i - 1)
  <2> HIDE DEF n
  <2>3. n \in Nat /\ n <= Len(b) /\ WordBytes <= Len(b) - n
    BY <1>1, <2>2 DEF n
  <2>4. From(b, n) \in Seq(Byte) /\ Len(From(b, n)) = Len(b) - n
    BY <2>3, CutCat
  <2>5. First(From(b, n), WordBytes) \in Seq(Byte) /\ Len(First(From(b, n), WordBytes)) = WordBytes
    BY <1>1, <2>3, <2>4, CutCat
  <2> QED BY <2>5, IsWord DEF n
<1> DEFINE N == Len(b) \div WordBytes
           e(i) == First(From(b, WordBytes * (i - 1)), WordBytes)
<1>3. Words(b) = [i \in 1..N |-> e(i)]
  BY DEF Words
<1> HIDE DEF N, e
<1>4. N \in Nat /\ \A i \in 1..N : e(i) \in Word
  BY <1>1, <1>2 DEF N, e
<1>5. Words(b) \in Seq(Word) /\ Len(Words(b)) = N /\ \A i \in 1..N : Words(b)[i] = e(i)
  BY <1>3, <1>4
<1> QED BY <1>5 DEF N, e

\* Bytes that are less than a word have none.
LEMMA WordsShort ==
    ASSUME NEW b \in Seq(Byte), Len(b) < WordBytes
    PROVE  Words(b) = <<>>
<1>1. Len(b) \div WordBytes = 0
  BY SizeFacts, LenProperties, Division
<1> QED BY <1>1, WordsType, LenZero

\* The first word of the bytes, and the words behind it.
LEMMA WordsCons ==
    ASSUME NEW w \in Word, NEW b \in Seq(Byte)
    PROVE  Words(Cat(w, b)) = Cat(One(w), Words(b))
<1> DEFINE c == Cat(w, b)
           N == Len(b) \div WordBytes
           v == Cat(One(w), Words(b))
<1>1. /\ w \in Seq(Byte) /\ Len(w) = WordBytes /\ WordBytes \in Nat \ {0} /\ Len(b) \in Nat
      /\ c \in Seq(Byte) /\ Len(c) = WordBytes + Len(b) /\ N \in Nat
  <2>1. w \in Seq(Byte) /\ Len(w) = WordBytes /\ WordBytes \in Nat \ {0} /\ Len(b) \in Nat
    BY WordFacts, SizeFacts, LenProperties
  <2>2. c \in Seq(Byte) /\ Len(c) = Len(w) + Len(b)
    BY <2>1, CatType, CatLen
  <2>3. N \in Nat
    BY <2>1, Division
  <2> QED BY <2>1, <2>2, <2>3
<1>2. Len(c) \div WordBytes = 1 + N
  BY <1>1, Division
<1>3. Words(b) \in Seq(Word) /\ Len(Words(b)) = N
  BY WordsType
<1>4. v \in Seq(Word) /\ Len(v) = 1 + N /\ v[1] = w /\ \A i \in 1..N : v[i + 1] = Words(b)[i]
  <2>1. v \in Seq(Word) /\ Len(v) = 1 + N /\ Head(v) = w /\ Tail(v) = Words(b) /\ v # <<>>
    BY <1>3, ConsCat
  <2> HIDE DEF v, N
  <2>2. \A i \in 1..Len(Tail(v)) : Tail(v)[i] = v[i + 1]
    BY <2>1, HeadTailProperties
  <2>3. v[1] = w
    BY <2>1
  <2> QED BY <1>3, <2>1, <2>2, <2>3
<1>5. Words(c) \in Seq(Word) /\ Len(Words(c)) = 1 + N
  <2> HIDE DEF c, N
  <2> QED BY <1>1, <1>2, WordsType
<1>6. ASSUME NEW i \in 1..1 + N PROVE Words(c)[i] = v[i]
  <2>1. Words(c)[i] = First(From(c, WordBytes * (i - 1)), WordBytes)
    <3> HIDE DEF c, N
    <3> QED BY <1>1, <1>2, WordsType
  <2>2. CASE i = 1
    <3>1. WordBytes * (i - 1) = 0
      BY <1>1, <2>2
    <3>2. From(c, 0) = c
      <4>1. From(c, 0) \in Seq(Byte) /\ First(c, 0) \in Seq(Byte) /\ Len(First(c, 0)) = 0
            /\ c = Cat(First(c, 0), From(c, 0))
        <5> HIDE DEF c
        <5> QED BY <1>1, LenProperties, CutCat
      <4>2. First(c, 0) = <<>>
        BY <4>1, LenZero
      <4> QED BY <4>1, <4>2, CatEmpty
    <3>3. First(c, WordBytes) = w
      BY <1>1, CatCut
    <3> QED BY <1>4, <2>1, <2>2, <3>1, <3>2, <3>3
  <2>3. CASE i # 1
    <3> DEFINE k == i - 1
               m == WordBytes * (k - 1)
    <3>1. k \in 1..N /\ k + 1 = i /\ k - 1 \in Nat /\ k = (k - 1) + 1 /\ k <= N
      BY <1>1, <2>3
    <3>2. WordBytes * k = WordBytes + m /\ m \in Nat
      BY <1>1, <3>1, Times
    <3>3. m <= Len(b)
      <4>1. k - 1 <= Len(b) \div WordBytes
        BY <1>1, <3>1
      <4> QED BY <1>1, <3>1, <4>1, Multiples
    <3>4. Words(b)[k] = First(From(b, m), WordBytes)
      BY <3>1, WordsType
    <3>5. From(c, WordBytes + m) = From(b, m)
      <4> HIDE DEF m
      <4> QED BY <1>1, <3>2, <3>3, CutInSecond
    <3>6. i - 1 = k
      BY <3>1
    <3> HIDE DEF k, m, c, v, N
    <3>7. Words(c)[i] = Words(b)[k]
      BY <2>1, <3>2, <3>4, <3>5, <3>6
    <3> QED BY <1>4, <3>1, <3>7
  <2> QED BY <2>2, <2>3
<1>7. Words(c) = v
  <2> HIDE DEF c, v, N
  <2> QED BY <1>4, <1>5, <1>6, SeqEqual
<1> QED BY <1>7

\* A quotient is determined by the remainder.
LEMMA Quotient ==
    ASSUME NEW n \in Nat, NEW m \in Nat \ {0}
    PROVE  (n \div m = 0 <=> n < m) /\ (n \div m # 0 => m <= n)
OBVIOUS

\* Words are sequences of bytes.
LEMMA WordsAreSeqs ==
    ASSUME NEW ws \in Seq(Word)
    PROVE  ws \in Seq(Seq(Byte))
<1>1. Word \subseteq Seq(Byte)
  BY WordFacts
<1> QED BY <1>1

\* Bytes of no words, of one, and of words in two parts.
LEMMA BytesFacts ==
    /\ Bytes(<<>>) = <<>>
    /\ \A ws \in Seq(Word) : Bytes(ws) \in Seq(Byte)
    /\ \A w \in Word : Bytes(One(w)) = w
    /\ \A w \in Word, ws \in Seq(Word) : Bytes(Cat(One(w), ws)) = Cat(w, Bytes(ws))
    /\ \A a, b \in Seq(Word) : Bytes(Cat(a, b)) = Cat(Bytes(a), Bytes(b))
<1>1. Bytes(<<>>) = <<>>
  BY FlatEmpty DEF Bytes
<1>2. ASSUME NEW ws \in Seq(Word) PROVE Bytes(ws) \in Seq(Byte)
  BY WordsAreSeqs, FlatType DEF Bytes
<1>3. ASSUME NEW w \in Word PROVE Bytes(One(w)) = w
  BY WordFacts, FlatOne DEF Bytes
<1>4. ASSUME NEW w \in Word, NEW ws \in Seq(Word) PROVE Bytes(Cat(One(w), ws)) = Cat(w, Bytes(ws))
  BY WordFacts, WordsAreSeqs, FlatCons DEF Bytes
<1>5. ASSUME NEW a \in Seq(Word), NEW b \in Seq(Word) PROVE Bytes(Cat(a, b)) = Cat(Bytes(a), Bytes(b))
  BY WordsAreSeqs, FlatCat DEF Bytes
<1> QED BY <1>1, <1>2, <1>3, <1>4, <1>5

\* Each word has WordBytes bytes.
LEMMA BytesLen ==
    ASSUME NEW ws \in Seq(Word)
    PROVE  Len(Bytes(ws)) = WordBytes * Len(ws)
<1> DEFINE U == { s \in Seq(Word) : Len(Bytes(s)) = WordBytes * Len(s) }
<1>1. <<>> \in U
  BY BytesFacts, Times, SizeFacts
<1>2. ASSUME NEW w \in Word, NEW s \in Seq(Word), s \in U PROVE Cat(One(w), s) \in U
  <2>1. Bytes(Cat(One(w), s)) = Cat(w, Bytes(s)) /\ Bytes(s) \in Seq(Byte)
    BY BytesFacts
  <2>2. w \in Seq(Byte) /\ Len(w) = WordBytes
    BY WordFacts
  <2>3. Len(Cat(w, Bytes(s))) = WordBytes + Len(Bytes(s))
    BY <2>1, <2>2, CatLen
  <2>4. Cat(One(w), s) \in Seq(Word) /\ Len(Cat(One(w), s)) = 1 + Len(s) /\ Len(s) \in Nat
    BY ConsCat, LenProperties
  <2>5. WordBytes * (Len(s) + 1) = WordBytes + WordBytes * Len(s)
    BY <2>4, SizeFacts, Times
  <2>6. Len(s) + 1 = 1 + Len(s) /\ Len(Bytes(s)) = WordBytes * Len(s)
    BY <1>2, <2>4
  <2> QED BY <2>1, <2>3, <2>4, <2>5, <2>6
<1>3. \A s \in Seq(Word) : s \in U
  <2> HIDE DEF U
  <2> QED BY <1>1, <1>2, CatInduction
<1> QED BY <1>3

\* The words of a sequence of words and part of a word are those words.
LEMMA WordsOfBytes ==
    ASSUME NEW ws \in Seq(Word), NEW p \in Seq(Byte), Len(p) < WordBytes
    PROVE  Words(Cat(Bytes(ws), p)) = ws
<1> DEFINE U == { s \in Seq(Word) : Words(Cat(Bytes(s), p)) = s }
<1>1. <<>> \in U
  <2>1. Words(p) = <<>>
    BY WordsShort
  <2> QED BY <2>1, BytesFacts, CatEmpty
<1>2. ASSUME NEW w \in Word, NEW s \in Seq(Word), s \in U PROVE Cat(One(w), s) \in U
  <2>1. Bytes(Cat(One(w), s)) = Cat(w, Bytes(s)) /\ Bytes(s) \in Seq(Byte)
    BY BytesFacts
  <2>2. w \in Seq(Byte) /\ Cat(Bytes(s), p) \in Seq(Byte)
    BY <2>1, WordFacts, CatType
  <2>3. Cat(Cat(w, Bytes(s)), p) = Cat(w, Cat(Bytes(s), p))
    BY <2>1, <2>2, CatAssoc
  <2>4. Words(Cat(w, Cat(Bytes(s), p))) = Cat(One(w), Words(Cat(Bytes(s), p)))
    BY <2>2, WordsCons
  <2>5. Cat(One(w), s) \in Seq(Word)
    BY ConsCat
  <2> QED BY <1>2, <2>1, <2>3, <2>4, <2>5
<1>3. \A s \in Seq(Word) : s \in U
  <2> HIDE DEF U
  <2> QED BY <1>1, <1>2, CatInduction
<1> QED BY <1>3

\* Any bytes are those of their words, and part of a word.
LEMMA BytesOfWords ==
    ASSUME NEW b \in Seq(Byte)
    PROVE  \E p \in Seq(Byte) : /\ b = Cat(Bytes(Words(b)), p) /\ Len(p) < WordBytes
                               /\ p = From(b, WordBytes * (Len(b) \div WordBytes))
<1> DEFINE P(c) == \E p \in Seq(Byte) : c = Cat(Bytes(Words(c)), p) /\ Len(p) < WordBytes
           U == { n \in Nat : \A c \in Seq(Byte) : Len(c) \div WordBytes = n => P(c) }
<1>1. 0 \in U
  <2>1. ASSUME NEW c \in Seq(Byte), Len(c) \div WordBytes = 0 PROVE P(c)
    <3>1. Len(c) < WordBytes
      BY <2>1, SizeFacts, LenProperties, Quotient
    <3>2. c = Cat(Bytes(Words(c)), c)
      BY <3>1, WordsShort, BytesFacts, CatEmpty
    <3> QED BY <3>1, <3>2
  <2> QED BY <2>1
<1>2. ASSUME NEW n \in Nat, n \in U PROVE n + 1 \in U
  <2>1. ASSUME NEW c \in Seq(Byte), Len(c) \div WordBytes = n + 1 PROVE P(c)
    <3>1. Len(c) \in Nat /\ WordBytes \in Nat \ {0} /\ WordBytes <= Len(c)
      <4>1. Len(c) \in Nat /\ WordBytes \in Nat \ {0} /\ Len(c) \div WordBytes # 0
        BY <2>1, SizeFacts, LenProperties
      <4> QED BY <4>1, Quotient
    <3>2. PICK w \in Seq(Byte), r \in Seq(Byte) : c = Cat(w, r) /\ Len(w) = WordBytes
      BY <3>1, CutCat
    <3>3. Len(c) = WordBytes + Len(r) /\ Len(r) \in Nat /\ w \in Word
      BY <3>2, CatLen, IsWord
    <3>4. Len(r) \div WordBytes = n
      <4>1. Len(r) \div WordBytes \in Nat /\ (WordBytes + Len(r)) \div WordBytes = 1 + (Len(r) \div WordBytes)
        BY <3>1, <3>3, Division
      <4> QED BY <2>1, <3>3, <4>1
    <3>5. PICK p \in Seq(Byte) : r = Cat(Bytes(Words(r)), p) /\ Len(p) < WordBytes
      BY <1>2, <3>4
    <3>6. Words(c) = Cat(One(w), Words(r)) /\ Words(r) \in Seq(Word)
      BY <3>2, <3>3, WordsCons, WordsType
    <3>7. Bytes(Words(c)) = Cat(w, Bytes(Words(r))) /\ Bytes(Words(r)) \in Seq(Byte)
      BY <3>3, <3>6, BytesFacts
    <3>8. Cat(Cat(w, Bytes(Words(r))), p) = Cat(w, Cat(Bytes(Words(r)), p))
      BY <3>7, CatAssoc
    <3>9. c = Cat(Bytes(Words(c)), p)
      BY <3>2, <3>5, <3>7, <3>8
    <3> QED BY <3>5, <3>9
  <2> QED BY <2>1
<1>3. \A n \in Nat : n \in U
  <2> HIDE DEF U
  <2> QED BY <1>1, <1>2, SetInduction
<1>4. Len(b) \in Nat /\ Len(b) \div WordBytes \in Nat
  BY SizeFacts, LenProperties, Division
<1>5. PICK p \in Seq(Byte) : b = Cat(Bytes(Words(b)), p) /\ Len(p) < WordBytes
  BY <1>3, <1>4
<1>6. /\ Bytes(Words(b)) \in Seq(Byte)
      /\ Len(Bytes(Words(b))) = WordBytes * (Len(b) \div WordBytes)
  BY WordsType, BytesFacts, BytesLen
<1>7. From(Cat(Bytes(Words(b)), p), Len(Bytes(Words(b)))) = p
  BY <1>6, CatCut
<1> QED BY <1>5, <1>6, <1>7

\* n null words.
LEMMA NullsFacts ==
    ASSUME NEW n \in Nat
    PROVE  /\ Nulls(n) \in Seq(Word) /\ Len(Nulls(n)) = n
           /\ \A i \in 1..n : Nulls(n)[i] = NullWord
           /\ Nulls(0) = <<>>
<1>1. NullWord \in Word
  BY ByteFacts
<1>2. \A k \in Nat : /\ Nulls(k) \in Seq(Word) /\ Len(Nulls(k)) = k
                     /\ \A i \in 1..k : Nulls(k)[i] = NullWord
  <2> HIDE DEF NullWord, Word
  <2> QED BY <1>1 DEF Nulls
<1>3. Nulls(0) = <<>>
  BY <1>2, LenZero
<1> QED BY <1>2, <1>3

\* Null words in two parts.
LEMMA NullsAdd ==
    ASSUME NEW m \in Nat, NEW n \in Nat
    PROVE  Cat(Nulls(m), Nulls(n)) = Nulls(m + n)
<1>1. m + n \in Nat
  OBVIOUS
<1>2. /\ Nulls(m) \in Seq(Word) /\ Len(Nulls(m)) = m /\ \A i \in 1..m : Nulls(m)[i] = NullWord
      /\ Nulls(n) \in Seq(Word) /\ Len(Nulls(n)) = n /\ \A i \in 1..n : Nulls(n)[i] = NullWord
      /\ Nulls(m + n) \in Seq(Word) /\ Len(Nulls(m + n)) = m + n
      /\ \A i \in 1..m + n : Nulls(m + n)[i] = NullWord
  BY <1>1, NullsFacts
<1> DEFINE a == Nulls(m)
           b == Nulls(n)
           c == Nulls(m + n)
<1>3. /\ a \o b \in Seq(Word) /\ Len(a \o b) = m + n
      /\ \A i \in 1..m + n : (a \o b)[i] = IF i <= m THEN a[i] ELSE b[i - m]
  <2> HIDE DEF a, b, c
  <2>1. a \in Seq(Word) /\ b \in Seq(Word) /\ Len(a) = m /\ Len(b) = n
    BY <1>2 DEF a, b
  <2> QED BY <2>1, ConcatProperties
<1>4. \A i \in 1..m + n : (a \o b)[i] = c[i]
  <2>1. \A i \in 1..m + n : IF i <= m THEN i \in 1..m ELSE i - m \in 1..n
    OBVIOUS
  <2> QED BY <1>2, <1>3, <2>1
<1>5. a \o b = c
  <2> HIDE DEF a, b, c
  <2>1. c \in Seq(Word) /\ Len(c) = m + n
    BY <1>2 DEF c
  <2> QED BY <1>3, <1>4, <2>1, SeqEqual
<1> QED BY <1>5 DEF Cat

(***************************************************************************)
(* What bytes stand for.  E has the places where a run has to end, each as  *)
(* the number of words behind it.                                          *)
(***************************************************************************)
\* No place is among the n words before the last m, but at their ends.
NoEnd(E, m, n) == \A e \in E : e <= m \/ e >= m + n

\* b begins with the code of the words that are before ws1 in ws, and b1 is the rest.
NullStep(E, b, ws, b1, ws1) ==
    \E n \in 0..MaxRun :
      /\ b = Cat(One(0), Cat(One(n), b1)) /\ ws = Cat(One(NullWord), Cat(Nulls(n), ws1))
      /\ NoEnd(E, Len(ws1), n + 1)
FullStep(E, b, ws, b1, ws1) ==
    \E w \in Word, x \in Seq(Word) :
      /\ TagOf(w) = FullTag /\ Len(x) <= MaxRun
      /\ b = Cat(One(FullTag), Cat(w, Cat(One(Len(x)), Cat(Bytes(x), b1))))
      /\ ws = Cat(One(w), Cat(x, ws1))
      /\ NoEnd(E, Len(ws1), Len(x) + 1)
WordStep(b, ws, b1, ws1) ==
    \E w \in Word :
      /\ TagOf(w) # 0 /\ TagOf(w) # FullTag
      /\ b = Cat(One(TagOf(w)), Cat(NonZero(w), b1)) /\ ws = Cat(One(w), ws1)
CodeStep(E, b, ws, b1, ws1) ==
    NullStep(E, b, ws, b1, ws1) \/ FullStep(E, b, ws, b1, ws1) \/ WordStep(b, ws, b1, ws1)

Code(E, R) ==
    \A p \in R : p = <<<<>>, <<>>>> \/ \E q \in R : CodeStep(E, p[1], p[2], q[1], q[2])
Codes(E, b, ws) ==
    \E R \in SUBSET (Seq(Byte) \X Seq(Word)) : <<b, ws>> \in R /\ Code(E, R)

\* Codes relates bytes to words.
LEMMA CodesType ==
    ASSUME NEW E, NEW b, NEW ws, Codes(E, b, ws)
    PROVE  b \in Seq(Byte) /\ ws \in Seq(Word)
BY DEF Codes

\* A set of one pair.
LEMMA PairSet ==
    ASSUME NEW A, NEW B, NEW x \in A, NEW y \in B
    PROVE  {<<x, y>>} \in SUBSET (A \X B)
OBVIOUS

\* No bytes are the code of no words.
LEMMA CodesEmpty ==
    ASSUME NEW E
    PROVE  Codes(E, <<>>, <<>>)
<1> DEFINE R == {<<<<>>, <<>>>>}
<1>1. <<>> \in Seq(Byte) /\ <<>> \in Seq(Word)
  BY CatFacts
<1>2. R \in SUBSET (Seq(Byte) \X Seq(Word)) /\ <<<<>>, <<>>>> \in R
  BY <1>1, PairSet
<1>3. Code(E, R)
  BY DEF Code
<1> HIDE DEF R
<1> QED BY <1>2, <1>3 DEF Codes

\* A code is empty or begins with the code of a run.
LEMMA CodesBegin ==
    ASSUME NEW E, NEW b, NEW ws, Codes(E, b, ws)
    PROVE  (b = <<>> /\ ws = <<>>) \/ \E b1, ws1 : CodeStep(E, b, ws, b1, ws1) /\ Codes(E, b1, ws1)
<1>1. PICK R \in SUBSET (Seq(Byte) \X Seq(Word)) : <<b, ws>> \in R /\ Code(E, R)
  BY DEF Codes
<1>2. CASE <<b, ws>> = <<<<>>, <<>>>>
  BY <1>2
<1>3. CASE \E q \in R : CodeStep(E, b, ws, q[1], q[2])
  <2>1. PICK q \in R : CodeStep(E, b, ws, q[1], q[2])
    BY <1>3
  <2>2. q = <<q[1], q[2]>>
    BY <1>1
  <2>3. Codes(E, q[1], q[2])
    BY <1>1, <2>1, <2>2 DEF Codes
  <2> QED BY <2>1, <2>3
<1>4. <<b, ws>> = <<<<>>, <<>>>> \/ \E q \in R : CodeStep(E, <<b, ws>>[1], <<b, ws>>[2], q[1], q[2])
  <2> HIDE DEF CodeStep
  <2> QED BY <1>1 DEF Code
<1> QED BY <1>2, <1>3, <1>4

\* What a step of a code adds is bytes and words.
LEMMA StepType ==
    ASSUME NEW E, NEW b, NEW ws, NEW b1 \in Seq(Byte), NEW ws1 \in Seq(Word),
           CodeStep(E, b, ws, b1, ws1)
    PROVE  b \in Seq(Byte) /\ ws \in Seq(Word)
<1>1. CASE NullStep(E, b, ws, b1, ws1)
  <2>1. PICK n \in 0..MaxRun :
             b = Cat(One(0), Cat(One(n), b1)) /\ ws = Cat(One(NullWord), Cat(Nulls(n), ws1))
    BY <1>1 DEF NullStep
  <2>2. n \in Byte /\ 0 \in Byte /\ NullWord \in Word /\ n \in Nat
    BY ByteFacts, SizeFacts
  <2>3. /\ One(0) \in Seq(Byte) /\ One(n) \in Seq(Byte) /\ One(NullWord) \in Seq(Word)
        /\ Nulls(n) \in Seq(Word)
    BY <2>2, OneType, NullsFacts
  <2> QED BY <2>1, <2>3, CatType
<1>2. CASE FullStep(E, b, ws, b1, ws1)
  <2>1. PICK w \in Word, x \in Seq(Word) :
             /\ Len(x) <= MaxRun
             /\ b = Cat(One(FullTag), Cat(w, Cat(One(Len(x)), Cat(Bytes(x), b1))))
             /\ ws = Cat(One(w), Cat(x, ws1))
    BY <1>2 DEF FullStep
  <2>2. Len(x) \in Byte /\ FullTag \in Byte /\ w \in Seq(Byte) /\ Bytes(x) \in Seq(Byte)
    <3>1. Len(x) \in 0..MaxRun
      BY <2>1, LenProperties, SizeFacts
    <3> QED BY <3>1, ByteFacts, WordFacts, BytesFacts
  <2>3. One(Len(x)) \in Seq(Byte) /\ One(FullTag) \in Seq(Byte) /\ One(w) \in Seq(Word)
    BY <2>2, OneType
  <2> QED BY <2>1, <2>2, <2>3, CatType
<1>3. CASE WordStep(b, ws, b1, ws1)
  <2>1. PICK w \in Word : b = Cat(One(TagOf(w)), Cat(NonZero(w), b1)) /\ ws = Cat(One(w), ws1)
    BY <1>3 DEF WordStep
  <2>2. One(TagOf(w)) \in Seq(Byte) /\ NonZero(w) \in Seq(Byte) /\ One(w) \in Seq(Word)
    BY ByteFacts, OneType
  <2> QED BY <2>1, <2>2, CatType
<1> QED BY <1>1, <1>2, <1>3 DEF CodeStep

\* A run in front of a code makes a code.
LEMMA CodesStep ==
    ASSUME NEW E, NEW b, NEW ws, NEW b1, NEW ws1, CodeStep(E, b, ws, b1, ws1), Codes(E, b1, ws1)
    PROVE  Codes(E, b, ws)
<1>1. PICK R \in SUBSET (Seq(Byte) \X Seq(Word)) : <<b1, ws1>> \in R /\ Code(E, R)
  BY DEF Codes
<1>2. b \in Seq(Byte) /\ ws \in Seq(Word)
  BY CodesType, StepType
<1> DEFINE Q == R \cup {<<b, ws>>}
<1>3. Q \in SUBSET (Seq(Byte) \X Seq(Word)) /\ <<b, ws>> \in Q
  BY <1>1, <1>2
<1>4. ASSUME NEW p \in Q
      PROVE  p = <<<<>>, <<>>>> \/ \E q \in Q : CodeStep(E, p[1], p[2], q[1], q[2])
  <2> HIDE DEF CodeStep
  <2>1. CASE p \in R
    BY <1>1, <2>1 DEF Code
  <2>2. CASE p = <<b, ws>>
    <3> DEFINE q == <<b1, ws1>>
    <3>1. q \in Q /\ CodeStep(E, p[1], p[2], q[1], q[2])
      BY <1>1, <2>2
    <3> QED BY <3>1
  <2> QED BY <2>1, <2>2
<1>5. Code(E, Q)
  BY <1>4 DEF Code
<1> QED BY <1>3, <1>5 DEF Codes

\* Any words have a code.
LEMMA CodeExists ==
    ASSUME NEW E, NEW ws \in Seq(Word), E \subseteq Nat
    PROVE  \E b : Codes(E, b, ws)
<1> DEFINE U == { s \in Seq(Word) : \E b : Codes(E, b, s) }
<1>1. <<>> \in U
  BY CodesEmpty, CatFacts
<1>2. ASSUME NEW w \in Word, NEW s \in Seq(Word), s \in U PROVE Cat(One(w), s) \in U
  <2>1. PICK b : Codes(E, b, s)
    BY <1>2
  <2>2. NoEnd(E, Len(s), 1) /\ Len(s) \in Nat /\ Cat(<<>>, s) = s /\ b \in Seq(Byte) /\ Cat(<<>>, b) = b
    BY <2>1, LenProperties, CatEmpty, CodesType DEF NoEnd
  <2>3. 0 \in 0..MaxRun /\ 0 + 1 = 1 /\ Nulls(0) = <<>> /\ Bytes(<<>>) = <<>> /\ <<>> \in Seq(Word) /\ Len(<<>>) = 0
    <3>1. 0 \in Nat /\ 0 \in 0..MaxRun /\ 0 + 1 = 1 /\ Len(<<>>) = 0
      BY SizeFacts
    <3>2. Nulls(0) = <<>>
      BY <3>1, NullsFacts
    <3> QED BY <3>1, <3>2, BytesFacts, CatFacts
  <2>4. Cat(One(w), s) \in Seq(Word)
    BY ConsCat
  <2>5. \E c : CodeStep(E, c, Cat(One(w), s), b, s)
    <3>1. CASE w = NullWord
      <4>1. NullStep(E, Cat(One(0), Cat(One(0), b)), Cat(One(w), s), b, s)
        BY <2>2, <2>3, <3>1 DEF NullStep
      <4> QED BY <4>1 DEF CodeStep
    <3>2. CASE TagOf(w) = FullTag
      <4>1. FullStep(E, Cat(One(FullTag), Cat(w, Cat(One(0), b))), Cat(One(w), s), b, s)
        <5> DEFINE x == <<>>
        <5>1. /\ x \in Seq(Word) /\ Len(x) = 0 /\ Bytes(x) = <<>> /\ Len(x) <= MaxRun
              /\ Cat(x, s) = s /\ Cat(Bytes(x), b) = b /\ NoEnd(E, Len(s), Len(x) + 1)
          BY <2>2, <2>3, SizeFacts
        <5> HIDE DEF x
        <5> QED BY <3>2, <5>1 DEF FullStep
      <4> QED BY <4>1 DEF CodeStep
    <3>3. CASE w # NullWord /\ TagOf(w) # FullTag
      <4>1. TagOf(w) # 0
        <5>1. SUFFICES ASSUME TagFrom(w, WordBytes) = 0 PROVE FALSE
          BY DEF TagOf, TagFrom
        <5>2. WordBytes \in 0..WordBytes /\ WordBytes - WordBytes + 1 = 1
          BY SizeFacts
        <5>3. \A i \in 1..WordBytes : w[i] = 0
          BY <5>1, <5>2, TagZero
        <5>4. w = NullWord
          BY <5>3 DEF Word, NullWord
        <5> QED BY <3>3, <5>4
      <4>2. WordStep(Cat(One(TagOf(w)), Cat(NonZero(w), b)), Cat(One(w), s), b, s)
        BY <3>3, <4>1 DEF WordStep
      <4> QED BY <4>2 DEF CodeStep
    <3> QED BY <3>1, <3>2, <3>3
  <2>6. PICK c : CodeStep(E, c, Cat(One(w), s), b, s)
    BY <2>5
  <2>7. Codes(E, c, Cat(One(w), s))
    BY <2>1, <2>6, CodesStep
  <2> QED BY <2>4, <2>7
<1>3. \A s \in Seq(Word) : s \in U
  <2> HIDE DEF U
  <2> QED BY <1>1, <1>2, CatInduction
<1> QED BY <1>3

(***************************************************************************)
(* The packer                                                              *)
(***************************************************************************)
LEMMA TwoOnes ==
    ASSUME NEW S, NEW x \in S, NEW y \in S
    PROVE  Cat(One(x), One(y)) \in Seq(S) /\ Len(Cat(One(x), One(y))) = 2
<1>1. One(x) \in Seq(S) /\ One(y) \in Seq(S) /\ Len(One(x)) = 1 /\ Len(One(y)) = 1
  BY OneType
<1>2. Len(Cat(One(x), One(y))) = 1 + 1
  BY <1>1, CatLen
<1> QED BY <1>1, <1>2, CatType

\* A set of naturals that is not empty has a least element.
LEMMA MinFacts ==
    ASSUME NEW I, I \subseteq Nat, I # {}
    PROVE  Min(I) \in I /\ \A y \in I : Min(I) <= y
<1>1. PICK x \in I : \A y \in I : ~(<<y, x>> \in OpToRel(<, Nat))
  BY NatLessThanWellFounded, WFMin
<1>2. ASSUME NEW y \in I PROVE x <= y
  <2>1. x \in Nat /\ y \in Nat
    OBVIOUS
  <2>2. ~(y < x)
    BY <1>1, <2>1 DEF OpToRel
  <2> QED BY <2>1, <2>2
<1> QED BY <1>2 DEF Min

\* A run of nulls has nulls only, and no run is longer than its count can say.
LEMMA RunFacts ==
    ASSUME NEW s \in Seq(Word)
    PROVE  /\ NullRun(s) \in 0..MaxRun /\ NullRun(s) <= Len(s)
           /\ First(s, NullRun(s)) = Nulls(NullRun(s))
           /\ FullRun(s) \in 0..MaxRun /\ FullRun(s) <= Len(s)
<1> DEFINE m == Least(Len(s), MaxRun)
           t == First(s, m)
           I == { i \in 1..Len(t) : IsNotNull(t[i]) }
           J == { i \in 1..Len(t) : Compresses(t[i]) }
<1>1. m \in Nat /\ m <= Len(s) /\ m <= MaxRun /\ MaxRun \in Nat /\ Len(s) \in Nat
  BY SizeFacts, LenProperties DEF Least
<1>2. t \in Seq(Word) /\ Len(t) = m /\ \A i \in 1..m : t[i] = s[i]
  <2> HIDE DEF m
  <2>1. m \in 0..Len(s)
    BY <1>1
  <2> QED BY <2>1, Cut
<1>3. NullRun(s) = RunLen(t, IF I # {} THEN Min(I) ELSE 0)
  BY DEF NullRun, SelectInSeq
<1>4. FullRun(s) = RunLen(t, IF J # {} THEN Min(J) ELSE 0)
  BY DEF FullRun, SelectInSeq
<1>5. I \subseteq 1..m /\ J \subseteq 1..m /\ I \subseteq Nat /\ J \subseteq Nat
  BY <1>1, <1>2
<1>6. NullRun(s) \in 0..m /\ \A i \in 1..NullRun(s) : t[i] = NullWord
  <2>1. CASE I = {}
    <3>1. NullRun(s) = m
      BY <1>2, <1>3, <2>1 DEF RunLen
    <3> QED BY <1>1, <1>2, <2>1, <3>1 DEF IsNotNull
  <2>2. CASE I # {}
    <3>1. Min(I) \in I /\ \A y \in I : Min(I) <= y
      <4> HIDE DEF I
      <4> QED BY <1>5, <2>2, MinFacts
    <3>2. Min(I) \in 1..m
      BY <1>5, <3>1
    <3>3. NullRun(s) = Min(I) - 1
      BY <1>3, <2>2, <3>2 DEF RunLen
    <3>4. ASSUME NEW i \in 1..Min(I) - 1 PROVE t[i] = NullWord
      <4>1. i \in 1..m /\ ~(Min(I) <= i)
        BY <1>1, <3>2
      <4>2. i \notin I
        BY <3>1, <4>1
      <4> QED BY <1>2, <4>1, <4>2 DEF IsNotNull
    <3> QED BY <1>1, <3>2, <3>3, <3>4
  <2> QED BY <2>1, <2>2
<1>7. FullRun(s) \in 0..m
  <2>1. CASE J = {}
    BY <1>1, <1>2, <1>4, <2>1 DEF RunLen
  <2>2. CASE J # {}
    <3>1. Min(J) \in J
      <4> HIDE DEF J
      <4> QED BY <1>5, <2>2, MinFacts
    <3>2. Min(J) \in 1..m
      BY <1>5, <3>1
    <3> QED BY <1>1, <1>4, <2>2, <3>2 DEF RunLen
  <2> QED BY <2>1, <2>2
<1>8. First(s, NullRun(s)) = Nulls(NullRun(s))
  <2> DEFINE n == NullRun(s)
  <2> HIDE DEF m, t
  <2>1. n \in Nat /\ n \in 0..Len(s) /\ \A i \in 1..n : i \in 1..m
    BY <1>1, <1>6
  <2>2. /\ First(s, n) \in Seq(Word) /\ Len(First(s, n)) = n
        /\ \A i \in 1..n : First(s, n)[i] = s[i]
    BY <2>1, Cut
  <2>3. Nulls(n) \in Seq(Word) /\ Len(Nulls(n)) = n /\ \A i \in 1..n : Nulls(n)[i] = NullWord
    BY <2>1, NullsFacts
  <2>4. \A i \in 1..n : First(s, n)[i] = Nulls(n)[i]
    BY <1>2, <1>6, <2>1, <2>2, <2>3
  <2> HIDE DEF n
  <2>5. First(s, n) = Nulls(n)
    BY <2>2, <2>3, <2>4, SeqEqual
  <2> QED BY <2>5 DEF n
<1> QED BY <1>1, <1>6, <1>7, <1>8

\* A word has at most WordBytes bytes that are not 0.
LEMMA NonZeroLen ==
    ASSUME NEW w \in Word
    PROVE  Len(NonZero(w)) <= WordBytes
<1> DEFINE U == { n \in Nat : n <= WordBytes => Len(BytesFrom(w, n)) <= n }
<1>1. 0 \in U
  BY CodedFacts
<1>2. ASSUME NEW n \in Nat, n \in U PROVE n + 1 \in U
  <2>1. ASSUME n + 1 <= WordBytes PROVE Len(BytesFrom(w, n + 1)) <= n + 1
    <3>1. n \in 0..WordBytes - 1 /\ n \in 0..WordBytes /\ n <= WordBytes /\ WordBytes - n \in 1..WordBytes
      BY <2>1, SizeFacts
    <3>2. BytesFrom(w, n) \in Seq(Byte) /\ w[WordBytes - n] \in Byte /\ Len(BytesFrom(w, n)) <= n
      BY <1>2, <3>1, CodedFacts, WordFacts
    <3>3. Len(Cat(One(w[WordBytes - n]), BytesFrom(w, n))) = 1 + Len(BytesFrom(w, n))
      BY <3>2, ConsCat
    <3>4. \/ BytesFrom(w, n + 1) = BytesFrom(w, n)
          \/ BytesFrom(w, n + 1) = Cat(One(w[WordBytes - n]), BytesFrom(w, n))
      BY <3>1, CodedFacts
    <3>5. Len(BytesFrom(w, n)) \in Nat
      BY <3>2, LenProperties
    <3> QED BY <3>2, <3>3, <3>4, <3>5
  <2>2. n + 1 \in Nat
    OBVIOUS
  <2> QED BY <2>1, <2>2
<1>3. \A n \in Nat : n \in U
  <2> HIDE DEF U
  <2> QED BY <1>1, <1>2, SetInduction
<1>4. WordBytes \in Nat /\ WordBytes <= WordBytes
  BY SizeFacts
<1>5. Len(BytesFrom(w, WordBytes)) <= WordBytes
  BY <1>3, <1>4
<1> QED BY <1>5 DEF NonZero, BytesFrom

\* The tag of a word that is not null is not 0.
LEMMA NotNullTag ==
    ASSUME NEW w \in Word, w # NullWord
    PROVE  TagOf(w) # 0
<1>1. SUFFICES ASSUME TagFrom(w, WordBytes) = 0 PROVE FALSE
  BY DEF TagOf, TagFrom
<1>2. WordBytes \in 0..WordBytes /\ WordBytes - WordBytes + 1 = 1
  BY SizeFacts
<1>3. \A i \in 1..WordBytes : w[i] = 0
  BY <1>1, <1>2, TagZero
<1> QED BY <1>3 DEF Word, NullWord

\* What one turn of the packer writes is the code of the words it takes.
LEMMA PackWordSpec ==
    ASSUME NEW E, NEW w \in Word, NEW s \in Seq(Word), NEW later \in Seq(Word),
           NoEnd(E, Len(later), 1 + Len(s)), E \subseteq Nat
    PROVE  LET t == PackWord(w, s)
           IN  /\ t.bytes \in Seq(Byte) /\ t.run \in Seq(Byte) /\ t.rest \in Seq(Word)
               /\ Len(t.rest) <= Len(s) /\ Len(t.bytes) <= MinBuf
               /\ \A g : Codes(E, g, Cat(t.rest, later)) =>
                    Codes(E, Cat(t.bytes, Cat(t.run, g)), Cat(Cat(One(w), s), later))
<1> DEFINE t == PackWord(w, s)
<1>1. /\ WordBytes \in Nat \ {0} /\ Len(s) \in Nat /\ Len(later) \in Nat /\ MaxRun \in Nat
      /\ One(w) \in Seq(Word) /\ w \in Seq(Byte) /\ Len(w) = WordBytes
      /\ 0 \in Byte /\ FullTag \in Byte
  BY SizeFacts, LenProperties, OneType, WordFacts, ByteFacts
<1>2. CASE w = NullWord
  <2> DEFINE n == NullRun(s)
             r == From(s, n)
  <2>1. t.bytes = <<0, n>> /\ t.run = <<>> /\ t.rest = r
    BY <1>2 DEF PackWord
  <2>2. n \in 0..MaxRun /\ n \in Nat /\ n \in Byte /\ n <= Len(s) /\ First(s, n) = Nulls(n)
    BY RunFacts, ByteFacts
  <2>3. r \in Seq(Word) /\ Len(r) = Len(s) - n /\ s = Cat(Nulls(n), r) /\ Nulls(n) \in Seq(Word)
    BY <2>2, CutCat, NullsFacts
  <2>4. <<0, n>> = Cat(One(0), One(n))
    BY DEF Cat, One
  <2>5. One(0) \in Seq(Byte) /\ One(n) \in Seq(Byte) /\ Len(One(0)) = 1 /\ Len(One(n)) = 1
    BY <1>1, <2>2, OneType
  <2> HIDE DEF n, r, t
  <2>6. Cat(One(0), One(n)) \in Seq(Byte) /\ Len(Cat(One(0), One(n))) = 2
    BY <1>1, <2>2, TwoOnes
  <2>7. ASSUME NEW g, Codes(E, g, Cat(r, later))
        PROVE  Codes(E, Cat(t.bytes, Cat(t.run, g)), Cat(Cat(One(w), s), later))
    <3>1. g \in Seq(Byte) /\ Cat(r, later) \in Seq(Word) /\ Len(Cat(r, later)) = Len(s) - n + Len(later)
      BY <2>3, <2>7, CodesType, CatLen
    <3>2. Cat(t.bytes, Cat(t.run, g)) = Cat(One(0), Cat(One(n), g))
      <4>1. Cat(<<>>, g) = g /\ Cat(Cat(One(0), One(n)), g) = Cat(One(0), Cat(One(n), g))
        BY <2>5, <3>1, CatEmpty, CatAssoc
      <4> QED BY <2>1, <2>4, <4>1
    <3>3. Cat(Cat(One(w), s), later) = Cat(One(w), Cat(Nulls(n), Cat(r, later)))
      <4>1. Cat(Cat(One(w), s), later) = Cat(One(w), Cat(s, later))
        BY <1>1, CatAssoc
      <4>2. Cat(Cat(Nulls(n), r), later) = Cat(Nulls(n), Cat(r, later))
        BY <2>3, CatAssoc
      <4> QED BY <2>3, <4>1, <4>2
    <3>4. NoEnd(E, Len(Cat(r, later)), n + 1)
      BY <1>1, <2>2, <3>1 DEF NoEnd
    <3>5. NullStep(E, Cat(One(0), Cat(One(n), g)), Cat(One(w), Cat(Nulls(n), Cat(r, later))),
                   g, Cat(r, later))
      BY <1>2, <2>2, <3>4 DEF NullStep
    <3>6. CodeStep(E, Cat(t.bytes, Cat(t.run, g)), Cat(Cat(One(w), s), later), g, Cat(r, later))
      BY <3>2, <3>3, <3>5 DEF CodeStep
    <3> QED BY <2>7, <3>6, CodesStep
  <2>8. <<>> \in Seq(Byte) /\ 2 <= MinBuf /\ Len(r) <= Len(s)
    BY <1>1, <2>2, <2>3, CatFacts DEF MinBuf
  <2>9. t.bytes \in Seq(Byte) /\ Len(t.bytes) <= MinBuf
    BY <2>1, <2>4, <2>6, <2>8
  <2> QED BY <2>1, <2>3, <2>7, <2>8, <2>9 DEF t
<1>3. CASE w # NullWord /\ TagOf(w) = FullTag
  <2> DEFINE n == FullRun(s)
             x == First(s, n)
             r == From(s, n)
  <2>1. t.bytes = <<FullTag>> \o w \o <<n>> /\ t.run = Bytes(x) /\ t.rest = r
    BY <1>3 DEF PackWord
  <2>2. n \in 0..MaxRun /\ n \in Nat /\ n \in Byte /\ n <= Len(s)
    BY RunFacts, ByteFacts
  <2>3. x \in Seq(Word) /\ Len(x) = n /\ r \in Seq(Word) /\ Len(r) = Len(s) - n /\ s = Cat(x, r)
    BY <2>2, CutCat
  <2>4. <<FullTag>> \o w \o <<n>> = Cat(Cat(One(FullTag), w), One(n))
    BY DEF Cat, One
  <2>5. /\ One(FullTag) \in Seq(Byte) /\ One(n) \in Seq(Byte) /\ Len(One(FullTag)) = 1
        /\ Len(One(n)) = 1 /\ Bytes(x) \in Seq(Byte)
    BY <1>1, <2>2, <2>3, OneType, BytesFacts
  <2> HIDE DEF n, x, r, t
  <2>6. Cat(One(FullTag), w) \in Seq(Byte) /\ Len(Cat(One(FullTag), w)) = 1 + WordBytes
    BY <1>1, <2>5, CatType, CatLen
  <2>7. /\ Cat(Cat(One(FullTag), w), One(n)) \in Seq(Byte)
        /\ Len(Cat(Cat(One(FullTag), w), One(n))) = WordBytes + 2
    <3>1. Len(Cat(Cat(One(FullTag), w), One(n))) = Len(Cat(One(FullTag), w)) + Len(One(n))
      BY <2>5, <2>6, CatLen
    <3>2. Len(Cat(Cat(One(FullTag), w), One(n))) = WordBytes + 2
      BY <1>1, <2>5, <2>6, <3>1
    <3> QED BY <2>5, <2>6, <3>2, CatType
  <2>8. ASSUME NEW g, Codes(E, g, Cat(r, later))
        PROVE  Codes(E, Cat(t.bytes, Cat(t.run, g)), Cat(Cat(One(w), s), later))
    <3>1. g \in Seq(Byte) /\ Cat(r, later) \in Seq(Word) /\ Len(Cat(r, later)) = Len(s) - n + Len(later)
      BY <2>3, <2>8, CodesType, CatLen
    <3>2. Cat(t.bytes, Cat(t.run, g)) = Cat(One(FullTag), Cat(w, Cat(One(n), Cat(Bytes(x), g))))
      <4> DEFINE y == Cat(Bytes(x), g)
      <4>1. y \in Seq(Byte)
        BY <2>5, <3>1, CatType
      <4> HIDE DEF y
      <4>2. Cat(One(n), y) \in Seq(Byte)
        BY <2>5, <4>1, CatType
      <4>3. Cat(Cat(Cat(One(FullTag), w), One(n)), y) = Cat(Cat(One(FullTag), w), Cat(One(n), y))
        BY <2>5, <2>6, <4>1, CatAssoc
      <4>4. Cat(Cat(One(FullTag), w), Cat(One(n), y)) = Cat(One(FullTag), Cat(w, Cat(One(n), y)))
        BY <1>1, <2>5, <4>2, CatAssoc
      <4> QED BY <2>1, <2>4, <4>3, <4>4 DEF y
    <3>3. Cat(Cat(One(w), s), later) = Cat(One(w), Cat(x, Cat(r, later)))
      <4>1. Cat(Cat(One(w), s), later) = Cat(One(w), Cat(s, later))
        BY <1>1, CatAssoc
      <4>2. Cat(Cat(x, r), later) = Cat(x, Cat(r, later))
        BY <2>3, CatAssoc
      <4> QED BY <2>3, <4>1, <4>2
    <3>4. NoEnd(E, Len(Cat(r, later)), n + 1) /\ n <= MaxRun
      <4>1. NoEnd(E, Len(Cat(r, later)), n + 1)
        BY <1>1, <2>2, <3>1 DEF NoEnd
      <4> QED BY <1>1, <2>2, <4>1
    <3>5. FullStep(E, Cat(One(FullTag), Cat(w, Cat(One(n), Cat(Bytes(x), g)))),
                   Cat(One(w), Cat(x, Cat(r, later))), g, Cat(r, later))
      BY <1>3, <2>3, <3>4 DEF FullStep
    <3>6. CodeStep(E, Cat(t.bytes, Cat(t.run, g)), Cat(Cat(One(w), s), later), g, Cat(r, later))
      BY <3>2, <3>3, <3>5 DEF CodeStep
    <3> QED BY <2>8, <3>6, CodesStep
  <2>9. Len(r) <= Len(s) /\ WordBytes + 2 <= MinBuf
    BY <1>1, <2>2, <2>3 DEF MinBuf
  <2>10. t.bytes \in Seq(Byte) /\ Len(t.bytes) <= MinBuf
    BY <2>1, <2>4, <2>7, <2>9
  <2> QED BY <2>1, <2>3, <2>5, <2>8, <2>9, <2>10 DEF t
<1>4. CASE w # NullWord /\ TagOf(w) # FullTag
  <2>1. t.bytes = <<TagOf(w)>> \o NonZero(w) /\ t.run = <<>> /\ t.rest = s
    BY <1>4 DEF PackWord
  <2>2. /\ One(TagOf(w)) \in Seq(Byte) /\ Len(One(TagOf(w))) = 1 /\ NonZero(w) \in Seq(Byte)
        /\ Len(NonZero(w)) \in Nat /\ Len(NonZero(w)) <= WordBytes
    BY ByteFacts, OneType, NonZeroLen, LenProperties
  <2>3. <<TagOf(w)>> \o NonZero(w) = Cat(One(TagOf(w)), NonZero(w))
    BY DEF Cat, One
  <2> HIDE DEF t
  <2>4. /\ Cat(One(TagOf(w)), NonZero(w)) \in Seq(Byte)
        /\ Len(Cat(One(TagOf(w)), NonZero(w))) = 1 + Len(NonZero(w))
    BY <2>2, CatType, CatLen
  <2>5. ASSUME NEW g, Codes(E, g, Cat(s, later))
        PROVE  Codes(E, Cat(t.bytes, Cat(t.run, g)), Cat(Cat(One(w), s), later))
    <3>1. g \in Seq(Byte)
      BY <2>5, CodesType
    <3>2. Cat(t.bytes, Cat(t.run, g)) = Cat(One(TagOf(w)), Cat(NonZero(w), g))
      <4>1. /\ Cat(<<>>, g) = g
            /\ Cat(Cat(One(TagOf(w)), NonZero(w)), g) = Cat(One(TagOf(w)), Cat(NonZero(w), g))
        BY <2>2, <3>1, CatEmpty, CatAssoc
      <4> QED BY <2>1, <2>3, <4>1
    <3>3. Cat(Cat(One(w), s), later) = Cat(One(w), Cat(s, later))
      BY <1>1, CatAssoc
    <3>4. WordStep(Cat(One(TagOf(w)), Cat(NonZero(w), g)), Cat(One(w), Cat(s, later)), g, Cat(s, later))
      BY <1>4, NotNullTag DEF WordStep
    <3>5. CodeStep(E, Cat(t.bytes, Cat(t.run, g)), Cat(Cat(One(w), s), later), g, Cat(s, later))
      BY <3>2, <3>3, <3>4 DEF CodeStep
    <3> QED BY <2>5, <3>5, CodesStep
  <2>6. <<>> \in Seq(Byte) /\ 1 + Len(NonZero(w)) <= MinBuf /\ Len(s) <= Len(s)
    BY <1>1, <2>2, CatFacts DEF MinBuf
  <2>7. t.bytes \in Seq(Byte) /\ Len(t.bytes) <= MinBuf
    BY <2>1, <2>3, <2>4, <2>6
  <2> QED BY <2>1, <2>5, <2>6, <2>7 DEF t
<1> QED BY <1>2, <1>3, <1>4

\* The bytes f a packer has still to write, if these words come behind its own.
Owes(E, p, later, f) ==
    \E g : Codes(E, g, Cat(p.input, later)) /\ f = Cat(p.copy, g)

PackStates == [input : Seq(Word), copy : Seq(Byte), room : Nat, bytes : Seq(Byte)]

\* What has been written since the state x is the front of what it owed.
Packed(E, later, x, s) ==
    /\ Len(s.input) <= Len(x.input)
    /\ \E d \in Seq(Byte) :
         /\ s.bytes = Cat(x.bytes, d)
         /\ \A f : Owes(E, s, later, f) => Owes(E, x, later, Cat(d, f))

\* What a packer owes is bytes.
LEMMA OwesType ==
    ASSUME NEW E, NEW p, NEW later, NEW f, p.copy \in Seq(Byte), Owes(E, p, later, f)
    PROVE  f \in Seq(Byte)
<1>1. PICK g : Codes(E, g, Cat(p.input, later)) /\ f = Cat(p.copy, g)
  BY DEF Owes
<1>2. g \in Seq(Byte)
  BY <1>1, CodesType
<1> QED BY <1>1, <1>2, CatType

\* A turn of the packer writes the front of what it owes.
LEMMA PackTurnSpec ==
    ASSUME NEW E, E \subseteq Nat, NEW later \in Seq(Word), NEW x \in PackStates,
           NEW s \in PackStates, NoEnd(E, Len(later), Len(x.input)), Packed(E, later, x, s)
    PROVE  PackTurn(s) \in PackStates /\ Packed(E, later, x, PackTurn(s))
<1>1. /\ s.input \in Seq(Word) /\ s.copy \in Seq(Byte) /\ s.room \in Nat /\ s.bytes \in Seq(Byte)
      /\ x.input \in Seq(Word) /\ x.copy \in Seq(Byte) /\ x.bytes \in Seq(Byte)
      /\ Len(s.input) \in Nat /\ Len(x.input) \in Nat /\ Len(later) \in Nat
  BY LenProperties DEF PackStates
<1>2. CASE s.copy # <<>> \/ s.input = <<>> \/ s.room < MinBuf
  BY <1>2 DEF PackTurn
<1>3. CASE ~(s.copy # <<>> \/ s.input = <<>> \/ s.room < MinBuf)
  <2> DEFINE w == Head(s.input)
             ws == Tail(s.input)
             t == PackWord(w, ws)
             left == s.room - Len(t.bytes)
             k == Least(Len(t.run), left)
             a == First(t.run, k)
             c == From(t.run, k)
             s1 == PackTurn(s)
  <2>1. /\ s1 = [input |-> t.rest, copy |-> c, room |-> left - k, bytes |-> s.bytes \o t.bytes \o a]
    BY <1>3 DEF PackTurn
  <2>2. w \in Word /\ ws \in Seq(Word) /\ s.input = Cat(One(w), ws) /\ Len(ws) = Len(s.input) - 1
    BY <1>1, <1>3, UnconsCat
  <2>3. NoEnd(E, Len(later), 1 + Len(ws))
    <3> HIDE DEF ws
    <3>1. 1 + Len(ws) = Len(s.input) /\ Len(s.input) <= Len(x.input)
      BY <1>1, <2>2 DEF Packed
    <3> QED BY <1>1, <3>1 DEF NoEnd
  <2> HIDE DEF w, ws
  <2>4. /\ t.bytes \in Seq(Byte) /\ t.run \in Seq(Byte) /\ t.rest \in Seq(Word)
        /\ Len(t.rest) <= Len(ws) /\ Len(t.bytes) <= MinBuf
        /\ \A g : Codes(E, g, Cat(t.rest, later)) =>
             Codes(E, Cat(t.bytes, Cat(t.run, g)), Cat(Cat(One(w), ws), later))
    BY <2>2, <2>3, PackWordSpec
  <2> HIDE DEF t
  <2>5. left \in Nat /\ MinBuf \in Nat /\ Len(t.rest) \in Nat /\ Len(t.run) \in Nat
    <3>1. Len(t.bytes) \in Nat /\ MinBuf \in Nat /\ Len(t.rest) \in Nat /\ Len(t.run) \in Nat
      BY <2>4, SizeFacts, LenProperties DEF MinBuf
    <3>2. s.room >= MinBuf
      BY <1>1, <1>3, <3>1
    <3> QED BY <1>1, <2>4, <3>1, <3>2
  <2> HIDE DEF left
  <2>6. k \in Nat /\ k <= Len(t.run) /\ left - k \in Nat
    BY <2>5 DEF Least
  <2>7. a \in Seq(Byte) /\ c \in Seq(Byte) /\ t.run = Cat(a, c)
    <3> HIDE DEF k
    <3> QED BY <2>4, <2>6, CutCat
  <2> HIDE DEF k, a, c
  <2> DEFINE d == Cat(t.bytes, a)
  <2>8. d \in Seq(Byte) /\ s.bytes \o t.bytes \o a = Cat(s.bytes, d) /\ Cat(s.bytes, d) \in Seq(Byte)
    <3>1. s.bytes \o t.bytes \o a = Cat(Cat(s.bytes, t.bytes), a)
      BY DEF Cat
    <3>2. Cat(Cat(s.bytes, t.bytes), a) = Cat(s.bytes, d)
      BY <1>1, <2>4, <2>7, CatAssoc
    <3>3. d \in Seq(Byte)
      BY <2>4, <2>7, CatType
    <3>4. Cat(s.bytes, d) \in Seq(Byte)
      <4> HIDE DEF d
      <4> QED BY <1>1, <3>3, CatType
    <3> QED BY <3>1, <3>2, <3>3, <3>4
  <2>9. s1 \in PackStates /\ s1.bytes = Cat(s.bytes, d) /\ s1.input = t.rest /\ s1.copy = c
    <3> HIDE DEF s1
    <3> QED BY <2>1, <2>4, <2>6, <2>7, <2>8 DEF PackStates
  <2>10. ASSUME NEW f, Owes(E, s1, later, f)
         PROVE  Owes(E, s, later, Cat(d, f))
    <3>1. PICK g : Codes(E, g, Cat(t.rest, later)) /\ f = Cat(c, g)
      <4> HIDE DEF s1
      <4> QED BY <2>9, <2>10 DEF Owes
    <3>2. Codes(E, Cat(t.bytes, Cat(t.run, g)), Cat(s.input, later)) /\ g \in Seq(Byte)
      BY <2>2, <2>4, <3>1, CodesType
    <3>3. Cat(d, Cat(c, g)) = Cat(t.bytes, Cat(t.run, g))
      <4>1. Cat(c, g) \in Seq(Byte)
        BY <2>7, <3>2, CatType
      <4>2. Cat(Cat(t.bytes, a), Cat(c, g)) = Cat(t.bytes, Cat(a, Cat(c, g)))
        BY <2>4, <2>7, <4>1, CatAssoc
      <4>3. Cat(Cat(a, c), g) = Cat(a, Cat(c, g))
        BY <2>7, <3>2, CatAssoc
      <4> QED BY <2>7, <4>2, <4>3
    <3>4. s.copy = <<>> /\ Cat(d, f) \in Seq(Byte)
      <4>1. f \in Seq(Byte)
        BY <2>7, <3>1, <3>2, CatType
      <4> HIDE DEF d
      <4> QED BY <1>3, <2>8, <4>1, CatType
    <3>5. Cat(s.copy, Cat(d, f)) = Cat(d, f)
      <4> HIDE DEF d
      <4> QED BY <3>4, CatEmpty
    <3>6. Codes(E, Cat(d, f), Cat(s.input, later))
      <4> HIDE DEF d
      <4> QED BY <3>1, <3>2, <3>3
    <3> HIDE DEF d
    <3> QED BY <3>5, <3>6 DEF Owes
  <2> HIDE DEF s1, d
  <2>11. PICK e \in Seq(Byte) :
              s.bytes = Cat(x.bytes, e) /\ \A f : Owes(E, s, later, f) => Owes(E, x, later, Cat(e, f))
    BY DEF Packed
  <2>12. s1.bytes = Cat(x.bytes, Cat(e, d)) /\ Cat(e, d) \in Seq(Byte)
    <3> DEFINE xb == x.bytes
    <3> HIDE DEF xb
    <3>1. xb \in Seq(Byte) /\ s1.bytes = Cat(Cat(xb, e), d)
      BY <1>1, <2>9, <2>11 DEF xb
    <3>2. Cat(Cat(xb, e), d) = Cat(xb, Cat(e, d)) /\ Cat(e, d) \in Seq(Byte)
      BY <2>8, <2>11, <3>1, CatAssoc, CatType
    <3> QED BY <3>1, <3>2 DEF xb
  <2>13. ASSUME NEW f, Owes(E, s1, later, f)
         PROVE  Owes(E, x, later, Cat(Cat(e, d), f))
    <3>1. f \in Seq(Byte)
      BY <2>7, <2>9, <2>13, OwesType
    <3>2. Cat(Cat(e, d), f) = Cat(e, Cat(d, f))
      BY <2>8, <2>11, <3>1, CatAssoc
    <3> QED BY <2>10, <2>11, <2>13, <3>2
  <2>14. Len(s1.input) <= Len(x.input)
    <3>1. Len(s1.input) <= Len(ws) /\ Len(ws) = Len(s.input) - 1 /\ Len(s1.input) \in Nat
      BY <2>2, <2>4, <2>5, <2>9
    <3> QED BY <1>1, <3>1 DEF Packed
  <2>15. Packed(E, later, x, s1)
    BY <2>12, <2>13, <2>14 DEF Packed
  <2> QED BY <2>9, <2>15 DEF s1
<1> QED BY <1>2, <1>3

\* So does the loop.
LEMMA PackLoopSpec ==
    ASSUME NEW E, E \subseteq Nat, NEW later \in Seq(Word), NEW x \in PackStates,
           NoEnd(E, Len(later), Len(x.input))
    PROVE  PackLoop(x) \in PackStates /\ Packed(E, later, x, PackLoop(x))
<1> DEFINE S == { s \in PackStates : Packed(E, later, x, s) }
           K == Len(x.input)
           F == [p \in Nat \X S |-> PackTurn(p[2])]
           G(g) == [n \in 0..K |-> IF n = 0 THEN x ELSE PackTurn(g[n - 1])]
           C == CHOOSE g : g = G(g)
<1>1. K \in Nat /\ x.bytes \in Seq(Byte) /\ x.copy \in Seq(Byte)
  BY LenProperties DEF PackStates
<1>2. x \in S
  <2>1. <<>> \in Seq(Byte) /\ x.bytes = Cat(x.bytes, <<>>)
    BY <1>1, CatFacts, CatEmpty
  <2>2. ASSUME NEW f, Owes(E, x, later, f) PROVE Owes(E, x, later, Cat(<<>>, f))
    <3>1. f \in Seq(Byte)
      BY <1>1, <2>2, OwesType
    <3>2. Cat(<<>>, f) = f
      BY <3>1, CatEmpty
    <3> QED BY <2>2, <3>2
  <2>3. Len(x.input) <= Len(x.input)
    BY <1>1
  <2>4. Packed(E, later, x, x)
    <3> HIDE DEF K
    <3> QED BY <2>1, <2>2, <2>3 DEF Packed
  <2> QED BY <2>4
<1>3. \A s \in S : PackTurn(s) \in S
  BY PackTurnSpec
<1> HIDE DEF S
<1>4. F \in [Nat \X S -> S]
  BY <1>3
<1>5. PICK f \in [0..K -> S] : Follows(f, K, x, F)
  <2> HIDE DEF F, K
  <2> QED BY <1>1, <1>2, <1>4, FollowsExists
<1>6. \A n \in 0..K : f[n] = IF n = 0 THEN x ELSE F[<<n - 1, f[n - 1]>>]
  <2> HIDE DEF F, K
  <2> QED BY <1>5 DEF Follows
<1> HIDE DEF K
<1>7. f = G(f)
  <2>1. ASSUME NEW n \in 0..K PROVE f[n] = G(f)[n]
    <3>1. CASE n = 0
      BY <1>6, <3>1
    <3>2. CASE n # 0
      <4>1. n - 1 \in Nat /\ n - 1 \in 0..K
        BY <1>1, <3>2
      <4>2. f[n - 1] \in S
        BY <1>5, <4>1
      <4> QED BY <1>6, <3>2, <4>1, <4>2
    <3> QED BY <3>1, <3>2
  <2>2. f = [n \in 0..K |-> f[n]]
    BY <1>5
  <2> HIDE DEF F
  <2> QED BY <2>1, <2>2
<1>8. C = G(C)
  <2> HIDE DEF G
  <2> QED BY <1>7
<1>9. PackLoop(x) = C[K]
  BY Zenon DEF PackLoop, K
<1> HIDE DEF C
<1>10. C[0] = x /\ \A n \in Nat : n + 1 <= K => C[n + 1] = PackTurn(C[n])
  <2>1. C[0] = x
    BY <1>1, <1>8
  <2>2. ASSUME NEW n \in Nat, n + 1 <= K PROVE C[n + 1] = PackTurn(C[n])
    <3>1. n + 1 \in 0..K /\ n + 1 # 0 /\ (n + 1) - 1 = n
      BY <1>1, <2>2
    <3> QED BY <1>8, <3>1
  <2> QED BY <2>1, <2>2
<1> DEFINE U == { n \in Nat : n <= K => C[n] \in S }
<1>11. 0 \in U
  BY <1>2, <1>10
<1>12. ASSUME NEW n \in Nat, n \in U PROVE n + 1 \in U
  <2>1. n + 1 <= K => n <= K
    BY <1>1
  <2>2. n + 1 <= K => C[n + 1] \in S
    BY <1>3, <1>10, <1>12, <2>1
  <2> QED BY <2>2
<1>13. \A n \in Nat : n \in U
  <2> HIDE DEF U
  <2> QED BY <1>11, <1>12, SetInduction
<1>14. C[K] \in S
  BY <1>1, <1>13
<1> QED BY <1>9, <1>14 DEF S

\* A call of Packer::pack, with any room, writes the front of a code of the words the packer
\* was given, and owes the rest of it.
THEOREM PackSpec ==
    ASSUME NEW E, E \subseteq Nat, NEW later \in Seq(Word), NEW p, NEW room \in Nat,
           p.input \in Seq(Word), p.copy \in Seq(Byte), NoEnd(E, Len(later), Len(p.input))
    PROVE  LET r == Pack(p, room)
           IN  /\ r.packer = [input |-> r.packer.input, copy |-> r.packer.copy]
               /\ r.packer.input \in Seq(Word) /\ r.packer.copy \in Seq(Byte)
               /\ Len(r.packer.input) <= Len(p.input) /\ r.bytes \in Seq(Byte)
               /\ r.completed = (r.packer.copy = <<>> /\ r.packer.input = <<>>)
               /\ \A f : Owes(E, r.packer, later, f) => Owes(E, p, later, Cat(r.bytes, f))
<1> DEFINE k == Least(Len(p.copy), room)
           x == [input |-> p.input, copy |-> From(p.copy, k), room |-> room - k,
                 bytes |-> First(p.copy, k)]
           s == PackLoop(x)
           r == Pack(p, room)
<1>1. k \in Nat /\ k <= Len(p.copy) /\ room - k \in Nat
  BY LenProperties DEF Least
<1>2. First(p.copy, k) \in Seq(Byte) /\ From(p.copy, k) \in Seq(Byte)
      /\ p.copy = Cat(First(p.copy, k), From(p.copy, k))
  <2> HIDE DEF k
  <2> QED BY <1>1, CutCat
<1> DEFINE a == First(p.copy, k)
           c == From(p.copy, k)
<1> HIDE DEF k
<1>3. x \in PackStates /\ x.input = p.input /\ x.copy = c /\ x.bytes = a
  BY <1>1, <1>2 DEF PackStates
<1>4. r = [packer |-> [input |-> s.input, copy |-> s.copy], bytes |-> s.bytes,
           completed |-> s.copy = <<>> /\ s.input = <<>>]
  BY DEF Pack, k
<1> HIDE DEF x, r
<1>5. s \in PackStates /\ Packed(E, later, x, s)
  BY <1>3, PackLoopSpec
<1> HIDE DEF s
<1>6. s.input \in Seq(Word) /\ s.copy \in Seq(Byte) /\ s.bytes \in Seq(Byte)
  BY <1>5 DEF PackStates
<1>7. PICK d \in Seq(Byte) :
           s.bytes = Cat(a, d) /\ \A f : Owes(E, s, later, f) => Owes(E, x, later, Cat(d, f))
  BY <1>3, <1>5 DEF Packed
<1>8. ASSUME NEW f, Owes(E, r.packer, later, f)
      PROVE  Owes(E, p, later, Cat(r.bytes, f))
  <2>1. Owes(E, s, later, f)
    BY <1>4, <1>8 DEF Owes
  <2>2. PICK g : Codes(E, g, Cat(p.input, later)) /\ Cat(d, f) = Cat(c, g)
    BY <1>3, <1>7, <2>1 DEF Owes
  <2>3. f \in Seq(Byte) /\ g \in Seq(Byte)
    BY <1>6, <2>1, <2>2, OwesType, CodesType
  <2>4. Cat(Cat(a, d), f) = Cat(a, Cat(d, f)) /\ Cat(a, Cat(c, g)) = Cat(Cat(a, c), g)
    BY <1>2, <1>7, <2>3, CatAssoc
  <2>5. Cat(r.bytes, f) = Cat(p.copy, g)
    BY <1>2, <1>4, <1>7, <2>2, <2>4
  <2> QED BY <2>2, <2>5 DEF Owes
<1>9. Len(s.input) <= Len(p.input)
  BY <1>3, <1>5 DEF Packed
<1>10. r.packer = [input |-> s.input, copy |-> s.copy] /\ r.bytes = s.bytes
  BY <1>4
<1>11. r.packer.input = s.input /\ r.packer.copy = s.copy
  BY <1>10
<1>12. r.completed = (r.packer.copy = <<>> /\ r.packer.input = <<>>)
  BY <1>4, <1>11
<1> QED BY <1>6, <1>8, <1>9, <1>10, <1>11, <1>12 DEF r

(***************************************************************************)
(* The unpacker                                                            *)
(***************************************************************************)
LEMMA FrontLonger ==
    ASSUME NEW S, NEW s \in Seq(S), NEW y \in Seq(S), NEW a \in Seq(S), NEW b \in Seq(S),
           Cat(s, y) = Cat(a, b), Len(a) <= Len(s)
    PROVE  /\ First(s, Len(a)) = a /\ From(s, Len(a)) \in Seq(S)
           /\ s = Cat(a, From(s, Len(a))) /\ Cat(From(s, Len(a)), y) = b
<1>1. PICK m \in Seq(S) : s = Cat(a, m) /\ b = Cat(m, y)
  BY Overlap
<1>2. First(s, Len(a)) = a /\ From(s, Len(a)) = m
  BY <1>1, CatCut
<1> QED BY <1>1, <1>2

\* An input that ends within a is the front of a.
LEMMA FrontShorter ==
    ASSUME NEW S, NEW s \in Seq(S), NEW y \in Seq(S), NEW a \in Seq(S), NEW b \in Seq(S),
           Cat(s, y) = Cat(a, b), Len(s) <= Len(a)
    PROVE  First(a, Len(s)) = s /\ From(a, Len(s)) \in Seq(S) /\ Cat(From(a, Len(s)), b) = y
<1>1. PICK m \in Seq(S) : a = Cat(s, m) /\ y = Cat(m, b)
  BY Overlap
<1>2. First(a, Len(s)) = s /\ From(a, Len(s)) = m
  BY <1>1, CatCut
<1> QED BY <1>1, <1>2

Unpackers ==
    {Idle, NeedNullCount, NeedFullCount}
        \cup {InWord(b, t) : b \in Seq(Byte), t \in Nat} \cup {InFull(b) : b \in Seq(Byte)}
        \cup {InNulls(n) : n \in Nat} \cup {InRun(n, b) : n \in Nat, b \in Seq(Byte)}

\* The states of the unpacker are told apart by their kind.
LEMMA Kinds ==
    /\ Idle.k = "none" /\ NeedNullCount.k = "nullCount" /\ NeedFullCount.k = "fullCount"
    /\ \A b, t : InWord(b, t).k = "word" /\ InWord(b, t).buf = b /\ InWord(b, t).tag = t
    /\ \A b : InFull(b).k = "full" /\ InFull(b).buf = b
    /\ \A n : InNulls(n).k = "nulls" /\ InNulls(n).n = n
    /\ \A n, b : InRun(n, b).k = "run" /\ InRun(n, b).n = n /\ InRun(n, b).buf = b
    /\ \A b, c : [InFull(b) EXCEPT !.buf = c] = InFull(c)
    /\ \A n, b, c : [InRun(n, b) EXCEPT !.buf = c] = InRun(n, c)
BY DEF Idle, NeedNullCount, NeedFullCount, InWord, InFull, InNulls, InRun

\* The states are states.
LEMMA KindTypes ==
    /\ Idle \in Unpackers /\ NeedNullCount \in Unpackers /\ NeedFullCount \in Unpackers
    /\ \A b \in Seq(Byte), t \in Nat : InWord(b, t) \in Unpackers
    /\ \A b \in Seq(Byte) : InFull(b) \in Unpackers
    /\ \A n \in Nat : InNulls(n) \in Unpackers
    /\ \A n \in Nat, b \in Seq(Byte) : InRun(n, b) \in Unpackers
BY DEF Unpackers

\* What the state u and the bytes b stand for: the words ws.
PendWord(u, b, ws, b1, ws1) ==
    \E w \in Word, j \in 0..WordBytes :
      /\ u = InWord(First(w, WordBytes - j), TagFrom(w, j)) /\ TagFrom(w, j) # 0
      /\ b = Cat(BytesFrom(w, j), b1) /\ ws = Cat(One(w), ws1)
PendFull(E, u, b, ws, b1, ws1) ==
    \E w \in Word, x \in Seq(Word), j \in 0..WordBytes - 1 :
      /\ u = InFull(First(w, j)) /\ Len(x) <= MaxRun
      /\ b = Cat(From(w, j), Cat(One(Len(x)), Cat(Bytes(x), b1)))
      /\ ws = Cat(One(w), Cat(x, ws1)) /\ NoEnd(E, Len(ws1), Len(x) + 1)
PendNulls(E, u, b, ws, b1, ws1) ==
    \E n \in Nat :
      /\ \/ u = NeedNullCount /\ n <= MaxRun /\ b = Cat(One(n), b1)
         \/ u = InNulls(n) /\ n # 0 /\ b = b1
      /\ ws = Cat(Nulls(n), ws1) /\ NoEnd(E, Len(ws1), n + 1)
PendRun(E, u, b, ws, b1, ws1) ==
    \E x \in Seq(Word) :
      /\ \/ u = NeedFullCount /\ Len(x) <= MaxRun /\ b = Cat(One(Len(x)), Cat(Bytes(x), b1))
         \/ u = InRun(Len(x), <<>>) /\ x # <<>> /\ b = Cat(Bytes(x), b1)
      /\ ws = Cat(x, ws1) /\ NoEnd(E, Len(ws1), Len(x) + 1)
PendPart(E, u, b, ws, b1, ws1) ==
    \E w \in Word, x \in Seq(Word), j \in 1..WordBytes - 1 :
      /\ u = InRun(Len(x), First(w, j)) /\ b = Cat(From(w, j), Cat(Bytes(x), b1))
      /\ ws = Cat(One(w), Cat(x, ws1)) /\ NoEnd(E, Len(ws1), Len(x) + 2)
Pend(E, u, b, ws) ==
    \E b1, ws1 :
      /\ Codes(E, b1, ws1)
      /\ \/ u = Idle /\ b = b1 /\ ws = ws1
         \/ PendWord(u, b, ws, b1, ws1) \/ PendFull(E, u, b, ws, b1, ws1)
         \/ PendNulls(E, u, b, ws, b1, ws1) \/ PendRun(E, u, b, ws, b1, ws1)
         \/ PendPart(E, u, b, ws, b1, ws1)

Stops3 == {Going, "NeedInput", "NeedOutput"}
Calls == [src : Seq(Byte), room : Nat, out : Seq(Word), u : Unpackers, stop : Stops3]

\* In a call on the bytes g.src, with g.room, of the words g.words the words ws are left.
Within(g, c, ws) ==
    /\ c \in Calls /\ ws \in Seq(Word)
    /\ c.room + Len(c.out) = g.room
    /\ \E e \in Seq(Byte) : g.src = Cat(e, c.src)
    /\ g.words = Cat(c.out, ws)
Mid(g, c, ws) == Within(g, c, ws) /\ c.u = Idle /\ c.stop = Going

EndsNull(s) == \E o \in Seq(Word) : s = Cat(o, One(NullWord))

\* A call may stop here; behind its own input y comes.
Good(E, y, g, c) ==
    /\ \E ws : Within(g, c, ws) /\ Pend(E, c.u, Cat(c.src, y), ws)
    /\ c.stop = Going => c.u = Idle
    /\ c.stop = "NeedInput" =>
         c.src = <<>> /\ c.u.k # "nulls" /\ (c.room = 0 => c.u.k \notin {"word", "full"})
    /\ c.stop = "NeedOutput" =>
         /\ c.room = 0 /\ c.u.k \in {"none", "nulls", "run"}
         /\ c.u.k = "none" => c.src # <<>>
    /\ c.u.k = "nulls" => g.room = 0 \/ EndsNull(c.out)

\* A call that goes on is good where a code begins.
LEMMA GoingIsGood ==
    ASSUME NEW E, NEW y, NEW g, NEW c, NEW ws, Mid(g, c, ws), Codes(E, Cat(c.src, y), ws)
    PROVE  Good(E, y, g, c)
<1>1. Pend(E, c.u, Cat(c.src, y), ws)
  BY DEF Pend, Mid
<1>2. c.u.k = "none"
  BY Kinds DEF Mid
<1> QED BY <1>1, <1>2 DEF Good, Mid, Going

\* Words are written: what is left of the words is left of the room as well.
LEMMA WriteSpec ==
    ASSUME NEW g, NEW c, NEW a \in Seq(Word), NEW ws \in Seq(Word), Mid(g, c, Cat(a, ws)),
           Len(a) <= c.room
    PROVE  /\ Mid(g, Write(c, a), ws) /\ Write(c, a).src = c.src
           /\ Write(c, a).room = c.room - Len(a) /\ Write(c, a).out = Cat(c.out, a)
<1>1. /\ c \in Calls /\ c.room + Len(c.out) = g.room /\ g.words = Cat(c.out, Cat(a, ws))
      /\ \E e \in Seq(Byte) : g.src = Cat(e, c.src)
      /\ c.u = Idle /\ c.stop = Going
  BY DEF Mid, Within
<1>2. c.out \in Seq(Word) /\ c.room \in Nat /\ Len(c.out) \in Nat /\ Len(a) \in Nat
  BY <1>1, LenProperties DEF Calls
<1> DEFINE o == c.out
           d == Write(c, a)
<1>3. o \in Seq(Word)
  BY <1>2
<1> HIDE DEF o
<1>4. Cat(o, a) \in Seq(Word) /\ Len(Cat(o, a)) = Len(o) + Len(a)
  BY <1>3, CatType, CatLen
<1>5. Cat(o, Cat(a, ws)) = Cat(Cat(o, a), ws)
  BY <1>3, CatAssoc
<1>6. c.room - Len(a) \in Nat
  BY <1>2
<1>7. d = [c EXCEPT !.out = Cat(o, a), !.room = c.room - Len(a)]
  BY <1>1 DEF Write, Cat, o, Calls
<1> HIDE DEF d
<1>8. /\ d \in Calls /\ d.out = Cat(o, a) /\ d.room = c.room - Len(a) /\ d.src = c.src
      /\ d.u = c.u /\ d.stop = c.stop
  BY <1>1, <1>4, <1>6, <1>7 DEF Calls
<1>9. d.room + Len(d.out) = g.room
  <2>1. Len(o) = Len(c.out)
    BY DEF o
  <2>2. Len(d.out) = Len(o) + Len(a)
    BY <1>4, <1>8
  <2> DEFINE lo == Len(o)
             la == Len(a)
             lc == Len(c.out)
             ld == Len(d.out)
             rc == c.room
             rd == d.room
  <2>3. /\ lo = lc /\ ld = lo + la /\ rd = rc - la /\ rc + lc = g.room
        /\ lc \in Nat /\ la \in Nat /\ rc \in Nat
    BY <1>1, <1>2, <1>8, <2>1, <2>2
  <2> HIDE DEF lo, la, lc, ld, rc, rd
  <2>4. rd + ld = g.room
    BY <2>3
  <2> QED BY <2>4 DEF rd, ld
<1>10. g.words = Cat(d.out, ws)
  BY <1>1, <1>5, <1>8 DEF o
<1>11. Mid(g, d, ws)
  BY <1>1, <1>8, <1>9, <1>10 DEF Mid, Within
<1> QED BY <1>8, <1>11 DEF d, o

\* Input is skipped.
LEMMA SkipSpec ==
    ASSUME NEW g, NEW c, NEW ws, NEW a \in Seq(Byte), NEW s \in Seq(Byte), Mid(g, c, ws),
           c.src = Cat(a, s)
    PROVE  /\ Mid(g, Skip(c, Len(a)), ws) /\ Skip(c, Len(a)).src = s
           /\ Skip(c, Len(a)).room = c.room
<1> DEFINE d == Skip(c, Len(a))
<1>1. /\ c \in Calls /\ c.room + Len(c.out) = g.room /\ g.words = Cat(c.out, ws) /\ ws \in Seq(Word)
      /\ \E e \in Seq(Byte) : g.src = Cat(e, c.src)
      /\ c.u = Idle /\ c.stop = Going
  BY DEF Mid, Within
<1>2. From(c.src, Len(a)) = s
  BY CatCut
<1>3. d = [c EXCEPT !.src = s]
  BY <1>1, <1>2 DEF Skip, Calls
<1> HIDE DEF d
<1>4. /\ d \in Calls /\ d.src = s /\ d.out = c.out /\ d.room = c.room /\ d.u = c.u /\ d.stop = c.stop
  BY <1>1, <1>3 DEF Calls
<1>5. PICK e \in Seq(Byte) : g.src = Cat(e, c.src)
  BY <1>1
<1>6. Cat(e, a) \in Seq(Byte) /\ Cat(e, Cat(a, s)) = Cat(Cat(e, a), s)
  BY CatType, CatAssoc
<1>7. g.src = Cat(Cat(e, a), d.src)
  BY <1>4, <1>5, <1>6
<1>8. Mid(g, d, ws)
  BY <1>1, <1>4, <1>6, <1>7 DEF Mid, Within
<1> QED BY <1>4, <1>8 DEF d

\* A call that stops keeps what it has done.
LEMMA StopSpec ==
    ASSUME NEW g, NEW c, NEW ws, NEW u \in Unpackers, NEW why \in Stops3, Mid(g, c, ws)
    PROVE  /\ Within(g, Stop(c, u, why), ws)
           /\ Stop(c, u, why).u = u /\ Stop(c, u, why).stop = why
           /\ Stop(c, u, why).src = c.src /\ Stop(c, u, why).room = c.room
           /\ Stop(c, u, why).out = c.out
<1> DEFINE d == Stop(c, u, why)
<1>1. c \in Calls
  BY DEF Mid, Within
<1>2. /\ d \in Calls /\ d.u = u /\ d.stop = why /\ d.src = c.src /\ d.room = c.room /\ d.out = c.out
  BY <1>1 DEF Stop, Calls
<1> HIDE DEF d
<1>3. Within(g, d, ws)
  BY <1>2 DEF Mid, Within
<1> QED BY <1>2, <1>3 DEF d

\* Where no slice ends among n words, none ends among fewer.
LEMMA NoEndLess ==
    ASSUME NEW E, E \subseteq Nat, NEW m \in Nat, NEW n \in Nat, NEW k \in Nat, NoEnd(E, m, n), k <= n
    PROVE  NoEnd(E, m, k)
BY DEF NoEnd

\* What is good behind part of the input is good.
LEMMA Wider ==
    ASSUME NEW E, NEW y, NEW g, NEW h, NEW c, NEW a \in Seq(Byte), Good(E, y, h, c),
           g.src = Cat(a, h.src), g.room = h.room, g.words = h.words
    PROVE  Good(E, y, g, c)
<1>1. PICK ws : Within(h, c, ws) /\ Pend(E, c.u, Cat(c.src, y), ws)
  BY DEF Good
<1>2. PICK e \in Seq(Byte) : h.src = Cat(e, c.src)
  BY <1>1 DEF Within
<1> DEFINE s == c.src
<1>3. s \in Seq(Byte) /\ h.src = Cat(e, s)
  BY <1>1, <1>2 DEF Within, Calls
<1> HIDE DEF s
<1>4. Cat(a, e) \in Seq(Byte) /\ Cat(a, Cat(e, s)) = Cat(Cat(a, e), s)
  BY <1>3, CatType, CatAssoc
<1>5. g.src = Cat(Cat(a, e), c.src)
  BY <1>3, <1>4 DEF s
<1>6. Within(g, c, ws)
  BY <1>1, <1>4, <1>5 DEF Within
<1> QED BY <1>1, <1>6 DEF Good

\* Words that end in nulls end in one.
LEMMA NullsEndNull ==
    ASSUME NEW o \in Seq(Word), NEW n \in Nat, n # 0
    PROVE  EndsNull(Cat(o, Nulls(n)))
<1> DEFINE m == n - 1
<1>1. m \in Nat /\ m + 1 = n
  OBVIOUS
<1> HIDE DEF m
<1>2. Cat(Nulls(m), Nulls(1)) = Nulls(n) /\ Nulls(m) \in Seq(Word) /\ Nulls(1) \in Seq(Word)
  BY <1>1, NullsAdd, NullsFacts
<1>3. Nulls(1) = One(NullWord)
  <2> DEFINE one == 1
  <2>0. one \in Nat /\ 1 \in 1..one /\ one = 1
    OBVIOUS
  <2> HIDE DEF one
  <2>a. Nulls(one) \in Seq(Word) /\ Len(Nulls(one)) = one /\ Nulls(one)[1] = NullWord
    BY <2>0, NullsFacts
  <2>1. Nulls(1) \in Seq(Word) /\ Len(Nulls(1)) = 1 /\ Nulls(1)[1] = NullWord
    BY <2>0, <2>a
  <2> DEFINE s == Nulls(1)
  <2> HIDE DEF s
  <2>2. s \in Seq(Word) /\ Len(s) = 1 /\ s[1] = NullWord
    BY <2>1 DEF s
  <2>3. s = <<NullWord>>
    BY <2>2
  <2> QED BY <2>3 DEF s, One
<1>4. Cat(o, Nulls(n)) = Cat(Cat(o, Nulls(m)), One(NullWord)) /\ Cat(o, Nulls(m)) \in Seq(Word)
  <2>1. Cat(Cat(o, Nulls(m)), Nulls(1)) = Cat(o, Cat(Nulls(m), Nulls(1)))
    BY <1>2, CatAssoc
  <2> QED BY <1>2, <1>3, <2>1, CatType
<1> QED BY <1>4 DEF EndsNull

\* Null words are written as far as there is room, and the others are kept.
LEMMA WriteNullsSpec ==
    ASSUME NEW E, E \subseteq Nat, NEW y, NEW g, NEW c, NEW n \in Nat, NEW ws1 \in Seq(Word),
           Mid(g, c, Cat(Nulls(n), ws1)), Codes(E, Cat(c.src, y), ws1), NoEnd(E, Len(ws1), n + 1),
           c.room # 0 \/ g.room = 0 \/ EndsNull(c.out)
    PROVE  Good(E, y, g, WriteNulls(c, n))
<1>1. c \in Calls /\ c.room \in Nat
  BY DEF Mid, Within, Calls
<1>2. CASE c.room >= n
  <2>1. Nulls(n) \in Seq(Word) /\ Len(Nulls(n)) = n
    BY NullsFacts
  <2>2. Mid(g, Write(c, Nulls(n)), ws1) /\ Write(c, Nulls(n)).src = c.src
    BY <1>1, <1>2, <2>1, WriteSpec
  <2>3. Good(E, y, g, Write(c, Nulls(n)))
    BY <2>2, GoingIsGood
  <2> QED BY <1>2, <2>3 DEF WriteNulls
<1>3. CASE ~(c.room >= n)
  <2> DEFINE r == c.room
             k == n - r
  <2>1. r \in Nat /\ k \in Nat /\ k # 0 /\ r + k = n /\ k + 1 <= n + 1
    BY <1>1, <1>3
  <2>1a. n - c.room = k
    OBVIOUS
  <2> HIDE DEF k, r
  <2>2. /\ Nulls(r) \in Seq(Word) /\ Len(Nulls(r)) = r /\ Nulls(k) \in Seq(Word)
        /\ Len(Nulls(k)) = k /\ Cat(Nulls(r), Nulls(k)) = Nulls(n)
    BY <2>1, NullsFacts, NullsAdd
  <2>3. /\ Cat(Nulls(k), ws1) \in Seq(Word)
        /\ Cat(Nulls(n), ws1) = Cat(Nulls(r), Cat(Nulls(k), ws1))
    BY <2>2, CatType, CatAssoc
  <2> DEFINE d == Write(c, Nulls(r))
             u == InNulls(k)
             f == Stop(d, u, "NeedOutput")
  <2>4a. r <= c.room
    BY <1>1 DEF r
  <2>4. /\ Mid(g, d, Cat(Nulls(k), ws1)) /\ d.src = c.src /\ d.room = c.room - r
        /\ d.out = Cat(c.out, Nulls(r))
    <3> HIDE DEF d
    <3>1. Mid(g, c, Cat(Nulls(r), Cat(Nulls(k), ws1)))
      BY <2>3
    <3>2. Len(Nulls(r)) <= c.room
      BY <2>2, <2>4a
    <3> QED BY <2>2, <2>3, <3>1, <3>2, WriteSpec DEF d
  <2>5. d.room = 0
    BY <1>1, <2>4 DEF r
  <2>6. u \in Unpackers /\ "NeedOutput" \in Stops3 /\ u.k = "nulls"
    BY <2>1, KindTypes, Kinds DEF Stops3
  <2> HIDE DEF d, u
  <2>7. /\ Within(g, f, Cat(Nulls(k), ws1)) /\ f.u = u /\ f.stop = "NeedOutput"
        /\ f.src = c.src /\ f.room = 0 /\ f.out = Cat(c.out, Nulls(r))
    BY <2>4, <2>5, <2>6, StopSpec
  <2>7a. g.room = 0 \/ EndsNull(f.out)
    <3> DEFINE o == c.out
    <3>1. o \in Seq(Word) /\ f.out = Cat(o, Nulls(r))
      BY <2>7 DEF Mid, Within, Calls
    <3> HIDE DEF o
    <3>2. CASE r # 0
      BY <2>1, <3>1, <3>2, NullsEndNull
    <3>3. CASE r = 0
      <4>1. Nulls(0) = <<>> /\ Cat(o, <<>>) = o
        BY <3>1, NullsFacts, CatEmpty
      <4>2. f.out = c.out /\ c.room = 0
        BY <3>1, <3>3, <4>1 DEF o, r
      <4> QED BY <4>2
    <3> QED BY <3>2, <3>3
  <2> HIDE DEF f
  <2>8. Len(ws1) \in Nat
    BY LenProperties
  <2>9. NoEnd(E, Len(ws1), k + 1)
    <3> DEFINE i == n + 1
               j == k + 1
               m == Len(ws1)
    <3>1. i \in Nat /\ j \in Nat /\ j <= i /\ m \in Nat /\ NoEnd(E, m, i)
      BY <2>1, <2>8
    <3> HIDE DEF i, j, m
    <3>2. NoEnd(E, m, j)
      BY <3>1, NoEndLess
    <3> QED BY <3>2 DEF m, j
  <2>10. PendNulls(E, u, Cat(c.src, y), Cat(Nulls(k), ws1), Cat(c.src, y), ws1)
    BY <2>1, <2>9 DEF PendNulls, u
  <2>11. Pend(E, f.u, Cat(f.src, y), Cat(Nulls(k), ws1))
    BY <2>7, <2>10 DEF Pend
  <2>12. Good(E, y, g, f)
    <3>1. f.u.k = "nulls"
      BY <2>6, <2>7
    <3> QED BY <2>7, <2>7a, <2>11, <3>1 DEF Good, Going
  <2>13. WriteNulls(c, n) = f
    BY <1>3, <2>1a DEF WriteNulls, f, d, u, r
  <2> QED BY <2>12, <2>13
<1> QED BY <1>2, <1>3

\* Whole words at the front of the input are the words of a run.
LEMMA CopyFront ==
    ASSUME NEW s \in Seq(Byte), NEW y \in Seq(Byte), NEW b1 \in Seq(Byte), NEW x1 \in Seq(Word),
           NEW x2 \in Seq(Word), Cat(s, y) = Cat(Bytes(Cat(x1, x2)), b1),
           Len(x1) <= Len(s) \div WordBytes
    PROVE  \E t \in Seq(Byte) :
             /\ s = Cat(Bytes(x1), t) /\ Cat(t, y) = Cat(Bytes(x2), b1)
             /\ First(s, WordBytes * Len(x1)) = Bytes(x1) /\ Words(Bytes(x1)) = x1
             /\ Len(Bytes(x1)) = WordBytes * Len(x1) /\ Bytes(x1) \in Seq(Byte)
             /\ Len(t) = Len(s) - WordBytes * Len(x1)
<1> DEFINE p == Bytes(x1)
           q == Bytes(x2)
<1>1. p \in Seq(Byte) /\ q \in Seq(Byte) /\ Bytes(Cat(x1, x2)) = Cat(p, q)
  BY BytesFacts
<1>2. Len(p) = WordBytes * Len(x1)
  BY BytesLen
<1>3. Words(p) = x1
  <2>1. <<>> \in Seq(Byte) /\ Len(<<>>) < WordBytes
    BY SizeFacts
  <2>2. Words(Cat(p, <<>>)) = x1
    BY <2>1, WordsOfBytes
  <2> QED BY <1>1, <2>2, CatEmpty
<1> HIDE DEF p, q
<1>4. Cat(s, y) = Cat(p, Cat(q, b1)) /\ Cat(q, b1) \in Seq(Byte)
  BY <1>1, CatType, CatAssoc
<1>5. Len(x1) \in Nat /\ Len(s) \in Nat
  BY LenProperties
<1>6. Len(p) <= Len(s)
  BY <1>2, <1>5, SizeFacts, Multiples
<1>7. First(s, Len(p)) = p /\ From(s, Len(p)) \in Seq(Byte) /\ s = Cat(p, From(s, Len(p)))
      /\ Cat(From(s, Len(p)), y) = Cat(q, b1)
  BY <1>1, <1>4, <1>6, FrontLonger
<1>8. Len(p) \in Nat
  BY <1>1, LenProperties
<1>9. Len(From(s, Len(p))) = Len(s) - Len(p)
  BY <1>6, <1>8, CutCat
<1> QED BY <1>1, <1>2, <1>3, <1>7, <1>9 DEF p, q

\* Words are written while their bytes are skipped.
LEMMA WriteSkip ==
    ASSUME NEW g, NEW c, NEW x \in Seq(Word), NEW z \in Seq(Word), NEW p \in Seq(Byte),
           NEW t \in Seq(Byte), Mid(g, c, Cat(x, z)), c.src = Cat(p, t), Len(x) <= c.room
    PROVE  /\ Mid(g, Skip(Write(c, x), Len(p)), z) /\ Skip(Write(c, x), Len(p)).src = t
           /\ Skip(Write(c, x), Len(p)).room = c.room - Len(x)
<1> DEFINE d == Write(c, x)
<1>1. Mid(g, d, z) /\ d.src = c.src /\ d.room = c.room - Len(x)
  BY WriteSpec
<1> HIDE DEF d
<1>2. d.src = Cat(p, t)
  BY <1>1
<1>3. Mid(g, Skip(d, Len(p)), z) /\ Skip(d, Len(p)).src = t /\ Skip(d, Len(p)).room = d.room
  BY <1>1, <1>2, SkipSpec
<1> QED BY <1>1, <1>3 DEF d

\* The number of whole words in a sequence of bytes.
Whole(s) == Len(s) \div WordBytes

\* Words are copied from the input.
LEMMA CopySpec ==
    ASSUME NEW g, NEW c, NEW y \in Seq(Byte), NEW x1 \in Seq(Word), NEW x2 \in Seq(Word),
           NEW b1 \in Seq(Byte), NEW ws1 \in Seq(Word), Mid(g, c, Cat(Cat(x1, x2), ws1)),
           Cat(c.src, y) = Cat(Bytes(Cat(x1, x2)), b1),
           Len(x1) <= Whole(c.src), Len(x1) <= c.room
    PROVE  LET d == CopyWords(c, Len(x1))
           IN  /\ Mid(g, d, Cat(x2, ws1)) /\ Cat(d.src, y) = Cat(Bytes(x2), b1)
               /\ d.src = From(c.src, WordBytes * Len(x1)) /\ d.room = c.room - Len(x1)
<1> DEFINE s == c.src
<1>1. c \in Calls /\ s \in Seq(Byte)
  BY DEF Mid, Within, Calls
<1>2. Cat(s, y) = Cat(Bytes(Cat(x1, x2)), b1) /\ Len(x1) <= Len(s) \div WordBytes
  BY DEF Whole
<1> HIDE DEF s
<1>3. PICK t \in Seq(Byte) :
             /\ s = Cat(Bytes(x1), t) /\ Cat(t, y) = Cat(Bytes(x2), b1)
             /\ First(s, WordBytes * Len(x1)) = Bytes(x1) /\ Words(Bytes(x1)) = x1
             /\ Len(Bytes(x1)) = WordBytes * Len(x1) /\ Bytes(x1) \in Seq(Byte)
  BY <1>1, <1>2, CopyFront
<1>4. Cat(x2, ws1) \in Seq(Word) /\ Cat(Cat(x1, x2), ws1) = Cat(x1, Cat(x2, ws1))
  BY CatType, CatAssoc
<1> DEFINE p == Bytes(x1)
           z == Cat(x2, ws1)
           f == Skip(Write(c, x1), Len(p))
<1>5. /\ p \in Seq(Byte) /\ z \in Seq(Word) /\ Mid(g, c, Cat(x1, z)) /\ c.src = Cat(p, t)
      /\ Len(x1) <= c.room
  BY <1>3, <1>4 DEF s
<1>7. Mid(g, f, z) /\ f.src = t /\ f.room = c.room - Len(x1)
  <2> HIDE DEF p, z
  <2>1. Mid(g, f, z)
    BY <1>5, WriteSkip
  <2>2. f.src = t
    BY <1>5, <2>1, WriteSkip
  <2>3. f.room = c.room - Len(x1)
    BY <1>5, <2>1, WriteSkip
  <2> QED BY <2>1, <2>2, <2>3
<1>8. CopyWords(c, Len(x1)) = f
  BY <1>3 DEF CopyWords, f, s
<1>9. From(c.src, WordBytes * Len(x1)) = t
  <2>1. From(Cat(Bytes(x1), t), Len(Bytes(x1))) = t
    BY <1>3, CatCut
  <2> QED BY <1>3, <2>1 DEF s
<1> HIDE DEF f
<1> QED BY <1>3, <1>7, <1>8, <1>9

\* A call may stop in a state that stands for what is left.
LEMMA StopIsGood ==
    ASSUME NEW E, NEW y, NEW g, NEW c, NEW ws, NEW u \in Unpackers, NEW why, Mid(g, c, ws),
           Pend(E, u, Cat(c.src, y), ws),
           \/ why = "NeedInput" /\ c.src = <<>> /\ (c.room = 0 => u.k \notin {"word", "full"})
           \/ why = "NeedOutput" /\ c.room = 0 /\ u.k \in {"none", "run"} /\ (u.k = "none" => c.src # <<>>),
           u.k # "nulls"
    PROVE  Good(E, y, g, Stop(c, u, why))
<1> DEFINE d == Stop(c, u, why)
<1>1. why \in Stops3
  BY DEF Stops3
<1>2. Within(g, d, ws)
  BY <1>1, StopSpec
<1>3. d.u = u /\ d.stop = why /\ d.src = c.src /\ d.room = c.room
  BY <1>1, <1>2, StopSpec
<1> HIDE DEF d
<1>4. Pend(E, d.u, Cat(d.src, y), ws)
  BY <1>3
<1>5. Good(E, y, g, d)
  BY <1>2, <1>3, <1>4 DEF Good, Going
<1> QED BY <1>5 DEF d

\* A call may stop in the middle of a run, between two words.
LEMMA StopsInRun ==
    ASSUME NEW E, NEW y, NEW g, NEW c, NEW x \in Seq(Word), NEW ws1 \in Seq(Word), NEW b1, NEW why,
           Mid(g, c, Cat(x, ws1)), x # <<>>, Cat(c.src, y) = Cat(Bytes(x), b1),
           Codes(E, b1, ws1), NoEnd(E, Len(ws1), Len(x) + 1),
           \/ why = "NeedInput" /\ c.src = <<>>
           \/ why = "NeedOutput" /\ c.room = 0
    PROVE  Good(E, y, g, Stop(c, InRun(Len(x), <<>>), why))
<1> DEFINE u == InRun(Len(x), <<>>)
<1>1. u \in Unpackers /\ u.k = "run"
  <2> DEFINE n == Len(x)
             e == <<>>
  <2>1. n \in Nat /\ e \in Seq(Byte)
    BY LenProperties
  <2> HIDE DEF n, e
  <2>2. InRun(n, e) \in Unpackers /\ InRun(n, e).k = "run"
    BY <2>1, KindTypes, Kinds
  <2> QED BY <2>2 DEF n, e
<1>2. PendRun(E, u, Cat(c.src, y), Cat(x, ws1), b1, ws1)
  BY DEF PendRun
<1> HIDE DEF u
<1>3. Pend(E, u, Cat(c.src, y), Cat(x, ws1))
  BY <1>2 DEF Pend
<1> DEFINE z == Cat(x, ws1)
<1>4. Mid(g, c, z) /\ Pend(E, u, Cat(c.src, y), z)
  BY <1>3
<1> HIDE DEF z
<1>5. Good(E, y, g, Stop(c, u, why))
  BY <1>1, <1>4, StopIsGood
<1> QED BY <1>5 DEF u

\* A call may stop in the middle of a word of a run.
LEMMA StopsInPart ==
    ASSUME NEW E, E \subseteq Nat, NEW y \in Seq(Byte), NEW g, NEW c, NEW x \in Seq(Word),
           NEW ws1 \in Seq(Word), NEW b1 \in Seq(Byte), NEW q \in Seq(Byte),
           Mid(g, c, Cat(x, ws1)), x # <<>>, q # <<>>, Len(q) < WordBytes,
           Cat(q, y) = Cat(Bytes(x), b1), Codes(E, b1, ws1), NoEnd(E, Len(ws1), Len(x) + 1),
           c.src = <<>>
    PROVE  Good(E, y, g, Stop(c, InRun(Len(x) - 1, q), "NeedInput"))
<1> DEFINE w == Head(x)
           t == Tail(x)
           u == InRun(Len(t), q)
<1>1. w \in Word /\ t \in Seq(Word) /\ x = Cat(One(w), t) /\ Len(t) = Len(x) - 1
  BY UnconsCat
<1>2. Len(t) \in Nat /\ Len(q) \in Nat \ {0}
  BY <1>1, LenProperties, LenZero
<1> HIDE DEF w, t
<1>3. u \in Unpackers /\ u.k = "run"
  BY <1>2, KindTypes, Kinds
<1> DEFINE p == Bytes(t)
<1>4. p \in Seq(Byte) /\ Bytes(x) = Cat(w, p) /\ w \in Seq(Byte) /\ Len(w) = WordBytes
  BY <1>1, BytesFacts, WordFacts
<1> HIDE DEF p
<1>5. Cat(p, b1) \in Seq(Byte) /\ Cat(q, y) = Cat(w, Cat(p, b1))
  BY <1>4, CatType, CatAssoc
<1>6. First(w, Len(q)) = q /\ y = Cat(From(w, Len(q)), Cat(p, b1))
  BY <1>2, <1>4, <1>5, FrontShorter
<1>7. Len(q) \in 1..WordBytes - 1
  BY <1>2, SizeFacts
<1>8. Cat(x, ws1) = Cat(One(w), Cat(t, ws1))
  <2>1. One(w) \in Seq(Word)
    BY <1>1, OneType
  <2> QED BY <1>1, <2>1, CatAssoc
<1>9. NoEnd(E, Len(ws1), Len(t) + 2)
  <2>1. Len(t) + 2 = Len(x) + 1
    BY <1>1, <1>2
  <2> QED BY <2>1
<1>10. Cat(c.src, y) = y
  BY CatEmpty
<1>11. PendPart(E, u, Cat(c.src, y), Cat(x, ws1), b1, ws1)
  <2>1. u = InRun(Len(t), First(w, Len(q)))
    BY <1>6
  <2> HIDE DEF u
  <2> QED BY <1>1, <1>6, <1>7, <1>8, <1>9, <1>10, <2>1 DEF PendPart, p
<1> DEFINE z == Cat(x, ws1)
<1>12. Mid(g, c, z) /\ Pend(E, u, Cat(c.src, y), z)
  <2> HIDE DEF u
  <2> QED BY <1>11 DEF Pend
<1>14. InRun(Len(x) - 1, q) = u
  BY <1>1
<1> HIDE DEF z, u
<1>13. Good(E, y, g, Stop(c, u, "NeedInput"))
  BY <1>3, <1>12, StopIsGood
<1> QED BY <1>13, <1>14

\* What is left of the bytes behind their whole words.
Part(s) == From(s, WordBytes * Whole(s))

\* What is behind the whole words is less than one.
LEMMA PartFacts ==
    ASSUME NEW s \in Seq(Byte)
    PROVE  /\ Whole(s) \in Nat /\ Part(s) \in Seq(Byte) /\ Len(Part(s)) < WordBytes
<1> DEFINE n == Len(s)
           m == WordBytes
           k == n \div m
<1>1. n \in Nat /\ m \in Nat \ {0}
  BY LenProperties, SizeFacts
<1> HIDE DEF n, m
<1>2. k \in Nat /\ m * k \in Nat /\ m * k <= n /\ n < m * k + m
  BY <1>1, Division
<1> HIDE DEF k
<1> DEFINE j == m * k
<1> HIDE DEF j
<1>3. j \in Nat /\ j <= n /\ n < j + m
  BY <1>2 DEF j
<1>4. From(s, j) \in Seq(Byte) /\ Len(From(s, j)) = n - j
  BY <1>3, CutCat DEF n
<1>5. Len(From(s, j)) < m
  BY <1>1, <1>3, <1>4
<1>6. Whole(s) = k /\ Part(s) = From(s, j)
  BY DEF Whole, Part, k, j, n, m
<1> QED BY <1>2, <1>4, <1>5, <1>6 DEF m

\* The three outcomes of write_uncompressed.
LEMMA WriteRunCases ==
    ASSUME NEW c, NEW n \in Nat, c.room \in Nat, Whole(c.src) \in Nat
    PROVE  LET m == Whole(c.src)
               q == Part(c.src)
           IN  /\ c.room < n /\ c.room < m =>
                    WriteRun(c, n) = Stop(CopyWords(c, c.room), InRun(n - c.room, <<>>), "NeedOutput")
               /\ m < n /\ m <= c.room =>
                    WriteRun(c, n) = Stop(Skip(CopyWords(c, m), Len(q)),
                                          InRun(Remaining(n, m, q # <<>>), q), "NeedInput")
               /\ n <= m /\ n <= c.room => WriteRun(c, n) = CopyWords(c, n)
<1> DEFINE m == Whole(c.src)
           r == c.room
<1> HIDE DEF m, r
<1>1. m \in Nat /\ r \in Nat
  BY DEF m, r
<1>2. WriteRun(c, n) =
        IF Least(n, m) > r
        THEN Stop(CopyWords(c, r), InRun(n - r, <<>>), "NeedOutput")
        ELSE IF m < n
        THEN Stop(Skip(CopyWords(c, Least(n, m)), Len(Part(c.src))),
                  InRun(Remaining(n, m, Part(c.src) # <<>>), Part(c.src)), "NeedInput")
        ELSE CopyWords(c, n)
  BY DEF WriteRun, Whole, Part, m, r
<1>3. Least(n, m) = IF n <= m THEN n ELSE m
  BY DEF Least
<1>4. ASSUME r < n, r < m
      PROVE  WriteRun(c, n) = Stop(CopyWords(c, r), InRun(n - r, <<>>), "NeedOutput")
  <2>1. Least(n, m) > r
    BY <1>1, <1>3, <1>4
  <2> QED BY <1>2, <2>1
<1>5. ASSUME m < n, m <= r
      PROVE  WriteRun(c, n) = Stop(Skip(CopyWords(c, m), Len(Part(c.src))),
                  InRun(Remaining(n, m, Part(c.src) # <<>>), Part(c.src)), "NeedInput")
  <2>1. Least(n, m) = m /\ ~(Least(n, m) > r)
    BY <1>1, <1>3, <1>5
  <2> QED BY <1>2, <1>5, <2>1
<1>6. ASSUME n <= m, n <= r
      PROVE  WriteRun(c, n) = CopyWords(c, n)
  <2>1. Least(n, m) = n /\ ~(Least(n, m) > r) /\ ~(m < n)
    BY <1>1, <1>3, <1>6
  <2> QED BY <1>2, <2>1
<1> QED BY <1>4, <1>5, <1>6 DEF m, r

\* A run is cut at any word.
LEMMA RunSplit ==
    ASSUME NEW x \in Seq(Word), NEW k \in Nat, k <= Len(x)
    PROVE  \E x1, x2 \in Seq(Word) :
             x = Cat(x1, x2) /\ Len(x1) = k /\ Len(x2) = Len(x) - k /\ Len(x2) \in Nat
<1>1. /\ First(x, k) \in Seq(Word) /\ Len(First(x, k)) = k
      /\ From(x, k) \in Seq(Word) /\ Len(From(x, k)) = Len(x) - k
      /\ x = Cat(First(x, k), From(x, k))
  BY CutCat
<1>2. Len(From(x, k)) \in Nat
  BY <1>1, LenProperties
<1> QED BY <1>1, <1>2

\* A run is copied as far as input and room go, and the rest is kept, with the part of a word.
LEMMA WriteRunSpec ==
    ASSUME NEW E, E \subseteq Nat, NEW y \in Seq(Byte), NEW g, NEW c, NEW x \in Seq(Word),
           NEW ws1 \in Seq(Word), NEW b1 \in Seq(Byte),
           Mid(g, c, Cat(x, ws1)), Cat(c.src, y) = Cat(Bytes(x), b1),
           Codes(E, b1, ws1), NoEnd(E, Len(ws1), Len(x) + 1)
    PROVE  Good(E, y, g, WriteRun(c, Len(x)))
<1> DEFINE n == Len(x)
           m == Whole(c.src)
           q == Part(c.src)
<1>1. n \in Nat /\ c.room \in Nat /\ c.src \in Seq(Byte) /\ Len(ws1) \in Nat
  BY LenProperties DEF Mid, Within, Calls
<1>2. m \in Nat /\ q \in Seq(Byte) /\ Len(q) < WordBytes
  BY <1>1, PartFacts
<1> HIDE DEF n, m, q
<1>3. ASSUME NEW x1 \in Seq(Word), NEW x2 \in Seq(Word), x = Cat(x1, x2),
             Len(x1) <= m, Len(x1) <= c.room
      PROVE  LET d == CopyWords(c, Len(x1))
             IN  /\ Mid(g, d, Cat(x2, ws1)) /\ Cat(d.src, y) = Cat(Bytes(x2), b1)
                 /\ d.src = From(c.src, WordBytes * Len(x1)) /\ d.room = c.room - Len(x1)
  <2>1. /\ Mid(g, c, Cat(Cat(x1, x2), ws1)) /\ Cat(c.src, y) = Cat(Bytes(Cat(x1, x2)), b1)
        /\ Len(x1) <= Whole(c.src)
    BY <1>3 DEF m
  <2> QED BY <1>3, <2>1, CopySpec
<1>4. ASSUME NEW k \in Nat, k <= n
      PROVE  NoEnd(E, Len(ws1), k + 1)
  <2> DEFINE i == n + 1
             j == k + 1
             l == Len(ws1)
  <2>1. i \in Nat /\ j \in Nat /\ j <= i /\ l \in Nat /\ NoEnd(E, l, i)
    BY <1>1, <1>4 DEF n
  <2> HIDE DEF i, j, l
  <2>2. NoEnd(E, l, j)
    BY <2>1, NoEndLess
  <2> QED BY <2>2 DEF l, j
<1>5. CASE c.room < n /\ c.room < m
  <2> DEFINE r == c.room
             d == CopyWords(c, r)
  <2> HIDE DEF r
  <2>0. r \in Nat /\ r <= n
    BY <1>1, <1>2, <1>5 DEF r
  <2>1. PICK x1, x2 \in Seq(Word) : x = Cat(x1, x2) /\ Len(x1) = r /\ Len(x2) = n - r /\ Len(x2) \in Nat
    BY <2>0, RunSplit DEF n
  <2>2. Len(x1) <= m /\ Len(x1) <= c.room
    BY <1>1, <1>2, <1>5, <2>1 DEF r
  <2>3. Mid(g, d, Cat(x2, ws1)) /\ Cat(d.src, y) = Cat(Bytes(x2), b1) /\ d.room = c.room - Len(x1)
    BY <1>3, <2>1, <2>2
  <2> HIDE DEF d
  <2>4. d.room = 0
    BY <1>1, <2>1, <2>3 DEF r
  <2>5. x2 # <<>> /\ Len(x2) <= n
    BY <1>1, <1>5, <2>1, LenZero DEF r
  <2>6. NoEnd(E, Len(ws1), Len(x2) + 1)
    BY <1>4, <2>1, <2>5
  <2>7. Good(E, y, g, Stop(d, InRun(Len(x2), <<>>), "NeedOutput"))
    BY <2>3, <2>4, <2>5, <2>6, StopsInRun
  <2>8. WriteRun(c, n) = Stop(d, InRun(Len(x2), <<>>), "NeedOutput")
    BY <1>1, <1>2, <1>5, <2>1, WriteRunCases DEF m, r, d
  <2> QED BY <2>7, <2>8 DEF n
<1>6. CASE m < n /\ m <= c.room
  <2> DEFINE d == CopyWords(c, m)
             f == Skip(d, Len(q))
  <2>0. m \in Nat /\ m <= n
    BY <1>1, <1>2, <1>6
  <2>1. PICK x1, x2 \in Seq(Word) : x = Cat(x1, x2) /\ Len(x1) = m /\ Len(x2) = n - m /\ Len(x2) \in Nat
    BY <2>0, RunSplit DEF n
  <2>2. Len(x1) <= m /\ Len(x1) <= c.room
    BY <1>1, <1>2, <1>6, <2>1
  <2>3. /\ Mid(g, d, Cat(x2, ws1)) /\ Cat(d.src, y) = Cat(Bytes(x2), b1)
        /\ d.src = From(c.src, WordBytes * m)
    BY <1>3, <2>1, <2>2
  <2> HIDE DEF d
  <2>4. d.src = q
    BY <2>3 DEF q, Part, m
  <2>5. Mid(g, f, Cat(x2, ws1)) /\ f.src = <<>>
    <3>1. q = Cat(q, <<>>) /\ <<>> \in Seq(Byte)
      BY <1>2, CatEmpty
    <3> DEFINE z == Cat(x2, ws1)
               e == <<>>
    <3>2. Mid(g, d, z) /\ d.src = Cat(q, e) /\ e \in Seq(Byte)
      BY <2>3, <2>4, <3>1
    <3> HIDE DEF z, e
    <3>3. Mid(g, f, z)
      BY <1>2, <3>2, SkipSpec
    <3>4. f.src = e
      BY <1>2, <3>2, <3>3, SkipSpec
    <3> QED BY <3>3, <3>4 DEF z, e
  <2> HIDE DEF f
  <2>6. x2 # <<>> /\ Len(x2) <= n
    BY <1>1, <1>2, <1>6, <2>1, LenZero
  <2>7. NoEnd(E, Len(ws1), Len(x2) + 1)
    BY <1>4, <2>1, <2>6
  <2>8. WriteRun(c, n) = Stop(f, InRun(Remaining(n, m, q # <<>>), q), "NeedInput")
    BY <1>1, <1>2, <1>6, WriteRunCases DEF m, q, d, f
  <2>9. CASE q = <<>>
    <3>1. Remaining(n, m, q # <<>>) = Len(x2)
      BY <1>1, <1>2, <2>1, <2>9 DEF Remaining
    <3>2. Cat(f.src, y) = Cat(Bytes(x2), b1)
      BY <2>3, <2>4, <2>5, <2>9
    <3>3. Good(E, y, g, Stop(f, InRun(Len(x2), <<>>), "NeedInput"))
      BY <2>5, <2>6, <2>7, <3>2, StopsInRun
    <3> QED BY <2>8, <2>9, <3>1, <3>3 DEF n
  <2>10. CASE q # <<>>
    <3>1. Remaining(n, m, q # <<>>) = Len(x2) - 1
      BY <1>1, <1>2, <2>1, <2>10 DEF Remaining
    <3>2. Cat(q, y) = Cat(Bytes(x2), b1)
      BY <2>3, <2>4
    <3>3. Good(E, y, g, Stop(f, InRun(Len(x2) - 1, q), "NeedInput"))
      BY <1>2, <2>5, <2>6, <2>7, <2>10, <3>2, StopsInPart
    <3> QED BY <2>8, <3>1, <3>3 DEF n
  <2> QED BY <2>9, <2>10
<1>7. CASE n <= m /\ n <= c.room
  <2> DEFINE d == CopyWords(c, n)
             e == <<>>
  <2>0. e \in Seq(Word) /\ Cat(x, e) = x /\ Cat(e, ws1) = ws1 /\ Bytes(e) = <<>> /\ Cat(<<>>, b1) = b1
    BY CatEmpty, BytesFacts
  <2> HIDE DEF e
  <2>1. Mid(g, d, Cat(e, ws1)) /\ Cat(d.src, y) = Cat(Bytes(e), b1)
    <3>1. x = Cat(x, e) /\ Len(x) = n /\ Len(x) <= m /\ Len(x) <= c.room
      BY <1>7, <2>0 DEF n
    <3> QED BY <1>3, <2>0, <3>1
  <2>2. Mid(g, d, ws1) /\ Cat(d.src, y) = b1
    BY <2>0, <2>1
  <2> HIDE DEF d
  <2>3. Good(E, y, g, d)
    BY <2>2, GoingIsGood
  <2>4. WriteRun(c, n) = d
    BY <1>1, <1>2, <1>7, WriteRunCases DEF m, d
  <2> QED BY <2>3, <2>4 DEF n
<1> QED BY <1>1, <1>2, <1>5, <1>6, <1>7

\* The first of the input is the first of what is to come.
LEMMA FrontOne ==
    ASSUME NEW S, NEW s \in Seq(S), NEW y \in Seq(S), NEW n \in S, NEW b \in Seq(S), s # <<>>,
           Cat(s, y) = Cat(One(n), b)
    PROVE  Head(s) = n /\ Tail(s) \in Seq(S) /\ s = Cat(One(n), Tail(s)) /\ Cat(Tail(s), y) = b
<1> DEFINE h == Head(s)
           t == Tail(s)
<1>1. h \in S /\ t \in Seq(S) /\ s = Cat(One(h), t)
  BY UnconsCat
<1> HIDE DEF h, t
<1>2. One(h) \in Seq(S) /\ One(n) \in Seq(S) /\ Len(One(h)) = Len(One(n))
  BY <1>1, OneType
<1>3. Cat(t, y) \in Seq(S) /\ Cat(One(h), Cat(t, y)) = Cat(One(n), b)
  BY <1>1, <1>2, CatType, CatAssoc
<1>4. Cat(t, y) = b
  BY <1>2, <1>3, CatCancel
<1>5. h = n
  <2>1. Head(Cat(One(h), Cat(t, y))) = h /\ Head(Cat(One(n), b)) = n
    BY <1>1, <1>3, ConsCat
  <2> QED BY <1>3, <2>1
<1> QED BY <1>1, <1>4, <1>5 DEF h, t

\* One byte is skipped.
LEMMA EatHead ==
    ASSUME NEW g, NEW c, NEW ws, NEW n \in Byte, NEW t \in Seq(Byte), Mid(g, c, ws),
           c.src = Cat(One(n), t)
    PROVE  /\ Mid(g, Skip(c, 1), ws) /\ Skip(c, 1).src = t /\ Skip(c, 1).room = c.room
           /\ Skip(c, 1).out = c.out
<1>1. One(n) \in Seq(Byte)
  BY OneType
<1>2. /\ Mid(g, Skip(c, Len(One(n))), ws) /\ Skip(c, Len(One(n))).src = t
      /\ Skip(c, Len(One(n))).room = c.room
  BY <1>1, SkipSpec
<1>3. Len(One(n)) = 1
  BY OneType
<1>4. Skip(c, 1).out = c.out
  BY DEF Skip, Mid, Within, Calls
<1> QED BY <1>2, <1>3, <1>4

\* The count of nulls is read, or is waited for.
LEMMA NullCountSpec ==
    ASSUME NEW E, E \subseteq Nat, NEW y \in Seq(Byte), NEW g, NEW c, NEW n \in 0..MaxRun,
           NEW ws1 \in Seq(Word), NEW b1 \in Seq(Byte), Mid(g, c, Cat(Nulls(n), ws1)),
           Cat(c.src, y) = Cat(One(n), b1), Codes(E, b1, ws1), NoEnd(E, Len(ws1), n + 1),
           c.room # 0 \/ g.room = 0 \/ EndsNull(c.out)
    PROVE  Good(E, y, g, NullCount(c))
<1> DEFINE s == c.src
<1>1. s \in Seq(Byte) /\ Cat(s, y) = Cat(One(n), b1) /\ n \in Byte /\ n \in Nat /\ n <= MaxRun
  BY ByteFacts, SizeFacts DEF Mid, Within, Calls
<1>2. CASE c.src = <<>>
  <2>1. PendNulls(E, NeedNullCount, Cat(c.src, y), Cat(Nulls(n), ws1), b1, ws1)
    BY <1>1 DEF PendNulls
  <2> DEFINE z == Cat(Nulls(n), ws1)
  <2>2. Mid(g, c, z) /\ Pend(E, NeedNullCount, Cat(c.src, y), z)
    BY <2>1 DEF Pend
  <2> HIDE DEF z
  <2>3. NeedNullCount \in Unpackers /\ NeedNullCount.k = "nullCount"
    BY KindTypes, Kinds
  <2>4. Good(E, y, g, Stop(c, NeedNullCount, "NeedInput"))
    BY <1>2, <2>2, <2>3, StopIsGood
  <2> QED BY <1>2, <2>4 DEF NullCount
<1>3. CASE c.src # <<>>
  <2> HIDE DEF s
  <2>1. Head(s) = n /\ Tail(s) \in Seq(Byte) /\ s = Cat(One(n), Tail(s)) /\ Cat(Tail(s), y) = b1
    BY <1>1, <1>3, FrontOne DEF s
  <2> DEFINE t == Tail(s)
             d == Skip(c, 1)
             z == Cat(Nulls(n), ws1)
  <2>2. t \in Seq(Byte) /\ c.src = Cat(One(n), t) /\ Mid(g, c, z)
    BY <2>1 DEF s
  <2> HIDE DEF t, z
  <2>3. Mid(g, d, z)
    BY <1>1, <2>2, EatHead
  <2>4. d.src = t /\ d.room = c.room /\ d.out = c.out
    BY <1>1, <2>2, <2>3, EatHead
  <2> HIDE DEF d
  <2>5. Codes(E, Cat(d.src, y), ws1)
    BY <2>1, <2>4 DEF t
  <2>6. Mid(g, d, Cat(Nulls(n), ws1))
    BY <2>3 DEF z
  <2>7. Good(E, y, g, WriteNulls(d, n))
    <3>1. d.room # 0 \/ g.room = 0 \/ EndsNull(d.out)
      BY <2>4
    <3> QED BY <1>1, <2>5, <2>6, <3>1, WriteNullsSpec
  <2>8. NullCount(c) = WriteNulls(d, n)
    BY <1>3, <2>1 DEF NullCount, d, s
  <2> QED BY <2>7, <2>8
<1> QED BY <1>2, <1>3

\* The count of a run is read, or is waited for.
LEMMA FullCountSpec ==
    ASSUME NEW E, E \subseteq Nat, NEW y \in Seq(Byte), NEW g, NEW c, NEW x \in Seq(Word),
           NEW ws1 \in Seq(Word), NEW b1 \in Seq(Byte), Mid(g, c, Cat(x, ws1)), Len(x) <= MaxRun,
           Cat(c.src, y) = Cat(One(Len(x)), Cat(Bytes(x), b1)),
           Codes(E, b1, ws1), NoEnd(E, Len(ws1), Len(x) + 1)
    PROVE  Good(E, y, g, FullCount(c))
<1> DEFINE s == c.src
           n == Len(x)
           p == Cat(Bytes(x), b1)
<1>0. n \in Nat
  BY LenProperties
<1>1. s \in Seq(Byte) /\ Cat(s, y) = Cat(One(n), p) /\ n \in Byte /\ c.stop = Going
  BY <1>0, ByteFacts, SizeFacts DEF Mid, Within, Calls
<1>1a. p \in Seq(Byte)
  BY BytesFacts, CatType
<1>2. CASE c.src = <<>>
  <2>1. PendRun(E, NeedFullCount, Cat(c.src, y), Cat(x, ws1), b1, ws1)
    BY DEF PendRun
  <2> DEFINE z == Cat(x, ws1)
  <2>2. Mid(g, c, z) /\ Pend(E, NeedFullCount, Cat(c.src, y), z)
    BY <2>1 DEF Pend
  <2> HIDE DEF z
  <2>3. NeedFullCount \in Unpackers /\ NeedFullCount.k = "fullCount"
    BY KindTypes, Kinds
  <2>4. Good(E, y, g, Stop(c, NeedFullCount, "NeedInput"))
    BY <1>2, <2>2, <2>3, StopIsGood
  <2> QED BY <1>1, <1>2, <2>4 DEF FullCount
<1>3. CASE c.src # <<>>
  <2> HIDE DEF s, n, p
  <2>1. Head(s) = n /\ Tail(s) \in Seq(Byte) /\ s = Cat(One(n), Tail(s)) /\ Cat(Tail(s), y) = p
    BY <1>1, <1>1a, <1>3, FrontOne DEF s
  <2> DEFINE t == Tail(s)
             d == Skip(c, 1)
             z == Cat(x, ws1)
  <2>2. t \in Seq(Byte) /\ c.src = Cat(One(n), t) /\ Mid(g, c, z)
    BY <2>1 DEF s
  <2> HIDE DEF t, z
  <2>3. Mid(g, d, z)
    BY <1>1, <2>2, EatHead
  <2>4. d.src = t
    BY <1>1, <2>2, <2>3, EatHead
  <2> HIDE DEF d
  <2>5. Cat(d.src, y) = Cat(Bytes(x), b1)
    BY <2>1, <2>4 DEF t, p
  <2>6. Mid(g, d, Cat(x, ws1))
    BY <2>3 DEF z
  <2>7. Good(E, y, g, WriteRun(d, Len(x)))
    BY <2>5, <2>6, WriteRunSpec
  <2>8. FullCount(c) = WriteRun(d, n)
    BY <1>1, <1>3, <2>1 DEF FullCount, d, s
  <2> QED BY <2>7, <2>8 DEF n
<1> QED BY <1>2, <1>3

\* The bytes of a word that are still to come.
LEMMA WordTail ==
    ASSUME NEW w \in Word, NEW j \in 0..WordBytes, NEW k \in Nat, k <= WordBytes - j
    PROVE  /\ Cat(First(w, j), First(From(w, j), k)) = First(w, j + k)
           /\ From(From(w, j), k) = From(w, j + k)
           /\ Len(From(w, j)) = WordBytes - j /\ From(w, j) \in Seq(Byte) /\ First(w, j) \in Seq(Byte)
           /\ Len(First(w, j)) = j
<1> DEFINE a == First(w, j)
           b == From(w, j)
<1>1. w \in Seq(Byte) /\ Len(w) = WordBytes /\ j \in Nat /\ j <= Len(w)
  BY WordFacts, SizeFacts
<1>2. a \in Seq(Byte) /\ Len(a) = j /\ b \in Seq(Byte) /\ Len(b) = WordBytes - j /\ w = Cat(a, b)
  BY <1>1, CutCat
<1> HIDE DEF a, b
<1>3. First(Cat(a, b), Len(a) + k) = Cat(a, First(b, k)) /\ From(Cat(a, b), Len(a) + k) = From(b, k)
  BY <1>2, CutInSecond
<1> QED BY <1>2, <1>3 DEF a, b

\* A word is written, and there is room for it.
LEMMA WriteOneSpec ==
    ASSUME NEW g, NEW c, NEW w \in Word, NEW ws \in Seq(Word), Mid(g, c, Cat(One(w), ws)), c.room # 0
    PROVE  /\ Mid(g, WriteOne(c, w), ws) /\ WriteOne(c, w).src = c.src
           /\ WriteOne(c, w).room = c.room - 1
<1> DEFINE a == One(w)
<1>1. a \in Seq(Word) /\ Len(a) = 1 /\ Mid(g, c, Cat(a, ws))
  BY OneType
<1>2. WriteOne(c, w) = Write(c, a)
  BY DEF WriteOne, One
<1>3. c.room \in Nat
  BY DEF Mid, Within, Calls
<1>3a. Len(a) <= c.room
  BY <1>1, <1>3
<1> HIDE DEF a
<1>4. Mid(g, Write(c, a), ws)
  BY <1>1, <1>3a, WriteSpec
<1>5. Write(c, a).src = c.src /\ Write(c, a).room = c.room - Len(a)
  BY <1>1, <1>3a, <1>4, WriteSpec
<1> QED BY <1>1, <1>2, <1>4, <1>5

\* Input is skipped up to a place.
LEMMA SkipAt ==
    ASSUME NEW g, NEW c, NEW ws, NEW k \in Nat, Mid(g, c, ws), k <= Len(c.src)
    PROVE  Mid(g, Skip(c, k), ws) /\ Skip(c, k).src = From(c.src, k) /\ Skip(c, k).room = c.room
<1> DEFINE d == Skip(c, k)
           a == First(c.src, k)
           s == From(c.src, k)
           q == c.src
<1>1. /\ c \in Calls /\ c.room + Len(c.out) = g.room /\ g.words = Cat(c.out, ws) /\ ws \in Seq(Word)
      /\ \E e \in Seq(Byte) : g.src = Cat(e, c.src)
      /\ c.u = Idle /\ c.stop = Going
  BY DEF Mid, Within
<1>2. a \in Seq(Byte) /\ s \in Seq(Byte) /\ c.src = Cat(a, s)
  <2>1. q \in Seq(Byte) /\ k <= Len(q)
    BY <1>1 DEF Calls
  <2> HIDE DEF q
  <2>2. First(q, k) \in Seq(Byte) /\ From(q, k) \in Seq(Byte) /\ q = Cat(First(q, k), From(q, k))
    BY <2>1, CutCat
  <2> QED BY <2>2 DEF q
<1>3. d = [c EXCEPT !.src = s]
  BY <1>1 DEF Skip, Calls
<1> HIDE DEF d, a, s
<1>4. /\ d \in Calls /\ d.src = s /\ d.out = c.out /\ d.room = c.room /\ d.u = c.u /\ d.stop = c.stop
  BY <1>1, <1>2, <1>3 DEF Calls
<1>5. PICK e \in Seq(Byte) : g.src = Cat(e, c.src)
  BY <1>1
<1>6. Cat(e, a) \in Seq(Byte) /\ Cat(e, Cat(a, s)) = Cat(Cat(e, a), s)
  BY <1>2, CatType, CatAssoc
<1>7. g.src = Cat(Cat(e, a), d.src)
  BY <1>2, <1>4, <1>5, <1>6
<1>8. Mid(g, d, ws)
  BY <1>1, <1>4, <1>6, <1>7 DEF Mid, Within
<1> QED BY <1>4, <1>8 DEF d, s

\* The rest of the word w is read, or all there is of it.
Begun(u, buf) == [u EXCEPT !.buf = buf]
WordRead(g, y, c, u, w, j, ws, b, r) ==
    \/ Mid(g, r, ws) /\ Cat(r.src, y) = b
    \/ \E d : \E k \in 0..WordBytes - 1 :
         /\ r = Stop(d, Begun(u, First(w, k)), "NeedInput")
         /\ j <= k /\ Mid(g, d, Cat(One(w), ws)) /\ d.src = <<>> /\ d.room = c.room
         /\ Cat(d.src, y) = Cat(From(w, k), b)

\* A word without tag is completed, or its part is kept.
LEMMA WholeWordSpec ==
    ASSUME NEW y \in Seq(Byte), NEW g, NEW c, NEW u, NEW w \in Word,
           NEW j \in 0..WordBytes - 1, NEW ws \in Seq(Word), NEW b \in Seq(Byte),
           Mid(g, c, Cat(One(w), ws)), Cat(c.src, y) = Cat(From(w, j), b), c.room # 0
    PROVE  WordRead(g, y, c, u, w, j, ws, b, WholeWord(c, First(w, j), u))
<1> DEFINE s == c.src
           p == First(w, j)
           q == From(w, j)
           n == WordBytes - j
           z == Cat(One(w), ws)
<1>1. s \in Seq(Byte) /\ c.stop = Going
  BY DEF Mid, Within, Calls
<1>2. /\ j \in 0..WordBytes /\ n \in Nat \ {0} /\ n <= WordBytes - j
  BY SizeFacts
<1>3. q \in Seq(Byte) /\ p \in Seq(Byte) /\ Len(p) = j /\ Len(q) = n
  BY <1>2, WordTail
<1>4. WordBytes - Len(p) = n
  BY <1>3
<1>5. Cat(s, y) = Cat(q, b) /\ Mid(g, c, z) /\ Len(s) \in Nat
  BY <1>1, LenProperties
<1> HIDE DEF s
<1>6. CASE Len(s) < n
  <2> DEFINE l == Len(s)
             k == j + l
             d == Skip(c, l)
  <2>1. l \in Nat /\ l <= n /\ l <= WordBytes - j /\ k \in 0..WordBytes - 1 /\ j <= k
    BY <1>2, <1>5, <1>6, SizeFacts
  <2>2. First(q, l) = s /\ Cat(From(q, l), b) = y
    <3> HIDE DEF q
    <3> QED BY <1>1, <1>3, <1>5, <1>6, FrontShorter
  <2>3. Cat(p, First(q, l)) = First(w, k) /\ From(q, l) = From(w, k)
    BY <1>2, <2>1, WordTail
  <2>4. Mid(g, d, z) /\ d.src = <<>> /\ d.room = c.room
    <3> DEFINE e == <<>>
    <3>1. e \in Seq(Byte) /\ c.src = Cat(s, e)
      BY <1>1, CatEmpty DEF s
    <3> HIDE DEF e, z
    <3>2. Mid(g, Skip(c, Len(s)), z) /\ Skip(c, Len(s)).src = e /\ Skip(c, Len(s)).room = c.room
      BY <1>1, <1>5, <3>1, SkipSpec
    <3> QED BY <3>2 DEF e
  <2>5. WholeWord(c, p, u) = Stop(d, Begun(u, First(w, k)), "NeedInput")
    <3>1. p \o s = First(w, k)
      BY <2>2, <2>3 DEF Cat
    <3> HIDE DEF p, k, n
    <3> QED BY <1>4, <1>6, <3>1 DEF WholeWord, s, Begun
  <2>6. Cat(d.src, y) = Cat(From(w, k), b)
    BY <2>2, <2>3, <2>4, CatEmpty
  <2> HIDE DEF d, k, p
  <2>7. /\ k \in 0..WordBytes - 1
        /\ WholeWord(c, p, u) = Stop(d, Begun(u, First(w, k)), "NeedInput")
        /\ j <= k /\ Mid(g, d, Cat(One(w), ws)) /\ d.src = <<>> /\ d.room = c.room
        /\ Cat(d.src, y) = Cat(From(w, k), b)
    BY <2>1, <2>4, <2>5, <2>6
  <2> QED BY <2>7, Zenon DEF p, WordRead
<1>7. CASE ~(Len(s) < n)
  <2> DEFINE t == From(s, n)
             d == Skip(c, n)
  <2>0. Len(q) <= Len(s)
    BY <1>2, <1>3, <1>5, <1>7
  <2>1. First(s, n) = q /\ t \in Seq(Byte) /\ s = Cat(q, t) /\ Cat(t, y) = b
    <3> HIDE DEF q
    <3>1. /\ First(s, Len(q)) = q /\ From(s, Len(q)) \in Seq(Byte)
          /\ s = Cat(q, From(s, Len(q))) /\ Cat(From(s, Len(q)), y) = b
      BY <1>1, <1>3, <1>5, <2>0, FrontLonger
    <3> QED BY <1>3, <3>1
  <2>2. Mid(g, d, z) /\ d.src = t /\ d.room = c.room
    <3>1. n \in Nat /\ n <= Len(c.src)
      BY <1>2, <1>3, <2>0 DEF s
    <3> HIDE DEF z, n
    <3>2. Mid(g, d, z) /\ d.src = From(c.src, n) /\ d.room = c.room
      BY <1>5, <3>1, SkipAt
    <3> QED BY <3>2 DEF s
  <2>3. Cat(p, q) = w
    <3>1. w \in Seq(Byte) /\ Len(w) = WordBytes /\ j \in Nat /\ j <= Len(w)
      BY <1>2, WordFacts, SizeFacts
    <3> QED BY <3>1, CutCat
  <2> HIDE DEF d
  <2>4. WholeWord(c, p, u) = WriteOne(d, w)
    <3>1. p \o First(c.src, n) = w
      BY <2>1, <2>3 DEF Cat, s
    <3> HIDE DEF p, n
    <3> QED BY <1>4, <1>7, <3>1 DEF WholeWord, s, d
  <2>5. d.room # 0 /\ Mid(g, d, Cat(One(w), ws))
    BY <2>2
  <2>6. Mid(g, WriteOne(d, w), ws) /\ WriteOne(d, w).src = d.src
    BY <2>5, WriteOneSpec
  <2> HIDE DEF p
  <2> QED BY <2>1, <2>2, <2>4, <2>6 DEF p, WordRead
<1> QED BY <1>6, <1>7

\* A word with a tag is completed, or its part and the rest of the tag are kept.
LEMMA TaggedWordSpec ==
    ASSUME NEW E, NEW y \in Seq(Byte), NEW g, NEW c, NEW w \in Word, NEW j \in 0..WordBytes,
           NEW ws1 \in Seq(Word), NEW b1 \in Seq(Byte), Mid(g, c, Cat(One(w), ws1)),
           Cat(c.src, y) = Cat(BytesFrom(w, j), b1), Codes(E, b1, ws1), c.room # 0
    PROVE  Good(E, y, g, TaggedWord(c, First(w, WordBytes - j), TagFrom(w, j)))
<1> DEFINE s == c.src
           p == First(w, WordBytes - j)
           t == TagFrom(w, j)
           x == [buf |-> p, tag |-> t, src |-> s]
           z == Cat(One(w), ws1)
<1>1. c \in Calls /\ s \in Seq(Byte) /\ Mid(g, c, z)
  BY DEF Mid, Within, Calls
<1> HIDE DEF s
<1>2. Cat(s, y) = Cat(BytesFrom(w, j), b1)
  BY DEF s
<1>3. p \in Seq(Byte) /\ t \in Nat
  <2>1. WordBytes - j \in 0..WordBytes /\ 0 \in Nat /\ 0 <= WordBytes - (WordBytes - j)
    BY SizeFacts
  <2> QED BY <2>1, WordTail, CodedFacts
<1>4. x.buf = p /\ x.tag = t /\ x.src = s
  OBVIOUS
<1>5. Filling(x, w, b1, y, s, j)
  <2>1. x \in FillState
    BY <1>1, <1>3 DEF FillState
  <2>2. <<>> \in Seq(Byte) /\ s = Cat(<<>>, s)
    BY <1>1, CatEmpty
  <2> HIDE DEF x
  <2>3. \E e \in Seq(Byte) : s = Cat(e, x.src)
    BY <1>4, <2>2
  <2> QED BY <1>2, <1>4, <2>1, <2>3 DEF Filling
<1> HIDE DEF x
<1>6. PICK f, k : /\ f = Fill(x.buf, x.tag, x.src) /\ Filling(f, w, b1, y, s, k)
                  /\ f.tag = 0 \/ f.src = <<>>
  BY <1>1, <1>5, FillSpec
<1>7. /\ k \in 0..WordBytes /\ f \in FillState /\ f.tag = TagFrom(w, k)
      /\ f.buf = First(w, WordBytes - k) /\ Cat(f.src, y) = Cat(BytesFrom(w, k), b1)
  BY <1>6 DEF Filling
<1>8. PICK e \in Seq(Byte) : s = Cat(e, f.src)
  BY <1>6 DEF Filling
<1> DEFINE d == [c EXCEPT !.src = f.src]
<1>9. Mid(g, d, z) /\ d.src = f.src /\ d.room = c.room
  <2> DEFINE q == f.src
             h == Skip(c, Len(e))
  <2>1. q \in Seq(Byte) /\ c.src = Cat(e, q)
    BY <1>7, <1>8 DEF FillState, s
  <2>2. From(c.src, Len(e)) = q
    <3> HIDE DEF q
    <3> QED BY <2>1, CatCut
  <2>3. h = d
    BY <2>2 DEF Skip
  <2>4. Len(e) \in Nat /\ Len(e) <= Len(c.src)
    <3>1. Len(Cat(e, q)) = Len(e) + Len(q) /\ Len(e) \in Nat /\ Len(q) \in Nat
      BY <2>1, CatLen
    <3> HIDE DEF q
    <3>2. Len(c.src) = Len(e) + Len(q)
      BY <2>1, <3>1
    <3> QED BY <3>1, <3>2
  <2> HIDE DEF q, z, d
  <2>5. Mid(g, h, z) /\ h.src = From(c.src, Len(e)) /\ h.room = c.room
    BY <1>1, <2>4, SkipAt
  <2> HIDE DEF h
  <2> QED BY <2>2, <2>3, <2>5 DEF q
<1>10. TaggedWord(c, p, t) =
         IF f.tag # 0 THEN Stop(d, InWord(f.buf, f.tag), "NeedInput")
         ELSE WriteOne(d, f.buf \o [i \in 1..WordBytes - Len(f.buf) |-> 0])
  <2>1. f = Fill(p, t, c.src)
    BY <1>4, <1>6 DEF s
  <2> HIDE DEF p, t
  <2> QED BY <2>1 DEF TaggedWord
<1> HIDE DEF d
<1>11. CASE f.tag # 0
  <2> DEFINE u == InWord(f.buf, f.tag)
  <2>1. f.src = <<>>
    BY <1>6, <1>11
  <2>2. PendWord(u, Cat(d.src, y), z, b1, ws1)
    BY <1>7, <1>9, <1>11 DEF PendWord
  <2>3. u \in Unpackers /\ u.k = "word"
    <3> DEFINE fb == f.buf
               ft == f.tag
    <3>1. fb \in Seq(Byte) /\ ft \in Nat
      BY <1>7 DEF FillState
    <3> HIDE DEF fb, ft
    <3>2. InWord(fb, ft) \in Unpackers /\ InWord(fb, ft).k = "word"
      BY <3>1, KindTypes, Kinds
    <3> QED BY <3>2 DEF fb, ft
  <2> HIDE DEF u, z
  <2>4. Pend(E, u, Cat(d.src, y), z)
    BY <2>2 DEF Pend
  <2>5. Good(E, y, g, Stop(d, u, "NeedInput"))
    BY <1>9, <2>1, <2>3, <2>4, StopIsGood
  <2> HIDE DEF p, t
  <2>6. TaggedWord(c, p, t) = Stop(d, u, "NeedInput")
    BY <1>10, <1>11 DEF u
  <2> QED BY <2>5, <2>6 DEF p, t
<1>12. CASE f.tag = 0
  <2> DEFINE v == f.buf \o [i \in 1..WordBytes - Len(f.buf) |-> 0]
  <2>1. BytesFrom(w, k) = <<>> /\ \A i \in WordBytes - k + 1..WordBytes : w[i] = 0
    BY <1>7, <1>12, TagZero
  <2>2. v = w
    <3> DEFINE m == WordBytes - k
               a == First(w, m)
               r == From(w, m)
               zeros == [i \in 1..k |-> 0]
    <3>1. m \in 0..WordBytes /\ m \in Nat /\ WordBytes - m = k /\ k \in Nat
      BY <1>7, SizeFacts
    <3>2. w \in Seq(Byte) /\ Len(w) = WordBytes
      BY WordFacts
    <3> HIDE DEF m
    <3>3. /\ a \in Seq(Byte) /\ Len(a) = m /\ r \in Seq(Byte) /\ Len(r) = k /\ w = a \o r
          /\ \A i \in 1..k : r[i] = w[m + i]
      <4>1. m \in 0..Len(w) /\ Len(w) - m = k
        BY <3>1, <3>2
      <4>2. /\ a \in Seq(Byte) /\ Len(a) = m /\ r \in Seq(Byte) /\ Len(r) = Len(w) - m /\ w = a \o r
            /\ \A i \in 1..Len(w) - m : r[i] = w[m + i]
        BY <3>2, <4>1, Cut
      <4> QED BY <4>1, <4>2
    <3>4. \A i \in 1..k : r[i] = 0
      <4> TAKE i \in 1..k
      <4>1. m + i \in WordBytes - k + 1..WordBytes
        BY <3>1, SizeFacts DEF m
      <4> QED BY <2>1, <3>3, <4>1
    <3>5. r = zeros
      <4> HIDE DEF r
      <4>1. DOMAIN r = 1..k /\ r = [i \in DOMAIN r |-> r[i]]
        BY <3>1, <3>3, LenProperties
      <4> QED BY <3>4, <4>1
    <3>6. f.buf = a /\ WordBytes - Len(f.buf) = k
      BY <1>7, <3>1, <3>3 DEF m
    <3> HIDE DEF a, r
    <3> QED BY <3>3, <3>5, <3>6
  <2> HIDE DEF v
  <2>3. Cat(d.src, y) = b1
    BY <1>7, <1>9, <2>1, CatEmpty
  <2>4. d.room # 0 /\ Mid(g, d, Cat(One(w), ws1))
    BY <1>9
  <2>5. Mid(g, WriteOne(d, w), ws1) /\ WriteOne(d, w).src = d.src
    BY <2>4, WriteOneSpec
  <2>6. Codes(E, Cat(WriteOne(d, w).src, y), ws1)
    BY <2>3, <2>5
  <2>7. Good(E, y, g, WriteOne(d, w))
    BY <2>5, <2>6, GoingIsGood
  <2> HIDE DEF p, t
  <2>8. TaggedWord(c, p, t) = WriteOne(d, w)
    BY <1>10, <1>12, <2>2 DEF v
  <2> QED BY <2>7, <2>8 DEF p, t
<1> QED BY <1>11, <1>12

\* The bytes begun are replaced in the state of the unpacker.
LEMMA BegunFacts ==
    /\ \A b, c : Begun(InFull(b), c) = InFull(c)
    /\ \A n, b, c : Begun(InRun(n, b), c) = InRun(n, c)
BY DEF Begun, InFull, InRun

\* A call that has stopped is not gone on with.
LEMMA StoppedKeeps ==
    ASSUME NEW c, NEW u, NEW n
    PROVE  /\ FullCount(Stop(c, u, "NeedInput")) = Stop(c, u, "NeedInput") \/ c \notin Calls
           /\ RestOfRun(Stop(c, u, "NeedInput"), n) = Stop(c, u, "NeedInput") \/ c \notin Calls
<1> DEFINE d == Stop(c, u, "NeedInput")
<1>1. CASE c \in Calls
  <2>1. d.stop = "NeedInput"
    BY <1>1 DEF Stop, Calls
  <2> HIDE DEF d
  <2>2. d.stop # Going
    BY <2>1 DEF Going
  <2>3. FullCount(d) = d /\ RestOfRun(d, n) = d
    BY <2>2 DEF FullCount, RestOfRun
  <2> QED BY <2>3 DEF d
<1> QED BY <1>1

\* A word without nulls, and then its run.
LEMMA FullWordSpec ==
    ASSUME NEW E, E \subseteq Nat, NEW y \in Seq(Byte), NEW g, NEW c, NEW v, NEW w \in Word,
           NEW x \in Seq(Word), NEW j \in 0..WordBytes - 1, NEW ws1 \in Seq(Word),
           NEW b1 \in Seq(Byte), Len(x) <= MaxRun, Codes(E, b1, ws1),
           Mid(g, c, Cat(One(w), Cat(x, ws1))),
           Cat(c.src, y) = Cat(From(w, j), Cat(One(Len(x)), Cat(Bytes(x), b1))),
           NoEnd(E, Len(ws1), Len(x) + 1), c.room # 0
    PROVE  Good(E, y, g, FullCount(WholeWord(c, First(w, j), InFull(v))))
<1> DEFINE b == Cat(One(Len(x)), Cat(Bytes(x), b1))
           ws == Cat(x, ws1)
           r == WholeWord(c, First(w, j), InFull(v))
<1>1. b \in Seq(Byte) /\ ws \in Seq(Word)
  <2>1. Len(x) \in Byte
    BY LenProperties, ByteFacts, SizeFacts
  <2>2. One(Len(x)) \in Seq(Byte) /\ Bytes(x) \in Seq(Byte)
    BY <2>1, OneType, BytesFacts
  <2>3. Cat(Bytes(x), b1) \in Seq(Byte)
    BY <2>2, CatType
  <2> QED BY <2>2, <2>3, CatType
<1>2. Mid(g, c, Cat(One(w), ws)) /\ Cat(c.src, y) = Cat(From(w, j), b)
  OBVIOUS
<1> HIDE DEF b, ws
<1>3. \/ Mid(g, r, ws) /\ Cat(r.src, y) = b
      \/ \E d : \E k \in 0..WordBytes - 1 :
           /\ r = Stop(d, Begun(InFull(v), First(w, k)), "NeedInput")
           /\ j <= k /\ Mid(g, d, Cat(One(w), ws)) /\ d.src = <<>> /\ d.room = c.room
           /\ Cat(d.src, y) = Cat(From(w, k), b)
  <2>1. WordRead(g, y, c, InFull(v), w, j, ws, b, r)
    BY <1>1, <1>2, WholeWordSpec
  <2> HIDE DEF r
  <2> QED BY <2>1, Zenon DEF WordRead
<1> HIDE DEF r
<1>4. CASE Mid(g, r, ws) /\ Cat(r.src, y) = b
  <2>1. Good(E, y, g, FullCount(r))
    BY <1>4, FullCountSpec DEF b, ws
  <2> QED BY <2>1 DEF r
<1>5. ASSUME NEW d, NEW k \in 0..WordBytes - 1,
             r = Stop(d, Begun(InFull(v), First(w, k)), "NeedInput"),
             Mid(g, d, Cat(One(w), ws)), d.src = <<>>, d.room = c.room,
             Cat(d.src, y) = Cat(From(w, k), b)
      PROVE  Good(E, y, g, FullCount(r))
  <2> DEFINE p == First(w, k)
             u == InFull(p)
             z == Cat(One(w), ws)
  <2>1. Begun(InFull(v), p) = u
    BY BegunFacts
  <2>2. r = Stop(d, u, "NeedInput")
    BY <1>5, <2>1
  <2>3. p \in Seq(Byte)
    BY SizeFacts, WordTail
  <2>4. PendFull(E, u, Cat(d.src, y), z, b1, ws1)
    BY <1>5 DEF PendFull, b, ws
  <2> HIDE DEF p
  <2>5. u \in Unpackers /\ u.k = "full"
    BY <2>3, KindTypes, Kinds
  <2> HIDE DEF u, z
  <2>6. Pend(E, u, Cat(d.src, y), z)
    BY <2>4 DEF Pend
  <2>7. Mid(g, d, z)
    BY <1>5 DEF z
  <2>8. Good(E, y, g, Stop(d, u, "NeedInput"))
    BY <1>5, <2>5, <2>6, <2>7, StopIsGood
  <2>9. d \in Calls
    BY <2>7 DEF Mid, Within
  <2>10. FullCount(Stop(d, u, "NeedInput")) = Stop(d, u, "NeedInput")
    BY <2>9, StoppedKeeps
  <2> QED BY <2>2, <2>8, <2>10
<1>6. Good(E, y, g, FullCount(r))
  BY <1>3, <1>4, <1>5 DEF r
<1> QED BY <1>6 DEF r

\* A word that has begun, and the rest of the run it is in.
LEMMA PartOfRunSpec ==
    ASSUME NEW E, E \subseteq Nat, NEW y \in Seq(Byte), NEW g, NEW c, NEW v, NEW w \in Word,
           NEW x \in Seq(Word), NEW j \in 1..WordBytes - 1, NEW ws1 \in Seq(Word),
           NEW b1 \in Seq(Byte), Codes(E, b1, ws1),
           Mid(g, c, Cat(One(w), Cat(x, ws1))),
           Cat(c.src, y) = Cat(From(w, j), Cat(Bytes(x), b1)),
           NoEnd(E, Len(ws1), Len(x) + 2), c.room # 0
    PROVE  Good(E, y, g, RestOfRun(WholeWord(c, First(w, j), InRun(Len(x), v)), Len(x)))
<1> DEFINE b == Cat(Bytes(x), b1)
           ws == Cat(x, ws1)
           n == Len(x)
           r == WholeWord(c, First(w, j), InRun(n, v))
<1>1. b \in Seq(Byte) /\ ws \in Seq(Word) /\ n \in Nat
  BY BytesFacts, CatType, LenProperties
<1>2. Mid(g, c, Cat(One(w), ws)) /\ Cat(c.src, y) = Cat(From(w, j), b)
  OBVIOUS
<1> HIDE DEF b, ws, n
<1>2a. j \in 0..WordBytes - 1
  BY SizeFacts
<1>3. \/ Mid(g, r, ws) /\ Cat(r.src, y) = b
      \/ \E d : \E k \in 0..WordBytes - 1 :
           /\ r = Stop(d, Begun(InRun(n, v), First(w, k)), "NeedInput")
           /\ j <= k /\ Mid(g, d, Cat(One(w), ws)) /\ d.src = <<>> /\ d.room = c.room
           /\ Cat(d.src, y) = Cat(From(w, k), b)
  <2>1. WordRead(g, y, c, InRun(n, v), w, j, ws, b, r)
    BY <1>1, <1>2, <1>2a, WholeWordSpec
  <2> HIDE DEF r
  <2> QED BY <2>1, Zenon DEF WordRead
<1> HIDE DEF r
<1>4. CASE Mid(g, r, ws) /\ Cat(r.src, y) = b
  <2>0. NoEnd(E, Len(ws1), Len(x) + 1)
    <3> DEFINE i == n + 2
               l == n + 1
               m == Len(ws1)
    <3>1. i \in Nat /\ l \in Nat /\ l <= i /\ m \in Nat /\ NoEnd(E, m, i)
      BY <1>1, LenProperties DEF n
    <3> HIDE DEF i, l, m
    <3>2. NoEnd(E, m, l)
      BY <3>1, NoEndLess
    <3> QED BY <3>2 DEF m, l, n
  <2>1. Good(E, y, g, WriteRun(r, Len(x)))
    BY <1>4, <2>0, WriteRunSpec DEF b, ws
  <2>2. r.stop = Going
    BY <1>4 DEF Mid
  <2> QED BY <2>1, <2>2 DEF r, n, RestOfRun
<1>5. ASSUME NEW d, NEW k \in 0..WordBytes - 1, j <= k,
             r = Stop(d, Begun(InRun(n, v), First(w, k)), "NeedInput"),
             Mid(g, d, Cat(One(w), ws)), d.src = <<>>, d.room = c.room,
             Cat(d.src, y) = Cat(From(w, k), b)
      PROVE  Good(E, y, g, RestOfRun(r, n))
  <2> DEFINE p == First(w, k)
             u == InRun(n, p)
             z == Cat(One(w), ws)
  <2>1. Begun(InRun(n, v), p) = u
    BY BegunFacts
  <2>2. r = Stop(d, u, "NeedInput")
    BY <1>5, <2>1
  <2>3. p \in Seq(Byte) /\ k \in 1..WordBytes - 1
    <3>1. k \in 1..WordBytes - 1
      BY <1>5, SizeFacts
    <3>2. p \in Seq(Byte)
      BY SizeFacts, WordTail
    <3> QED BY <3>1, <3>2
  <2>4. PendPart(E, u, Cat(d.src, y), z, b1, ws1)
    BY <1>5, <2>3 DEF PendPart, b, ws, n
  <2> HIDE DEF p
  <2>5. u \in Unpackers /\ u.k = "run"
    BY <1>1, <2>3, KindTypes, Kinds
  <2> HIDE DEF u, z
  <2>6. Pend(E, u, Cat(d.src, y), z)
    BY <2>4 DEF Pend
  <2>7. Mid(g, d, z)
    BY <1>5 DEF z
  <2>8. Good(E, y, g, Stop(d, u, "NeedInput"))
    BY <1>5, <2>5, <2>6, <2>7, StopIsGood
  <2>9. d \in Calls
    BY <2>7 DEF Mid, Within
  <2>10. RestOfRun(Stop(d, u, "NeedInput"), n) = Stop(d, u, "NeedInput")
    BY <2>9, StoppedKeeps
  <2> QED BY <2>2, <2>8, <2>10
<1>6. Good(E, y, g, RestOfRun(r, n))
  <2>1. CASE Mid(g, r, ws) /\ Cat(r.src, y) = b
    BY <1>4, <2>1 DEF r, n
  <2> QED BY <1>3, <1>5, <2>1
<1> QED BY <1>6 DEF r, n

\* What the last call has begun is finished first.
LEMMA ResumeSpec ==
    ASSUME NEW E, E \subseteq Nat, NEW y \in Seq(Byte), NEW g, NEW c, NEW u, NEW ws,
           Mid(g, c, ws), Pend(E, u, Cat(c.src, y), ws),
           c.room # 0 \/ u.k \in {"none", "nullCount", "fullCount"}, c.room = g.room
    PROVE  Good(E, y, g, Resume(c, u))
<1> DEFINE b == Cat(c.src, y)
<1>0. b \in Seq(Byte)
  BY CatType DEF Mid, Within, Calls
<1> HIDE DEF b
<1>1. PICK b1, ws1 :
      /\ Codes(E, b1, ws1)
      /\ \/ u = Idle /\ b = b1 /\ ws = ws1
         \/ PendWord(u, b, ws, b1, ws1) \/ PendFull(E, u, b, ws, b1, ws1)
         \/ PendNulls(E, u, b, ws, b1, ws1) \/ PendRun(E, u, b, ws, b1, ws1)
         \/ PendPart(E, u, b, ws, b1, ws1)
  BY DEF Pend, b
<1>2. b1 \in Seq(Byte) /\ ws1 \in Seq(Word)
  BY <1>1, CodesType
<1>3. CASE u = Idle /\ b = b1 /\ ws = ws1
  <2>1. Good(E, y, g, c)
    BY <1>1, <1>3, GoingIsGood DEF b
  <2>2. u.k = "none"
    BY <1>3, Kinds
  <2> QED BY <2>1, <2>2 DEF Resume
<1>4. CASE PendWord(u, b, ws, b1, ws1)
  <2>1. PICK w \in Word, j \in 0..WordBytes :
             /\ u = InWord(First(w, WordBytes - j), TagFrom(w, j))
             /\ b = Cat(BytesFrom(w, j), b1) /\ ws = Cat(One(w), ws1)
    BY <1>4 DEF PendWord
  <2> DEFINE p == First(w, WordBytes - j)
             t == TagFrom(w, j)
  <2>2. Mid(g, c, Cat(One(w), ws1)) /\ Cat(c.src, y) = Cat(BytesFrom(w, j), b1)
    BY <2>1 DEF b
  <2>2a. u = InWord(p, t)
    BY <2>1
  <2> HIDE DEF p, t
  <2>3. u.k = "word" /\ u.buf = p /\ u.tag = t
    BY <2>2a, Kinds
  <2>4. c.room # 0
    BY <2>3
  <2>5. Good(E, y, g, TaggedWord(c, p, t))
    BY <1>1, <1>2, <2>2, <2>4, TaggedWordSpec DEF p, t
  <2> QED BY <2>3, <2>5 DEF Resume
<1>5. CASE PendFull(E, u, b, ws, b1, ws1)
  <2>1. PICK w \in Word, x \in Seq(Word), j \in 0..WordBytes - 1 :
      /\ u = InFull(First(w, j)) /\ Len(x) <= MaxRun
      /\ b = Cat(From(w, j), Cat(One(Len(x)), Cat(Bytes(x), b1)))
      /\ ws = Cat(One(w), Cat(x, ws1)) /\ NoEnd(E, Len(ws1), Len(x) + 1)
    BY <1>5, Zenon DEF PendFull
  <2> DEFINE p == First(w, j)
  <2>2a. u = InFull(p)
    BY <2>1
  <2> HIDE DEF p
  <2>2. u.k = "full" /\ u.buf = p
    BY <2>2a, Kinds
  <2>3. c.room # 0
    BY <2>2
  <2>4. /\ Mid(g, c, Cat(One(w), Cat(x, ws1)))
        /\ Cat(c.src, y) = Cat(From(w, j), Cat(One(Len(x)), Cat(Bytes(x), b1)))
    BY <2>1 DEF b
  <2>5. Good(E, y, g, FullCount(WholeWord(c, First(w, j), InFull(p))))
    BY <1>1, <1>2, <2>1, <2>3, <2>4, FullWordSpec
  <2> QED BY <2>2, <2>2a, <2>5 DEF Resume, p
<1>6. CASE PendNulls(E, u, b, ws, b1, ws1)
  <2>1. PICK n \in Nat :
      /\ \/ u = NeedNullCount /\ n <= MaxRun /\ b = Cat(One(n), b1)
         \/ u = InNulls(n) /\ n # 0 /\ b = b1
      /\ ws = Cat(Nulls(n), ws1) /\ NoEnd(E, Len(ws1), n + 1)
    BY <1>6 DEF PendNulls
  <2>2. Mid(g, c, Cat(Nulls(n), ws1))
    BY <2>1
  <2>3. CASE u = NeedNullCount /\ n <= MaxRun /\ b = Cat(One(n), b1)
    <3>1. n \in 0..MaxRun /\ Cat(c.src, y) = Cat(One(n), b1)
      BY <2>3, SizeFacts DEF b
    <3>1a. c.room # 0 \/ g.room = 0 \/ EndsNull(c.out)
      OBVIOUS
    <3>2. Good(E, y, g, NullCount(c))
      BY <1>1, <1>2, <2>1, <2>2, <3>1, <3>1a, NullCountSpec
    <3>3. u.k = "nullCount"
      BY <2>3, Kinds
    <3> QED BY <3>2, <3>3 DEF Resume
  <2>4. CASE u = InNulls(n) /\ n # 0 /\ b = b1
    <3>1. Codes(E, Cat(c.src, y), ws1)
      BY <1>1, <2>4 DEF b
    <3>1a. c.room # 0 \/ g.room = 0 \/ EndsNull(c.out)
      OBVIOUS
    <3>2. Good(E, y, g, WriteNulls(c, n))
      BY <1>2, <2>1, <2>2, <3>1, <3>1a, WriteNullsSpec
    <3>3. u.k = "nulls" /\ u.n = n
      BY <2>4, Kinds
    <3> QED BY <3>2, <3>3 DEF Resume
  <2> QED BY <2>1, <2>3, <2>4
<1>7. CASE PendRun(E, u, b, ws, b1, ws1)
  <2>1. PICK x \in Seq(Word) :
      /\ \/ u = NeedFullCount /\ Len(x) <= MaxRun /\ b = Cat(One(Len(x)), Cat(Bytes(x), b1))
         \/ u = InRun(Len(x), <<>>) /\ x # <<>> /\ b = Cat(Bytes(x), b1)
      /\ ws = Cat(x, ws1) /\ NoEnd(E, Len(ws1), Len(x) + 1)
    BY <1>7 DEF PendRun
  <2>2. Mid(g, c, Cat(x, ws1))
    BY <2>1
  <2>3. CASE u = NeedFullCount /\ Len(x) <= MaxRun /\ b = Cat(One(Len(x)), Cat(Bytes(x), b1))
    <3>1. Cat(c.src, y) = Cat(One(Len(x)), Cat(Bytes(x), b1))
      BY <2>3 DEF b
    <3>2. Good(E, y, g, FullCount(c))
      BY <1>1, <1>2, <2>1, <2>2, <2>3, <3>1, FullCountSpec
    <3>3. u.k = "fullCount"
      BY <2>3, Kinds
    <3> QED BY <3>2, <3>3 DEF Resume
  <2>4. CASE u = InRun(Len(x), <<>>) /\ x # <<>> /\ b = Cat(Bytes(x), b1)
    <3>1. Cat(c.src, y) = Cat(Bytes(x), b1)
      BY <2>4 DEF b
    <3>2. Good(E, y, g, WriteRun(c, Len(x)))
      BY <1>1, <1>2, <2>1, <2>2, <3>1, WriteRunSpec
    <3> DEFINE n == Len(x)
               e == <<>>
    <3>2a. u = InRun(n, e)
      BY <2>4
    <3> HIDE DEF n, e
    <3>3. u.k = "run" /\ u.n = n /\ u.buf = e
      BY <3>2a, Kinds
    <3>4. c.stop = Going
      BY DEF Mid
    <3> QED BY <3>2, <3>3, <3>4 DEF Resume, RestOfRun, n, e
  <2> QED BY <2>1, <2>3, <2>4
<1>8. CASE PendPart(E, u, b, ws, b1, ws1)
  <2>1. PICK w \in Word, x \in Seq(Word), j \in 1..WordBytes - 1 :
      /\ u = InRun(Len(x), First(w, j)) /\ b = Cat(From(w, j), Cat(Bytes(x), b1))
      /\ ws = Cat(One(w), Cat(x, ws1)) /\ NoEnd(E, Len(ws1), Len(x) + 2)
    BY <1>8, Zenon DEF PendPart
  <2> DEFINE p == First(w, j)
             n == Len(x)
  <2>2a. u = InRun(n, p)
    BY <2>1
  <2> HIDE DEF p, n
  <2>2. u.k = "run" /\ u.buf = p /\ u.n = n
    BY <2>2a, Kinds
  <2>3. c.room # 0
    BY <2>2
  <2>4. p # <<>>
    <3>1. j \in 0..WordBytes /\ 0 \in Nat /\ 0 <= WordBytes - j
      BY SizeFacts
    <3>2. Len(p) = j
      BY <3>1, WordTail DEF p
    <3> QED BY <3>2
  <2>5. /\ Mid(g, c, Cat(One(w), Cat(x, ws1)))
        /\ Cat(c.src, y) = Cat(From(w, j), Cat(Bytes(x), b1))
    BY <2>1 DEF b
  <2>6. Good(E, y, g, RestOfRun(WholeWord(c, First(w, j), InRun(Len(x), p)), Len(x)))
    BY <1>1, <1>2, <2>1, <2>3, <2>5, PartOfRunSpec
  <2>7. Good(E, y, g, RestOfRun(WholeWord(c, p, u), n))
    BY <2>2a, <2>6 DEF p, n
  <2> QED BY <2>2, <2>4, <2>7 DEF Resume
<1> QED BY <1>1, <1>3, <1>4, <1>5, <1>6, <1>7, <1>8

\* An unpacker that has begun nothing stands for the words its bytes are the code of.
LEMMA IdlePends ==
    ASSUME NEW E, NEW b, NEW ws, Pend(E, Idle, b, ws)
    PROVE  Codes(E, b, ws)
<1>1. PICK b1, ws1 :
      /\ Codes(E, b1, ws1)
      /\ \/ Idle = Idle /\ b = b1 /\ ws = ws1
         \/ PendWord(Idle, b, ws, b1, ws1) \/ PendFull(E, Idle, b, ws, b1, ws1)
         \/ PendNulls(E, Idle, b, ws, b1, ws1) \/ PendRun(E, Idle, b, ws, b1, ws1)
         \/ PendPart(E, Idle, b, ws, b1, ws1)
  BY DEF Pend
<1>2. \A x, z : Idle # InWord(x, z) /\ Idle # InFull(x) /\ Idle # InNulls(x) /\ Idle # InRun(x, z)
  BY Kinds
<1>3. Idle # NeedNullCount /\ Idle # NeedFullCount
  BY Kinds
<1>4. ~PendWord(Idle, b, ws, b1, ws1)
  BY <1>2 DEF PendWord
<1>5. ~PendFull(E, Idle, b, ws, b1, ws1)
  BY <1>2 DEF PendFull
<1>6. ~PendNulls(E, Idle, b, ws, b1, ws1)
  BY <1>2, <1>3 DEF PendNulls
<1>7. ~PendRun(E, Idle, b, ws, b1, ws1)
  BY <1>2, <1>3 DEF PendRun
<1>8. ~PendPart(E, Idle, b, ws, b1, ws1)
  BY <1>2 DEF PendPart
<1> QED BY <1>1, <1>4, <1>5, <1>6, <1>7, <1>8

\* A word that is to be read, by its tag.
LEMMA TaggedSpec ==
    ASSUME NEW E, E \subseteq Nat, NEW y \in Seq(Byte), NEW g, NEW c, NEW ws, NEW t \in Seq(Byte),
           NEW h \in Byte, Mid(g, c, ws), c.src = t, c.room # 0,
           Codes(E, Cat(One(h), Cat(t, y)), ws)
    PROVE  Good(E, y, g, Tagged(c, h))
<1> DEFINE a == Cat(t, y)
           b == Cat(One(h), a)
<1>1. a \in Seq(Byte) /\ b # <<>> /\ Head(b) = h /\ Tail(b) = a
  BY CatType, ConsCat
<1>2. Codes(E, b, ws)
  OBVIOUS
<1> HIDE DEF a, b
<1>3. PICK b1, ws1 : CodeStep(E, b, ws, b1, ws1) /\ Codes(E, b1, ws1)
  BY <1>1, <1>2, CodesBegin
<1>4. b1 \in Seq(Byte) /\ ws1 \in Seq(Word)
  BY <1>3, CodesType
<1>5. ASSUME NEW z \in Byte, NEW r \in Seq(Byte), b = Cat(One(z), r)
      PROVE  h = z /\ Cat(c.src, y) = r
  <2>1. Head(Cat(One(z), r)) = z /\ Tail(Cat(One(z), r)) = r
    BY ConsCat
  <2> QED BY <1>1, <1>5, <2>1 DEF a
<1>6. FullTag # 0 /\ FullTag \in Byte /\ 0 \in Byte
  <2>1. WordBytes - 1 \in Nat /\ (WordBytes - 1) + 1 = WordBytes
    BY SizeFacts
  <2> DEFINE m == WordBytes - 1
  <2> HIDE DEF m
  <2>2. m \in Nat /\ m + 1 = WordBytes
    BY <2>1 DEF m
  <2>3. 2^m \in Nat /\ 2^(m + 1) = 2 * 2^m
    BY <2>2, Doubling
  <2>4. 2^(m + 1) = 2^WordBytes
    BY <2>2
  <2> DEFINE k == 2^m
             l == 2^WordBytes
  <2>5. k \in Nat /\ l = 2 * k
    BY <2>3, <2>4
  <2> HIDE DEF k, l
  <2>6. l - 1 # 0
    BY <2>5
  <2> QED BY <2>6, ByteFacts DEF l, FullTag
<1>7. CASE NullStep(E, b, ws, b1, ws1)
  <2>1. PICK n \in 0..MaxRun :
      /\ b = Cat(One(0), Cat(One(n), b1)) /\ ws = Cat(One(NullWord), Cat(Nulls(n), ws1))
      /\ NoEnd(E, Len(ws1), n + 1)
    BY <1>7 DEF NullStep
  <2>2. Cat(One(n), b1) \in Seq(Byte) /\ n \in Nat
    <3>1. n \in Byte /\ n \in Nat
      BY ByteFacts, SizeFacts
    <3>2. One(n) \in Seq(Byte)
      BY <3>1, OneType
    <3> QED BY <1>4, <3>1, <3>2, CatType
  <2>3. h = 0 /\ Cat(c.src, y) = Cat(One(n), b1)
    BY <1>5, <1>6, <2>1, <2>2
  <2> DEFINE o == One(NullWord)
             z == Cat(Nulls(n), ws1)
             d == Write(c, o)
  <2>4. o \in Seq(Word) /\ Len(o) = 1 /\ z \in Seq(Word) /\ Mid(g, c, Cat(o, z))
    BY <1>4, <2>1, <2>2, ByteFacts, OneType, NullsFacts, CatType
  <2>5. Len(o) <= c.room
    <3>1. c.room \in Nat
      BY DEF Mid, Within, Calls
    <3> QED BY <2>4, <3>1
  <2> HIDE DEF o, z
  <2>6. Mid(g, d, z) /\ d.src = c.src /\ d.out = Cat(c.out, o)
    BY <2>4, <2>5, WriteSpec
  <2>6a. EndsNull(d.out)
    <3>1. c.out \in Seq(Word)
      BY DEF Mid, Within, Calls
    <3> QED BY <2>6, <3>1 DEF EndsNull, o
  <2> HIDE DEF d
  <2>7. Mid(g, d, Cat(Nulls(n), ws1)) /\ Cat(d.src, y) = Cat(One(n), b1)
    BY <2>3, <2>6 DEF z
  <2>8. Good(E, y, g, NullCount(d))
    BY <1>3, <1>4, <2>1, <2>6a, <2>7, NullCountSpec
  <2>9. Tagged(c, h) = NullCount(d)
    <3>1. d = Write(c, <<NullWord>>)
      BY DEF d, o, One
    <3>2. h = 0
      BY <2>3
    <3> QED BY <1>6, <3>1, <3>2 DEF Tagged
  <2> QED BY <2>8, <2>9
<1>8. CASE FullStep(E, b, ws, b1, ws1)
  <2>1. PICK w \in Word, x \in Seq(Word) :
      /\ TagOf(w) = FullTag /\ Len(x) <= MaxRun
      /\ b = Cat(One(FullTag), Cat(w, Cat(One(Len(x)), Cat(Bytes(x), b1))))
      /\ ws = Cat(One(w), Cat(x, ws1))
      /\ NoEnd(E, Len(ws1), Len(x) + 1)
    BY <1>8 DEF FullStep
  <2> DEFINE r == Cat(One(Len(x)), Cat(Bytes(x), b1))
  <2>2. r \in Seq(Byte)
    <3>1. Len(x) \in Byte
      BY <2>1, LenProperties, ByteFacts, SizeFacts
    <3>2. One(Len(x)) \in Seq(Byte) /\ Bytes(x) \in Seq(Byte)
      BY <3>1, OneType, BytesFacts
    <3>3. Cat(Bytes(x), b1) \in Seq(Byte)
      BY <1>4, <3>2, CatType
    <3> QED BY <3>2, <3>3, CatType
  <2> HIDE DEF r
  <2>3. w \in Seq(Byte) /\ Len(w) = WordBytes /\ 0 \in 0..WordBytes - 1
    BY WordFacts, SizeFacts
  <2>4. Cat(w, r) \in Seq(Byte)
    BY <2>2, <2>3, CatType
  <2>4a. b = Cat(One(FullTag), Cat(w, r))
    BY <2>1 DEF r
  <2>5. h = FullTag /\ Cat(c.src, y) = Cat(w, r)
    BY <1>5, <1>6, <2>4, <2>4a
  <2>6. First(w, 0) = <<>> /\ From(w, 0) = w
    <3>1. <<>> \in Seq(Byte) /\ Cat(<<>>, w) = w /\ Len(<<>>) = 0
      BY <2>3, CatEmpty
    <3>2. First(Cat(<<>>, w), Len(<<>>)) = <<>> /\ From(Cat(<<>>, w), Len(<<>>)) = w
      BY <2>3, <3>1, CatCut
    <3> QED BY <3>1, <3>2
  <2> DEFINE e == <<>>
  <2>7. Good(E, y, g, FullCount(WholeWord(c, First(w, 0), InFull(e))))
    <3> DEFINE j == 0
    <3>1. Cat(c.src, y) = Cat(From(w, j), Cat(One(Len(x)), Cat(Bytes(x), b1)))
      BY <2>5, <2>6 DEF r
    <3>2. j \in 0..WordBytes - 1 /\ Mid(g, c, Cat(One(w), Cat(x, ws1)))
      BY <2>1, <2>3
    <3> HIDE DEF j, e
    <3>3. Good(E, y, g, FullCount(WholeWord(c, First(w, j), InFull(e))))
      BY <1>3, <1>4, <2>1, <3>1, <3>2, FullWordSpec
    <3> QED BY <3>3 DEF j
  <2>8. Tagged(c, h) = FullCount(WholeWord(c, First(w, 0), InFull(e)))
    BY <1>6, <2>5, <2>6 DEF Tagged
  <2> QED BY <2>7, <2>8
<1>9. CASE WordStep(b, ws, b1, ws1)
  <2>1. PICK w \in Word :
      /\ TagOf(w) # 0 /\ TagOf(w) # FullTag
      /\ b = Cat(One(TagOf(w)), Cat(NonZero(w), b1)) /\ ws = Cat(One(w), ws1)
    BY <1>9 DEF WordStep
  <2>2. TagOf(w) \in Byte /\ NonZero(w) \in Seq(Byte)
    BY ByteFacts
  <2>3. Cat(NonZero(w), b1) \in Seq(Byte)
    BY <1>4, <2>2, CatType
  <2>4. h = TagOf(w) /\ Cat(c.src, y) = Cat(NonZero(w), b1)
    BY <1>5, <2>1, <2>2, <2>3
  <2> DEFINE j == WordBytes
  <2>5. j \in 0..WordBytes /\ TagFrom(w, j) = TagOf(w) /\ BytesFrom(w, j) = NonZero(w)
    BY SizeFacts DEF TagFrom, BytesFrom, TagOf, NonZero
  <2>6. First(w, WordBytes - j) = <<>>
    <3>1. w \in Seq(Byte)
      BY WordFacts
    <3>2. <<>> \in Seq(Byte) /\ Cat(<<>>, w) = w /\ Len(<<>>) = 0
      BY <3>1, CatEmpty
    <3>3. First(Cat(<<>>, w), Len(<<>>)) = <<>>
      BY <3>1, <3>2, CatCut
    <3>4. WordBytes - j = 0
      BY SizeFacts
    <3> QED BY <3>2, <3>3, <3>4
  <2> HIDE DEF j
  <2>7. Mid(g, c, Cat(One(w), ws1)) /\ Cat(c.src, y) = Cat(BytesFrom(w, j), b1)
    BY <2>1, <2>4, <2>5
  <2>8. Good(E, y, g, TaggedWord(c, First(w, WordBytes - j), TagFrom(w, j)))
    BY <1>3, <1>4, <2>5, <2>7, TaggedWordSpec
  <2>9. Tagged(c, h) = TaggedWord(c, First(w, WordBytes - j), TagFrom(w, j))
    BY <2>1, <2>4, <2>5, <2>6 DEF Tagged
  <2> QED BY <2>8, <2>9
<1> QED BY <1>3, <1>7, <1>8, <1>9 DEF CodeStep

\* A turn leaves the call where it may stop, and if it goes on it has read a byte.
LEMMA UnpackTurnSpec ==
    ASSUME NEW E, E \subseteq Nat, NEW y \in Seq(Byte), NEW g, NEW c, Good(E, y, g, c)
    PROVE  /\ Good(E, y, g, UnpackTurn(c))
           /\ UnpackTurn(c).stop = Going =>
                c.stop = Going /\ Len(UnpackTurn(c).src) < Len(c.src)
<1>1. CASE c.stop # Going
  BY <1>1 DEF UnpackTurn
<1>2. CASE c.stop = Going
  <2>1. PICK ws : Within(g, c, ws) /\ Pend(E, c.u, Cat(c.src, y), ws)
    BY DEF Good
  <2>2. Mid(g, c, ws) /\ c.u = Idle
    BY <1>2, <2>1 DEF Good, Mid
  <2>3. Pend(E, Idle, Cat(c.src, y), ws)
    BY <2>1, <2>2
  <2>4. Idle \in Unpackers /\ Idle.k = "none"
    BY KindTypes, Kinds
  <2>5. Codes(E, Cat(c.src, y), ws)
    BY <2>3, IdlePends
  <2>6. c \in Calls /\ c.src \in Seq(Byte)
    BY <2>1 DEF Within, Calls
  <2>7. CASE c.src = <<>>
    <3>1. Good(E, y, g, Stop(c, Idle, "NeedInput"))
      BY <2>2, <2>3, <2>4, <2>7, StopIsGood
    <3>2. UnpackTurn(c) = Stop(c, Idle, "NeedInput")
      BY <1>2, <2>7 DEF UnpackTurn
    <3>3. Stop(c, Idle, "NeedInput").stop # Going
      BY <2>6 DEF Stop, Going, Calls
    <3> QED BY <3>1, <3>2, <3>3
  <2>8. CASE c.src # <<>> /\ c.room = 0
    <3>1. Good(E, y, g, Stop(c, Idle, "NeedOutput"))
      BY <2>2, <2>3, <2>4, <2>8, StopIsGood
    <3>2. UnpackTurn(c) = Stop(c, Idle, "NeedOutput")
      BY <1>2, <2>8 DEF UnpackTurn
    <3>3. Stop(c, Idle, "NeedOutput").stop # Going
      BY <2>6 DEF Stop, Going, Calls
    <3> QED BY <3>1, <3>2, <3>3
  <2>9. CASE c.src # <<>> /\ c.room # 0
    <3> DEFINE s == c.src
               h == Head(s)
               t == Tail(s)
               d == Skip(c, 1)
               f == [src |-> t, room |-> g.room, words |-> g.words]
               r == Tagged(d, h)
    <3>1. h \in Byte /\ t \in Seq(Byte) /\ s = Cat(One(h), t) /\ Len(s) \in Nat /\ Len(t) = Len(s) - 1
      <4> HIDE DEF s
      <4>1. s \in Seq(Byte) /\ s # <<>>
        BY <2>6, <2>9 DEF s
      <4> QED BY <4>1, UnconsCat
    <3> HIDE DEF h, t
    <3>2. Mid(g, d, ws) /\ d.src = t /\ d.room = c.room
      <4>1. c.src = Cat(One(h), t)
        BY <3>1
      <4> QED BY <2>2, <3>1, <4>1, EatHead
    <3>3. f.src = t /\ f.room = g.room /\ f.words = g.words
      OBVIOUS
    <3> HIDE DEF d, f
    <3>4. Mid(f, d, ws)
      <4>1. <<>> \in Seq(Byte) /\ f.src = Cat(<<>>, d.src)
        BY <3>1, <3>2, <3>3, CatEmpty
      <4>2. \E e \in Seq(Byte) : f.src = Cat(e, d.src)
        BY <4>1
      <4> QED BY <3>2, <3>3, <4>2 DEF Mid, Within
    <3>5. Codes(E, Cat(One(h), Cat(t, y)), ws)
      <4>1. Cat(Cat(One(h), t), y) = Cat(One(h), Cat(t, y))
        BY <3>1, OneType, CatAssoc
      <4> QED BY <2>5, <3>1, <4>1
    <3>6. Good(E, y, f, r)
      <4>1. d.src = t /\ d.room # 0
        BY <2>9, <3>2
      <4> QED BY <3>1, <3>4, <3>5, <4>1, TaggedSpec
    <3> HIDE DEF r
    <3>7. PICK e \in Seq(Byte) : g.src = Cat(e, c.src)
      BY <2>1 DEF Within
    <3>8. Cat(e, One(h)) \in Seq(Byte) /\ g.src = Cat(Cat(e, One(h)), f.src)
      <4>1. One(h) \in Seq(Byte)
        BY <3>1, OneType
      <4>2. Cat(e, One(h)) \in Seq(Byte) /\ Cat(e, Cat(One(h), t)) = Cat(Cat(e, One(h)), t)
        BY <3>1, <4>1, CatType, CatAssoc
      <4> QED BY <3>1, <3>3, <3>7, <4>2
    <3>9. Good(E, y, g, r)
      BY <3>3, <3>6, <3>8, Wider
    <3>10. Len(r.src) < Len(c.src)
      <4>1. PICK ws2 : Within(f, r, ws2)
        BY <3>6 DEF Good
      <4>2. PICK a \in Seq(Byte) : f.src = Cat(a, r.src)
        BY <4>1 DEF Within
      <4> DEFINE q == r.src
      <4>3. q \in Seq(Byte) /\ t = Cat(a, q)
        BY <3>3, <4>1, <4>2 DEF Within, Calls
      <4> HIDE DEF q
      <4>4. Len(Cat(a, q)) = Len(a) + Len(q) /\ Len(a) \in Nat /\ Len(q) \in Nat
        BY <4>3, CatLen
      <4>5. Len(t) = Len(a) + Len(q)
        BY <4>3, <4>4
      <4>6. Len(q) < Len(s)
        BY <3>1, <4>4, <4>5
      <4> QED BY <4>6 DEF q
    <3>11. UnpackTurn(c) = r
      BY <1>2, <2>9 DEF UnpackTurn, r, d, h
    <3> QED BY <1>2, <3>9, <3>10, <3>11
  <2> QED BY <2>7, <2>8, <2>9
<1> QED BY <1>1, <1>2

\* The loop of unpack is good in every turn.
LEMMA UnpackLoopSpec ==
    ASSUME NEW E, E \subseteq Nat, NEW y \in Seq(Byte), NEW g, NEW x, Good(E, y, g, x)
    PROVE  Good(E, y, g, UnpackLoop(x)) /\ UnpackLoop(x).stop # Going
<1> DEFINE S == { s \in Calls : Good(E, y, g, s) }
           K == Len(x.src) + 1
           F == [p \in Nat \X S |-> UnpackTurn(p[2])]
           G(h) == [n \in 0..K |-> IF n = 0 THEN x ELSE UnpackTurn(h[n - 1])]
           C == CHOOSE h : h = G(h)
<1>0. \A s : Good(E, y, g, s) => s \in Calls /\ Len(s.src) \in Nat
  BY LenProperties DEF Good, Within, Calls
<1>1. K \in Nat \ {0} /\ Len(x.src) \in Nat /\ K = Len(x.src) + 1
  BY <1>0
<1>2. x \in S
  BY <1>0
<1>3. \A s \in S : /\ UnpackTurn(s) \in S
                   /\ UnpackTurn(s).stop = Going => s.stop = Going /\ Len(UnpackTurn(s).src) < Len(s.src)
  <2> TAKE s \in S
  <2>1. Good(E, y, g, s)
    OBVIOUS
  <2>2. Good(E, y, g, UnpackTurn(s))
        /\ (UnpackTurn(s).stop = Going => s.stop = Going /\ Len(UnpackTurn(s).src) < Len(s.src))
    BY <2>1, UnpackTurnSpec
  <2> QED BY <1>0, <2>2
<1>3a. \A s \in S : Len(s.src) \in Nat /\ Good(E, y, g, s)
  BY <1>0
<1> HIDE DEF S
<1>4. F \in [Nat \X S -> S]
  BY <1>3
<1> HIDE DEF K
<1>5. PICK f \in [0..K -> S] : Follows(f, K, x, F)
  <2> HIDE DEF F
  <2>1. K \in Nat
    BY <1>1
  <2> QED BY <1>2, <1>4, <2>1, FollowsExists
<1>6. \A n \in 0..K : f[n] = IF n = 0 THEN x ELSE F[<<n - 1, f[n - 1]>>]
  <2> HIDE DEF F
  <2> QED BY <1>5 DEF Follows
<1>7. f = G(f)
  <2>1. ASSUME NEW n \in 0..K PROVE f[n] = G(f)[n]
    <3>1. CASE n = 0
      BY <1>6, <3>1
    <3>2. CASE n # 0
      <4>1. n - 1 \in Nat /\ n - 1 \in 0..K
        BY <1>1, <3>2
      <4>2. f[n - 1] \in S
        BY <1>5, <4>1
      <4> QED BY <1>6, <3>2, <4>1, <4>2
    <3> QED BY <3>1, <3>2
  <2>2. f = [n \in 0..K |-> f[n]]
    BY <1>5
  <2> HIDE DEF F
  <2> QED BY <2>1, <2>2
<1>8. C = G(C)
  <2> HIDE DEF G
  <2> QED BY <1>7
<1>9. UnpackLoop(x) = C[K]
  BY Zenon DEF UnpackLoop, K
<1> HIDE DEF C
<1>10. C[0] = x /\ \A n \in Nat : n + 1 <= K => C[n + 1] = UnpackTurn(C[n])
  <2>1. C[0] = x
    BY <1>1, <1>8
  <2>2. ASSUME NEW n \in Nat, n + 1 <= K PROVE C[n + 1] = UnpackTurn(C[n])
    <3>1. n + 1 \in 0..K /\ n + 1 # 0 /\ (n + 1) - 1 = n
      BY <1>1, <2>2
    <3> QED BY <1>8, <3>1
  <2> QED BY <2>1, <2>2
<1> DEFINE U == { n \in Nat : n <= K => /\ C[n] \in S
                                        /\ C[n].stop = Going => Len(C[n].src) + n < K }
<1>11. 0 \in U
  <2>1. x \in S /\ Len(x.src) + 0 < K
    BY <1>1, <1>2
  <2> QED BY <1>10, <2>1
<1>12. ASSUME NEW n \in Nat, n \in U PROVE n + 1 \in U
  <2>1. CASE n + 1 <= K
    <3>1. n <= K
      BY <1>1, <2>1
    <3>2. C[n] \in S /\ (C[n].stop = Going => Len(C[n].src) + n < K)
      BY <1>12, <3>1
    <3> DEFINE s == C[n]
               t == C[n + 1]
    <3>3. t = UnpackTurn(s)
      BY <1>10, <2>1
    <3> HIDE DEF s, t
    <3>4. s \in S /\ (s.stop = Going => Len(s.src) + n < K)
      BY <3>2 DEF s
    <3>5. t \in S /\ (t.stop = Going => s.stop = Going /\ Len(t.src) < Len(s.src))
      BY <1>3, <3>3, <3>4
    <3>6. Len(t.src) \in Nat /\ Len(s.src) \in Nat
      BY <1>3a, <3>4, <3>5
    <3>7. ASSUME t.stop = Going PROVE Len(t.src) + (n + 1) < K
      <4> DEFINE a == Len(t.src)
                 b == Len(s.src)
      <4>1. a \in Nat /\ b \in Nat /\ a < b /\ b + n < K
        BY <3>4, <3>5, <3>6, <3>7
      <4> HIDE DEF a, b
      <4>2. a + (n + 1) < K
        BY <1>1, <4>1
      <4> QED BY <4>2 DEF a
    <3>8. n + 1 \in Nat
      OBVIOUS
    <3>9. C[n + 1] \in S /\ (C[n + 1].stop = Going => Len(C[n + 1].src) + (n + 1) < K)
      BY <3>5, <3>7 DEF t
    <3> DEFINE k == n + 1
    <3>10. C[k] \in S /\ (C[k].stop = Going => Len(C[k].src) + k < K) /\ k \in Nat
      BY <3>8, <3>9
    <3> HIDE DEF k
    <3>11. k \in U
      BY <3>10
    <3> QED BY <3>11 DEF k
  <2>2. CASE ~(n + 1 <= K)
    <3> DEFINE P(m) == C[m] \in S /\ (C[m].stop = Going => Len(C[m].src) + m < K)
    <3>1. U = { m \in Nat : m <= K => P(m) }
      OBVIOUS
    <3>2. n + 1 \in Nat
      OBVIOUS
    <3> HIDE DEF P, U
    <3> DEFINE k == n + 1
    <3>3. k \in Nat /\ ~(k <= K)
      BY <2>2, <3>2
    <3> HIDE DEF k
    <3>4. k \in U
      BY <3>1, <3>3
    <3> QED BY <3>4 DEF k
  <2> QED BY <2>1, <2>2
<1>13. \A n \in Nat : n \in U
  <2> HIDE DEF U
  <2> QED BY <1>11, <1>12, SetInduction
<1>14. C[K] \in S /\ C[K].stop # Going
  <2>1. K \in Nat /\ K <= K
    BY <1>1
  <2>2. C[K] \in S /\ (C[K].stop = Going => Len(C[K].src) + K < K)
    BY <1>13, <2>1
  <2> DEFINE a == Len(C[K].src)
  <2>3. a \in Nat
    BY <1>3a, <2>2
  <2> HIDE DEF a
  <2>4. ~(a + K < K)
    BY <1>1, <2>3
  <2> QED BY <2>2, <2>4 DEF a
<1> QED BY <1>3a, <1>9, <1>14

\* What unpack does with the front src of the bytes that stand for ws: it writes the front of
\* ws, and the state and the bytes it leaves stand for the rest. It does not panic.
Unpacked(E, c, src, room, y, ws, rest) ==
    /\ c.src \in Seq(Byte) /\ c.out \in Seq(Word) /\ c.u \in Unpackers
    /\ c.room \in Nat /\ c.room + Len(c.out) = room
    /\ rest \in Seq(Word) /\ ws = Cat(c.out, rest)
    /\ \E e \in Seq(Byte) : src = Cat(e, c.src)
    /\ Pend(E, c.u, Cat(c.src, y), rest)
    /\ \/ /\ c.stop = "NeedInput" /\ c.src = <<>> /\ c.u.k # "nulls"
          /\ c.room = 0 => c.u.k \notin {"word", "full"}
       \/ /\ c.stop = "NeedOutput" /\ c.room = 0 /\ c.u.k \in {"none", "nulls", "run"}
          /\ c.u.k = "none" => c.src # <<>>
    /\ c.u.k = "nulls" => room = 0 \/ EndsNull(c.out)

\* A call of Unpacker::unpack on any part of the code of some words, with any room, writes
\* the first of these, does not panic, and keeps a state that stands for the others.
THEOREM UnpackSpec ==
    ASSUME NEW E, E \subseteq Nat, NEW u, NEW src \in Seq(Byte), src # <<>>, NEW room \in Nat,
           NEW y \in Seq(Byte), NEW ws \in Seq(Word), Pend(E, u, Cat(src, y), ws),
           room # 0 \/ u.k \in {"none", "nullCount", "fullCount"}
    PROVE  \E rest : Unpacked(E, Unpack(u, src, room), src, room, y, ws, rest)
<1> DEFINE g == [src |-> src, room |-> room, words |-> ws]
           c == Call(src, room)
           x == Resume(c, u)
           r == UnpackLoop(x)
<1>1. /\ c \in Calls /\ c.src = src /\ c.room = room /\ c.out = <<>> /\ c.u = Idle /\ c.stop = Going
  BY KindTypes DEF Call, Calls, Stops3, Idle
<1>2. g.src = src /\ g.room = room /\ g.words = ws
  OBVIOUS
<1> HIDE DEF c, g
<1>3. Mid(g, c, ws)
  <2>1. <<>> \in Seq(Byte) /\ src = Cat(<<>>, src) /\ ws = Cat(<<>>, ws) /\ Len(<<>>) = 0
    BY CatEmpty
  <2>2. \E e \in Seq(Byte) : g.src = Cat(e, c.src)
    BY <1>1, <1>2, <2>1
  <2>3. g.words = Cat(c.out, ws) /\ c.room + Len(c.out) = g.room
    BY <1>1, <1>2, <2>1
  <2> QED BY <1>1, <2>2, <2>3 DEF Mid, Within
<1>4. Good(E, y, g, x)
  <2>1. /\ Pend(E, u, Cat(c.src, y), ws) /\ (c.room # 0 \/ u.k \in {"none", "nullCount", "fullCount"})
        /\ c.room = g.room
    BY <1>1, <1>2
  <2> QED BY <1>3, <2>1, ResumeSpec
<1> HIDE DEF x
<1>5. Good(E, y, g, r) /\ r.stop # Going
  BY <1>4, UnpackLoopSpec
<1>6. Unpack(u, src, room) = r
  BY DEF Unpack, r, x, c
<1> HIDE DEF r
<1>7. PICK rest : Within(g, r, rest) /\ Pend(E, r.u, Cat(r.src, y), rest)
  BY <1>5 DEF Good
<1>8. r \in Calls
  BY <1>7 DEF Within
<1>9. r.stop \in {"NeedInput", "NeedOutput"}
  BY <1>5, <1>8 DEF Calls, Stops3
<1>10. Unpacked(E, r, src, room, y, ws, rest)
  BY <1>2, <1>5, <1>7, <1>8, <1>9 DEF Unpacked, Within, Calls, Good
<1> QED BY <1>6, <1>10

\* Where a run has to end, no run is begun.
LEMMA NotInside ==
    ASSUME NEW E, E \subseteq Nat, NEW m \in Nat, NEW n \in Nat, NEW k \in Nat, NoEnd(E, m, n),
           m < k, k < m + n
    PROVE  k \notin E
BY DEF NoEnd

\* At the end of a slice, the unpacker keeps no words of a run.
LEMMA AtAnEnd ==
    ASSUME NEW E, E \subseteq Nat, NEW u, NEW b, NEW ws, Pend(E, u, b, ws), Len(ws) \in E
    PROVE  u.k \notin {"nulls", "run"}
<1>1. PICK b1, ws1 :
      /\ Codes(E, b1, ws1)
      /\ \/ u = Idle /\ b = b1 /\ ws = ws1
         \/ PendWord(u, b, ws, b1, ws1) \/ PendFull(E, u, b, ws, b1, ws1)
         \/ PendNulls(E, u, b, ws, b1, ws1) \/ PendRun(E, u, b, ws, b1, ws1)
         \/ PendPart(E, u, b, ws, b1, ws1)
  BY DEF Pend
<1>2. ws1 \in Seq(Word) /\ Len(ws1) \in Nat
  BY <1>1, CodesType, LenProperties
<1>3. CASE u = Idle
  BY <1>3, Kinds
<1>4. CASE PendWord(u, b, ws, b1, ws1)
  BY <1>4, Kinds DEF PendWord
<1>5. CASE PendFull(E, u, b, ws, b1, ws1)
  BY <1>5, Kinds DEF PendFull
<1>6. CASE PendNulls(E, u, b, ws, b1, ws1)
  <2>1. PICK n \in Nat :
      /\ u = NeedNullCount \/ (u = InNulls(n) /\ n # 0)
      /\ ws = Cat(Nulls(n), ws1) /\ NoEnd(E, Len(ws1), n + 1)
    BY <1>6 DEF PendNulls
  <2>2. CASE u = NeedNullCount
    BY <2>2, Kinds
  <2>3. CASE n # 0
    <3> DEFINE m == Len(ws1)
               l == n + 1
               k == Len(ws)
    <3>1. Nulls(n) \in Seq(Word) /\ Len(Nulls(n)) = n
      BY NullsFacts
    <3>2. Len(Cat(Nulls(n), ws1)) = Len(Nulls(n)) + Len(ws1)
      BY <1>2, <3>1, CatLen
    <3>3. k = n + m /\ m \in Nat
      BY <1>2, <2>1, <3>1, <3>2
    <3> HIDE DEF m, k
    <3>4. l \in Nat /\ k \in Nat /\ m < k /\ k < m + l
      BY <2>3, <3>3
    <3>5. NoEnd(E, m, l)
      BY <2>1 DEF m
    <3> HIDE DEF l
    <3>6. k \notin E
      BY <3>3, <3>4, <3>5, NotInside
    <3> QED BY <3>6 DEF k
  <2> QED BY <2>1, <2>2, <2>3
<1>7. CASE PendRun(E, u, b, ws, b1, ws1)
  <2>1. PICK x \in Seq(Word) :
      /\ u = NeedFullCount \/ x # <<>>
      /\ ws = Cat(x, ws1) /\ NoEnd(E, Len(ws1), Len(x) + 1)
    BY <1>7 DEF PendRun
  <2>2. CASE u = NeedFullCount
    BY <2>2, Kinds
  <2>3. CASE x # <<>>
    <3> DEFINE m == Len(ws1)
               n == Len(x)
               l == n + 1
               k == Len(ws)
    <3>1. n \in Nat /\ n # 0
      BY <2>3, LenZero
    <3>2. Len(Cat(x, ws1)) = n + m
      BY <1>2, CatLen
    <3>3. k = n + m /\ m \in Nat
      BY <1>2, <2>1, <3>2
    <3> HIDE DEF m, k, n
    <3>4. l \in Nat /\ k \in Nat /\ m < k /\ k < m + l
      BY <3>1, <3>3
    <3>5. NoEnd(E, m, l)
      BY <2>1 DEF m, n
    <3> HIDE DEF l
    <3>6. k \notin E
      BY <3>3, <3>4, <3>5, NotInside
    <3> QED BY <3>6 DEF k
  <2> QED BY <2>1, <2>2, <2>3
<1>8. CASE PendPart(E, u, b, ws, b1, ws1)
  <2>1. PICK w \in Word, x \in Seq(Word) :
      ws = Cat(One(w), Cat(x, ws1)) /\ NoEnd(E, Len(ws1), Len(x) + 2)
    BY <1>8 DEF PendPart
  <2> DEFINE m == Len(ws1)
             n == Len(x)
             l == n + 2
             k == Len(ws)
             z == Cat(x, ws1)
  <2>1a. n \in Nat
    BY LenProperties
  <2>2. z \in Seq(Word) /\ Len(z) = n + m
    BY <1>2, CatLen, CatType
  <2> HIDE DEF z
  <2>3. Len(Cat(One(w), z)) = 1 + Len(z)
    BY <2>2, ConsCat
  <2>4. k = n + m + 1 /\ m \in Nat
    BY <1>2, <2>1, <2>1a, <2>2, <2>3 DEF z
  <2> HIDE DEF m, k, n
  <2>5. l \in Nat /\ k \in Nat /\ m < k /\ k < m + l
    BY <2>1a, <2>4
  <2>6. NoEnd(E, m, l)
    BY <2>1 DEF m, n
  <2> HIDE DEF l
  <2>7. k \notin E
    BY <2>4, <2>5, <2>6, NotInside
  <2> QED BY <2>7 DEF k
<1> QED BY <1>1, <1>3, <1>4, <1>5, <1>6, <1>7, <1>8

\* A concatenation with something in it is not empty.
LEMMA CatSome ==
    ASSUME NEW S, NEW a \in Seq(S), NEW b \in Seq(S), a # <<>> \/ b # <<>>
    PROVE  Cat(a, b) # <<>>
<1>1. Len(a) \in Nat /\ Len(b) \in Nat /\ (Len(a) # 0 \/ Len(b) # 0)
  BY LenZero
<1>2. Len(Cat(a, b)) # 0 /\ Cat(a, b) \in Seq(S)
  BY <1>1, CatLen, CatType
<1> QED BY <1>2, LenZero

\* A tag that is not 0 has bytes to come.
LEMMA SomeBytes ==
    ASSUME NEW w \in Word, NEW n \in 0..WordBytes, TagFrom(w, n) # 0
    PROVE  BytesFrom(w, n) # <<>>
<1> DEFINE U == { k \in Nat : k <= WordBytes => TagFrom(w, k) = 0 \/ BytesFrom(w, k) # <<>> }
<1>0. WordBytes \in Nat
  BY SizeFacts
<1>1. 0 \in U
  BY CodedFacts
<1>2. ASSUME NEW k \in Nat, k \in U PROVE k + 1 \in U
  <2>1. ASSUME k + 1 <= WordBytes PROVE TagFrom(w, k + 1) = 0 \/ BytesFrom(w, k + 1) # <<>>
    <3>1. k \in 0..WordBytes - 1 /\ k \in 0..WordBytes /\ k <= WordBytes
      BY <1>0, <2>1
    <3>2. TagFrom(w, k) = 0 \/ BytesFrom(w, k) # <<>>
      BY <1>2, <3>1
    <3>3. CASE w[WordBytes - k] = 0
      <4>1. TagFrom(w, k + 1) = 2 * TagFrom(w, k) /\ BytesFrom(w, k + 1) = BytesFrom(w, k)
        BY <3>1, <3>3, CodedFacts
      <4> QED BY <3>2, <4>1
    <3>4. CASE w[WordBytes - k] # 0
      <4> DEFINE x == w[WordBytes - k]
                 s == BytesFrom(w, k)
      <4>1. BytesFrom(w, k + 1) = Cat(One(x), s) /\ s \in Seq(Byte)
        BY <3>1, <3>4, CodedFacts
      <4>2. x \in Byte
        <5>1. WordBytes - k \in 1..WordBytes
          BY <1>0, <3>1
        <5> QED BY <5>1, WordFacts
      <4> HIDE DEF x, s
      <4>3. Cat(One(x), s) # <<>>
        BY <4>1, <4>2, ConsCat
      <4> QED BY <4>1, <4>3
    <3> QED BY <3>3, <3>4
  <2> QED BY <2>1
<1>3. n \in U
  <2>1. n \in Nat
    BY <1>0
  <2> HIDE DEF U
  <2> QED BY <1>1, <1>2, <2>1, SetInduction
<1> QED BY <1>0, <1>3

\* No bytes, no words; and no words, no bytes.
LEMMA NothingCoded ==
    ASSUME NEW E, NEW b, NEW ws, Codes(E, b, ws), b = <<>> \/ ws = <<>>
    PROVE  b = <<>> /\ ws = <<>>
<1>1. CASE b = <<>> /\ ws = <<>>
  BY <1>1
<1>2. CASE \E b1, ws1 : CodeStep(E, b, ws, b1, ws1) /\ Codes(E, b1, ws1)
  <2>1. PICK b1, ws1 : CodeStep(E, b, ws, b1, ws1) /\ Codes(E, b1, ws1)
    BY <1>2
  <2>2. b1 \in Seq(Byte) /\ ws1 \in Seq(Word)
    BY <2>1, CodesType
  <2>3. CASE NullStep(E, b, ws, b1, ws1)
    <3>1. PICK n \in 0..MaxRun :
            b = Cat(One(0), Cat(One(n), b1)) /\ ws = Cat(One(NullWord), Cat(Nulls(n), ws1))
      BY <2>3 DEF NullStep
    <3>2. n \in Byte /\ 0 \in Byte /\ NullWord \in Word /\ n \in Nat
      BY ByteFacts
    <3>3. Cat(One(n), b1) \in Seq(Byte)
      BY <2>2, <3>2, ConsCat
    <3>4. Nulls(n) \in Seq(Word)
      BY <3>2, NullsFacts
    <3>5. Cat(Nulls(n), ws1) \in Seq(Word)
      BY <2>2, <3>4, CatType
    <3>6. b # <<>> /\ ws # <<>>
      BY <3>1, <3>2, <3>3, <3>5, ConsCat
    <3> QED BY <3>6
  <2>4. CASE FullStep(E, b, ws, b1, ws1)
    <3>1. PICK w \in Word, x \in Seq(Word) :
            /\ Len(x) <= MaxRun
            /\ b = Cat(One(FullTag), Cat(w, Cat(One(Len(x)), Cat(Bytes(x), b1))))
            /\ ws = Cat(One(w), Cat(x, ws1))
      BY <2>4 DEF FullStep
    <3>2. Len(x) \in Byte /\ FullTag \in Byte /\ w \in Seq(Byte) /\ Bytes(x) \in Seq(Byte)
      <4>1. Len(x) \in 0..MaxRun
        <5>1. Len(x) \in Nat
          BY LenZero
        <5> QED BY <3>1, <5>1
      <4> QED BY <4>1, ByteFacts, WordFacts, BytesFacts
    <3> DEFINE y == Cat(Bytes(x), b1)
               z == Cat(w, Cat(One(Len(x)), y))
    <3>3. y \in Seq(Byte)
      BY <2>2, <3>2, CatType
    <3> HIDE DEF y
    <3>4. Cat(One(Len(x)), y) \in Seq(Byte)
      BY <3>2, <3>3, ConsCat
    <3>5. z \in Seq(Byte)
      BY <3>2, <3>4, CatType
    <3> HIDE DEF z
    <3>6. Cat(One(FullTag), z) # <<>>
      BY <3>2, <3>5, ConsCat
    <3>7. Cat(x, ws1) \in Seq(Word)
      BY <2>2, CatType
    <3>8. ws # <<>>
      BY <3>1, <3>7, ConsCat
    <3> QED BY <3>1, <3>6, <3>8 DEF y, z
  <2>5. CASE WordStep(b, ws, b1, ws1)
    <3>1. PICK w \in Word : b = Cat(One(TagOf(w)), Cat(NonZero(w), b1)) /\ ws = Cat(One(w), ws1)
      BY <2>5 DEF WordStep
    <3>2. TagOf(w) \in Byte /\ NonZero(w) \in Seq(Byte)
      BY ByteFacts
    <3>3. Cat(NonZero(w), b1) \in Seq(Byte)
      BY <2>2, <3>2, CatType
    <3>4. b # <<>> /\ ws # <<>>
      BY <2>2, <3>1, <3>2, <3>3, ConsCat
    <3> QED BY <3>4
  <2> QED BY <2>1, <2>3, <2>4, <2>5 DEF CodeStep
<1> QED BY <1>1, <1>2, CodesBegin

\* Some words have some bytes.
LEMMA BytesSome ==
    ASSUME NEW x \in Seq(Word), x # <<>>
    PROVE  Bytes(x) # <<>> /\ Bytes(x) \in Seq(Byte)
<1>1. Len(Bytes(x)) = WordBytes * Len(x) /\ Bytes(x) \in Seq(Byte)
  BY BytesLen, BytesFacts
<1>2. Len(x) \in Nat /\ Len(x) # 0 /\ WordBytes \in Nat \ {0}
  BY LenZero, SizeFacts
<1>3. WordBytes * Len(x) # 0
  <2> DEFINE n == Len(x) - 1
  <2>1. n \in Nat /\ n + 1 = Len(x)
    BY <1>2
  <2> HIDE DEF n
  <2>2. WordBytes * (n + 1) = WordBytes + WordBytes * n /\ WordBytes * n \in Nat
    BY <1>2, <2>1, Times
  <2> DEFINE q == WordBytes * n
  <2> HIDE DEF q
  <2>3. WordBytes + q # 0
    BY <1>2, <2>2 DEF q
  <2> QED BY <2>1, <2>2, <2>3 DEF q
<1>4. Len(Bytes(x)) # 0
  BY <1>1, <1>3
<1> QED BY <1>1, <1>4, LenZero

\* Where no more bytes come, no words do, but the nulls that are still to be written.
LEMMA NothingPends ==
    ASSUME NEW E, NEW u, NEW ws, Pend(E, u, <<>>, ws), u.k # "nulls"
    PROVE  u = Idle /\ ws = <<>>
<1> DEFINE b == <<>>
<1>0. b = <<>>
  OBVIOUS
<1>1. Pend(E, u, b, ws)
  OBVIOUS
<1> HIDE DEF b
<1>2. PICK b1, ws1 :
      /\ Codes(E, b1, ws1)
      /\ \/ u = Idle /\ b = b1 /\ ws = ws1
         \/ PendWord(u, b, ws, b1, ws1) \/ PendFull(E, u, b, ws, b1, ws1)
         \/ PendNulls(E, u, b, ws, b1, ws1) \/ PendRun(E, u, b, ws, b1, ws1)
         \/ PendPart(E, u, b, ws, b1, ws1)
  BY <1>1 DEF Pend
<1>3. ws1 \in Seq(Word) /\ b1 \in Seq(Byte)
  BY <1>2, CodesType
<1>4. CASE u = Idle /\ b = b1 /\ ws = ws1
  BY <1>0, <1>2, <1>4, NothingCoded
<1>5. CASE PendWord(u, b, ws, b1, ws1)
  <2>1. PICK w \in Word, j \in 0..WordBytes : TagFrom(w, j) # 0 /\ b = Cat(BytesFrom(w, j), b1)
    BY <1>5 DEF PendWord
  <2>2. BytesFrom(w, j) # <<>> /\ BytesFrom(w, j) \in Seq(Byte)
    BY <2>1, SomeBytes, CodedFacts
  <2>3. Cat(BytesFrom(w, j), b1) # <<>>
    BY <1>3, <2>2, CatSome
  <2> QED BY <1>0, <2>1, <2>3
<1>6. ASSUME NEW x \in Seq(Word), Len(x) <= MaxRun
      PROVE  /\ Cat(One(Len(x)), Cat(Bytes(x), b1)) \in Seq(Byte)
             /\ Cat(One(Len(x)), Cat(Bytes(x), b1)) # <<>>
  <2>1. Len(x) \in 0..MaxRun
    <3>1. Len(x) \in Nat
      BY LenZero
    <3> QED BY <1>6, <3>1
  <2>2. Len(x) \in Byte
    BY <2>1, ByteFacts
  <2>3. Cat(Bytes(x), b1) \in Seq(Byte)
    BY <1>3, BytesFacts, CatType
  <2> QED BY <2>2, <2>3, ConsCat
<1>7. CASE PendFull(E, u, b, ws, b1, ws1)
  <2>1. PICK w \in Word, x \in Seq(Word), j \in 0..WordBytes - 1 :
          Len(x) <= MaxRun /\ b = Cat(From(w, j), Cat(One(Len(x)), Cat(Bytes(x), b1)))
    BY <1>7 DEF PendFull
  <2>2. From(w, j) \in Seq(Byte)
    <3>1. j \in 0..WordBytes /\ 0 \in Nat /\ 0 <= WordBytes - j
      BY SizeFacts
    <3> QED BY <3>1, WordTail
  <2> DEFINE y == Cat(One(Len(x)), Cat(Bytes(x), b1))
  <2>3. y \in Seq(Byte) /\ y # <<>>
    BY <1>6, <2>1
  <2> HIDE DEF y
  <2>4. Cat(From(w, j), y) # <<>>
    BY <2>2, <2>3, CatSome
  <2> QED BY <1>0, <2>1, <2>4 DEF y
<1>8. CASE PendNulls(E, u, b, ws, b1, ws1)
  <2>1. PICK n \in Nat :
          (u = NeedNullCount /\ n <= MaxRun /\ b = Cat(One(n), b1)) \/ u = InNulls(n)
    BY <1>8 DEF PendNulls
  <2>2. u # InNulls(n)
    BY Kinds
  <2>3. n \in 0..MaxRun /\ b = Cat(One(n), b1)
    BY <2>1, <2>2
  <2>4. Cat(One(n), b1) # <<>>
    BY <1>3, <2>3, ByteFacts, ConsCat
  <2> QED BY <1>0, <2>3, <2>4
<1>9. CASE PendRun(E, u, b, ws, b1, ws1)
  <2>1. PICK x \in Seq(Word) :
          \/ Len(x) <= MaxRun /\ b = Cat(One(Len(x)), Cat(Bytes(x), b1))
          \/ x # <<>> /\ b = Cat(Bytes(x), b1)
    BY <1>9 DEF PendRun
  <2>2. CASE Len(x) <= MaxRun /\ b = Cat(One(Len(x)), Cat(Bytes(x), b1))
    BY <1>0, <1>6, <2>2
  <2>3. CASE x # <<>> /\ b = Cat(Bytes(x), b1)
    <3>1. Bytes(x) # <<>> /\ Bytes(x) \in Seq(Byte)
      BY <2>3, BytesSome
    <3>2. Cat(Bytes(x), b1) # <<>>
      BY <1>3, <3>1, CatSome
    <3> QED BY <1>0, <2>3, <3>2
  <2> QED BY <2>1, <2>2, <2>3
<1>10. CASE PendPart(E, u, b, ws, b1, ws1)
  <2>1. PICK w \in Word, x \in Seq(Word), j \in 1..WordBytes - 1 :
          b = Cat(From(w, j), Cat(Bytes(x), b1))
    BY <1>10 DEF PendPart
  <2>2. From(w, j) \in Seq(Byte) /\ Len(From(w, j)) = WordBytes - j
    <3>1. j \in 0..WordBytes /\ 0 \in Nat /\ 0 <= WordBytes - j
      BY SizeFacts
    <3> QED BY <3>1, WordTail
  <2>3. From(w, j) # <<>>
    <3>1. WordBytes - j # 0
      BY SizeFacts
    <3> QED BY <2>2, <3>1, LenZero
  <2> DEFINE y == Cat(Bytes(x), b1)
             f == From(w, j)
  <2>4. y \in Seq(Byte)
    BY <1>3, BytesFacts, CatType
  <2> HIDE DEF y, f
  <2>5. Cat(f, y) # <<>>
    BY <2>2, <2>3, <2>4, CatSome DEF f
  <2> QED BY <1>0, <2>1, <2>5 DEF y, f
<1> QED BY <1>2, <1>4, <1>5, <1>7, <1>8, <1>9, <1>10

\* The kind of a state of the unpacker decides which it is.
LEMMA UnpackerKinds ==
    ASSUME NEW u \in Unpackers
    PROVE  /\ u.k \in {"none", "word", "full", "nullCount", "nulls", "fullCount", "run"}
           /\ u.k = "none" <=> u = Idle
BY Kinds DEF Unpackers
=============================================================================
