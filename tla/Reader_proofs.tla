---------------------------- MODULE Reader_proofs ----------------------------
(***************************************************************************)
(* Whatever a message says, and whatever its reader asks for, nothing is   *)
(* read outside of the message, everything is paid for, and no path is     *)
(* longer than the nesting limit.                                          *)
(***************************************************************************)
EXTENDS Reader, TLAPS

(* Elements as the readers meet them: sizes of any length. *)
Size == [data : Nat, ptrs : Nat]
Elem ==
    { Element(e) : e \in PtrElementSize \ {"InlineComposite"} } \cup { Composite(s) : s \in Size }

LEMMA WidthsArePositive == U16 \in Nat \ {0} /\ U32 \in Nat \ {0} /\ U29 \in Nat \ {0}
<1>1. U8 \in Nat /\ U8 >= 4
  BY ByteAssumption
<1>2. U16 \in Nat /\ U16 >= 16
  BY <1>1 DEF U16
<1>3. U32 \in Nat /\ U32 >= 256
  BY <1>2 DEF U32
<1>4. U29 \in Nat /\ U29 >= 32
  BY <1>3 DEF U29
<1> QED BY <1>2, <1>3, <1>4

\* The fields of any word are numbers, and its element size is one of the eight.
LEMMA FieldsOfWords ==
    ASSUME NEW w \in Word
    PROVE  /\ SizeOf(w) \in Size
           /\ CountOf(w) \in Nat /\ TagCount(w) \in Nat
           /\ SegmentOf(w) \in Nat /\ FarOffset(w) \in Nat
           /\ ElementOf(w) \in PtrElementSize
<1>1. w.lo \in Nat /\ w.up \in Nat
  BY WidthsArePositive DEF Word
<1>2. w.up % U16 \in Nat /\ w.up \div U16 \in Nat
  BY <1>1, WidthsArePositive
<1>3. (w.lo \div 4) % U29 \in Nat
  BY <1>1, WidthsArePositive
<1>4. (w.up % 8) + 1 \in 1..8
  BY <1>1
<1>5. ElementOf(w) \in PtrElementSize
  BY <1>4 DEF ElementOf, Codes, PtrElementSize, DataSizes
<1> QED
  BY <1>1, <1>2, <1>3, <1>5 DEF SizeOf, Size, CountOf, TagCount, SegmentOf, FarOffset

LEMMA WordsInSegments ==
    ASSUME NEW x \in Messages, NEW p, NEW n \in Nat, InSegment(x, p, n)
    PROVE  /\ p.s \in DOMAIN x.words /\ p.o \in Nat /\ Len(x.words[p.s]) \in Nat
           /\ p.o + n <= Len(x.words[p.s])
           /\ n > 0 => At(x, p) \in Word
<1>1. x.words \in Seq(Seq(Word))
  BY ReaderAssumption
<1>2. p.s \in DOMAIN x.words /\ p.o \in 0..(Len(x.words[p.s]) - n)
  BY DEF InSegment
<1>3. x.words[p.s] \in Seq(Word)
  BY <1>1, <1>2
<1>4. Len(x.words[p.s]) \in Nat
  BY <1>3
<1>5. p.o \in Nat /\ p.o + n <= Len(x.words[p.s])
  BY <1>2, <1>4
<1>6. n > 0 => p.o + 1 \in 1..Len(x.words[p.s])
  BY <1>4, <1>5
<1>7. n > 0 => At(x, p) \in Word
  BY <1>3, <1>6 DEF At
<1> QED BY <1>2, <1>4, <1>5, <1>7

-----------------------------------------------------------------------------
(* What a read charges. *)

\* What reading n words at p makes of a limit l.
ReadWell(x, l, p, n, r) ==
    /\ r.left \in Nat /\ r.left <= l
    /\ Ok(r) => r.left + n = l /\ r.at = p /\ InSegment(x, p, n)

LEMMA ReadObjectCharges ==
    ASSUME NEW x \in Messages, NEW l \in Nat, NEW p, NEW n \in Nat,
           NEW r, r = ReadObject(x, l, p, n)
    PROVE  ReadWell(x, l, p, n, r)
<1>1. CASE p.s \notin DOMAIN x.words
  <2>1. r = Fail("MissingSegment", l)
    BY <1>1 DEF ReadObject, Fail, InSegment
  <2> QED BY <2>1 DEF Fail, Ok, ReadWell
<1>2. CASE p.s \in DOMAIN x.words /\ ~InSegment(x, p, n)
  <2>1. r = Fail("PointerOutOfBounds", l)
    BY <1>2 DEF ReadObject
  <2> QED BY <2>1 DEF Fail, Ok, ReadWell
<1>3. CASE InSegment(x, p, n) /\ n > l
  <2>1. p.s \in DOMAIN x.words
    BY <1>3 DEF InSegment
  <2>2. r = Fail("ReadLimitExceeded", l)
    BY <1>3, <2>1 DEF ReadObject
  <2> QED BY <2>2 DEF Fail, Ok, ReadWell
<1>4. CASE InSegment(x, p, n) /\ ~(n > l)
  <2>1. p.s \in DOMAIN x.words
    BY <1>4 DEF InSegment
  <2>2. r = [err |-> "", left |-> l - n, at |-> p]
    BY <1>4, <2>1 DEF ReadObject
  <2>3. r.left = l - n /\ r.at = p
    BY ONLY <2>2
  <2>4. l - n \in Nat /\ (l - n) + n = l /\ l - n <= l
    BY <1>4
  <2> QED BY <1>4, <2>3, <2>4 DEF ReadWell
<1> QED BY <1>1, <1>2, <1>3, <1>4 DEF InSegment

(***************************************************************************)
(* The word that describes an object is a word of the message, and finding *)
(* it never gives any of the limit back.                                   *)
(***************************************************************************)
LocatedWell(l, c) ==
    /\ c.left \in Nat /\ c.left <= l
    /\ Ok(c) => c.ptr \in Word /\ c = Located(c.ptr, c.direct, c.at, c.left)

LEMMA LocationCharges ==
    ASSUME NEW x \in Messages, NEW l \in Nat, NEW p, InSegment(x, p, 1),
           NEW c, c = LocationOf(x, l, p)
    PROVE  LocatedWell(l, c)
<1> DEFINE w == At(x, p)
           pad == ReadObject(x, l, PadOf(w), PadLen(w))
           far == At(x, PadOf(w))
<1>1. w \in Word
  BY WordsInSegments
<1>2. PadLen(w) \in {1, 2} /\ PadLen(w) \in Nat /\ (IsDouble(w) => PadLen(w) = 2)
  BY DEF PadLen
<1>3. ReadWell(x, l, PadOf(w), PadLen(w), pad)
  BY <1>2, ReadObjectCharges
<1>4. /\ pad.left \in Nat /\ pad.left <= l
      /\ Ok(pad) => InSegment(x, PadOf(w), PadLen(w))
  BY <1>3 DEF ReadWell
<1>5. CASE Kind(w) # Far
  <2>1. c = Located(w, FALSE, p, l)
    BY <1>5 DEF LocationOf
  <2>2. c.left = l /\ c.ptr = w /\ c = Located(c.ptr, c.direct, c.at, c.left)
    BY ONLY <2>1 DEF Located
  <2> QED BY <1>1, <2>2 DEF LocatedWell
<1>6. CASE Kind(w) = Far /\ ~Ok(pad)
  <2>1. c = pad
    BY <1>6 DEF LocationOf
  <2> QED BY <1>4, <1>6, <2>1 DEF LocatedWell
<1>7. CASE Kind(w) = Far /\ Ok(pad) /\ ~IsDouble(w)
  <2>1. c = Located(far, FALSE, PadOf(w), pad.left)
    BY <1>7 DEF LocationOf
  <2>2. far \in Word
    BY <1>2, <1>4, <1>7, WordsInSegments
  <2>3. c.left = pad.left /\ c.ptr = far /\ c = Located(c.ptr, c.direct, c.at, c.left)
    BY ONLY <2>1 DEF Located
  <2> QED BY <1>4, <2>2, <2>3 DEF LocatedWell
<1>8. CASE Kind(w) = Far /\ Ok(pad) /\ IsDouble(w) /\ Kind(far) # Far
  <2>1. c = Fail("FailedRead", pad.left)
    BY <1>8 DEF LocationOf
  <2>2. c.left = pad.left /\ ~Ok(c)
    BY <2>1 DEF Fail, Ok
  <2> QED BY <1>4, <2>2 DEF LocatedWell
<1>9. CASE Kind(w) = Far /\ Ok(pad) /\ IsDouble(w) /\ Kind(far) = Far
  <2>1. c = Located(At(x, Fwd(PadOf(w), 1)), TRUE, PadOf(far), pad.left)
    BY <1>9 DEF LocationOf
  <2>2. InSegment(x, PadOf(w), 2)
    BY <1>2, <1>4, <1>9
  <2>3. InSegment(x, Fwd(PadOf(w), 1), 1)
    BY <2>2, WordsInSegments DEF InSegment, Fwd, PadOf, Place
  <2>4. At(x, Fwd(PadOf(w), 1)) \in Word
    BY <2>3, WordsInSegments
  <2>5. /\ c.left = pad.left /\ c.ptr = At(x, Fwd(PadOf(w), 1))
        /\ c = Located(c.ptr, c.direct, c.at, c.left)
    BY ONLY <2>1 DEF Located
  <2> QED BY <1>4, <2>4, <2>5 DEF LocatedWell
<1> QED BY <1>5, <1>6, <1>7, <1>8, <1>9

-----------------------------------------------------------------------------
(* Sizes of lists, and where their elements lie. *)

LEMMA WholeWords ==
    ASSUME NEW k \in Nat
    PROVE  DivCeil(k, 64) \in Nat /\ k <= 64 * DivCeil(k, 64) /\ DivCeil(64 * k, 64) = k
BY DEF DivCeil

LEMMA BitsOfElements ==
    ASSUME NEW el \in Elem
    PROVE  /\ Bits(el) \in Nat
           /\ IsComposite(el) => el.size \in Size /\ Total(el.size) \in Nat
                                 /\ Bits(el) = 64 * Total(el.size)
           /\ ~IsComposite(el) => Bits(el) \in {0, 1, 8, 16, 32, 64} /\ el = Element(el.e)
                                  /\ el.e \in PtrElementSize \ {"InlineComposite"}
<1>1. CASE el \in { Element(e) : e \in PtrElementSize \ {"InlineComposite"} }
  <2>1. PICK e \in PtrElementSize \ {"InlineComposite"} : el = Element(e)
    BY <1>1
  <2>2. el.e = e
    BY ONLY <2>1 DEF Element
  <2>3. ~IsComposite(el)
    BY <2>1, <2>2 DEF IsComposite
  <2>4. Bits(el) \in {0, 1, 8, 16, 32, 64}
    BY <2>2, <2>3 DEF Bits, PtrElementSize, DataSizes, IsComposite, Total, WordBits
  <2> QED BY <2>1, <2>2, <2>3, <2>4
<1>2. CASE el \in { Composite(t) : t \in Size }
  <2>1. PICK t \in Size : el = Composite(t)
    BY <1>2
  <2>2. el.e = "InlineComposite" /\ el.size = t
    BY ONLY <2>1 DEF Composite
  <2>3. Total(t) \in Nat
    BY DEF Size, Total
  <2>4. Bits(el) = Total(t) * 64
    BY <2>2 DEF Bits, IsComposite, DataSizes, WordBits
  <2> QED BY <2>2, <2>3, <2>4 DEF IsComposite
<1> QED BY <1>1, <1>2 DEF Elem

LEMMA WordsOfLists ==
    ASSUME NEW el \in Elem, NEW n \in Nat
    PROVE  /\ TotalWords(el, n) \in Nat
           /\ Bits(el) * n <= 64 * TotalWords(el, n)
           /\ IsComposite(el) => TotalWords(el, n) = n * Total(el.size)
<1>1. Bits(el) * n \in Nat
  BY BitsOfElements
<1>2. CASE IsComposite(el)
  <2>1. Total(el.size) \in Nat /\ n * Total(el.size) \in Nat
    BY <1>2, BitsOfElements
  <2>2. Bits(el) * n = 64 * (n * Total(el.size))
    BY <1>2, <2>1, BitsOfElements
  <2> QED BY <1>1, <2>1, <2>2, WholeWords DEF TotalWords, WordBits
<1> QED BY <1>1, <1>2, WholeWords DEF TotalWords, WordBits

\* Where element i of a list begins, in bytes from the start of the list.
ByteIn(el, i) == (Bits(el) * i) \div 8

LEMMA PartsOfElements ==
    ASSUME NEW el \in Elem
    PROVE  /\ BytesOf(el) \in Nat /\ PtrsOf(el) \in Nat
           /\ IsComposite(el) => BytesOf(el) + 8 * PtrsOf(el) = 8 * Total(el.size)
           /\ IsComposite(el) => BytesOf(el) % 8 = 0
           /\ ~IsComposite(el) /\ el.e # "Bit" =>
                Bits(el) = 8 * (BytesOf(el) + 8 * PtrsOf(el))
           /\ ~IsComposite(el) /\ PtrsOf(el) > 0 => BytesOf(el) = 0 /\ Bits(el) = 64
<1>1. CASE IsComposite(el)
  <2>1. el.size \in Size
    BY <1>1, BitsOfElements
  <2>2. el.size.data \in Nat /\ el.size.ptrs \in Nat
    BY <2>1 DEF Size
  <2>3. BytesOf(el) = 8 * el.size.data /\ PtrsOf(el) = el.size.ptrs
    BY <1>1 DEF BytesOf, PtrsOf, WordBytes
  <2> QED BY <1>1, <2>2, <2>3 DEF Total
<1>2. CASE ~IsComposite(el)
  <2>1. el.e \in {"Void", "Bit", "Pointer"} \cup DataSizes
    BY <1>2, BitsOfElements DEF PtrElementSize
  <2>2. CASE el.e = "Pointer"
    BY <1>2, <2>2 DEF BytesOf, PtrsOf, Bits, DataSizes
  <2>3. CASE el.e \in {"Void", "Bit"}
    <3>1. BytesOf(el) = 0 /\ PtrsOf(el) = 0
      BY <1>2, <2>3 DEF BytesOf, PtrsOf, DataSizes
    <3>2. el.e = "Void" => Bits(el) = 0
      BY <1>2, <2>3 DEF Bits, IsComposite, Total, WordBits
    <3> QED BY <1>2, <2>3, <3>1, <3>2
  <2>4. CASE el.e \in DataSizes
    <3>1. Bits(el) \in {8, 16, 32, 64}
      BY <1>2, <2>4 DEF Bits, DataSizes, IsComposite
    <3>2. BytesOf(el) = Bits(el) \div 8 /\ PtrsOf(el) = 0
      BY <1>2, <2>4 DEF BytesOf, PtrsOf, DataSizes
    <3>3. el.e # "Bit"
      BY <2>4 DEF DataSizes
    <3> QED BY <1>2, <3>1, <3>2, <3>3
  <2> QED BY <2>1, <2>2, <2>3, <2>4
<1> QED BY <1>1, <1>2

LEMMA ProductsGrow ==
    ASSUME NEW a \in Nat, NEW n \in Nat, NEW i \in 0..n - 1
    PROVE  a * i \in Nat /\ a * i + a <= a * n
<1>1. i + 1 <= n /\ n - (i + 1) \in Nat
  OBVIOUS
<1>2. a * (n - (i + 1)) \in Nat
  BY <1>1
<1>3. a * n = a * i + a + a * (n - (i + 1))
  OBVIOUS
<1> QED BY <1>2, <1>3

\* An element of a list lies in the words of the list, its pointers on a word.
LEMMA ElementsInside ==
    ASSUME NEW el \in Elem, NEW n \in Nat, NEW i \in 0..n - 1
    PROVE  /\ ByteIn(el, i) \in Nat
           /\ el.e # "Bit" =>
                ByteIn(el, i) + BytesOf(el) + 8 * PtrsOf(el) <= 8 * TotalWords(el, n)
           /\ el.e = "Bit" => i \div 8 \in Nat /\ (i \div 8) + 1 <= 8 * TotalWords(el, n)
           /\ PtrsOf(el) > 0 => (ByteIn(el, i) + BytesOf(el)) % 8 = 0
           /\ PtrsOf(el) > 0 => Bits(el) % 64 = 0 /\ BytesOf(el) % 8 = 0
<1> DEFINE t == Total(el.size)
<1>1. i \in Nat /\ i < n /\ Bits(el) \in Nat /\ TotalWords(el, n) \in Nat
  BY BitsOfElements, WordsOfLists
<1>2. CASE IsComposite(el)
  <2>1. t \in Nat /\ Bits(el) = 64 * t /\ TotalWords(el, n) = n * t
    BY <1>2, BitsOfElements, WordsOfLists
  <2>2. t * i \in Nat /\ t * i + t <= t * n
    BY <2>1, ProductsGrow
  <2>3. Bits(el) * i = 64 * (t * i)
    BY <1>1, <2>1
  <2>4. ByteIn(el, i) = 8 * (t * i)
    BY <2>2, <2>3 DEF ByteIn
  <2>5. el.e # "Bit"
    BY <1>2 DEF IsComposite
  <2>6. BytesOf(el) \in Nat /\ PtrsOf(el) \in Nat
        /\ BytesOf(el) + 8 * PtrsOf(el) = 8 * t /\ BytesOf(el) % 8 = 0
    BY <1>2, PartsOfElements
  <2>7. ByteIn(el, i) + BytesOf(el) + 8 * PtrsOf(el) <= 8 * (t * n)
    BY <2>1, <2>2, <2>4, <2>6
  <2>8. TotalWords(el, n) = t * n
    BY <2>1
  <2>9. (ByteIn(el, i) + BytesOf(el)) % 8 = 0
    BY <2>2, <2>4, <2>6
  <2>10. Bits(el) % 64 = 0
    BY <2>1
  <2> HIDE DEF t
  <2> QED BY <2>2, <2>4, <2>5, <2>6, <2>7, <2>8, <2>9, <2>10
<1>3. CASE ~IsComposite(el) /\ el.e # "Bit"
  <2> DEFINE b == BytesOf(el) + 8 * PtrsOf(el)
  <2>1. BytesOf(el) \in Nat /\ PtrsOf(el) \in Nat /\ b \in Nat /\ Bits(el) = 8 * b
    BY <1>3, PartsOfElements
  <2>2. b * i \in Nat /\ b * i + b <= b * n
    BY <2>1, ProductsGrow
  <2>3. Bits(el) * i = 8 * (b * i) /\ Bits(el) * n = 8 * (b * n) /\ b * n \in Nat
    BY <1>1, <2>1
  <2>4. ByteIn(el, i) = b * i
    BY <2>2, <2>3 DEF ByteIn
  <2>5. b * n <= 8 * TotalWords(el, n)
    BY <1>1, <2>3, WordsOfLists
  <2>6. CASE PtrsOf(el) > 0
    <3>1. BytesOf(el) = 0 /\ Bits(el) = 64 /\ b = 8
      BY <1>3, <2>1, <2>6, PartsOfElements
    <3>2. ByteIn(el, i) = 8 * i /\ (8 * i) % 8 = 0
      BY <1>1, <2>4, <3>1
    <3>3. (ByteIn(el, i) + BytesOf(el)) % 8 = 0
      BY <3>1, <3>2
    <3>4. Bits(el) % 64 = 0 /\ BytesOf(el) % 8 = 0
      BY <3>1
    <3>5. ByteIn(el, i) + BytesOf(el) + 8 * PtrsOf(el) <= 8 * TotalWords(el, n)
      BY <1>1, <2>1, <2>2, <2>4, <2>5
    <3> QED BY <1>3, <3>2, <3>3, <3>4, <3>5
  <2>7. CASE ~(PtrsOf(el) > 0)
    BY <1>1, <1>3, <2>1, <2>2, <2>4, <2>5, <2>7
  <2> QED BY <2>6, <2>7
<1>4. CASE el.e = "Bit"
  <2>1. ~IsComposite(el) /\ Bits(el) = 1
    BY <1>4 DEF IsComposite, Bits, DataSizes
  <2>2. n <= 64 * TotalWords(el, n)
    BY <1>1, <2>1, WordsOfLists
  <2>3. ByteIn(el, i) = i \div 8
    BY <1>1, <2>1 DEF ByteIn
  <2>4. PtrsOf(el) = 0
    BY <1>4, <2>1 DEF PtrsOf
  <2>5. i \div 8 \in Nat /\ (i \div 8) + 1 <= 8 * TotalWords(el, n)
    BY <1>1, <2>2
  <2> QED BY <1>4, <2>3, <2>4, <2>5
<1> QED BY <1>2, <1>3, <1>4

LEMMA PointersOnWords ==
    ASSUME NEW el \in Elem, PtrsOf(el) > 0
    PROVE  Bits(el) % 64 = 0 /\ BytesOf(el) % 8 = 0
<1>1. CASE IsComposite(el)
  BY <1>1, BitsOfElements, PartsOfElements
<1>2. CASE ~IsComposite(el)
  BY <1>2, PartsOfElements
<1> QED BY <1>1, <1>2

-----------------------------------------------------------------------------
(* What is read is in its segment, and costs what it covers. *)

StructWell(x, l, r) ==
    /\ r.left \in Nat /\ r.left <= l
    /\ Ok(r) => /\ r.size \in Size
                /\ r.left + Total(r.size) <= l
                /\ InSegment(x, r.at, Total(r.size))

LEMMA StructsRead ==
    ASSUME NEW x \in Messages, NEW l \in Nat, NEW p, InSegment(x, p, 1)
    PROVE  StructWell(x, l, ReadStruct(x, l, p))
<1>1. PICK c : c = LocationOf(x, l, p)
  OBVIOUS
<1>2. PICK r : r = ReadStruct(x, l, p)
  OBVIOUS
<1>3. r = ReadStructIn(x, c)
  BY <1>1, <1>2 DEF ReadStruct
<1>4. LocatedWell(l, c)
  BY <1>1, LocationCharges
<1>5. c.left \in Nat /\ c.left <= l
  BY <1>4 DEF LocatedWell
<1>6. CASE ~Ok(c)
  <2>1. r = c
    BY <1>3, <1>6 DEF ReadStructIn
  <2> QED BY <1>2, <1>5, <1>6, <2>1 DEF StructWell
<1>7. CASE Ok(c) /\ Kind(c.ptr) # Struct
  <2>1. r = Fail("FailedRead", c.left)
    BY <1>3, <1>7 DEF ReadStructIn
  <2>2. r.left = c.left /\ ~Ok(r)
    BY ONLY <2>1 DEF Fail, Ok
  <2> QED BY <1>2, <1>5, <2>2 DEF StructWell
<1>8. CASE Ok(c) /\ Kind(c.ptr) = Struct
  <2>1. PICK o : o = ReadObject(x, c.left, ContentAt(c), Total(SizeOf(c.ptr)))
    OBVIOUS
  <2>2. SizeOf(c.ptr) \in Size
    BY <1>4, <1>8, FieldsOfWords DEF LocatedWell
  <2>3. Total(SizeOf(c.ptr)) \in Nat
    BY <2>2 DEF Size, Total
  <2>4. ReadWell(x, c.left, ContentAt(c), Total(SizeOf(c.ptr)), o)
    BY <1>5, <2>1, <2>3, ReadObjectCharges
  <2>5. r = ReadStructAt(x, c)
    BY <1>3, <1>8 DEF ReadStructIn
  <2>6. CASE ~Ok(o)
    <3>1. r = o
      BY <2>1, <2>5, <2>6 DEF ReadStructAt
    <3> QED BY <1>2, <1>5, <2>4, <2>6, <3>1 DEF StructWell, ReadWell
  <2>7. CASE Ok(o)
    <3>1. r = [k |-> "struct", err |-> "", left |-> o.left, at |-> o.at, size |-> SizeOf(c.ptr)]
      BY <2>1, <2>5, <2>7 DEF ReadStructAt
    <3>2. r.left = o.left /\ r.at = o.at /\ r.size = SizeOf(c.ptr)
      BY ONLY <3>1
    <3>3. /\ o.left \in Nat /\ o.left + Total(SizeOf(c.ptr)) = c.left
          /\ InSegment(x, o.at, Total(SizeOf(c.ptr)))
      BY <2>4, <2>7 DEF ReadWell
    <3> QED BY <1>2, <1>5, <2>2, <2>3, <3>2, <3>3 DEF StructWell
  <2> QED BY <2>6, <2>7
<1> QED BY <1>6, <1>7, <1>8

ListWell(x, l, r) ==
    /\ r.left \in Nat /\ r.left <= l
    /\ Ok(r) => /\ r.el \in Elem /\ r.n \in Nat
                /\ ListWords(r) \in Nat /\ r.left + ListWords(r) <= l
                /\ InSegment(x, r.at, TotalWords(r.el, r.n))

\* A failure that gives nothing back is as good as any list.
LEMMA FailuresRead ==
    ASSUME NEW x, NEW l \in Nat, NEW e, e # "", NEW k \in Nat, k <= l
    PROVE  ListWell(x, l, Fail(e, k))
<1>1. Fail(e, k).left = k /\ ~Ok(Fail(e, k))
  BY DEF Fail, Ok
<1> QED BY <1>1 DEF ListWell

LEMMA TaggedListsRead ==
    ASSUME NEW x \in Messages, NEW l \in Nat, NEW p, NEW words \in Nat, NEW expected,
           NEW o, ReadWell(x, l, p, words + 1, o), Ok(o), NEW tag \in Word,
           NEW r, r = ReadTagged(o, tag, Composite(SizeOf(tag)), words, expected)
    PROVE  ListWell(x, l, r)
<1> DEFINE n == TagCount(tag)
           el == Composite(SizeOf(tag))
           t == Total(SizeOf(tag))
           listed == Listed(Fwd(o.at, 1), el, n, o.left)
<1>1. SizeOf(tag) \in Size /\ n \in Nat /\ t \in Nat
  BY FieldsOfWords DEF Size, Total
<1>2. /\ o.left \in Nat /\ o.left + words + 1 = l /\ o.left <= l
      /\ InSegment(x, o.at, words + 1)
  BY DEF ReadWell
<1>3. /\ el.e = "InlineComposite" /\ el.size = SizeOf(tag) /\ IsComposite(el)
      /\ IsEmptyElement(el) <=> SizeOf(tag) = Empty
  BY DEF Composite, IsComposite, IsEmptyElement
<1>4. el \in Elem
  BY <1>1 DEF Elem
<1>5. TotalWords(el, n) = n * t /\ n * t \in Nat
  BY <1>1, <1>3, <1>4, WordsOfLists
<1>6. CASE \E e : e # "" /\ r = Fail(e, o.left)
  <2>1. PICK e : e # "" /\ r = Fail(e, o.left)
    BY <1>6
  <2>2. ListWell(x, l, Fail(e, o.left))
    BY <1>2, <2>1, FailuresRead
  <2> QED BY <2>1, <2>2
<1>7. CASE /\ ~Overrun(n, el.size, words)
           /\ r = IF el.size = Empty THEN Amplified(n, listed) ELSE listed
  <2>1. n * t <= words
    BY <1>1, <1>3, <1>5, <1>7 DEF Overrun
  <2>2. InSegment(x, Fwd(o.at, 1), TotalWords(el, n))
    <3>1. PICK k : k = TotalWords(el, n)
      OBVIOUS
    <3>2. k \in Nat /\ k <= words
      BY <1>5, <2>1, <3>1
    <3>3. /\ o.at.s \in DOMAIN x.words /\ o.at.o \in Nat /\ Len(x.words[o.at.s]) \in Nat
          /\ o.at.o + (words + 1) <= Len(x.words[o.at.s])
      BY <1>2, WordsInSegments
    <3>4. Fwd(o.at, 1).s = o.at.s /\ Fwd(o.at, 1).o = o.at.o + 1
      BY <1>2 DEF InSegment, Fwd, Place
    <3>5. InSegment(x, Fwd(o.at, 1), k)
      BY <3>2, <3>3, <3>4 DEF InSegment
    <3> QED BY <3>1, <3>5
  <2>3. CASE SizeOf(tag) # Empty
    <3>1. r = listed
      BY <1>3, <1>7, <2>3
    <3>2. r.left = o.left /\ r.el = el /\ r.n = n /\ r.at = Fwd(o.at, 1)
      BY ONLY <3>1 DEF Listed
    <3>3. ListWords(r) = n * t + 1
      BY <1>3, <1>5, <2>3, <3>2 DEF ListWords, ObjectWords
    <3> QED BY <1>1, <1>2, <1>4, <1>5, <2>1, <2>2, <3>2, <3>3 DEF ListWell
  <2>4. CASE SizeOf(tag) = Empty /\ n > o.left
    <3>1. r = Fail("ReadLimitExceeded", o.left)
      BY <1>3, <1>7, <2>4 DEF Amplified, Listed
    <3>2. ListWell(x, l, Fail("ReadLimitExceeded", o.left))
      BY <1>2, FailuresRead
    <3> QED BY <3>1, <3>2
  <2>5. CASE SizeOf(tag) = Empty /\ ~(n > o.left)
    <3>1. r = [listed EXCEPT !.left = @ - n]
      BY <1>3, <1>7, <2>5 DEF Amplified, Listed
    <3>2. r.left = o.left - n /\ r.el = el /\ r.n = n /\ r.at = Fwd(o.at, 1)
      BY ONLY <3>1 DEF Listed
    <3>3. ListWords(r) = n * t + 1 + n
      BY <1>3, <1>5, <2>5, <3>2 DEF ListWords, ObjectWords
    <3> QED BY <1>1, <1>2, <1>4, <1>5, <2>1, <2>2, <2>5, <3>2, <3>3 DEF ListWell
  <2> QED BY <2>3, <2>4, <2>5
<1> QED BY <1>3, <1>6, <1>7 DEF ReadTagged

LEMMA CompositesRead ==
    ASSUME NEW x \in Messages, NEW l \in Nat, NEW c, LocatedWell(l, c), Ok(c), NEW expected
    PROVE  ListWell(x, l, ReadComposites(x, c, expected))
<1>1. PICK words : words = CountOf(c.ptr)
  OBVIOUS
<1>2. PICK o : o = ReadObject(x, c.left, ContentAt(c), words + 1)
  OBVIOUS
<1>3. PICK r : r = ReadComposites(x, c, expected)
  OBVIOUS
<1>4. c.left \in Nat /\ c.left <= l /\ words \in Nat
  BY <1>1, FieldsOfWords DEF LocatedWell
<1>5. ReadWell(x, c.left, ContentAt(c), words + 1, o)
  BY <1>2, <1>4, ReadObjectCharges
<1>6. CASE words + 1 >= U29
  <2>1. r = Fail("PointerOutOfBounds", c.left)
    BY <1>1, <1>3, <1>4, <1>6, WidthsArePositive DEF ReadComposites
  <2>2. ListWell(x, l, Fail("PointerOutOfBounds", c.left))
    BY <1>4, FailuresRead
  <2> QED BY <1>3, <2>1, <2>2
<1>7. CASE ~(words + 1 >= U29) /\ ~Ok(o)
  <2>1. r = o
    BY <1>1, <1>2, <1>3, <1>4, <1>7, WidthsArePositive DEF ReadComposites
  <2> QED BY <1>3, <1>4, <1>5, <1>7, <2>1 DEF ReadWell, ListWell
<1>8. CASE ~(words + 1 >= U29) /\ Ok(o)
  <2>1. PICK tag : tag = At(x, o.at)
    OBVIOUS
  <2>2. r = ReadTagged(o, tag, Composite(SizeOf(tag)), words, expected)
    BY <1>1, <1>2, <1>3, <1>4, <1>8, <2>1, WidthsArePositive DEF ReadComposites
  <2>3. ReadWell(x, c.left, o.at, words + 1, o)
    BY <1>5, <1>8 DEF ReadWell
  <2>4. tag \in Word
    BY <1>4, <1>8, <2>1, <2>3, WordsInSegments DEF ReadWell
  <2>5. ListWell(x, c.left, r)
    BY <1>4, <1>8, <2>2, <2>3, <2>4, TaggedListsRead
  <2> QED BY <1>3, <1>4, <2>5 DEF ListWell
<1> QED BY <1>6, <1>7, <1>8

LEMMA ElementsRead ==
    ASSUME NEW x \in Messages, NEW l \in Nat, NEW c, LocatedWell(l, c), Ok(c), NEW expected,
           ElementOf(c.ptr) # "InlineComposite"
    PROVE  ListWell(x, l, ReadElements(x, c, expected))
<1> DEFINE el == Element(ElementOf(c.ptr))
           n == CountOf(c.ptr)
           extra == IF el.e = "Void" THEN n ELSE 0
<1>1. PICK limit : limit = IF el.e = "Void" THEN Amplified(n, c) ELSE c
  OBVIOUS
<1>2. PICK o : o = ReadObject(x, limit.left, ContentAt(c), TotalWords(el, n))
  OBVIOUS
<1>3. PICK r : r = ReadElements(x, c, expected)
  OBVIOUS
<1>4. c.left \in Nat /\ c.left <= l /\ n \in Nat /\ ElementOf(c.ptr) \in PtrElementSize
  BY FieldsOfWords DEF LocatedWell
<1>5. el \in Elem
  BY <1>4 DEF Elem
<1>6. TotalWords(el, n) \in Nat
  BY <1>4, <1>5, WordsOfLists
<1>7. el.e = ElementOf(c.ptr)
  BY DEF Element
<1>8. ~IsComposite(el) /\ (IsEmptyElement(el) <=> el.e = "Void")
  BY <1>7 DEF IsComposite, IsEmptyElement, Composite, Element
<1>9. CASE ~Readable(el, expected)
  <2>1. r = Fail("IncompatibleUpgrade", c.left)
    BY <1>3, <1>9 DEF ReadElements
  <2>2. ListWell(x, l, Fail("IncompatibleUpgrade", c.left))
    BY <1>4, FailuresRead
  <2> QED BY <1>3, <2>1, <2>2
<1>10. CASE Readable(el, expected) /\ ~Ok(limit)
  <2>1. r = limit
    BY <1>1, <1>3, <1>10 DEF ReadElements
  <2>2. el.e = "Void" /\ n > c.left /\ limit = Fail("ReadLimitExceeded", c.left)
    BY <1>1, <1>10 DEF Amplified, LocatedWell, Located, Ok
  <2>3. ListWell(x, l, Fail("ReadLimitExceeded", c.left))
    BY <1>4, FailuresRead
  <2> QED BY <1>3, <2>1, <2>2, <2>3
<1>11. CASE Readable(el, expected) /\ Ok(limit)
  <2>1. limit.left = c.left - extra /\ limit.left \in Nat
    <3>1. CASE el.e # "Void"
      BY <1>1, <1>4, <3>1
    <3>2. CASE el.e = "Void" /\ n > c.left
      <4>1. limit = Fail("ReadLimitExceeded", c.left)
        BY <1>1, <3>2 DEF Amplified
      <4> QED BY <1>11, <4>1 DEF Fail, Ok
    <3>3. CASE el.e = "Void" /\ ~(n > c.left)
      <4>1. limit = [c EXCEPT !.left = @ - n]
        BY <1>1, <3>3 DEF Amplified
      <4>2. c = Located(c.ptr, c.direct, c.at, c.left)
        BY DEF LocatedWell
      <4>3. limit.left = c.left - n
        BY ONLY <4>1, <4>2 DEF Located
      <4> QED BY <1>4, <3>3, <4>3
    <3> QED BY <3>1, <3>2, <3>3
  <2>2. ReadWell(x, limit.left, ContentAt(c), TotalWords(el, n), o)
    BY <1>2, <1>6, <2>1, ReadObjectCharges
  <2>3. extra \in Nat
    BY <1>4
  <2>4. CASE ~Ok(o)
    <3>1. r = o
      BY <1>1, <1>2, <1>3, <1>11, <2>4 DEF ReadElements
    <3>2. o.left \in Nat /\ o.left <= l
      BY <1>4, <2>1, <2>2, <2>3 DEF ReadWell
    <3> QED BY <1>3, <2>4, <3>1, <3>2 DEF ListWell
  <2>5. CASE Ok(o)
    <3>1. r = Listed(o.at, el, n, o.left)
      BY <1>1, <1>2, <1>3, <1>11, <2>5 DEF ReadElements
    <3>2. r.left = o.left /\ r.el = el /\ r.n = n /\ r.at = o.at
      BY ONLY <3>1 DEF Listed
    <3>3. /\ o.left \in Nat /\ o.left + TotalWords(el, n) = limit.left
          /\ InSegment(x, o.at, TotalWords(el, n))
      BY <2>2, <2>5 DEF ReadWell
    <3>4. ListWords(r) = TotalWords(el, n) + extra
      BY <1>4, <1>6, <1>8, <3>2 DEF ListWords, ObjectWords
    <3> QED BY <1>3, <1>4, <1>5, <1>6, <2>1, <2>3, <3>2, <3>3, <3>4 DEF ListWell
  <2> QED BY <2>4, <2>5
<1> QED BY <1>9, <1>10, <1>11

LEMMA ListsRead ==
    ASSUME NEW x \in Messages, NEW l \in Nat, NEW p, InSegment(x, p, 1), NEW expected
    PROVE  ListWell(x, l, ReadList(x, l, p, expected))
<1>1. PICK c : c = LocationOf(x, l, p)
  OBVIOUS
<1>2. PICK r : r = ReadList(x, l, p, expected)
  OBVIOUS
<1>3. r = ReadListIn(x, c, expected)
  BY <1>1, <1>2 DEF ReadList
<1>4. LocatedWell(l, c)
  BY <1>1, LocationCharges
<1>5. c.left \in Nat /\ c.left <= l
  BY <1>4 DEF LocatedWell
<1>6. CASE ~Ok(c)
  <2>1. r = c
    BY <1>3, <1>6 DEF ReadListIn
  <2> QED BY <1>2, <1>5, <1>6, <2>1 DEF ListWell
<1>7. CASE Ok(c) /\ Kind(c.ptr) # List
  <2>1. r = Fail("FailedRead", c.left)
    BY <1>3, <1>7 DEF ReadListIn
  <2>2. ListWell(x, l, Fail("FailedRead", c.left))
    BY <1>5, FailuresRead
  <2> QED BY <1>2, <2>1, <2>2
<1>8. CASE Ok(c) /\ Kind(c.ptr) = List
  <2>1. r = ReadListAt(x, c, expected)
    BY <1>3, <1>8 DEF ReadListIn
  <2>2. CASE ElementOf(c.ptr) = "InlineComposite"
    <3>1. r = ReadComposites(x, c, expected)
      BY <2>1, <2>2 DEF ReadListAt
    <3>2. ListWell(x, l, ReadComposites(x, c, expected))
      BY <1>4, <1>8, CompositesRead
    <3> QED BY <1>2, <3>1, <3>2
  <2>3. CASE ElementOf(c.ptr) # "InlineComposite"
    <3>1. r = ReadElements(x, c, expected)
      BY <2>1, <2>3 DEF ReadListAt
    <3>2. ListWell(x, l, ReadElements(x, c, expected))
      BY <1>4, <1>8, <2>3, ElementsRead
    <3> QED BY <1>2, <3>1, <3>2
  <2> QED BY <2>2, <2>3
<1> QED BY <1>6, <1>7, <1>8

BytesIn(n) == TotalWords(Element("Byte"), n)

BlobWell(x, l, r) ==
    /\ r.left \in Nat /\ r.left <= l
    /\ Ok(r) => /\ r.n \in Nat /\ BytesIn(r.n) \in Nat /\ r.n <= 8 * BytesIn(r.n)
                /\ r.left + BytesIn(r.n) <= l
                /\ InSegment(x, r.at, BytesIn(r.n))

LEMMA BytesFit == ASSUME NEW n \in Nat PROVE BytesIn(n) \in Nat /\ n <= 8 * BytesIn(n)
<1>1. Element("Byte") \in Elem
  BY DEF Elem, PtrElementSize, DataSizes
<1>2. Bits(Element("Byte")) = 8
  BY DEF Bits, Element, IsComposite, Empty, Total, WordBits
<1> QED BY <1>1, <1>2, WordsOfLists DEF BytesIn

LEMMA BlobsRead ==
    ASSUME NEW x \in Messages, NEW l \in Nat, NEW p, InSegment(x, p, 1)
    PROVE  BlobWell(x, l, ReadBlob(x, l, p))
<1>1. PICK c : c = LocationOf(x, l, p)
  OBVIOUS
<1>2. PICK r : r = ReadBlob(x, l, p)
  OBVIOUS
<1>3. PICK n : n = CountOf(c.ptr)
  OBVIOUS
<1>4. PICK o : o = ReadObject(x, c.left, ContentAt(c), BytesIn(n))
  OBVIOUS
<1>5. LocatedWell(l, c)
  BY <1>1, LocationCharges
<1>6. c.left \in Nat /\ c.left <= l
  BY <1>5 DEF LocatedWell
<1>7. CASE ~Ok(c)
  <2>1. r = c
    BY <1>1, <1>2, <1>7 DEF ReadBlob, ReadBlobIn
  <2> QED BY <1>2, <1>6, <1>7, <2>1 DEF BlobWell
<1>8. CASE /\ Ok(c)
           /\ \/ Kind(c.ptr) # List
              \/ ElementOf(c.ptr) # "Byte"
  <2>1. \E e \in {"FailedRead", "IncompatibleUpgrade"} : r = Fail(e, c.left)
    BY <1>1, <1>2, <1>8 DEF ReadBlob, ReadBlobIn
  <2>2. PICK e \in {"FailedRead", "IncompatibleUpgrade"} : r = Fail(e, c.left)
    BY <2>1
  <2>3. r.left = c.left /\ r.err = e
    BY ONLY <2>2 DEF Fail
  <2>4. ~Ok(r)
    BY <2>3 DEF Ok
  <2> QED BY <1>2, <1>6, <2>3, <2>4 DEF BlobWell
<1>9. CASE Ok(c) /\ Kind(c.ptr) = List /\ ElementOf(c.ptr) = "Byte"
  <2>1. n \in Nat
    BY <1>3, <1>5, <1>9, FieldsOfWords DEF LocatedWell
  <2>2. BytesIn(n) \in Nat /\ n <= 8 * BytesIn(n)
    BY <2>1, BytesFit
  <2>3. ReadWell(x, c.left, ContentAt(c), BytesIn(n), o)
    BY <1>4, <1>6, <2>2, ReadObjectCharges
  <2>4. r = IF ~Ok(o) THEN o ELSE Listed(o.at, Element("Byte"), n, o.left)
    BY <1>1, <1>2, <1>3, <1>4, <1>9 DEF ReadBlob, ReadBlobIn, BytesIn
  <2>5. CASE ~Ok(o)
    BY <1>2, <1>6, <2>3, <2>4, <2>5 DEF ReadWell, BlobWell
  <2>6. CASE Ok(o)
    <3>1. r = Listed(o.at, Element("Byte"), n, o.left)
      BY <2>4, <2>6
    <3>2. r.left = o.left /\ r.n = n /\ r.at = o.at
      BY ONLY <3>1 DEF Listed
    <3>3. /\ o.left \in Nat /\ o.left + BytesIn(n) = c.left
          /\ InSegment(x, o.at, BytesIn(n))
      BY <2>3, <2>6 DEF ReadWell
    <3> QED BY <1>2, <1>6, <2>1, <2>2, <3>2, <3>3 DEF BlobWell
  <2> QED BY <2>5, <2>6
<1> QED BY <1>7, <1>8, <1>9

-----------------------------------------------------------------------------
(***************************************************************************)
(* The inductive invariant: the reader at hand is sound, that is, all of   *)
(* what it covers is in its segment, on whole words where pointers are,    *)
(* and its nesting is what the path to it has left of the limit.           *)
(***************************************************************************)
Nested(nest, d) == nest \in Nat /\ d + nest <= NestingLimit

InBytes(x, s, byte, n) ==
    /\ s \in DOMAIN x.words /\ byte \in Nat /\ n \in Nat
    /\ Len(x.words[s]) \in Nat /\ byte + n <= 8 * Len(x.words[s])

PtrSound(x, r, d) == InSegment(x, r.at, 1) /\ Nested(r.nest, d)

StructSound(x, r, d) ==
    /\ r.bytes \in Nat /\ r.ptrs \in Nat
    /\ InBytes(x, r.s, r.byte, r.bytes + 8 * r.ptrs)
    /\ r.ptrs > 0 => (r.byte + r.bytes) % 8 = 0
    /\ Nested(r.nest, d)

ListSound(x, r, d) ==
    /\ r.el \in Elem /\ r.n \in Nat /\ InSegment(x, r.at, TotalWords(r.el, r.n))
    /\ Nested(r.nest, d)

BlobSound(x, r, d) ==
    /\ r.n \in Nat /\ InSegment(x, r.at, BytesIn(r.n))
    /\ d <= NestingLimit + 1

Sound(x, r, d) ==
    \/ r = Nothing
    \/ r.k = "ptr" /\ PtrSound(x, r, d)
    \/ r.k = "struct" /\ StructSound(x, r, d)
    \/ r.k = "list" /\ ListSound(x, r, d)
    \/ r.k = "blob" /\ BlobSound(x, r, d)
    \/ r.k = "data" /\ InBytes(x, r.s, r.byte, r.n)

IInv ==
    /\ m \in Messages
    /\ left \in Nat /\ depth \in Nat /\ given \in Nat
    /\ given + left <= TraversalLimit
    /\ Sound(m, cur, depth)

LEMMA SoundOf ==
    ASSUME NEW x, NEW r, NEW d, Sound(x, r, d)
    PROVE  /\ r.k = "ptr" => PtrSound(x, r, d)
           /\ r.k = "struct" => StructSound(x, r, d)
           /\ r.k = "list" => ListSound(x, r, d)
           /\ r.k = "blob" => BlobSound(x, r, d)
           /\ r.k = "data" => InBytes(x, r.s, r.byte, r.n)
           /\ r = Nothing \/ r.k \in {"ptr", "struct", "list", "blob", "data"}
BY DEF Sound, Nothing

LEMMA SoundPtrReader ==
    ASSUME NEW x, NEW d, NEW p, NEW nest, Nested(nest, d), InSegment(x, p, 1)
    PROVE  Sound(x, PtrReader(p, nest), d)
<1>1. PICK r : r = PtrReader(p, nest)
  OBVIOUS
<1>2. r.k = "ptr" /\ r.at = p /\ r.nest = nest
  BY ONLY <1>1 DEF PtrReader
<1>3. Sound(x, r, d)
  BY <1>2 DEF Sound, PtrSound
<1> QED BY <1>1, <1>3

LEMMA SoundStructReader ==
    ASSUME NEW x, NEW d, NEW nest, Nested(nest, d),
           NEW s, NEW byte, NEW bytes \in Nat, NEW ptrs \in Nat,
           InBytes(x, s, byte, bytes + 8 * ptrs), ptrs > 0 => (byte + bytes) % 8 = 0
    PROVE  Sound(x, StructReader(s, byte, bytes, ptrs, nest), d)
<1>1. PICK r : r = StructReader(s, byte, bytes, ptrs, nest)
  OBVIOUS
<1>2. /\ r.k = "struct" /\ r.s = s /\ r.byte = byte /\ r.bytes = bytes
      /\ r.ptrs = ptrs /\ r.nest = nest
  BY ONLY <1>1 DEF StructReader
<1>3. StructSound(x, r, d)
  BY <1>2 DEF StructSound
<1> QED BY <1>1, <1>2, <1>3 DEF Sound

LEMMA SoundListReader ==
    ASSUME NEW x, NEW d, NEW nest, Nested(nest, d), NEW p,
           NEW el \in Elem, NEW n \in Nat, InSegment(x, p, TotalWords(el, n))
    PROVE  Sound(x, ListReader(p, el, n, nest), d)
<1>1. PICK r : r = ListReader(p, el, n, nest)
  OBVIOUS
<1>2. r.k = "list" /\ r.at = p /\ r.el = el /\ r.n = n /\ r.nest = nest
  BY ONLY <1>1 DEF ListReader
<1>3. ListSound(x, r, d)
  BY <1>2 DEF ListSound
<1> QED BY <1>1, <1>2, <1>3 DEF Sound

LEMMA SoundDataReader ==
    ASSUME NEW x, NEW d, NEW s, NEW byte, NEW n, InBytes(x, s, byte, n)
    PROVE  Sound(x, DataReader(s, byte, n), d)
<1>1. PICK r : r = DataReader(s, byte, n)
  OBVIOUS
<1>2. r.k = "data" /\ r.s = s /\ r.byte = byte /\ r.n = n
  BY ONLY <1>1 DEF DataReader
<1> QED BY <1>1, <1>2 DEF Sound

LEMMA WordsOfBytes ==
    ASSUME NEW q \in Nat, NEW n \in Nat, NEW len \in Nat, q + 8 * n <= 8 * len
    PROVE  /\ q \div 8 \in Nat /\ (q \div 8) + n <= len
           /\ q % 8 = 0 => 8 * (q \div 8) = q
OBVIOUS

LEMMA EndsInside ==
    ASSUME NEW o \in Nat, NEW w \in Nat, NEW len \in Nat, o + w <= len,
           NEW b \in Nat, NEW n \in Nat, b + n <= 8 * w
    PROVE  8 * o + b \in Nat /\ (8 * o + b) + n <= 8 * len
OBVIOUS

\* Bytes of the words that have been read.
LEMMA BytesOfWords ==
    ASSUME NEW x \in Messages, NEW p, NEW words \in Nat, InSegment(x, p, words),
           NEW b \in Nat, NEW n \in Nat, b + n <= 8 * words
    PROVE  InBytes(x, p.s, 8 * p.o + b, n)
<1>1. /\ p.s \in DOMAIN x.words /\ p.o \in Nat /\ Len(x.words[p.s]) \in Nat
      /\ p.o + words <= Len(x.words[p.s])
  BY WordsInSegments
<1>2. 8 * p.o + b \in Nat /\ (8 * p.o + b) + n <= 8 * Len(x.words[p.s])
  BY <1>1, EndsInside
<1> QED BY <1>1, <1>2 DEF InBytes

LEMMA GiveKeeps ==
    ASSUME IInv, NEW r, NEW reader, NEW words, Give(r, reader, words),
           r.left \in Nat, r.left <= left,
           Ok(r) => /\ words \in Nat /\ r.left + words <= left
                    /\ Sound(m, reader, depth + 1)
    PROVE  IInv'
<1>1. left' = r.left /\ m' = m
  BY DEF Give
<1>2. CASE Ok(r)
  <2>1. cur' = reader /\ depth' = depth + 1 /\ given' = given + words
    BY <1>2 DEF Give
  <2>2. Sound(m', cur', depth')
    BY <1>1, <1>2, <2>1
  <2>3. given' + left' <= TraversalLimit /\ depth' \in Nat /\ given' \in Nat
    BY <1>1, <1>2, <2>1, ReaderAssumption DEF IInv
  <2> QED BY <1>1, <2>2, <2>3 DEF IInv
<1>3. CASE ~Ok(r)
  <2>1. cur' = Nothing /\ depth' = depth /\ given' = given
    BY <1>3 DEF Give
  <2>2. Sound(m', cur', depth')
    BY <2>1 DEF Sound
  <2>3. given' + left' <= TraversalLimit
    BY <1>1, <2>1, ReaderAssumption DEF IInv
  <2> QED BY <1>1, <2>1, <2>2, <2>3 DEF IInv
<1> QED BY <1>2, <1>3

LEMMA MoveKeeps ==
    ASSUME IInv, NEW reader, Move(reader), Sound(m, reader, depth)
    PROVE  IInv'
<1>1. m' = m /\ left' = left /\ depth' = depth /\ given' = given /\ cur' = reader
  BY DEF Move
<1>2. Sound(m', cur', depth')
  BY <1>1
<1> QED BY <1>1, <1>2 DEF IInv

-----------------------------------------------------------------------------
(* Following the pointer at hand *)

LEMMA RootKeeps == ASSUME IInv, Root PROVE IInv'
<1>1. m' = m /\ left' = left /\ given' = given /\ depth' = 0
  BY DEF Root
<1>2. InSegment(m, Place(1, 0), 1) /\ cur' = PtrReader(Place(1, 0), NestingLimit)
  BY DEF Root
<1>3. Nested(NestingLimit, 0)
  BY ReaderAssumption DEF Nested
<1>4. Sound(m', cur', depth')
  BY <1>1, <1>2, <1>3, SoundPtrReader
<1> QED BY <1>1, <1>4 DEF IInv

\* The pointer at hand is a word of the message, and one level is left for it.
LEMMA AtPointer ==
    ASSUME IInv, IsAt("ptr")
    PROVE  /\ m \in Messages /\ left \in Nat /\ InSegment(m, cur.at, 1)
           /\ Nested(cur.nest, depth) /\ depth \in Nat
           /\ cur.nest > 0 => Nested(Deeper(cur.nest), depth + 1)
<1>1. InSegment(m, cur.at, 1) /\ Nested(cur.nest, depth)
  BY SoundOf DEF IInv, IsAt, PtrSound
<1>2. cur.nest > 0 => Nested(Deeper(cur.nest), depth + 1)
  BY <1>1, ReaderAssumption DEF Nested, Deeper, IInv
<1> QED BY <1>1, <1>2 DEF IInv

LEMMA ToStructKeeps == ASSUME IInv, ToStruct PROVE IInv'
<1>1. PICK r : r = ReadStruct(m, left, cur.at)
  OBVIOUS
<1>2. PICK reader : reader = StructReader(r.at.s, WordBytes * r.at.o, WordBytes * r.size.data,
                                          r.size.ptrs, Deeper(cur.nest))
  OBVIOUS
<1>3. IsAt("ptr") /\ cur.nest > 0 /\ Give(r, reader, Total(r.size))
  BY <1>1, <1>2 DEF ToStruct, NonNull
<1>4. StructWell(m, left, r)
  BY <1>1, <1>3, AtPointer, StructsRead
<1>5. ASSUME Ok(r) PROVE Total(r.size) \in Nat /\ Sound(m, reader, depth + 1)
  <2>1. r.size \in Size /\ InSegment(m, r.at, Total(r.size))
    BY <1>4, <1>5 DEF StructWell
  <2>2. r.size.data \in Nat /\ r.size.ptrs \in Nat /\ Total(r.size) \in Nat
    BY <2>1 DEF Size, Total
  <2>3. InBytes(m, r.at.s, 8 * r.at.o + 0, 8 * r.size.data + 8 * r.size.ptrs)
    <3>1. 8 * r.size.data + 8 * r.size.ptrs \in Nat
      BY <2>2
    <3>2. 0 + (8 * r.size.data + 8 * r.size.ptrs) <= 8 * Total(r.size)
      BY <2>2 DEF Total
    <3> QED BY <1>3, <2>1, <2>2, <3>1, <3>2, AtPointer, BytesOfWords
  <2>4. InBytes(m, r.at.s, 8 * r.at.o, 8 * r.size.data + 8 * r.size.ptrs)
        /\ (8 * r.at.o + 8 * r.size.data) % 8 = 0
    <3>1. r.at.o \in Nat
      BY <1>3, <2>1, <2>2, AtPointer, WordsInSegments
    <3> QED BY <2>2, <2>3, <3>1
  <2>5. Sound(m, StructReader(r.at.s, 8 * r.at.o, 8 * r.size.data, r.size.ptrs,
                              Deeper(cur.nest)), depth + 1)
    BY <1>3, <2>2, <2>4, AtPointer, SoundStructReader
  <2> QED BY <1>2, <2>2, <2>5 DEF WordBytes
<1> QED BY <1>3, <1>4, <1>5, GiveKeeps DEF StructWell

LEMMA ToListKeeps == ASSUME IInv, NEW expected, ToList(expected) PROVE IInv'
<1>1. PICK r : r = ReadList(m, left, cur.at, expected)
  OBVIOUS
<1>2. PICK reader : reader = ListReader(r.at, r.el, r.n, Deeper(cur.nest))
  OBVIOUS
<1>3. IsAt("ptr") /\ cur.nest > 0 /\ Give(r, reader, ListWords(r))
  BY <1>1, <1>2 DEF ToList, NonNull
<1>4. ListWell(m, left, r)
  BY <1>1, <1>3, AtPointer, ListsRead
<1>5. Ok(r) => Sound(m, reader, depth + 1)
  BY <1>2, <1>3, <1>4, AtPointer, SoundListReader DEF ListWell
<1> QED BY <1>3, <1>4, <1>5, GiveKeeps DEF ListWell

LEMMA ToBlobKeeps == ASSUME IInv, ToBlob PROVE IInv'
<1>1. PICK r : r = ReadBlob(m, left, cur.at)
  OBVIOUS
<1>2. PICK reader : reader = BlobReader(r.at, r.n)
  OBVIOUS
<1>3. IsAt("ptr") /\ Give(r, reader, BytesIn(r.n))
  BY <1>1, <1>2 DEF ToBlob, NonNull, BytesIn
<1>4. BlobWell(m, left, r)
  BY <1>1, <1>3, AtPointer, BlobsRead
<1>5. ASSUME Ok(r) PROVE Sound(m, reader, depth + 1)
  <2>1. reader.k = "blob" /\ reader.at = r.at /\ reader.n = r.n
    BY ONLY <1>2 DEF BlobReader
  <2>2. depth + 1 <= NestingLimit + 1
    BY <1>3, AtPointer, ReaderAssumption DEF Nested
  <2>3. BlobSound(m, reader, depth + 1)
    BY <1>4, <1>5, <2>1, <2>2 DEF BlobWell, BlobSound
  <2> QED BY <2>1, <2>3 DEF Sound
<1> QED BY <1>3, <1>4, <1>5, GiveKeeps DEF BlobWell

LEMMA LeafKeeps == ASSUME IInv, Leaf PROVE IInv'
<1>1. Move(Nothing)
  BY DEF Leaf, Move
<1>2. Sound(m, Nothing, depth)
  BY DEF Sound
<1> QED BY <1>1, <1>2, MoveKeeps

-----------------------------------------------------------------------------
(* Inside the object at hand *)

LEMMA AtStruct ==
    ASSUME IInv, IsAt("struct")
    PROVE  m \in Messages /\ StructSound(m, cur, depth)
BY SoundOf DEF IInv, IsAt

LEMMA PtrFieldKeeps == ASSUME IInv, NEW i \in Indexes, PtrField(i) PROVE IInv'
<1> DEFINE p == Place(cur.s, ((cur.byte + cur.bytes) \div WordBytes) + i)
<1>1. IsAt("struct") /\ i < cur.ptrs /\ Move(PtrReader(p, cur.nest))
  BY DEF PtrField
<1>2. /\ cur.bytes \in Nat /\ cur.ptrs \in Nat /\ cur.byte \in Nat /\ i \in Nat
      /\ cur.s \in DOMAIN m.words /\ Len(m.words[cur.s]) \in Nat
      /\ cur.byte + (cur.bytes + 8 * cur.ptrs) <= 8 * Len(m.words[cur.s])
      /\ (cur.byte + cur.bytes) % 8 = 0 /\ Nested(cur.nest, depth)
  BY <1>1, AtStruct, ReaderAssumption DEF StructSound, InBytes
<1>3. /\ ((cur.byte + cur.bytes) \div 8) + i \in Nat
      /\ ((cur.byte + cur.bytes) \div 8) + i <= Len(m.words[cur.s]) - 1
  <2>1. cur.byte + cur.bytes \in Nat
    BY <1>2
  <2>2. (cur.byte + cur.bytes) + 8 * cur.ptrs <= 8 * Len(m.words[cur.s])
    BY <1>2
  <2>3. /\ (cur.byte + cur.bytes) \div 8 \in Nat
        /\ ((cur.byte + cur.bytes) \div 8) + cur.ptrs <= Len(m.words[cur.s])
    BY <1>2, <2>1, <2>2, WordsOfBytes
  <2>4. i \in Nat /\ cur.ptrs \in Nat /\ i < cur.ptrs /\ Len(m.words[cur.s]) \in Nat
    BY <1>1, <1>2
  <2>5. PICK k : k = (cur.byte + cur.bytes) \div 8
    OBVIOUS
  <2>6. k \in Nat /\ k + cur.ptrs <= Len(m.words[cur.s])
    BY <2>3, <2>5
  <2>7. k + i \in Nat /\ k + i <= Len(m.words[cur.s]) - 1
    BY ONLY <2>4, <2>6
  <2> QED BY <2>5, <2>7
<1>4. InSegment(m, p, 1)
  BY <1>2, <1>3 DEF InSegment, Place, WordBytes
<1>5. Sound(m, PtrReader(p, cur.nest), depth)
  BY <1>2, <1>4, SoundPtrReader
<1> QED BY <1>1, <1>5, MoveKeeps

LEMMA PtrSectionKeeps == ASSUME IInv, PtrSection PROVE IInv'
<1> DEFINE p == Place(cur.s, (cur.byte + cur.bytes) \div WordBytes)
<1>1. /\ IsAt("struct")
      /\ Move(ListReader(p, Element("Pointer"), cur.ptrs, cur.nest))
  BY DEF PtrSection
<1>2. /\ cur.bytes \in Nat /\ cur.ptrs \in Nat /\ cur.byte \in Nat
      /\ cur.s \in DOMAIN m.words /\ Len(m.words[cur.s]) \in Nat
      /\ cur.byte + (cur.bytes + 8 * cur.ptrs) <= 8 * Len(m.words[cur.s])
      /\ cur.ptrs > 0 => (cur.byte + cur.bytes) % 8 = 0
      /\ Nested(cur.nest, depth)
  BY <1>1, AtStruct DEF StructSound, InBytes
<1>3. Element("Pointer") \in Elem
  BY DEF Elem, PtrElementSize
<1>4. TotalWords(Element("Pointer"), cur.ptrs) = cur.ptrs
  <2>1. Bits(Element("Pointer")) = 64
    BY DEF Bits, Element, IsComposite, Empty, Total, WordBits, DataSizes
  <2>2. TotalWords(Element("Pointer"), cur.ptrs) = DivCeil(64 * cur.ptrs, 64)
    BY <2>1 DEF TotalWords, WordBits
  <2>3. cur.ptrs \in Nat
    BY <1>2
  <2> QED BY <2>2, <2>3, WholeWords
<1>5. /\ (cur.byte + cur.bytes) \div 8 \in Nat
      /\ (cur.byte + cur.bytes) \div 8 <= Len(m.words[cur.s]) - cur.ptrs
  <2>1. cur.byte + cur.bytes \in Nat
    BY <1>2
  <2>2. (cur.byte + cur.bytes) + 8 * cur.ptrs <= 8 * Len(m.words[cur.s])
    BY <1>2
  <2>3. /\ (cur.byte + cur.bytes) \div 8 \in Nat
        /\ ((cur.byte + cur.bytes) \div 8) + cur.ptrs <= Len(m.words[cur.s])
    BY <1>2, <2>1, <2>2, WordsOfBytes
  <2> QED BY <1>2, <2>3
<1>6. InSegment(m, p, cur.ptrs)
  BY <1>2, <1>5 DEF InSegment, Place, WordBytes
<1>7. Sound(m, ListReader(p, Element("Pointer"), cur.ptrs, cur.nest), depth)
  BY <1>2, <1>3, <1>4, <1>6, SoundListReader
<1> QED BY <1>1, <1>7, MoveKeeps

LEMMA PartsFit ==
    ASSUME NEW a \in Nat, NEW b \in Nat, NEW c \in Nat, NEW len \in Nat, a + (b + 8 * c) <= 8 * len,
           NEW f \in Nat, NEW w \in Nat, f + w <= b
    PROVE  a + f \in Nat /\ (a + f) + w <= 8 * len
OBVIOUS

\* Fields are as wide as FieldWidths says, and no field that begins in the data ends behind it.
LEMMA DataFieldKeeps ==
    ASSUME IInv, NEW slot \in Indexes, NEW width \in FieldWidths, DataField(slot, width)
    PROVE  IInv'
<1>1. /\ IsAt("struct") /\ cur.bytes % width = 0 /\ slot * width < cur.bytes
      /\ Move(DataReader(cur.s, cur.byte + slot * width, width))
  BY DEF DataField
<1>2. /\ cur.bytes \in Nat /\ cur.ptrs \in Nat /\ cur.byte \in Nat /\ slot \in Nat
      /\ cur.s \in DOMAIN m.words /\ Len(m.words[cur.s]) \in Nat
      /\ cur.byte + (cur.bytes + 8 * cur.ptrs) <= 8 * Len(m.words[cur.s])
  BY <1>1, AtStruct, ReaderAssumption DEF StructSound, InBytes
<1>3. slot * width \in Nat /\ width \in Nat /\ slot * width + width <= cur.bytes
  <2>1. PICK b \in Nat : b = cur.bytes
    BY <1>2
  <2>2. b % width = 0 /\ slot * width < b /\ slot \in Nat
    BY <1>1, <1>2, <2>1
  <2>3. width \in {1, 2, 4, 8}
    BY DEF FieldWidths
  <2>4. slot * width \in Nat /\ width \in Nat /\ slot * width + width <= b
    BY ONLY <2>2, <2>3, b \in Nat
  <2> QED BY <2>1, <2>4
<1>4. InBytes(m, cur.s, cur.byte + slot * width, width)
  <2>1. PICK f : f = slot * width
    OBVIOUS
  <2>2. f \in Nat /\ width \in Nat /\ f + width <= cur.bytes
    BY <1>3, <2>1
  <2>3. cur.byte + f \in Nat /\ (cur.byte + f) + width <= 8 * Len(m.words[cur.s])
    BY <1>2, <2>2, PartsFit
  <2>4. InBytes(m, cur.s, cur.byte + f, width)
    BY <1>2, <2>2, <2>3 DEF InBytes
  <2> QED BY <2>1, <2>4
<1> QED BY <1>1, <1>4, SoundDataReader, MoveKeeps

\* The list at hand, and its element i.
LEMMA AtList ==
    ASSUME IInv, IsAt("list"), NEW i \in Indexes, i < cur.n
    PROVE  /\ m \in Messages /\ cur.el \in Elem /\ cur.n \in Nat /\ i \in 0..cur.n - 1
           /\ InSegment(m, cur.at, TotalWords(cur.el, cur.n))
           /\ TotalWords(cur.el, cur.n) \in Nat
           /\ cur.at.o \in Nat /\ Len(m.words[cur.at.s]) \in Nat
           /\ cur.at.s \in DOMAIN m.words
           /\ cur.at.o + TotalWords(cur.el, cur.n) <= Len(m.words[cur.at.s])
           /\ Nested(cur.nest, depth)
           /\ IndexToByte(i) = 8 * cur.at.o + ByteIn(cur.el, i)
<1>1. m \in Messages /\ ListSound(m, cur, depth)
  BY SoundOf DEF IInv, IsAt
<1>2. TotalWords(cur.el, cur.n) \in Nat
  BY <1>1, WordsOfLists DEF ListSound
<1>3. i \in 0..cur.n - 1
  BY <1>1, ReaderAssumption DEF ListSound
<1>4. IndexToByte(i) = 8 * cur.at.o + ByteIn(cur.el, i)
  BY DEF IndexToByte, ByteIn, WordBytes
<1> QED BY <1>1, <1>2, <1>3, <1>4, WordsInSegments DEF ListSound

LEMMA DataAtKeeps == ASSUME IInv, NEW i \in Indexes, DataAt(i) PROVE IInv'
<1> DEFINE n == Smaller(BytesOf(cur.el), WordBytes)
<1>1. /\ IsAt("list") /\ i < cur.n /\ BytesOf(cur.el) # 0
      /\ Move(DataReader(cur.at.s, IndexToByte(i), n))
  BY DEF DataAt
<1>2. cur.el.e # "Bit"
  BY <1>1 DEF BytesOf, IsComposite, DataSizes
<1>3. BytesOf(cur.el) \in Nat /\ PtrsOf(cur.el) \in Nat
  BY <1>1, AtList, PartsOfElements
<1>4. n \in Nat /\ n <= BytesOf(cur.el)
  BY <1>3 DEF Smaller, WordBytes
<1>5. /\ ByteIn(cur.el, i) \in Nat
      /\ ByteIn(cur.el, i) + BytesOf(cur.el) + 8 * PtrsOf(cur.el)
           <= 8 * TotalWords(cur.el, cur.n)
  BY <1>1, <1>2, AtList, ElementsInside
<1>6. ByteIn(cur.el, i) + n <= 8 * TotalWords(cur.el, cur.n)
  <2>1. TotalWords(cur.el, cur.n) \in Nat
    BY <1>1, AtList
  <2> HIDE DEF n
  <2> QED BY <1>3, <1>4, <1>5, <2>1
<1>7. InBytes(m, cur.at.s, IndexToByte(i), n)
  <2> HIDE DEF n
  <2> QED BY <1>1, <1>4, <1>5, <1>6, AtList, BytesOfWords
<1> QED BY <1>1, <1>7, SoundDataReader, MoveKeeps

LEMMA BitAtKeeps == ASSUME IInv, NEW i \in Indexes, BitAt(i) PROVE IInv'
<1>1. /\ IsAt("list") /\ i < cur.n /\ cur.el.e = "Bit"
      /\ Move(DataReader(cur.at.s, WordBytes * cur.at.o + (i \div 8), 1))
  BY DEF BitAt
<1>2. i \div 8 \in Nat /\ (i \div 8) + 1 <= 8 * TotalWords(cur.el, cur.n)
  BY <1>1, AtList, ElementsInside
<1>3. InBytes(m, cur.at.s, 8 * cur.at.o + (i \div 8), 1)
  BY <1>1, <1>2, AtList, BytesOfWords
<1> QED BY <1>1, <1>3, SoundDataReader, MoveKeeps DEF WordBytes

LEMMA StructAtKeeps == ASSUME IInv, NEW i \in Indexes, StructAt(i) PROVE IInv'
<1> DEFINE bytes == BytesOf(cur.el)
           ptrs == PtrsOf(cur.el)
<1>1. /\ IsAt("list") /\ i < cur.n /\ cur.el.e # "Bit"
      /\ Move(StructReader(cur.at.s, IndexToByte(i), bytes, ptrs, Shallower(cur.nest)))
  BY DEF StructAt
<1>2. bytes \in Nat /\ ptrs \in Nat
  BY <1>1, AtList, PartsOfElements
<1>3. /\ ByteIn(cur.el, i) \in Nat
      /\ ByteIn(cur.el, i) + bytes + 8 * ptrs <= 8 * TotalWords(cur.el, cur.n)
      /\ ptrs > 0 => (ByteIn(cur.el, i) + bytes) % 8 = 0
  BY <1>1, AtList, ElementsInside
<1>4. Nested(Shallower(cur.nest), depth)
  BY <1>1, AtList, ReaderAssumption DEF Nested, Shallower, Larger, IInv
<1>5. InBytes(m, cur.at.s, IndexToByte(i), bytes + 8 * ptrs)
  <2>1. bytes + 8 * ptrs \in Nat
    BY <1>2
  <2>2. ByteIn(cur.el, i) + (bytes + 8 * ptrs) <= 8 * TotalWords(cur.el, cur.n)
    <3>1. TotalWords(cur.el, cur.n) \in Nat
      BY <1>1, AtList
    <3> HIDE DEF bytes, ptrs
    <3> QED BY <1>2, <1>3, <3>1
  <2> HIDE DEF bytes, ptrs
  <2> QED BY <1>1, <1>3, <2>1, <2>2, AtList, BytesOfWords
<1>6. ptrs > 0 => (IndexToByte(i) + bytes) % 8 = 0
  <2>1. cur.at.o \in Nat /\ IndexToByte(i) = 8 * cur.at.o + ByteIn(cur.el, i)
    BY <1>1, AtList
  <2> HIDE DEF bytes, ptrs
  <2> QED BY <1>2, <1>3, <2>1
<1>7. Sound(m, StructReader(cur.at.s, IndexToByte(i), bytes, ptrs, Shallower(cur.nest)), depth)
  <2> HIDE DEF bytes, ptrs
  <2> QED BY <1>2, <1>4, <1>5, <1>6, SoundStructReader
<1> QED BY <1>1, <1>7, MoveKeeps

LEMMA WholeWordsAdd ==
    ASSUME NEW a \in Nat, NEW y \in Nat PROVE (8 * a + y) \div 8 = a + (y \div 8)
OBVIOUS

LEMMA PtrAtKeeps == ASSUME IInv, NEW i \in Indexes, PtrAt(i) PROVE IInv'
<1> DEFINE y == ByteIn(cur.el, i) + BytesOf(cur.el)
           o == (IndexToByte(i) + BytesOf(cur.el)) \div WordBytes
<1>1. /\ IsAt("list") /\ i < cur.n /\ PtrsOf(cur.el) # 0
      /\ Move(PtrReader(Place(cur.at.s, o), cur.nest))
  BY DEF PtrAt
<1>2. BytesOf(cur.el) \in Nat /\ PtrsOf(cur.el) \in Nat
  BY <1>1, AtList, PartsOfElements
<1>3. cur.el.e # "Bit"
  BY <1>1 DEF PtrsOf, IsComposite
<1>4. /\ ByteIn(cur.el, i) \in Nat /\ y % 8 = 0
      /\ y + 8 * PtrsOf(cur.el) <= 8 * TotalWords(cur.el, cur.n)
  <2>1. cur.el \in Elem /\ cur.n \in Nat /\ i \in 0..cur.n - 1
    BY <1>1, AtList
  <2>2. PtrsOf(cur.el) > 0
    BY <1>1, <1>2
  <2> QED BY <1>3, <2>1, <2>2, ElementsInside
<1>5. y \in Nat
  BY <1>2, <1>4
<1>6. /\ TotalWords(cur.el, cur.n) \in Nat /\ cur.at.o \in Nat
      /\ Len(m.words[cur.at.s]) \in Nat
      /\ cur.at.o + TotalWords(cur.el, cur.n) <= Len(m.words[cur.at.s])
      /\ IndexToByte(i) = 8 * cur.at.o + ByteIn(cur.el, i)
  BY <1>1, AtList
<1>7. o = cur.at.o + (y \div 8)
  <2>1. IndexToByte(i) + BytesOf(cur.el) = 8 * cur.at.o + y
    <3>1. PICK a : a = cur.at.o
      OBVIOUS
    <3>2. PICK b : b = ByteIn(cur.el, i)
      OBVIOUS
    <3>3. PICK c : c = BytesOf(cur.el)
      OBVIOUS
    <3>4. a \in Nat /\ b \in Nat /\ c \in Nat
      BY <1>2, <1>4, <1>6, <3>1, <3>2, <3>3
    <3>5. (8 * a + b) + c = 8 * a + (b + c)
      BY ONLY <3>4
    <3> QED BY <1>6, <3>1, <3>2, <3>3, <3>5
  <2> HIDE DEF y
  <2> QED BY <1>5, <1>6, <2>1, WholeWordsAdd DEF WordBytes
<1>8. y \div 8 \in Nat /\ (y \div 8) + PtrsOf(cur.el) <= TotalWords(cur.el, cur.n)
  <2> HIDE DEF y
  <2> QED BY <1>2, <1>4, <1>5, <1>6, WordsOfBytes
<1>9. o \in Nat /\ o <= Len(m.words[cur.at.s]) - 1
  <2>1. PICK k : k = y \div 8
    OBVIOUS
  <2> HIDE DEF y, o
  <2>2. o = cur.at.o + k /\ k \in Nat /\ k + PtrsOf(cur.el) <= TotalWords(cur.el, cur.n)
    BY <1>7, <1>8, <2>1
  <2>3. PtrsOf(cur.el) \in Nat /\ PtrsOf(cur.el) # 0
    BY <1>1, <1>2
  <2>4. PICK t : t = TotalWords(cur.el, cur.n)
    OBVIOUS
  <2>5. PICK a : a = cur.at.o
    OBVIOUS
  <2>6. /\ t \in Nat /\ a \in Nat /\ a + t <= Len(m.words[cur.at.s])
        /\ Len(m.words[cur.at.s]) \in Nat
        /\ o = a + k /\ k \in Nat /\ k + PtrsOf(cur.el) <= t
    BY <1>6, <2>2, <2>4, <2>5
  <2> QED BY ONLY <2>3, <2>6
<1>10. InSegment(m, Place(cur.at.s, o), 1)
  <2>1. cur.at.s \in DOMAIN m.words
    BY <1>1, AtList
  <2> HIDE DEF o
  <2> QED BY <1>6, <1>9, <2>1 DEF InSegment, Place
<1>11. Nested(cur.nest, depth)
  BY <1>1, AtList
<1> QED BY <1>1, <1>10, <1>11, SoundPtrReader, MoveKeeps

-----------------------------------------------------------------------------
LEMMA StepsKeep == IInv /\ [Next]_vars => IInv'
<1> SUFFICES ASSUME IInv, [Next]_vars PROVE IInv'
  OBVIOUS
<1>1. CASE Root
  BY <1>1, RootKeeps
<1>2. CASE ToStruct
  BY <1>2, ToStructKeeps
<1>3. CASE ToBlob
  BY <1>3, ToBlobKeeps
<1>4. CASE Leaf
  BY <1>4, LeafKeeps
<1>5. CASE PtrSection
  BY <1>5, PtrSectionKeeps
<1>6. CASE \E expected \in PtrElementSize \cup {AnyElement} : ToList(expected)
  BY <1>6, ToListKeeps
<1>7. ASSUME NEW i \in Indexes,
             \/ PtrField(i) \/ StructAt(i) \/ PtrAt(i) \/ DataAt(i) \/ BitAt(i)
             \/ \E width \in FieldWidths : DataField(i, width)
      PROVE  IInv'
  BY <1>7, PtrFieldKeeps, StructAtKeeps, PtrAtKeeps, DataAtKeeps, BitAtKeeps, DataFieldKeeps
<1>8. CASE UNCHANGED vars
  BY <1>8 DEF vars, IInv
<1> QED BY <1>1, <1>2, <1>3, <1>4, <1>5, <1>6, <1>7, <1>8 DEF Next

LEMMA InitHolds == Init => IInv
BY ReaderAssumption DEF Init, IInv, Sound

LEMMA InvariantHolds == Spec => []IInv
<1>1. Init => IInv
  BY InitHolds
<1>2. IInv /\ [Next]_vars => IInv'
  BY StepsKeep
<1> QED BY <1>1, <1>2, PTL DEF Spec

-----------------------------------------------------------------------------
LEMMA SoundCovers == IInv => InBounds
<1> SUFFICES ASSUME IInv PROVE InBounds
  OBVIOUS
<1> DEFINE e == Extent(cur)
<1>1. m \in Messages /\ Sound(m, cur, depth)
  BY DEF IInv
<1>2. CASE cur = Nothing
  BY <1>2 DEF InBounds, Nothing
<1>3. CASE cur.k = "ptr"
  <2>1. InSegment(m, cur.at, 1)
    BY <1>1, <1>3, SoundOf DEF PtrSound
  <2>2. /\ cur.at.s \in DOMAIN m.words /\ cur.at.o \in Nat
        /\ Len(m.words[cur.at.s]) \in Nat /\ cur.at.o + 1 <= Len(m.words[cur.at.s])
    BY <1>1, <2>1, WordsInSegments
  <2>3. Extent(cur) = [s |-> cur.at.s, from |-> 8 * cur.at.o, bytes |-> 8]
    BY <1>3 DEF Extent, WordBytes
  <2>4. e.s = cur.at.s /\ e.from = 8 * cur.at.o /\ e.bytes = 8
    BY <2>3
  <2> HIDE DEF e
  <2>5. Covers(e.s, e.from, e.from + e.bytes)
    BY <2>2, <2>4 DEF Covers, SegmentBytes, WordBytes
  <2> QED BY <1>3, <2>5 DEF InBounds, e
<1>4. CASE cur.k = "struct"
  <2>1. StructSound(m, cur, depth)
    BY <1>1, <1>4, SoundOf
  <2>2. Extent(cur) = [s |-> cur.s, from |-> cur.byte, bytes |-> cur.bytes + 8 * cur.ptrs]
    BY <1>4 DEF Extent, WordBytes
  <2>3. e.s = cur.s /\ e.from = cur.byte /\ e.bytes = cur.bytes + 8 * cur.ptrs
    BY <2>2
  <2> HIDE DEF e
  <2>4. Covers(e.s, e.from, e.from + e.bytes)
    BY <2>1, <2>3 DEF StructSound, InBytes, Covers, SegmentBytes, WordBytes
  <2>5. cur.ptrs > 0 => (cur.byte + cur.bytes) % WordBytes = 0
    BY <2>1 DEF StructSound, WordBytes
  <2> QED BY <1>4, <2>4, <2>5 DEF InBounds, e
<1>5. CASE cur.k = "list"
  <2>1. ListSound(m, cur, depth)
    BY <1>1, <1>5, SoundOf
  <2>2. PICK t : t = TotalWords(cur.el, cur.n)
    OBVIOUS
  <2>3. t \in Nat /\ InSegment(m, cur.at, t) /\ cur.el \in Elem
    BY <2>1, <2>2, WordsOfLists DEF ListSound
  <2>4. /\ cur.at.s \in DOMAIN m.words /\ cur.at.o \in Nat
        /\ Len(m.words[cur.at.s]) \in Nat /\ cur.at.o + t <= Len(m.words[cur.at.s])
    BY <1>1, <2>3, WordsInSegments
  <2>5. Extent(cur) = [s |-> cur.at.s, from |-> 8 * cur.at.o, bytes |-> 8 * t]
    BY <1>5, <2>2 DEF Extent, WordBytes
  <2>6. e.s = cur.at.s /\ e.from = 8 * cur.at.o /\ e.bytes = 8 * t
    BY <2>5
  <2> HIDE DEF e
  <2>7. Covers(e.s, e.from, e.from + e.bytes)
    <3>1. 8 * cur.at.o + 0 \in Nat /\ (8 * cur.at.o + 0) + 8 * t <= 8 * Len(m.words[cur.at.s])
      <4>1. PICK n : n = 8 * t
        OBVIOUS
      <4>2. n \in Nat /\ 0 + n <= 8 * t
        BY <2>3, <4>1
      <4>3. 8 * cur.at.o + 0 \in Nat /\ (8 * cur.at.o + 0) + n <= 8 * Len(m.words[cur.at.s])
        BY <2>3, <2>4, <4>2, EndsInside
      <4> QED BY <4>1, <4>3
    <3>2. e.from \in Nat /\ e.from + e.bytes <= 8 * Len(m.words[e.s]) /\ e.bytes \in Nat
      BY <2>3, <2>4, <2>6, <3>1
    <3> QED BY <2>4, <2>6, <3>2 DEF Covers, SegmentBytes, WordBytes
  <2>8. PtrsOf(cur.el) > 0 => Bits(cur.el) % (8 * WordBytes) = 0 /\ BytesOf(cur.el) % WordBytes = 0
    BY <2>3, PointersOnWords DEF WordBytes
  <2> QED BY <1>5, <2>7, <2>8 DEF InBounds, e
<1>6. CASE cur.k = "blob"
  <2>1. cur.n \in Nat /\ InSegment(m, cur.at, BytesIn(cur.n))
    BY <1>1, <1>6, SoundOf DEF BlobSound
  <2>2. BytesIn(cur.n) \in Nat /\ cur.n <= 8 * BytesIn(cur.n)
    BY <2>1, BytesFit
  <2>3. /\ cur.at.s \in DOMAIN m.words /\ cur.at.o \in Nat
        /\ Len(m.words[cur.at.s]) \in Nat
        /\ cur.at.o + BytesIn(cur.n) <= Len(m.words[cur.at.s])
    BY <1>1, <2>1, <2>2, WordsInSegments
  <2>4. Extent(cur) = [s |-> cur.at.s, from |-> 8 * cur.at.o, bytes |-> cur.n]
    BY <1>6 DEF Extent, WordBytes
  <2>5. e.s = cur.at.s /\ e.from = 8 * cur.at.o /\ e.bytes = cur.n
    BY <2>4
  <2> HIDE DEF e
  <2>6. 0 + cur.n <= 8 * BytesIn(cur.n)
    BY <2>1, <2>2
  <2>7. 8 * cur.at.o + 0 \in Nat /\ (8 * cur.at.o + 0) + cur.n <= 8 * Len(m.words[cur.at.s])
    BY <2>1, <2>2, <2>3, <2>6, EndsInside
  <2>8. Covers(e.s, e.from, e.from + e.bytes)
    BY <2>1, <2>3, <2>5, <2>7 DEF Covers, SegmentBytes, WordBytes
  <2> QED BY <1>6, <2>8 DEF InBounds, e
<1>7. CASE cur.k = "data"
  <2>1. InBytes(m, cur.s, cur.byte, cur.n)
    BY <1>1, <1>7, SoundOf
  <2>2. Extent(cur) = [s |-> cur.s, from |-> cur.byte, bytes |-> cur.n]
    BY <1>7 DEF Extent
  <2>3. e.s = cur.s /\ e.from = cur.byte /\ e.bytes = cur.n
    BY <2>2
  <2> HIDE DEF e
  <2>4. Covers(e.s, e.from, e.from + e.bytes)
    BY <2>1, <2>3 DEF InBytes, Covers, SegmentBytes, WordBytes
  <2> QED BY <1>7, <2>4 DEF InBounds, e
<1> QED BY <1>1, <1>2, <1>3, <1>4, <1>5, <1>6, <1>7, SoundOf

(***************************************************************************)
(* Whatever the words of a message are, no reader made from it covers      *)
(* anything but words of one of its segments: the bounds checks of         *)
(* ObjectReader in recapn/src/ptr.rs are enough for the unchecked accesses *)
(* of the readers.                                                         *)
(***************************************************************************)
THEOREM ReadersStayInside == Spec => []InBounds
<1>1. IInv => InBounds
  BY SoundCovers
<1> QED BY <1>1, InvariantHolds, PTL

(***************************************************************************)
(* Every walk is paid for: the ReadLimiter of recapn/src/message.rs bounds *)
(* the words, and the elements without a size, that readers ever get.      *)
(***************************************************************************)
THEOREM WalksArePaid == Spec => []LimitPays
<1>1. IInv => LimitPays
  BY DEF IInv, LimitPays
<1> QED BY <1>1, InvariantHolds, PTL

(***************************************************************************)
(* No path into a message is longer than the nesting limit, cycles or not. *)
(***************************************************************************)
THEOREM PathsAreLimited == Spec => []DepthLimited
<1>1. ASSUME IInv PROVE DepthLimited
  <2>1. Sound(m, cur, depth)
    BY <1>1 DEF IInv
  <2>2. cur.k = "ptr" => Nested(cur.nest, depth)
    BY <2>1, SoundOf DEF PtrSound
  <2>3. cur.k = "struct" => Nested(cur.nest, depth)
    BY <2>1, SoundOf DEF StructSound
  <2>4. cur.k = "list" => Nested(cur.nest, depth)
    BY <2>1, SoundOf DEF ListSound
  <2>5. cur.k = "blob" => depth <= NestingLimit + 1
    BY <2>1, SoundOf DEF BlobSound
  <2> QED BY <2>2, <2>3, <2>4, <2>5 DEF DepthLimited, Nested
<1> QED BY <1>1, InvariantHolds, PTL

-----------------------------------------------------------------------------
(***************************************************************************)
(* The facts of sizes, upgrades and pointer words that the builders and    *)
(* readers rely on, for every width of the integers.                       *)
(***************************************************************************)

LEMMA ElementCases ==
    ASSUME NEW x \in ElementSize
    PROVE  /\ x.e \in PtrElementSize /\ x.size \in StructSize
           /\ x = [e |-> x.e, size |-> x.size]
           /\ IsComposite(x) => x = Composite(x.size)
           /\ ~IsComposite(x) => x = Element(x.e)
<1>0. Empty \in StructSize
  BY LayoutAssumption DEF Empty, StructSize
<1>1. CASE \E e \in PtrElementSize : x = Element(e)
  <2>1. PICK e \in PtrElementSize : x = Element(e)
    BY <1>1
  <2> QED BY <1>0, <2>1 DEF Element, Composite, IsComposite, Empty
<1>2. CASE \E s \in StructSize : x = Composite(s)
  <2>1. PICK s \in StructSize : x = Composite(s)
    BY <1>2
  <2> QED BY <2>1 DEF Composite, IsComposite, PtrElementSize
<1> QED BY <1>1, <1>2 DEF ElementSize

LEMMA MaxSizeIsLeast ==
    ASSUME NEW s \in StructSize, NEW t \in StructSize
    PROVE  /\ MaxSize(s, t) \in StructSize
           /\ MaxSize(s, t) = MaxSize(t, s)
           /\ FitsInside(s, MaxSize(s, t)) /\ FitsInside(t, MaxSize(s, t))
           /\ \A u \in StructSize :
                FitsInside(s, u) /\ FitsInside(t, u) => FitsInside(MaxSize(s, t), u)
BY LayoutAssumption DEF StructSize, MaxSize, Larger, FitsInside

LEMMA MaxSizeAbsorbs ==
    ASSUME NEW s \in StructSize, NEW t \in StructSize
    PROVE  MaxSize(MaxSize(s, t), s) = MaxSize(s, t) /\ MaxSize(s, s) = s
BY LayoutAssumption DEF StructSize, MaxSize, Larger

\* upgrade_to "is commutative, and will produce the same upgrade no matter the
\* order of the args" (ptr.rs:950).
THEOREM UpgradeCommutes ==
    ASSUME NEW x \in ElementSize, NEW y \in ElementSize
    PROVE  UpgradeTo(x, y) = UpgradeTo(y, x)
<1>1. x.size \in StructSize /\ y.size \in StructSize
  BY ElementCases
<1>2. MaxSize(x.size, y.size) = MaxSize(y.size, x.size)
  BY <1>1, MaxSizeIsLeast
<1> QED BY <1>2 DEF UpgradeTo, NoUpgrade

\* The upgrade of two sizes has room for both: what is promoted into it loses
\* neither data words nor pointers (promote_list and copy_to_upgraded_list).
THEOREM UpgradeHoldsBoth ==
    ASSUME NEW x \in ElementSize, NEW y \in ElementSize, UpgradeTo(x, y) # NoUpgrade
    PROVE  /\ UpgradeTo(x, y) \in ElementSize
           /\ FitsInside(StructUpgrade(x), StructUpgrade(UpgradeTo(x, y)))
           /\ FitsInside(StructUpgrade(y), StructUpgrade(UpgradeTo(x, y)))
<1>1. /\ x.e \in PtrElementSize /\ y.e \in PtrElementSize
      /\ x.size \in StructSize /\ y.size \in StructSize
  BY ElementCases
<1>2. FitsInside(StructUpgrade(x), StructUpgrade(x)) /\ FitsInside(StructUpgrade(y), StructUpgrade(y))
  BY <1>1, LayoutAssumption
     DEF FitsInside, StructUpgrade, StructSize, PtrElementSize, DataSizes, IsComposite, Empty
<1>3. CASE x = y
  BY <1>2, <1>3 DEF UpgradeTo
<1>4. CASE x # y /\ IsComposite(x) /\ IsComposite(y)
  <2>1. UpgradeTo(x, y) = Composite(MaxSize(x.size, y.size))
    BY <1>4 DEF UpgradeTo
  <2>2. StructUpgrade(x) = x.size /\ StructUpgrade(y) = y.size
    BY <1>4 DEF StructUpgrade, IsComposite, DataSizes
  <2>3. StructUpgrade(UpgradeTo(x, y)) = MaxSize(x.size, y.size)
    BY <2>1 DEF Composite, StructUpgrade, IsComposite, DataSizes
  <2> QED BY <1>1, <2>1, <2>2, <2>3, MaxSizeIsLeast DEF ElementSize
<1>5. CASE x # y /\ IsComposite(x) /\ ~IsComposite(y) /\ StructsHold(x.size, y)
  <2>1. UpgradeTo(x, y) = x /\ StructUpgrade(x) = x.size
    BY <1>5 DEF UpgradeTo, StructUpgrade, IsComposite, DataSizes
  <2>2. FitsInside(StructUpgrade(y), x.size)
    BY <1>1, <1>5, LayoutAssumption
       DEF StructsHold, StructUpgrade, FitsInside, StructSize, PtrElementSize, DataSizes, IsComposite, Empty
  <2> QED BY <1>2, <2>1, <2>2
<1>6. CASE x # y /\ IsComposite(y) /\ ~IsComposite(x) /\ StructsHold(y.size, x)
  <2>1. UpgradeTo(x, y) = y /\ StructUpgrade(y) = y.size
    BY <1>6 DEF UpgradeTo, StructUpgrade, IsComposite, DataSizes
  <2>2. FitsInside(StructUpgrade(x), y.size)
    BY <1>1, <1>6, LayoutAssumption
       DEF StructsHold, StructUpgrade, FitsInside, StructSize, PtrElementSize, DataSizes, IsComposite, Empty
  <2> QED BY <1>2, <2>1, <2>2
<1> QED BY <1>3, <1>4, <1>5, <1>6 DEF UpgradeTo

\* "Attempting to upgrade the result of this function to itself or one of the
\* original inputs will return the same result" (ptr.rs:966): a list that was
\* promoted once is not copied again by the next builder that asks for less.
THEOREM UpgradeIsStable ==
    ASSUME NEW x \in ElementSize, NEW y \in ElementSize, UpgradeTo(x, y) # NoUpgrade
    PROVE  /\ UpgradeTo(UpgradeTo(x, y), x) = UpgradeTo(x, y)
           /\ UpgradeTo(UpgradeTo(x, y), y) = UpgradeTo(x, y)
           /\ UpgradeTo(UpgradeTo(x, y), UpgradeTo(x, y)) = UpgradeTo(x, y)
<1>1. x.size \in StructSize /\ y.size \in StructSize
  BY ElementCases
<1>2. CASE x # y /\ IsComposite(x) /\ IsComposite(y)
  <2> DEFINE z == Composite(MaxSize(x.size, y.size))
  <2>1. UpgradeTo(x, y) = z /\ IsComposite(z) /\ z.size = MaxSize(x.size, y.size)
    BY <1>2 DEF UpgradeTo, Composite, IsComposite
  <2>2. MaxSize(z.size, x.size) = z.size /\ MaxSize(z.size, y.size) = z.size
    BY <1>1, <2>1, MaxSizeAbsorbs, MaxSizeIsLeast
  <2>3. UpgradeTo(z, x) = z /\ UpgradeTo(z, y) = z /\ UpgradeTo(z, z) = z
    BY <1>2, <2>1, <2>2 DEF UpgradeTo, Composite
  <2> QED BY <2>1, <2>3
<1>3. CASE x = y
  BY <1>3 DEF UpgradeTo
<1>4. CASE x # y /\ ~(IsComposite(x) /\ IsComposite(y))
  <2>1. UpgradeTo(x, y) = x \/ UpgradeTo(x, y) = y
    BY <1>4 DEF UpgradeTo
  <2> QED BY <1>4, <2>1, UpgradeCommutes DEF UpgradeTo
<1> QED BY <1>2, <1>3, <1>4

\* max_elements is the longest struct list whose words, with the tag, are a u29:
\* alloc_list's conversions of a list of that length cannot fail.
THEOREM LongestStructListFits ==
    ASSUME NEW s \in StructSize, s # Empty, NEW n \in 0..MaxStructs(s)
    PROVE  n * Total(s) + 1 <= MaxU29
<1> DEFINE t == Total(s)
           q == (MaxU29 - 1) \div t
<1>1. t \in Nat /\ t > 0
  BY LayoutAssumption DEF StructSize, Total, Empty
<1>2. MaxStructs(s) = q /\ MaxU29 - 1 \in Nat
  BY LayoutAssumption DEF MaxStructs
<1> HIDE DEF t
<1>3. q \in Nat /\ q * t <= MaxU29 - 1
  BY <1>1, <1>2
<1>4. n \in Nat /\ n <= q
  BY <1>2, <1>3
<1> HIDE DEF q
<1>5. n * t <= q * t
  BY <1>1, <1>3, <1>4
<1>6. n * t \in Nat /\ q * t \in Nat /\ MaxU29 \in Nat
  BY <1>1, <1>3, <1>4, LayoutAssumption
<1>7. n * t + 1 <= MaxU29
  BY <1>3, <1>5, <1>6
<1> QED BY <1>7 DEF t
-----------------------------------------------------------------------------
(* What is written into a pointer word is what is read from it.            *)

\* The widths of the parts of a word.
LEMMA Widths ==
    /\ U16 \in Nat \ {0} /\ U32 \in Nat \ {0} /\ I30 \in Nat \ {0}
    /\ U32 = 8 * I30 /\ U29 = I30 /\ U32 = U16 * U16 /\ I30 >= 32
<1>1. PICK c \in Nat : U8 = 4 * c /\ c >= 1
  <2>1. U8 = 4 * (U8 \div 4) /\ U8 \div 4 \in Nat /\ U8 \div 4 >= 1
    BY ByteAssumption
  <2> QED BY <2>1
<1>2. DEFINE q == (c * c) * (c * c)
<1>3. c * c \in Nat /\ c * c >= 1
  BY <1>1
<1>4. q \in Nat /\ q >= 1
  BY <1>3
<1>5. U16 = 16 * (c * c)
  BY <1>1 DEF U16
<1>6. U32 = 256 * q
  BY <1>3, <1>5 DEF U32
<1> HIDE DEF q
<1>7. U32 \div 8 = 32 * q
  BY <1>4, <1>6
<1>8. I30 = 32 * q /\ U29 = 32 * q
  BY <1>7 DEF I30, U29
<1>9. I30 \in Nat \ {0} /\ I30 >= 32 /\ U32 = 8 * I30 /\ U32 \in Nat \ {0}
  BY <1>4, <1>6, <1>8
<1>10. U16 \in Nat \ {0}
  BY <1>3, <1>5
<1> QED BY <1>8, <1>9, <1>10 DEF U32

\* Two fields packed into a number are taken out again by division.
LEMMA Unpacked ==
    ASSUME NEW k \in Nat \ {0}, NEW a \in 0..k - 1, NEW b \in Nat
    PROVE  (a + b * k) % k = a /\ (a + b * k) \div k = b
<1>1. b * k \in Nat /\ a + b * k \in Nat
  OBVIOUS
<1> DEFINE d == (a + b * k) \div k
           r == (a + b * k) % k
<1>2. d \in Int /\ r \in 0..k - 1 /\ a + b * k = k * d + r
  BY <1>1
<1> HIDE DEF d, r
<1>3. (d - b) * k = a - r
  BY <1>2
<1>4. d = b
  <2>1. CASE d - b >= 1
    <3>1. (d - b) * k >= k
      BY <1>2, <2>1
    <3> QED BY <1>2, <1>3, <3>1
  <2>2. CASE d - b <= -1
    <3>1. (d - b) * k <= -k
      BY <1>2, <2>2
    <3> QED BY <1>2, <1>3, <3>1
  <2> QED BY <1>2, <2>1, <2>2
<1>5. r = a
  BY <1>2, <1>3, <1>4
<1> QED BY <1>4, <1>5 DEF d, r

\* Of a number above -k, the remainder is the number or, below zero, k more.
LEMMA Wrapped ==
    ASSUME NEW k \in Nat \ {0}, NEW a \in -k..k - 1
    PROVE  a % k = IF a >= 0 THEN a ELSE a + k
<1> DEFINE d == a \div k
           r == a % k
<1>1. d \in Int /\ r \in 0..k - 1 /\ a = k * d + r
  OBVIOUS
<1> HIDE DEF d, r
<1>2. d = 0 \/ d = -1
  <2>1. CASE d >= 1
    <3>1. k * d >= k
      BY <1>1, <2>1
    <3> QED BY <1>1, <3>1
  <2>2. CASE d <= -2
    <3>1. k * d <= -2 * k
      BY <1>1, <2>2
    <3> QED BY <1>1, <3>1
  <2> QED BY <1>1, <2>1, <2>2
<1>3. (d = 0 => r = a) /\ (d = -1 => r = a + k)
  BY <1>1
<1>4. (a >= 0 => d = 0) /\ (a < 0 => d = -1)
  BY <1>1, <1>2, <1>3
<1> QED BY <1>3, <1>4 DEF r

\* An offset of 30 bits, above the two bits of a kind.
LEMMA OffsetsFit ==
    ASSUME NEW off \in -I30..I30 - 1, NEW k \in 0..3
    PROVE  LET lo == ((off * 4) % U32) + k IN
           /\ lo \in 0..U32 - 1 /\ lo % 4 = k /\ Signed(lo) \div 4 = off
           /\ lo = 0 <=> off = 0 /\ k = 0
<1>1. (off * 4) % U32 = IF off >= 0 THEN off * 4 ELSE off * 4 + U32
  <2>1. off * 4 \in -U32..U32 - 1 /\ (off * 4 >= 0 <=> off >= 0) /\ U32 \in Nat \ {0}
    BY Widths
  <2> QED BY <2>1, Wrapped
<1>2. U32 \div 2 = 4 * I30
  BY Widths
<1> DEFINE lo == ((off * 4) % U32) + k
<1>3. CASE off >= 0
  <2>1. lo = 4 * off + k /\ lo < 4 * I30
    BY <1>1, <1>3, Widths
  <2> QED BY <1>2, <1>3, <2>1, Widths DEF Signed
<1>4. CASE off < 0
  <2>1. lo = 4 * (off + 2 * I30) + k /\ lo >= 4 * I30 /\ lo < 8 * I30 /\ lo - U32 = 4 * off + k
    BY <1>1, <1>4, Widths
  <2> QED BY <1>2, <1>4, <2>1, Widths DEF Signed
<1> QED BY <1>3, <1>4

\* The size of a struct, in the upper half.
LEMMA SizesFit ==
    ASSUME NEW s \in Sizes
    PROVE  /\ s.data + s.ptrs * U16 \in 0..U32 - 1
           /\ (s.data + s.ptrs * U16) % U16 = s.data
           /\ (s.data + s.ptrs * U16) \div U16 = s.ptrs
           /\ s.data + s.ptrs * U16 = 0 <=> s = Empty
<1>1. s.data \in 0..U16 - 1 /\ s.ptrs \in 0..U16 - 1 /\ s = [data |-> s.data, ptrs |-> s.ptrs]
  BY DEF Sizes
<1>2. s.ptrs * U16 <= (U16 - 1) * U16 /\ s.ptrs * U16 \in Nat
  BY <1>1, Widths
<1>3. (U16 - 1) * U16 = U32 - U16
  BY Widths
<1>4. s.data + s.ptrs * U16 \in 0..U32 - 1
  BY <1>1, <1>2, <1>3, Widths
<1>5. s.ptrs # 0 => s.ptrs * U16 > 0
  BY <1>1, Widths
<1>6. s.data + s.ptrs * U16 = 0 <=> s = Empty
  BY <1>1, <1>2, <1>5, Widths DEF Empty
<1> QED BY <1>1, <1>4, <1>6, Unpacked, Widths

\* A struct pointer says where its struct is and how large it is, for every offset
\* and size that its fields are wide enough for.  It is a null pointer only if the
\* struct is empty and follows at once, which is why the pointer of an empty struct
\* has the offset -1 (ptr.rs:593).
THEOREM StructPointersAreRead ==
    ASSUME NEW off \in -I30..I30 - 1, NEW s \in Sizes
    PROVE  LET w == StructPtr(off, s) IN
           /\ w \in Word /\ Kind(w) = Struct /\ Offset(w) = off /\ SizeOf(w) = s
           /\ IsNull(w) <=> off = 0 /\ s = Empty
<1> DEFINE w == StructPtr(off, s)
<1>1. w.lo = ((off * 4) % U32) + 0 /\ w.up = s.data + s.ptrs * U16 /\ w = [lo |-> w.lo, up |-> w.up]
  BY Widths DEF StructPtr
<1>2. w.lo \in 0..U32 - 1 /\ w.lo % 4 = 0 /\ Signed(w.lo) \div 4 = off /\ (w.lo = 0 <=> off = 0)
  BY <1>1, OffsetsFit
<1>3. w.up \in 0..U32 - 1 /\ w.up % U16 = s.data /\ w.up \div U16 = s.ptrs /\ (w.up = 0 <=> s = Empty)
  BY <1>1, SizesFit
<1>4. s = [data |-> s.data, ptrs |-> s.ptrs]
  BY DEF Sizes
<1> HIDE DEF w
<1>5. QED
  BY <1>1, <1>2, <1>3, <1>4 DEF w, Word, Kind, Struct, Offset, SizeOf, IsNull, Null

\* The element sizes are numbered from 0 to 7.
LEMMA CodesOfElements ==
    ASSUME NEW e \in PtrElementSize
    PROVE  Code(e) \in 0..7 /\ Codes[Code(e) + 1] = e
<1>1. \E i \in 1..8 : Codes[i] = e
  <2>1. e \in {Codes[1], Codes[2], Codes[3], Codes[4], Codes[5], Codes[6], Codes[7], Codes[8]}
    BY DEF Codes, PtrElementSize, DataSizes
  <2> QED BY <2>1
<1> DEFINE i == CHOOSE j \in 1..8 : Codes[j] = e
<1>2. i \in 1..8 /\ Codes[i] = e
  BY <1>1
<1>3. Code(e) = i - 1
  BY DEF Code
<1> HIDE DEF i
<1>4. Code(e) + 1 = i
  BY <1>2, <1>3
<1> QED BY <1>2, <1>3, <1>4

\* A list pointer says where its list is, what its elements are and how many.
THEOREM ListPointersAreRead ==
    ASSUME NEW off \in -I30..I30 - 1, NEW e \in PtrElementSize, NEW n \in 0..U29 - 1
    PROVE  LET w == ListPtr(off, e, n) IN
           /\ w \in Word /\ Kind(w) = List /\ Offset(w) = off /\ ElementOf(w) = e /\ CountOf(w) = n
           /\ ~IsNull(w)
<1> DEFINE w == ListPtr(off, e, n)
<1>1. w.lo = ((off * 4) % U32) + 1 /\ w.up = n * 8 + Code(e) /\ w = [lo |-> w.lo, up |-> w.up]
  BY DEF ListPtr, List
<1>2. w.lo \in 0..U32 - 1 /\ w.lo % 4 = 1 /\ Signed(w.lo) \div 4 = off /\ w.lo # 0
  BY <1>1, OffsetsFit
<1>3. w.up \in 0..U32 - 1 /\ w.up % 8 = Code(e) /\ w.up \div 8 = n
  <2> DEFINE c == Code(e)
  <2>1. c \in 0..7 /\ w.up = n * 8 + c /\ n \in Nat /\ n <= I30 - 1
    BY <1>1, Widths, CodesOfElements
  <2> HIDE DEF c, w
  <2>2. w.up \in 0..U32 - 1 /\ w.up % 8 = c /\ w.up \div 8 = n
    BY <2>1, Widths
  <2> QED BY <2>2 DEF c
<1> HIDE DEF w
<1>4. QED
  BY <1>1, <1>2, <1>3, CodesOfElements DEF w, Word, Kind, List, Offset, ElementOf, CountOf, IsNull, Null

\* A far pointer says in which segment, and where in it, its landing pad is, and
\* whether the pad is one word or two.
THEOREM FarPointersAreRead ==
    ASSUME NEW seg \in 0..U32 - 1, NEW off \in 0..U29 - 1, NEW dbl \in BOOLEAN
    PROVE  LET w == FarPtr(seg, off, dbl) IN
           /\ w \in Word /\ Kind(w) = Far /\ SegmentOf(w) = seg /\ FarOffset(w) = off
           /\ IsDouble(w) <=> dbl
<1> DEFINE b == IF dbl THEN 1 ELSE 0
           w == FarPtr(seg, off, dbl)
<1>1. w.lo = 8 * off + 4 * b + 2 /\ w.up = seg /\ w = [lo |-> w.lo, up |-> w.up] /\ b \in 0..1
  BY Widths DEF FarPtr, Far
<1>2. b = 1 <=> dbl
  OBVIOUS
<1> HIDE DEF w, b
<1>3. w.lo \in 0..U32 - 1 /\ w.lo % 4 = 2 /\ w.lo \div 8 = off /\ w.lo \div 4 = 2 * off + b
  BY <1>1, Widths
<1>4. (w.lo \div 4) % 2 = b
  BY <1>1, <1>3, Widths
<1> QED BY <1>1, <1>2, <1>3, <1>4 DEF w, Word, Kind, Far, SegmentOf, FarOffset, IsDouble

\* The tag before the structs of a list says how many there are and how large.
THEOREM TagsAreRead ==
    ASSUME NEW n \in 0..U29 - 1, NEW s \in Sizes
    PROVE  LET w == TagPtr(n, s) IN
           w \in Word /\ Kind(w) = Struct /\ TagCount(w) = n /\ SizeOf(w) = s
<1> DEFINE w == TagPtr(n, s)
<1>1. w.lo = 4 * n /\ w.up = s.data + s.ptrs * U16 /\ w = [lo |-> w.lo, up |-> w.up]
  BY Widths DEF TagPtr
<1>2. w.lo \in 0..U32 - 1 /\ w.lo % 4 = 0 /\ w.lo \div 4 = n
  BY <1>1, Widths
<1>3. n % U29 = n
  <2>1. n \in -U29..U29 - 1 /\ n >= 0 /\ U29 \in Nat \ {0}
    BY Widths
  <2> QED BY <2>1, Wrapped
<1>4. w.up \in 0..U32 - 1 /\ w.up % U16 = s.data /\ w.up \div U16 = s.ptrs
  BY <1>1, SizesFit
<1>5. s = [data |-> s.data, ptrs |-> s.ptrs]
  BY DEF Sizes
<1> HIDE DEF w
<1> QED BY <1>1, <1>2, <1>3, <1>4, <1>5 DEF w, Word, Kind, Struct, TagCount, SizeOf

\* An object that moves, or gets a landing pad, keeps its pointer but for the offset
\* (set_content_offset): its kind, and its size, count or elements, stay.
THEOREM MovedPointersAreRead ==
    ASSUME NEW w \in Word, NEW off \in -I30..I30 - 1
    PROVE  LET v == SetOffset(w, off) IN
           v \in Word /\ Kind(v) = Kind(w) /\ Offset(v) = off /\ v.up = w.up
<1>1. Kind(w) \in 0..3 /\ w.up \in 0..U32 - 1
  BY Widths DEF Word, Kind
<1> DEFINE v == SetOffset(w, off)
<1>2. v.lo = ((off * 4) % U32) + Kind(w) /\ v.up = w.up /\ v = [lo |-> v.lo, up |-> v.up]
  BY DEF SetOffset, Word
<1>3. v.lo \in 0..U32 - 1 /\ v.lo % 4 = Kind(w) /\ Signed(v.lo) \div 4 = off
  BY <1>1, <1>2, OffsetsFit
<1> HIDE DEF v
<1>4. v \in Word /\ v.lo % 4 = Kind(w) /\ Offset(v) = off /\ v.up = w.up
  BY <1>1, <1>2, <1>3 DEF Word, Offset
<1> QED BY <1>4 DEF v, Kind
=============================================================================
