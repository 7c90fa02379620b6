------------------------------- MODULE Reader -------------------------------
(***************************************************************************)
(* A program that wanders through a message: PtrReader, StructReader,      *)
(* ListReader and BlobReader of recapn/src/ptr.rs under the limits of a    *)
(* message::Reader.  The message is any choice of words, so its pointers   *)
(* may overlap, form cycles and point outside.                             *)
(*                                                                         *)
(* The reader at hand is a record.  A struct begins at a byte, since an    *)
(* element of a list of primitives is read as a struct as well; a list or  *)
(* a blob begins at a word.                                                *)
(***************************************************************************)
EXTENDS WireRead

CONSTANTS
    Messages,        \* the messages that are read
    TraversalLimit,  \* ReaderOptions::traversal_limit
    NestingLimit,    \* ReaderOptions::nesting_limit
    Indexes          \* the fields and elements that are asked for

ASSUME ReaderAssumption ==
    /\ \A x \in Messages : x.words \in Seq(Seq(Word))
    /\ Indexes \subseteq Nat
    /\ TraversalLimit \in Nat /\ NestingLimit \in Nat

VARIABLES
    m,      \* the message
    left,   \* ReadLimiter::limit
    cur,    \* the reader at hand
    depth,  \* history: pointers followed from the root to the reader at hand
    given   \* history: words, or elements without a size, handed out so far

vars == <<m, left, cur, depth, given>>

Nothing == [k |-> "nothing"]
PtrReader(p, nest) == [k |-> "ptr", at |-> p, nest |-> nest]
StructReader(s, byte, bytes, ptrs, nest) ==
    [k |-> "struct", s |-> s, byte |-> byte, bytes |-> bytes, ptrs |-> ptrs, nest |-> nest]
ListReader(p, el, n, nest) == [k |-> "list", at |-> p, el |-> el, n |-> n, nest |-> nest]
BlobReader(p, n) == [k |-> "blob", at |-> p, n |-> n]
\* A field or an element that has been read.
DataReader(s, byte, n) == [k |-> "data", s |-> s, byte |-> byte, n |-> n]

Init ==
    /\ m \in Messages
    /\ left = TraversalLimit
    /\ cur = Nothing /\ depth = 0 /\ given = 0

\* Reader::root_option: the first word, if there is one. The limits stay.
Root ==
    /\ InSegment(m, Place(1, 0), 1)
    /\ cur' = PtrReader(Place(1, 0), NestingLimit) /\ depth' = 0
    /\ UNCHANGED <<m, left, given>>

(***************************************************************************)
(* Following the pointer at hand.  An error leaves nothing to go on with;  *)
(* what was charged before it stays charged.                               *)
(***************************************************************************)
Give(r, reader, words) ==
    /\ left' = r.left
    /\ IF Ok(r)
       THEN cur' = reader /\ depth' = depth + 1 /\ given' = given + words
       ELSE cur' = Nothing /\ UNCHANGED <<depth, given>>
    /\ UNCHANGED m

IsAt(k) == cur.k = k
NonNull == IsAt("ptr") /\ ~IsNull(At(m, cur.at))

\* Mutant: a pointer is followed for free.
DeeperFree(nest) == nest

Deeper(nest) == nest - 1

ToStruct ==
    /\ NonNull /\ cur.nest > 0
    /\ LET r == ReadStruct(m, left, cur.at) IN
       Give(r, StructReader(r.at.s, WordBytes * r.at.o, WordBytes * r.size.data,
                            r.size.ptrs, Deeper(cur.nest)),
            Total(r.size))

ListWords(r) == ObjectWords(r.el, r.n) + (IF IsEmptyElement(r.el) THEN r.n ELSE 0)

ToList(expected) ==
    /\ NonNull /\ cur.nest > 0
    /\ LET r == ReadList(m, left, cur.at, expected) IN
       Give(r, ListReader(r.at, r.el, r.n, Deeper(cur.nest)), ListWords(r))

ToBlob ==
    /\ NonNull
    /\ LET r == ReadBlob(m, left, cur.at) IN
       Give(r, BlobReader(r.at, r.n), TotalWords(Element("Byte"), r.n))

\* A capability, a null pointer and a pointer below the nesting limit end the walk.
Leaf ==
    /\ IsAt("ptr") /\ (IsNull(At(m, cur.at)) \/ IsCap(At(m, cur.at)) \/ cur.nest = 0)
    /\ cur' = Nothing
    /\ UNCHANGED <<m, left, depth, given>>

-----------------------------------------------------------------------------
(* Inside the object at hand; the caller may go back to it and try another way. *)
Move(reader) == cur' = reader /\ UNCHANGED <<m, left, depth, given>>

\* StructReader::ptr_field: a default null pointer beyond the pointers.
PtrField(i) ==
    /\ IsAt("struct") /\ i < cur.ptrs
    /\ Move(PtrReader(Place(cur.s, ((cur.byte + cur.bytes) \div WordBytes) + i), cur.nest))

\* StructReader::ptr_section
PtrSection ==
    /\ IsAt("struct")
    /\ Move(ListReader(Place(cur.s, (cur.byte + cur.bytes) \div WordBytes),
                       Element("Pointer"), cur.ptrs, cur.nest))

IndexToByte(i) == WordBytes * cur.at.o + ((Bits(cur.el) * i) \div 8)

\* ElementSize::bytes_and_ptrs
BytesOf(x) == IF IsComposite(x) THEN WordBytes * x.size.data
              ELSE IF x.e \in DataSizes THEN Bits(x) \div 8 ELSE 0
PtrsOf(x) == IF IsComposite(x) THEN x.size.ptrs ELSE IF x.e = "Pointer" THEN 1 ELSE 0

\* Data::read: the start of the slot is looked at, and it is enough as long as widths
\* divide the section; the short sections of elements of primitive lists are left out.
DataField(slot, width) ==
    /\ IsAt("struct") /\ cur.bytes % width = 0
    /\ slot * width < cur.bytes
    /\ Move(DataReader(cur.s, cur.byte + slot * width, width))

\* ListReader::data_unchecked: of a list of primitives, or of structs with data.
DataAt(i) ==
    /\ IsAt("list") /\ i < cur.n /\ BytesOf(cur.el) # 0
    /\ Move(DataReader(cur.at.s, IndexToByte(i), Smaller(BytesOf(cur.el), WordBytes)))

BitAt(i) ==
    /\ IsAt("list") /\ i < cur.n /\ cur.el.e = "Bit"
    /\ Move(DataReader(cur.at.s, WordBytes * cur.at.o + (i \div 8), 1))

\* A struct in a list takes a level if there is one.
Shallower(nest) == Larger(nest - 1, 0)

StructAt(i) ==
    /\ IsAt("list") /\ i < cur.n /\ cur.el.e # "Bit"
    /\ Move(StructReader(cur.at.s, IndexToByte(i), BytesOf(cur.el), PtrsOf(cur.el),
                         Shallower(cur.nest)))

PtrAt(i) ==
    /\ IsAt("list") /\ i < cur.n /\ PtrsOf(cur.el) # 0
    /\ Move(PtrReader(Place(cur.at.s, (IndexToByte(i) + BytesOf(cur.el)) \div WordBytes),
                      cur.nest))

FieldWidths == {1, 2, 4, 8}
Next ==
    \/ Root \/ ToStruct \/ ToBlob \/ Leaf \/ PtrSection
    \/ \E expected \in PtrElementSize \cup {AnyElement} : ToList(expected)
    \/ \E i \in Indexes :
        \/ PtrField(i) \/ StructAt(i) \/ PtrAt(i) \/ DataAt(i) \/ BitAt(i)
        \/ \E width \in FieldWidths : DataField(i, width)

Spec == Init /\ [][Next]_vars

-----------------------------------------------------------------------------
(* What the reader at hand covers of its segment, in bytes. *)
SegmentBytes(s) == WordBytes * Len(m.words[s])
Covers(s, from, to) == s \in DOMAIN m.words /\ 0 <= from /\ from <= to /\ to <= SegmentBytes(s)

Extent(r) ==
    CASE r.k = "ptr" -> [s |-> r.at.s, from |-> WordBytes * r.at.o, bytes |-> WordBytes]
      [] r.k = "struct" -> [s |-> r.s, from |-> r.byte, bytes |-> r.bytes + WordBytes * r.ptrs]
      [] r.k = "list" -> [s |-> r.at.s, from |-> WordBytes * r.at.o,
                          bytes |-> WordBytes * TotalWords(r.el, r.n)]
      [] r.k = "data" -> [s |-> r.s, from |-> r.byte, bytes |-> r.n]
      [] r.k = "blob" -> [s |-> r.at.s, from |-> WordBytes * r.at.o, bytes |-> r.n]

\* Whatever the message says, a reader covers words of one segment of the message and
\* nothing else: the bounds checks of objects, pads and tags, and the arithmetic of
\* elements and sections, never let a reader out of it. A pointer that is read lies on a
\* word, also in structs that are elements of lists.
InBounds ==
    /\ cur # Nothing => LET e == Extent(cur) IN Covers(e.s, e.from, e.from + e.bytes)
    /\ cur.k = "struct" /\ cur.ptrs > 0 => (cur.byte + cur.bytes) % WordBytes = 0
    /\ cur.k = "list" /\ PtrsOf(cur.el) > 0 =>
         Bits(cur.el) % (8 * WordBytes) = 0 /\ BytesOf(cur.el) % WordBytes = 0

\* The traversal limit bounds the work of any walk: everything handed out is paid for,
\* elements that take no space included.
LimitPays == left \in Nat /\ given + left <= TraversalLimit

\* No path from the root follows more pointers than the nesting limit, whatever cycles
\* the message has; a blob, which leads nowhere, may be one further.
DepthLimited ==
    /\ cur.k \in {"ptr", "struct", "list"} =>
         cur.nest \in Nat /\ depth + cur.nest <= NestingLimit
    /\ cur.k = "blob" => depth <= NestingLimit + 1
=============================================================================
