---------------------------- MODULE WirePointer ----------------------------
(***************************************************************************)
(* The pointer words of a message (recapn/src/ptr.rs, WirePtr and the      *)
(* types it is read as).  A word is its two halves of four bytes each, the *)
(* fields packed into them as in the source.  The two lowest bits of `lo`  *)
(* are the kind.                                                           *)
(***************************************************************************)
EXTENDS Layout

CONSTANT U8  \* bytes are below this, 256 in the code

ASSUME ByteAssumption == U8 \in Nat \ {0} /\ U8 % 4 = 0

U16 == U8 * U8      \* sizes of sections
U32 == U16 * U16    \* lo and up are below this
U29 == U32 \div 8   \* counts, and offsets of far pointers
I30 == U32 \div 8   \* offsets are in -I30..I30 - 1

Word == [lo : 0..U32 - 1, up : 0..U32 - 1]
Null == [lo |-> 0, up |-> 0]
Signed(x) == IF x >= U32 \div 2 THEN x - U32 ELSE x

(* WireKind *)
Struct == 0
List == 1
Far == 2
Other == 3

Kind(w) == w.lo % 4
IsNull(w) == w = Null
IsCap(w) == w.lo = Other

(* Parts::content_offset and set_content_offset: struct and list pointers *)
Offset(w) == Signed(w.lo) \div 4
SetOffset(w, off) == [w EXCEPT !.lo = ((off * 4) % U32) + Kind(w)]

StructPtr(off, s) == [lo |-> (off * 4) % U32, up |-> s.data + s.ptrs * U16]
EmptyStruct == StructPtr(-1, Empty)
SizeOf(w) == [data |-> w.up % U16, ptrs |-> w.up \div U16]

\* The tag before the structs of a list has their count where the offset would be.
TagPtr(n, s) == [lo |-> n * 4, up |-> s.data + s.ptrs * U16]
TagCount(w) == (w.lo \div 4) % U29

Codes == <<"Void", "Bit", "Byte", "TwoBytes", "FourBytes", "EightBytes",
           "Pointer", "InlineComposite">>
Code(e) == (CHOOSE i \in 1..8 : Codes[i] = e) - 1
ListPtr(off, e, n) == [lo |-> ((off * 4) % U32) + List, up |-> n * 8 + Code(e)]
ElementOf(w) == Codes[(w.up % 8) + 1]
CountOf(w) == w.up \div 8

FarPtr(seg, off, dbl) ==
    [lo |-> off * 8 + (IF dbl THEN 4 ELSE 0) + Far, up |-> seg]
FarOffset(w) == w.lo \div 8
IsDouble(w) == (w.lo \div 4) % 2 = 1
SegmentOf(w) == w.up

CapPtr(i) == [lo |-> Other, up |-> i]
CapIndex(w) == w.up

Sizes == [data : 0..U16 - 1, ptrs : 0..U16 - 1]
=============================================================================
