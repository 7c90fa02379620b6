------------------------------ MODULE MCReader ------------------------------
(* Messages of two segments, of four words and of one, from a few words. *)
EXTENDS Reader

S(d, p) == [data |-> d, ptrs |-> p]

\* Cycles, overlaps, both kinds of far pointers, tags that promise too much, offsets
\* and counts that end at, or one beyond, the end of a segment.
Roots == {
    StructPtr(-1, S(0, 1)), StructPtr(0, S(1, 1)), StructPtr(-2, S(0, 2)),
    ListPtr(0, "InlineComposite", 1), ListPtr(0, "InlineComposite", 2), ListPtr(-1, "InlineComposite", 2),
    ListPtr(0, "Byte", 9), ListPtr(0, "Void", 2), ListPtr(0, "Pointer", 2),
    ListPtr(-1, "TwoBytes", 5), FarPtr(1, 0, FALSE), FarPtr(0, 1, TRUE) }
Inner == {
    Null, StructPtr(-1, S(0, 1)), StructPtr(-3, S(1, 1)), ListPtr(-2, "Pointer", 2),
    ListPtr(-2, "Void", 2), TagPtr(2, Empty), TagPtr(1, S(0, 1)), TagPtr(2, S(1, 0)),
    TagPtr(1, S(1, 1)), TagPtr(1, S(2, 1)), FarPtr(1, 0, FALSE), FarPtr(0, 0, FALSE), CapPtr(0) }
Other1 == {
    StructPtr(-1, S(1, 0)), StructPtr(0, S(0, 1)), ListPtr(-1, "Bit", 31), FarPtr(0, 1, FALSE) }

\* The second segment matters only to messages that point to it.
PointsThere(a, b, c) == FarPtr(1, 0, FALSE) \in {a, b, c}
Contents ==
    { t \in Roots \X Inner \X Inner \X Other1 :
        PointsThere(t[1], t[2], t[3]) \/ t[4] = StructPtr(-1, S(1, 0)) }
MCMessages == { [words |-> <<<<t[1], t[2], t[3], Null>>, <<t[4]>>>>] : t \in Contents }
=============================================================================
