------------------------------ MODULE Segments ------------------------------
(***************************************************************************)
(* The memory of a message as the builders see it: ObjectBuilder of        *)
(* recapn/src/ptr.rs over the arena (module Arena has the allocators).     *)
(*                                                                         *)
(* A memory is a record: `words`, for each segment the words that are in   *)
(* use; `len`, the length of the segments; `last`, the last owned one;      *)
(* `most`, how many there can be: the arena answers None after that; and   *)
(* `caps`, the capability table of the message, TRUE where an entry is     *)
(* live.  An operator that allocates returns the memory and the place,     *)
(* Nowhere if it failed.  Builders trust the pointers of their message:    *)
(* they are read without limits and nothing is checked.                    *)
(***************************************************************************)
EXTENDS WireRead

CONSTANT SegmentLen   \* the size of the Fixed allocator
ASSUME SegmentsAssumption == SegmentLen \in 1..MaxU29

Nowhere == Place(0, 0)
Nulls(n) == [i \in 1..n |-> Null]

SetPtr(m, p, w) == [m EXCEPT !.words[p.s][p.o + 1] = w]
\* A copy into a section; zeroing it is copying Nulls.
WriteSection(m, p, ws) ==
    [m EXCEPT !.words[p.s] =
        SubSeq(@, 1, p.o) \o ws \o SubSeq(@, p.o + Len(ws) + 1, Len(@))]
ClearSection(m, p, n) == WriteSection(m, p, Nulls(n))

\* The offset of the object at q in a pointer at p.
OffsetFromEndOf(p, q) == q.o - p.o - 1

-----------------------------------------------------------------------------
(* Allocation *)
At0(m, p) == [m |-> m, at |-> p]
Failed(m) == At0(m, Nowhere)
Found(r) == r.at # Nowhere

Grow(m, s, n) == [m EXCEPT !.words[s] = @ \o Nulls(n)]

AllocInSegment(m, s, n) ==
    IF Len(m.words[s]) + n <= m.len[s]
    THEN At0(Grow(m, s, n), Place(s, Len(m.words[s])))
    ELSE Failed(m)

AllocInArena(m, n) ==
    LET r == AllocInSegment(m, m.last, n) IN
    IF Found(r) \/ Len(m.len) >= m.most THEN r
    ELSE At0([m EXCEPT !.words = Append(@, Nulls(n)),
                       !.len = Append(@, Larger(n, SegmentLen)),
                       !.last = Len(m.len) + 1],
             Place(Len(m.len) + 1, 0))

\* ObjectBuilder::alloc: in segment s, else anywhere.
Alloc(m, s, n) ==
    LET r == AllocInSegment(m, s, n) IN IF Found(r) THEN r ELSE AllocInArena(m, n)

PointFar(m, p, pad, dbl) == SetPtr(m, p, FarPtr(pad.s - 1, pad.o, dbl))

\* An object of n words for the pointer at p, which becomes ptr(offset): next to
\* the pointer if it fits, else after a landing pad elsewhere.
AllocFor(m, p, n, ptr(_)) ==
    LET near == AllocInSegment(m, p.s, n)
        far == AllocInArena(m, n + 1)
    IN  CASE Found(near) ->
               At0(SetPtr(near.m, p, ptr(OffsetFromEndOf(p, near.at))), near.at)
          [] ~Found(near) /\ Found(far) ->
               At0(SetPtr(PointFar(far.m, p, far.at, FALSE), far.at, ptr(0)), Fwd(far.at, 1))
          [] OTHER -> Failed(m)

AllocStruct(m, p, size) ==
    IF size = Empty THEN At0(SetPtr(m, p, EmptyStruct), p)
    ELSE AllocFor(m, p, Total(size), LAMBDA off : StructPtr(off, size))

\* alloc_segment_of_list: a list as long as a segment can be has its pads apart.
PointPads(m, p, pad, at, ptr) ==
    SetPtr(PointFar(PointFar(m, p, pad, TRUE), pad, at, FALSE), Fwd(pad, 1), ptr)
AllocBehindPads(pad, p, x, n) ==
    LET obj == AllocInArena(pad.m, MaxU29) IN
    CASE ~Found(pad) -> pad
      [] Found(pad) /\ ~Found(obj) -> Failed(pad.m)
      [] OTHER -> At0(PointPads(obj.m, p, pad.at, obj.at, ListPtr(0, x.e, n)), obj.at)
AllocSegmentOfList(m, p, x, n) == AllocBehindPads(Alloc(m, p.s, 2), p, x, n)

\* The count of a list pointer: words for structs, elements for all else.
ListCount(x, n) == IF IsComposite(x) THEN TotalWords(x, n) ELSE n

\* The place of a list of structs is that of the first one, after the tag.
Tagged(r, x, n) ==
    IF Found(r) /\ IsComposite(x)
    THEN At0(SetPtr(r.m, r.at, TagPtr(n, x.size)), Fwd(r.at, 1)) ELSE r

AllocList(m, p, x, n) ==
    LET total == ObjectWords(x, n) IN
    CASE total = 0 -> At0(SetPtr(m, p, ListPtr(0, x.e, n)), Fwd(p, 1))
      [] total > MaxU29 -> Failed(m)
      [] total \in 1..MaxU29 - 1 ->
           Tagged(AllocFor(m, p, total, LAMBDA off : ListPtr(off, x.e, ListCount(x, n))), x, n)
      [] total = MaxU29 ->
           LET near == AllocInSegment(m, p.s, total) IN
           Tagged(IF Found(near)
                  THEN At0(SetPtr(near.m, p, ListPtr(OffsetFromEndOf(p, near.at), x.e, ListCount(x, n))),
                           near.at)
                  ELSE AllocSegmentOfList(m, p, x, n), x, n)

-----------------------------------------------------------------------------
(* Orphans: objects without a pointer. `seg` is the builder's segment. *)
NoOrphan == [k |-> "none", at |-> Nowhere, w |-> Null]
\* The pointer of an orphan is kept with offset 0.
Orphan(p, w) == [k |-> "object", at |-> p, w |-> w]
FarOrphan(p, dbl) == [k |-> IF dbl THEN "double" ELSE "far", at |-> p, w |-> Null]
CapOrphan(i) == [k |-> "cap", at |-> Nowhere, w |-> CapPtr(i)]

\* An orphanage is a builder of some segment s, the orphans' first choice.
AllocStructOrphan(m, s, size) ==
    LET r == Alloc(m, s, Total(size)) IN
    IF size = Empty THEN [m |-> m, orphan |-> Orphan(Place(s, 0), StructPtr(0, Empty))]
    ELSE [m |-> r.m, orphan |-> IF Found(r) THEN Orphan(r.at, StructPtr(0, size)) ELSE NoOrphan]

AllocListOrphan(m, s, x, n) ==
    LET total == ObjectWords(x, n)
        r == Alloc(m, s, total)
        w == ListPtr(0, x.e, n)
    IN  CASE total = 0 -> [m |-> m, orphan |-> Orphan(Place(s, 0), w)]
          [] total > MaxU29 -> [m |-> m, orphan |-> NoOrphan]
          [] total \in 1..MaxU29 ->
               [m |-> Tagged(r, x, n).m, orphan |-> IF Found(r) THEN Orphan(r.at, w) ELSE NoOrphan]

-----------------------------------------------------------------------------
(* locate, build_struct and build_list: the object of the pointer at p *)
Unlimited == 2 ^ 30
Locate(m, p) == LocationOf(m, Unlimited, p)

IsStructAt(m, p) == Kind(Locate(m, p).ptr) = Struct
IsListAt(m, p) == Kind(Locate(m, p).ptr) = List

BuildStruct(m, p) ==
    LET c == Locate(m, p) IN [at |-> ContentAt(c), size |-> SizeOf(c.ptr)]

BuildListIn(m, c) ==
    LET start == ContentAt(c)
        tag == At(m, start)
    IN  IF ElementOf(c.ptr) = "InlineComposite"
        THEN [at |-> Fwd(start, 1), el |-> Composite(SizeOf(tag)), n |-> TagCount(tag)]
        ELSE [at |-> start, el |-> Element(ElementOf(c.ptr)), n |-> CountOf(c.ptr)]

BuildList(m, p) == BuildListIn(m, Locate(m, p))

\* Mutant: the landing pads stay.
ClearPtrOnly(m, p) == SetPtr(m, p, Null)

\* clear_ptrs: null the pointer at p and its landing pads.
ClearPtrs(m, p) ==
    LET w == At(m, p)
        pads == IF IsDouble(w) THEN 2 ELSE 1
        m1 == IF Kind(w) = Far
              THEN ClearSection(m, Place(SegmentOf(w) + 1, FarOffset(w)), pads) ELSE m
    IN  SetPtr(m1, p, Null)
=============================================================================
