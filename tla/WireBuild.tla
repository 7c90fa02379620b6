----------------------------- MODULE WireBuild -----------------------------
(***************************************************************************)
(* What the builders do to the memory of a message (recapn/src/ptr.rs):    *)
(* clearing and moving objects, growing structs and lists, orphans, and    *)
(* copies from a message that is read.  The operators follow the release   *)
(* build: its debug assertions are left out.                               *)
(*                                                                         *)
(* A result is the memory, the place of what was built (Nowhere if there   *)
(* is none) and an error, "" if there is none.                             *)
(***************************************************************************)
EXTENDS Segments, SequencesExt

Built(m, at) == [m |-> m, at |-> at, err |-> ""]
Refused(m, e) == [m |-> m, at |-> Nowhere, err |-> e]
OrRefused(r) == IF Found(r) THEN Built(r.m, r.at) ELSE Refused(r.m, "AllocFailed")

Places(p, n) == [i \in 1..n |-> Fwd(p, i - 1)]
\* The structs of a list, and the pointers of one of them.
Steps(p, size, n) == [i \in 1..n |-> Fwd(p, (i - 1) * Total(size))]
PtrsAt(p, size) == Places(Fwd(p, size.data), size.ptrs)

-----------------------------------------------------------------------------
(* Capabilities: the table of the message *)
Inject(m) == [m EXCEPT !.caps = Append(@, TRUE)]
NextCap(m) == Len(m.caps)
\* Mutant: clearing a pointer keeps its capability.
KeepCap(m, i) == m

DropCap(m, i) == [m EXCEPT !.caps[i + 1] = FALSE]
HasCap(m, i) == i + 1 \in DOMAIN m.caps /\ m.caps[i + 1]

-----------------------------------------------------------------------------
(***************************************************************************)
(* Nullifier: the pointer at p and everything below it become null, and    *)
(* its capabilities are dropped.  For a list of structs the count in the   *)
(* list pointer, which is in words, is taken for the number of structs.    *)
(***************************************************************************)
ClearCount(ptr, el) == CountOf(ptr)

RECURSIVE ClearPtr(_, _)
ClearAll(m, ps) ==
    FoldLeft(LAMBDA mem, q : IF IsNull(At(mem, q)) THEN mem ELSE ClearPtr(mem, q), m, ps)

ClearStruct(m, at, size) == ClearSection(ClearAll(m, PtrsAt(at, size)), at, Total(size))

ClearList(m, at, el, n) ==
    CASE el.e = "Pointer" -> ClearAll(m, Places(at, n))
      [] IsComposite(el) ->
           ClearSection(FoldLeft(LAMBDA mem, q : ClearAll(mem, PtrsAt(q, el.size)),
                                 m, Steps(at, el.size, n)),
                        Fwd(at, -1), ObjectWords(el, n))
      [] OTHER -> ClearSection(m, at, ObjectWords(el, n))

\* `m` is the memory the target c was located in, `cleared` that without its pointer.
ClearTarget(m, c, cleared) ==
    LET list == BuildListIn(m, c) IN
    CASE Kind(c.ptr) = Struct -> ClearStruct(cleared, ContentAt(c), SizeOf(c.ptr))
      [] Kind(c.ptr) = List -> ClearList(cleared, list.at, list.el, ClearCount(c.ptr, list.el))
      [] IsCap(c.ptr) -> DropCap(cleared, CapIndex(c.ptr))

ClearPtr(m, p) == ClearTarget(m, Locate(m, p), ClearPtrs(m, p))

Clear(m, p) == IF IsNull(At(m, p)) THEN m ELSE ClearPtr(m, p)

-----------------------------------------------------------------------------
(***************************************************************************)
(* transfer_ptr: the pointer at dst gets the object of the one at src,     *)
(* which stays.  In another segment the object needs a landing pad, next   *)
(* to it if there is room, else two words anywhere.                        *)
(***************************************************************************)
DoubleFar(m, p, pad, ptr, at) ==
    SetPtr(SetPtr(PointFar(m, p, pad, TRUE), pad, FarPtr(at.s - 1, at.o, FALSE)),
           Fwd(pad, 1), SetOffset(ptr, 0))

TransferPtr(m, src, dst) ==
    LET w == At(m, src)
        at == Fwd(src, 1 + Offset(w))
        pad == AllocInSegment(m, src.s, 1)
        dbl == Alloc(m, dst.s, 2)
    IN  CASE IsNull(w) -> Built(m, dst)
          [] ~IsNull(w) /\ Kind(w) \in {Far, Other} -> Built(SetPtr(m, dst, w), dst)
          [] ~IsNull(w) /\ Kind(w) \in {Struct, List} /\ src.s = dst.s ->
               Built(SetPtr(m, dst, SetOffset(w, OffsetFromEndOf(dst, at))), dst)
          [] OTHER ->
               CASE Found(pad) ->
                      Built(PointFar(SetPtr(pad.m, pad.at, SetOffset(w, OffsetFromEndOf(pad.at, at))),
                                     dst, pad.at, FALSE), dst)
                 [] ~Found(pad) /\ Found(dbl) -> Built(DoubleFar(dbl.m, dst, dbl.at, w, at), dst)
                 [] OTHER -> Refused(m, "AllocFailed")

\* One after the other, until one is refused.
Transfer(r, src, dst) == IF Ok(r) THEN TransferPtr(r.m, src, dst) ELSE r
TransferPtrs(m, src, dst, n) ==
    FoldLeftDomain(LAMBDA r, i : Transfer(r, Fwd(src, i - 1), Fwd(dst, i - 1)),
                   Built(m, dst), Places(dst, n))

\* Mutant: only the pointers move.
PromotePtrs(m, src, size, dst, bigger) ==
    TransferPtrs(m, Fwd(src, size.data), Fwd(dst, bigger.data), size.ptrs)

PromoteStruct(m, src, size, dst, bigger) ==
    TransferPtrs(WriteSection(m, dst, SectionOf(m, src, size.data)),
                 Fwd(src, size.data), Fwd(dst, bigger.data), size.ptrs)

\* The bytes of a word.
ByteOf(w, j) == ((IF j < 4 THEN w.lo ELSE w.up) \div U8^(j % 4)) % U8
HalfOf(b(_)) == b(0) + b(1) * U8 + b(2) * U8^2 + b(3) * U8^3
WordOf(b(_)) == [lo |-> HalfOf(b), up |-> HalfOf(LAMBDA j : b(j + 4))]

\* Element i, from 0, of a list of primitives, as the first field of a struct.
AsField(m, at, el, i) ==
    LET width == Bits(el) \div 8
        w == At(m, Fwd(at, (i * width) \div WordBytes))
        first == (i * width) % WordBytes
    IN  WordOf(LAMBDA j : IF j < width THEN ByteOf(w, first + j) ELSE 0)

\* An element of a list of primitives is written.
PutField(mem, at, el, i, x) ==
    LET width == Bits(el) \div 8
        q == Fwd(at, (i * width) \div WordBytes)
        first == (i * width) % WordBytes
        old == At(mem, q)
    IN  SetPtr(mem, q, WordOf(LAMBDA j :
            IF j \in first..first + width - 1 THEN ByteOf(x, j - first) ELSE ByteOf(old, j)))

\* promote_list: a list of el becomes structs of the given size; the pointers of a
\* list of pointers are moved one behind the other, not one into each struct.
PromoteList(m, src, el, dst, size, n) ==
    LET to == Steps(dst, size, n) IN
    CASE el.e \in {"Void", "Bit"} -> Built(m, dst)
      [] el.e \in DataSizes ->
           Built(FoldLeftDomain(LAMBDA mem, i : SetPtr(mem, to[i], AsField(m, src, el, i - 1)),
                                m, to), dst)
      [] el.e = "Pointer" -> TransferPtrs(m, src, dst, n)
      [] IsComposite(el) ->
           LET from == Steps(src, el.size, n) IN
           FoldLeftDomain(LAMBDA r, i :
               IF Ok(r) THEN PromoteStruct(r.m, from[i], el.size, to[i], size) ELSE r,
               Built(m, dst), to)

-----------------------------------------------------------------------------
(***************************************************************************)
(* to_struct_mut and to_list_mut: an object that is too small for what is  *)
(* expected is moved to a larger one.  The pointer is cleared before the   *)
(* new object is allocated.                                                *)
(***************************************************************************)
\* The n words the object leaves behind are zeroed.
LeaveBehind(moved, at, n, new) ==
    IF Ok(moved) THEN Built(ClearSection(moved.m, at, n), new) ELSE moved

MoveStruct(new, old, size) ==
    IF ~Found(new) THEN Refused(new.m, "AllocFailed")
    ELSE LeaveBehind(PromoteStruct(new.m, old.at, old.size, new.at, size),
                     old.at, Total(old.size), new.at)

GrowStruct(m, p, old, expected) ==
    LET size == MaxSize(expected, old.size) IN
    IF FitsInside(expected, old.size) THEN Built(m, old.at)
    ELSE MoveStruct(AllocStruct(ClearPtrs(m, p), p, size), old, size)

StructMut(m, p, expected) ==
    IF IsStructAt(m, p) THEN GrowStruct(m, p, BuildStruct(m, p), expected)
    ELSE Refused(m, "FailedRead")

MoveList(new, old, el) ==
    IF ~Found(new) THEN Refused(new.m, "AllocFailed")
    ELSE LeaveBehind(PromoteList(new.m, old.at, old.el, new.at, el.size, old.n),
                     IF IsComposite(old.el) THEN Fwd(old.at, -1) ELSE old.at,
                     ObjectWords(old.el, old.n), new.at)

GrowList(m, p, old, expected) ==
    LET el == UpgradeTo(old.el, expected) IN
    CASE el = NoUpgrade -> Refused(m, "IncompatibleUpgrade")
      [] el = old.el -> Built(m, old.at)
      [] el \notin {NoUpgrade, old.el} ->
           MoveList(AllocList(ClearPtrs(m, p), p, el, old.n), old, el)

ListMut(m, p, expected) ==
    IF IsListAt(m, p) THEN GrowList(m, p, BuildList(m, p), expected)
    ELSE Refused(m, "FailedRead")

InitStruct(m, p, size) == OrRefused(AllocStruct(Clear(m, p), p, size))
InitList(m, p, el, n) == OrRefused(AllocList(Clear(m, p), p, el, n))
OrInit(r, p, size) == IF Ok(r) THEN r ELSE InitStruct(r.m, p, size)
StructMutOrInit(m, p, size) ==
    OrInit(IF IsNull(At(m, p)) THEN Refused(m, "Null") ELSE StructMut(m, p, size), p, size)

\* set_capability_ptr leaves what the pointer was alone; set_cap injects first.
SetCap(m, p) == SetPtr(Inject(m), p, CapPtr(NextCap(m)))

-----------------------------------------------------------------------------
(***************************************************************************)
(* Orphans.  Disowning keeps far pointers and their pads; the object of    *)
(* another pointer is kept with its place.                                 *)
(***************************************************************************)
\* Mutant: the pointer keeps the object.
ShareWord(m, p) == m

TakeWord(m, p) == SetPtr(m, p, Null)

Disown(m, p) ==
    LET w == At(m, p) IN
    [m |-> TakeWord(m, p),
     orphan |-> CASE IsNull(w) -> NoOrphan
                  [] ~IsNull(w) /\ Kind(w) \in {Struct, List} ->
                       Orphan(Fwd(p, 1 + Offset(w)), SetOffset(w, 0))
                  [] Kind(w) = Far -> FarOrphan(PadOf(w), IsDouble(w))
                  [] IsCap(w) -> CapOrphan(CapIndex(w))]

\* try_adopt, after the pointer at p was cleared.  Across segments the landing pad
\* stays as it was allocated, and a double one names the segment of p.
AdoptFar(m, p, orphan) ==
    LET pad == AllocInSegment(m, orphan.at.s, 1)
        dbl == Alloc(m, p.s, 2)
    IN  CASE Found(pad) -> Built(PointFar(pad.m, p, pad.at, FALSE), p)
          [] ~Found(pad) /\ Found(dbl) ->
               Built(DoubleFar(dbl.m, p, dbl.at, orphan.w, Place(p.s, orphan.at.o)), p)
          [] OTHER -> Refused(m, "AllocFailed")

AdoptInto(m, p, orphan) ==
    CASE orphan.k = "none" -> Built(m, p)
      [] orphan.k \in {"far", "double"} ->
           Built(PointFar(m, p, orphan.at, orphan.k = "double"), p)
      [] orphan.k = "cap" -> Built(SetPtr(m, p, orphan.w), p)
      [] orphan.k = "object" /\ orphan.at.s = p.s ->
           Built(SetPtr(m, p, SetOffset(orphan.w, OffsetFromEndOf(p, orphan.at))), p)
      [] orphan.k = "object" /\ orphan.at.s # p.s -> AdoptFar(m, p, orphan)

Adopt(m, p, orphan) == AdoptInto(Clear(m, p), p, orphan)
=============================================================================
