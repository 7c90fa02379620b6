---------------------------- MODULE WireCompare ----------------------------
(***************************************************************************)
(* What is computed from a message as a whole: how large the target of a   *)
(* pointer is, and whether two pointers stand for equal values             *)
(* (recapn/src/ptr.rs).                                                    *)
(***************************************************************************)
EXTENDS WireBuild

\* Mutant: nulls at the end count.
Untrimmed(ws) == ws

(* Without the nulls at the end of a section *)
RECURSIVE Trimmed(_)
Trimmed(ws) == IF ws # <<>> /\ IsNull(Last(ws)) THEN Trimmed(Front(ws)) ELSE ws

\* iter_inline_composites, and the pointers of what was read at a pointer.
TargetsOf(r) ==
    CASE r.k = "struct" -> PtrsAt(r.at, r.size)
      [] r.k = "list" /\ r.el.e = "Pointer" -> Places(r.at, r.n)
      [] r.k = "list" /\ IsComposite(r.el) ->
           FlattenSeq([i \in 1..r.n |-> PtrsAt(Fwd(r.at, (i - 1) * Total(r.el.size)), r.el.size)])
      [] OTHER -> <<>>
\* These need another level of nesting, even if they have no pointers.
Nests(r) ==
    \/ r.k = "struct"
    \/ r.k = "list" /\ (r.el.e = "Pointer" \/ IsComposite(r.el))

\* Mutant: the tag of a list of structs is not counted.
UntaggedWords(r) ==
    CASE r.k = "struct" -> Total(r.size)
      [] r.k = "list" -> TotalWords(r.el, r.n)
      [] r.k = "cap" -> 0

OwnWords(r) ==
    CASE r.k = "struct" -> Total(r.size)
      [] r.k = "list" -> ObjectWords(r.el, r.n)
      [] r.k = "cap" -> 0

Sized(left, words, caps) == [err |-> "", left |-> left, words |-> words, caps |-> caps]

RECURSIVE SizeAt(_, _, _, _)
\* total_ptrs_size: nulls have no target.
AddSize(a, t) == IF Ok(t) THEN Sized(t.left, a.words + t.words, a.caps + t.caps) ELSE t
PtrsSize(m, acc, ps, nest) ==
    FoldLeft(LAMBDA a, p :
        IF ~Ok(a) \/ IsNull(At(m, p)) THEN a ELSE AddSize(a, SizeAt(m, a.left, p, nest)),
        acc, ps)

SizeOfRead(m, r, nest) ==
    LET own == Sized(r.left, OwnWords(r), IF r.k = "cap" THEN 1 ELSE 0) IN
    CASE ~Ok(r) -> r
      [] Ok(r) /\ ~Nests(r) -> own
      [] Ok(r) /\ Nests(r) /\ nest = 0 -> Fail("NestingLimitExceeded", r.left)
      [] OTHER -> PtrsSize(m, own, TargetsOf(r), nest - 1)

SizeAt(m, left, p, nest) == SizeOfRead(m, ReadTyped(m, left, p), nest)

\* PtrReader::target_size takes a level itself, besides the one of its target.
TargetSize(m, left, p, nest) ==
    CASE IsNull(At(m, p)) -> Sized(left, 0, 0)
      [] ~IsNull(At(m, p)) /\ nest = 0 -> Fail("NestingLimitExceeded", left)
      [] OTHER -> SizeAt(m, left, p, nest - 1)

-----------------------------------------------------------------------------
(***************************************************************************)
(* Equality: "Equal", "NotEqual", or "ContainsCaps" when all but the       *)
(* capabilities is equal.  The sections of structs are compared as far as  *)
(* both of them go.  What the bits of a list of Bit are is left out.       *)
(***************************************************************************)
Eq(e) == [err |-> "", eq |-> e]
AndThen(r, next) == IF Ok(next) /\ next.eq = "Equal" THEN r ELSE next
Unless(different, r) == IF different THEN Eq("NotEqual") ELSE r

RECURSIVE CmpPtr(_, _, _)
\* Pairs of pointers, until two of them differ.
CmpPairs(m, ps, qs) ==
    FoldLeftDomain(LAMBDA r, i :
        IF ~Ok(r) \/ r.eq = "NotEqual" \/ i \notin DOMAIN qs THEN r
        ELSE AndThen(r, CmpPtr(m, ps[i], qs[i])),
        Eq("Equal"), ps)

CmpStruct(m, p, size, q, other) ==
    Unless(SectionOf(m, p, size.data) # SectionOf(m, q, other.data),
           CmpPairs(m, PtrsAt(p, size), PtrsAt(q, other)))

CmpStructs(m, ps, size, qs, other) ==
    FoldLeftDomain(LAMBDA r, i :
        IF ~Ok(r) \/ r.eq = "NotEqual" THEN r
        ELSE AndThen(r, CmpStruct(m, ps[i], size, qs[i], other)),
        Eq("Equal"), ps)

Fields(m, at, el, n) == [i \in 1..n |-> AsField(m, at, el, i - 1)]
CmpList(m, a, b) ==
    CASE a.n # b.n \/ a.el.e # b.el.e -> Eq("NotEqual")
      [] a.n = b.n /\ a.el.e = b.el.e ->
           CASE a.el.e \in {"Void", "Bit"} -> Eq("Equal")
             [] a.el.e \in DataSizes ->
                  Unless(Fields(m, a.at, a.el, a.n) # Fields(m, b.at, b.el, b.n), Eq("Equal"))
             [] a.el.e = "Pointer" -> CmpPairs(m, Places(a.at, a.n), Places(b.at, b.n))
             [] IsComposite(a.el) ->
                  CmpStructs(m, Steps(a.at, a.el.size, a.n), a.el.size,
                             Steps(b.at, b.el.size, b.n), b.el.size)

\* In a message without a read limit.
CmpRead(m, a, b) ==
    CASE ~Ok(a) -> a
      [] Ok(a) /\ ~Ok(b) -> b
      [] OTHER ->
           CASE a.k = "struct" /\ b.k = "struct" -> CmpStruct(m, a.at, a.size, b.at, b.size)
             [] a.k = "list" /\ b.k = "list" -> CmpList(m, a, b)
             [] a.k = "cap" /\ b.k = "cap" -> Eq("ContainsCaps")
             [] OTHER -> Eq("NotEqual")

CmpPtr(m, p, q) ==
    IF IsNull(At(m, p)) /\ IsNull(At(m, q)) THEN Eq("Equal")
    ELSE CmpRead(m, ReadTyped(m, Unlimited, p), ReadTyped(m, Unlimited, q))

\* StructReader::equality: of structs at hand, without the zeros at their ends.
TrimmedPtrs(m, s) ==
    LET at == Fwd(s.at, s.size.data) IN Places(at, Len(Trimmed(SectionOf(m, at, s.size.ptrs))))
StructsEqual(m, a, b) ==
    Unless(\/ Trimmed(SectionOf(m, a.at, a.size.data)) # Trimmed(SectionOf(m, b.at, b.size.data))
           \/ Len(TrimmedPtrs(m, a)) # Len(TrimmedPtrs(m, b)),
           CmpPairs(m, TrimmedPtrs(m, a), TrimmedPtrs(m, b)))
=============================================================================
