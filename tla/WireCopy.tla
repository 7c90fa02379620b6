------------------------------ MODULE WireCopy ------------------------------
(***************************************************************************)
(* Copies from a message that is read into one that is built: CopyMachine  *)
(* of recapn/src/ptr.rs, and the canonical sizes of structs and lists.     *)
(*                                                                         *)
(* A job says what is copied from (its memory), whether canonically, and   *)
(* whether an error stops it or leaves a null.  Its progress is the memory *)
(* built so far, what is left of the read limit and the last error.        *)
(***************************************************************************)
EXTENDS WireCompare

Job(from, canonical, stop) == [from |-> from, canonical |-> canonical, stop |-> stop]
Begun(m, left) == [m |-> m, left |-> left, err |-> ""]
Goes(job, acc) == ~job.stop \/ Ok(acc)

(* Canonical sizes *)
CanonicalSize(m, at, size) ==
    [data |-> Len(Trimmed(SectionOf(m, at, size.data))),
     ptrs |-> Len(Trimmed(SectionOf(m, Fwd(at, size.data), size.ptrs)))]

CanonicalElement(m, at, el, n) ==
    IF ~IsComposite(el) THEN el
    ELSE Composite(FoldLeft(LAMBDA size, q : MaxSize(size, CanonicalSize(m, q, el.size)),
                            Empty, Steps(at, el.size, n)))

-----------------------------------------------------------------------------
RECURSIVE CopyPtr(_, _, _, _)

\* copy_ptr_section: nulls are skipped, what they would be copied to is null.
CopyEach(job, acc, srcs, dsts) ==
    FoldLeftDomain(LAMBDA a, i :
        IF ~Goes(job, a) \/ IsNull(At(job.from, srcs[i])) THEN a
        ELSE CopyPtr(job, a, srcs[i], dsts[i]), acc, srcs)

\* copy_struct: as much of each section as there is room for.
CopyStruct(job, acc, src, size, dst, room) ==
    LET common == [data |-> Smaller(size.data, room.data), ptrs |-> Smaller(size.ptrs, room.ptrs)]
    IN  CopyEach(job,
            [acc EXCEPT !.m = WriteSection(@, dst, SectionOf(job.from, src, common.data))],
            Places(Fwd(src, size.data), common.ptrs),
            Places(Fwd(dst, room.data), common.ptrs))

\* copy_to_upgraded_list: n elements of el to a list of elements that serve as them.
CopyList(job, acc, src, el, dst, to, n) ==
    LET structs == Steps(dst, to.size, n) IN
    CASE IsEmptyElement(el) -> acc
      [] el = to /\ IsPtrs(el) ->
           CopyEach(job, acc, Places(src, TotalWords(el, n)), Places(dst, TotalWords(el, n)))
      [] el = to /\ IsData(el) ->
           [acc EXCEPT !.m = WriteSection(@, dst, SectionOf(job.from, src, TotalWords(el, n)))]
      [] IsComposite(el) /\ (el # to \/ IsMixed(el)) ->
           LET from == Steps(src, el.size, n) IN
           FoldLeftDomain(LAMBDA a, i :
               IF Goes(job, a) THEN CopyStruct(job, a, from[i], el.size, structs[i], to.size) ELSE a,
               acc, from)
      [] el # to /\ el.e = "Pointer" ->
           CopyEach(job, acc, Places(src, n), [i \in 1..n |-> Fwd(structs[i], to.size.data)])
      [] el # to /\ el.e \in DataSizes ->
           [acc EXCEPT !.m = FoldLeftDomain(
               LAMBDA mem, i : PutField(mem, structs[i], el, 0, AsField(job.from, src, el, i - 1)),
               @, structs)]

\* The size of a list of structs in canonical form is taken from the words at the
\* pointer to the list, not from its structs.
CanonicalOf(job, src, el, n) ==
    IF job.canonical THEN CanonicalElement(job.from, src, el, n) ELSE el

Failing(acc, e) == [acc EXCEPT !.err = e]
Onto(acc, m) == [acc EXCEPT !.m = m]

\* Into what was allocated for it, `new`
CopyStructTo(job, acc, r, new, size) ==
    IF Found(new) THEN CopyStruct(job, Onto(acc, new.m), r.at, r.size, new.at, size)
    ELSE Failing(Onto(acc, new.m), "AllocFailed")
CopyListTo(job, acc, r, new, el) ==
    IF Found(new) THEN CopyList(job, Onto(acc, new.m), r.at, r.el, new.at, el, r.n)
    ELSE Failing(Onto(acc, new.m), "AllocFailed")
CopyCap(job, acc, i, dst) ==
    CASE job.canonical -> Failing(acc, "CapabilityNotAllowed")
      [] ~job.canonical /\ HasCap(job.from, i) -> Onto(acc, SetCap(acc.m, dst))
      [] OTHER -> Failing(acc, "InvalidCapabilityPointer")

CopyRead(job, acc, r, src, dst) ==
    LET size == IF job.canonical THEN CanonicalSize(job.from, r.at, r.size) ELSE r.size
        el == CanonicalOf(job, src, r.el, r.n)
    IN  CASE ~Ok(r) -> Failing(acc, r.err)
          [] Ok(r) /\ r.k = "struct" ->
               CopyStructTo(job, acc, r, AllocStruct(acc.m, dst, size), size)
          [] Ok(r) /\ r.k = "list" -> CopyListTo(job, acc, r, AllocList(acc.m, dst, el, r.n), el)
          [] Ok(r) /\ r.k = "cap" -> CopyCap(job, acc, r.i, dst)

CopyFound(job, acc, r, src, dst) == CopyRead(job, [acc EXCEPT !.left = r.left], r, src, dst)
CopyPtr(job, acc, src, dst) ==
    CopyFound(job, acc, ReadTyped(job.from, acc.left, src), src, dst)

\* PtrBuilder::try_copy_from. A null pointer is read as a struct without fields, and
\* copied as one.
CopyFrom(job, m, p, left, src) == CopyPtr(job, Begun(Clear(m, p), left), src, p)

\* try_set_struct and try_set_list with CopySize: the size of the value, its canonical
\* size, or at least some size.
SetStruct(job, m, p, left, at, size, room) ==
    CopyStructTo(job, Begun(m, left), [at |-> at, size |-> size],
                 AllocStruct(Clear(m, p), p, room), room)

SetList(job, m, p, left, at, el, n, to) ==
    IF to = NoUpgrade THEN Failing(Begun(Clear(m, p), left), "IncompatibleUpgrade")
    ELSE CopyListTo(job, Begun(m, left), [at |-> at, el |-> el, n |-> n],
                    AllocList(Clear(m, p), p, to, n), to)

-----------------------------------------------------------------------------
(* Copies into an object that is there, as large as it is: nothing is cleared first *)
\* StructBuilder::try_copy_with_caveats
CopyIntoStruct(job, m, left, src, size, dst, room) ==
    CopyStruct(job, Begun(m, left), src, size, dst, room)

\* ListBuilder::try_copy_from and try_copy_with_caveats; n is the length of the builder.
Serves(el, other) == UpgradeTo(el, other) = el
CopyIntoList(job, m, left, src, el, list) ==
    CopyList(job, Begun(m, left), src, el, list.at, list.el, list.n)
SameShape(el, other) == el = other \/ (IsComposite(el) /\ IsComposite(other))

\* try_copy_ranges: n elements from the i-th on become those from the j-th on.  Of
\* elements that are data only those between the start and n are meant, in both lists.
CopyDataAt(job, acc, src, el, i, dst, j, n) ==
    IF i # j \/ i > n THEN Failing(acc, "Panic")
    ELSE [acc EXCEPT !.m = FoldLeftDomain(
              LAMBDA mem, k : PutField(mem, dst, el, i + k - 1, AsField(job.from, src, el, i + k - 1)),
              @, Places(dst, n - i))]

CopyRange(job, acc, src, el, i, dst, to, j, n) ==
    LET srcs == Places(Fwd(src, i), n)
        structs == Steps(Fwd(dst, j * Total(to.size)), to.size, n)
    IN  CASE el.e = "Void" \/ n = 0 -> acc
          [] n > 0 /\ el.e \in DataSizes /\ to = el -> CopyDataAt(job, acc, src, el, i, dst, j, n)
          [] n > 0 /\ el.e \in DataSizes /\ to # el ->
               IF i > n THEN Failing(acc, "Panic")
               ELSE [acc EXCEPT !.m = FoldLeftDomain(
                         LAMBDA mem, k : PutField(mem, structs[k], el, 0, AsField(job.from, src, el, i + k - 1)),
                         @, Places(dst, n - i))]
          [] n > 0 /\ el.e = "Pointer" /\ to = el ->
               CopyEach(job, acc, srcs, Places(Fwd(dst, j), n))
          [] n > 0 /\ el.e = "Pointer" /\ to # el ->
               FoldLeftDomain(LAMBDA a, k :
                   IF Goes(job, a) THEN CopyPtr(job, a, srcs[k], Fwd(structs[k], to.size.data)) ELSE a,
                   acc, srcs)
          [] n > 0 /\ IsComposite(el) ->
               LET from == Steps(Fwd(src, i * Total(el.size)), el.size, n) IN
               FoldLeftDomain(LAMBDA a, k :
                   IF Goes(job, a) THEN CopyStruct(job, a, from[k], el.size, structs[k], to.size) ELSE a,
                   acc, from)
          [] OTHER -> acc
=============================================================================
