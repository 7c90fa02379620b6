------------------------------ MODULE Message ------------------------------
(***************************************************************************)
(* A message under construction: PtrBuilder, StructBuilder, ListBuilder,   *)
(* BlobBuilder and OrphanBuilder of recapn/src/ptr.rs, message.rs and      *)
(* orphan.rs, each call a step.  A call is made at any pointer that can be *)
(* reached from the root, which is how the builders are obtained.          *)
(*                                                                         *)
(* Strict leaves out the calls whose outcome is known to differ from what  *)
(* the documentation of the source promises (README, Disagreements).       *)
(***************************************************************************)
EXTENDS WireCopy, FiniteSets

CONSTANTS
    Clients,   \* [calls, structs, lists, elements, segments]: the kinds of calls that are
               \* made together, with what sizes, and how many segments there can be
    Data,      \* the words that are written
    Sources,   \* [m, p, canonical]: the pointers of other messages that are copied
    MaxCaps,   \* bound: entries of the capability table
    Strict     \* only the calls that keep what is promised

VARIABLES
    m,       \* the memory of the message
    orphan,  \* the orphan at hand
    short,   \* history: the last call could not do all it was asked for
    leaked,  \* history: an orphan was forgotten
    call,    \* history: what the last call was
    client   \* who builds this message: it never changes

vars == <<m, orphan, short, leaked, call, client>>

Structs == client.structs
Lists == client.lists
Elements == client.elements

RootPlace == Place(1, 0)
ASSUME MessageAssumption == Strict \in BOOLEAN /\ MaxCaps \in Nat

\* Builder::init and Message::builder: the first segment, with the root pointer in use.
Init ==
    /\ client \in Clients
    /\ m = [words |-> <<Nulls(1)>>, len |-> <<SegmentLen>>, last |-> 1,
            most |-> client.segments, caps |-> <<>>]
    /\ orphan = NoOrphan
    /\ short = FALSE /\ leaked = FALSE /\ call = "init"

-----------------------------------------------------------------------------
(* What can be reached.  The content of a pointer is where it is and what its word says. *)
KidsOf(mem, c) ==
    LET at == ContentAt(c)
        tag == At(mem, at)
    IN  CASE Kind(c.ptr) = Struct -> PtrsAt(at, SizeOf(c.ptr))
          [] Kind(c.ptr) = List /\ ElementOf(c.ptr) = "Pointer" -> Places(at, CountOf(c.ptr))
          [] Kind(c.ptr) = List /\ ElementOf(c.ptr) = "InlineComposite" ->
               FlattenSeq([i \in 1..TagCount(tag) |->
                   PtrsAt(Fwd(at, 1 + (i - 1) * Total(SizeOf(tag))), SizeOf(tag))])
          [] OTHER -> <<>>

RECURSIVE SlotsBelow(_, _)
SlotsOf(mem, c) == UNION { SlotsBelow(mem, p) : p \in ToSet(KidsOf(mem, c)) }
SlotsBelow(mem, p) ==
    {p} \cup (IF IsNull(At(mem, p)) THEN {} ELSE SlotsOf(mem, Locate(mem, p)))

Slots == SlotsBelow(m, RootPlace)

\* The content of an orphan, as if a pointer was there.
OrphanContent(mem, o) ==
    CASE o.k = "object" -> Located(o.w, TRUE, o.at, 0)
      [] o.k = "far" -> Located(At(mem, o.at), FALSE, o.at, 0)
      [] o.k = "double" -> Located(At(mem, Fwd(o.at, 1)), TRUE, PadOf(At(mem, o.at)), 0)
      [] o.k = "cap" -> Located(o.w, TRUE, o.at, 0)

-----------------------------------------------------------------------------
(* The value of a pointer: the refinement mapping. *)
NoValue == [k |-> "null"]
RECURSIVE ValueOf(_, _)
ItemAt(mem, at, size) ==
    [k |-> "struct", data |-> SectionOf(mem, at, size.data),
     kids |-> [i \in 1..size.ptrs |-> ValueOf(mem, Fwd(at, size.data + i - 1))]]

\* Element i, from 0, of the list whose content is at a place.
ElementAt(mem, at, el, i) ==
    CASE IsComposite(el) -> ItemAt(mem, Fwd(at, i * Total(el.size)), el.size)
      [] el.e = "Pointer" -> ItemAt(mem, Fwd(at, i), [data |-> 0, ptrs |-> 1])
      [] el.e \in DataSizes -> [k |-> "struct", data |-> <<AsField(mem, at, el, i)>>, kids |-> <<>>]
      [] OTHER -> ItemAt(mem, at, Empty)

ListValue(mem, at, el, n) ==
    [k |-> "list", el |-> el, items |-> [i \in 1..n |-> ElementAt(mem, at, el, i - 1)]]

ContentValue(mem, c) ==
    LET at == ContentAt(c)
        tag == At(mem, at)
    IN  CASE Kind(c.ptr) = Struct -> ItemAt(mem, at, SizeOf(c.ptr))
          [] Kind(c.ptr) = List /\ ElementOf(c.ptr) = "InlineComposite" ->
               ListValue(mem, Fwd(at, 1), Composite(SizeOf(tag)), TagCount(tag))
          [] Kind(c.ptr) = List /\ ElementOf(c.ptr) # "InlineComposite" ->
               ListValue(mem, at, Element(ElementOf(c.ptr)), CountOf(c.ptr))
          [] IsCap(c.ptr) -> [k |-> "cap", i |-> CapIndex(c.ptr)]

ValueOf(mem, p) == IF IsNull(At(mem, p)) THEN NoValue ELSE ContentValue(mem, Locate(mem, p))
OrphanValue(mem, o) == IF o = NoOrphan THEN NoValue ELSE ContentValue(mem, OrphanContent(mem, o))

-----------------------------------------------------------------------------
(* Calls that Strict leaves out *)
IsWide(mem, p) ==
    LET list == BuildList(mem, p) IN IsListAt(mem, p) /\ IsComposite(list.el) /\ Total(list.el.size) # 1

\* Clearing takes words for structs.
Clearable(p) ==
    ~Strict \/ IsNull(At(m, p))
    \/ \A q \in SlotsBelow(m, p) : IsNull(At(m, q)) \/ ~IsWide(m, q)

\* Growing clears the pointer first, and puts pointers one behind the other.
Growable(p, r, el) ==
    \/ ~Strict
    \/ r.m = m
    \/ /\ Ok(r)
       /\ el.e = "InlineComposite" /\ IsListAt(m, p) /\ BuildList(m, p).el.e = "Pointer"
            => el.size = [data |-> 0, ptrs |-> 1]

\* Adoption across segments leaves its landing pad null.
Adoptable(p) ==
    ~Strict \/ orphan.k # "object" \/ orphan.at.s = p.s

Disownable(p) == ~Strict \/ At(m, p) # EmptyStruct
OrphanSizes == IF Strict THEN Structs \ {Empty} ELSE Structs
OrphanLists == { l \in Lists : ~Strict \/ ~IsComposite(l.el) \/ Total(l.el.size) = 1 }

-----------------------------------------------------------------------------
Becomes(r) == m' = r.m /\ short' = ~Ok(r) /\ UNCHANGED <<orphan, leaked>>

InitStructAt(p) == Clearable(p) /\ \E size \in Structs : Becomes(InitStruct(m, p, size))
InitListAt(p) == Clearable(p) /\ \E l \in Lists : Becomes(InitList(m, p, l.el, l.n))
ClearAt(p) == Clearable(p) /\ Becomes(Built(Clear(m, p), p))

StructMutAt(p) ==
    \E size \in Structs :
        LET r == StructMut(m, p, size) IN
        ~IsNull(At(m, p)) /\ Growable(p, r, Element("Void")) /\ Becomes(r)

StructMutOrInitAt(p) ==
    \E size \in Structs :
        /\ IsNull(At(m, p)) \/ ~IsStructAt(m, p) \/ Growable(p, StructMut(m, p, size), Element("Void"))
        /\ Clearable(p)
        /\ Becomes(StructMutOrInit(m, p, size))

ListMutAt(p) ==
    \E el \in Elements :
        LET r == ListMut(m, p, el) IN
        ~IsNull(At(m, p)) /\ Growable(p, r, el) /\ Becomes(r)

\* The structs at p: the struct, or those of a list of structs.
StructsAt(p) ==
    LET s == BuildStruct(m, p)
        list == BuildList(m, p)
    IN  CASE IsStructAt(m, p) -> {s}
          [] IsListAt(m, p) /\ IsComposite(list.el) ->
               { [at |-> q, size |-> list.el.size] : q \in ToSet(Steps(list.at, list.el.size, list.n)) }
          [] OTHER -> {}

\* A data word of a struct, or an element of a list, is written.
WriteAt(p) ==
    /\ ~IsNull(At(m, p))
    /\ \E x \in Data :
         \/ \E s \in StructsAt(p) : \E q \in ToSet(Places(s.at, s.size.data)) :
              Becomes(Built(SetPtr(m, q, x), q))
         \/ LET list == BuildList(m, p) IN
            /\ IsListAt(m, p) /\ list.el.e \in DataSizes
            /\ \E i \in 0..list.n - 1 : Becomes(Built(PutField(m, list.at, list.el, i, x), p))

SetCapAt(p) ==
    /\ Strict => IsNull(At(m, p))
    /\ Len(m.caps) < MaxCaps
    /\ Becomes(Built(SetCap(m, p), p))

Plain == { src \in Sources : ~src.canonical }
CopyAt(p) ==
    /\ Clearable(p) /\ Len(m.caps) < MaxCaps
    /\ \E src \in Sources, stop \in BOOLEAN :
         Becomes(CopyFrom(Job(src.m, src.canonical, stop), m, p, Unlimited, src.p))

\* try_set_struct and try_set_list: CopySize is FromValue, Canonical or Minimum.
StructRooms(mem, r) ==
    { [canonical |-> FALSE, size |-> r.size],
      [canonical |-> TRUE, size |-> CanonicalSize(mem, r.at, r.size)] }
    \cup { [canonical |-> FALSE, size |-> MaxSize(r.size, size)] : size \in Structs }
ListRooms(mem, r) ==
    { [canonical |-> FALSE, el |-> r.el],
      [canonical |-> TRUE, el |-> CanonicalElement(mem, r.at, r.el, r.n)] }
    \cup { [canonical |-> FALSE, el |-> UpgradeTo(r.el, el)] : el \in Elements }

SetAt(p) ==
    /\ Clearable(p) /\ Len(m.caps) < MaxCaps
    /\ \E src \in Plain :
         LET r == ReadTyped(src.m, Unlimited, src.p) IN
         \/ /\ r.k = "struct"
            /\ \E room \in StructRooms(src.m, r) :
                Becomes(SetStruct(Job(src.m, room.canonical, FALSE),
                                  m, p, Unlimited, r.at, r.size, room.size))
         \/ /\ r.k = "list"
            /\ \E room \in ListRooms(src.m, r) :
                Becomes(SetList(Job(src.m, room.canonical, FALSE),
                                m, p, Unlimited, r.at, r.el, r.n, room.el))

\* A copy into what is there; pointers of its own are overwritten and not cleared.
NoPtrs(s) == \A q \in ToSet(PtrsAt(s.at, s.size)) : IsNull(At(m, q))
MergeStructAt(p) ==
    /\ ~IsNull(At(m, p)) /\ Len(m.caps) < MaxCaps
    /\ \E src \in Plain, s \in StructsAt(p), stop \in BOOLEAN :
         LET r == ReadTyped(src.m, Unlimited, src.p) IN
         /\ r.k = "struct" /\ (Strict => NoPtrs(s))
         /\ Becomes(CopyIntoStruct(Job(src.m, FALSE, stop), m, Unlimited,
                                   r.at, r.size, s.at, s.size))

FreshList(list) ==
    \A s \in IF IsComposite(list.el) THEN ToSet(Steps(list.at, list.el.size, list.n))
             ELSE ToSet(Places(list.at, IF list.el.e = "Pointer" THEN list.n ELSE 0)) :
        NoPtrs([at |-> s, size |-> StructUpgrade(list.el)])
MergeListAt(p) ==
    LET list == BuildList(m, p) IN
    /\ Len(m.caps) < MaxCaps
    /\ ~IsNull(At(m, p)) /\ IsListAt(m, p) /\ (Strict => FreshList(list))
    /\ \E src \in Plain, stop \in BOOLEAN :
         LET r == ReadTyped(src.m, Unlimited, src.p)
             job == Job(src.m, FALSE, stop)
         IN  /\ r.k = "list"
             /\ \/ /\ Serves(list.el, r.el) \/ SameShape(list.el, r.el)
                   /\ list.n = r.n
                   /\ Becomes(CopyIntoList(job, m, Unlimited, r.at, r.el, list))
                \/ \E i, j \in 0..r.n : \E n \in 1..Smaller(r.n - i, list.n - j) :
                      LET done == CopyRange(job, Begun(m, Unlimited), r.at, r.el, i,
                                            list.at, list.el, j, n)
                      IN  /\ Serves(list.el, r.el)
                          /\ Strict => IsComposite(r.el) \/ (i = 0 /\ j = 0)
                          /\ Becomes(done)

DisownAt(p) ==
    /\ orphan = NoOrphan /\ Disownable(p)
    /\ m' = Disown(m, p).m /\ orphan' = Disown(m, p).orphan /\ short' = FALSE
    /\ UNCHANGED leaked

\* A refused adoption hands the orphan back, to a pointer that has been cleared.
AdoptAt(p) ==
    /\ Clearable(p) /\ Adoptable(p)
    /\ LET r == Adopt(m, p, orphan) IN
       /\ m' = r.m /\ short' = ~Ok(r)
       /\ orphan' = IF Ok(r) THEN NoOrphan ELSE orphan
    /\ UNCHANGED leaked

NewOrphan ==
    /\ orphan = NoOrphan
    /\ \E r \in { AllocStructOrphan(m, 1, size) : size \in OrphanSizes }
               \cup { AllocListOrphan(m, 1, l.el, l.n) : l \in OrphanLists } :
         m' = r.m /\ orphan' = r.orphan /\ short' = (r.orphan = NoOrphan)
    /\ UNCHANGED leaked

DropOrphan ==
    /\ orphan # NoOrphan
    /\ orphan' = NoOrphan /\ leaked' = TRUE /\ short' = FALSE
    /\ UNCHANGED m

\* A client always initializes and clears; what else it does is its own.
May(what, A) == what \in client.calls /\ A
Call(what, A) == call' = what /\ A
Next ==
    /\ \/ \E p \in Slots :
            \/ Call("init", InitStructAt(p) \/ InitListAt(p) \/ ClearAt(p))
            \/ May("grow", Call("grow", StructMutAt(p) \/ ListMutAt(p)))
            \/ May("grow", Call("obtain", StructMutOrInitAt(p)))
            \/ May("write", Call("write", WriteAt(p)))
            \/ May("cap", Call("cap", SetCapAt(p)))
            \/ May("copy", Call("copy", CopyAt(p) \/ SetAt(p)))
            \/ May("merge", Call("merge", MergeStructAt(p) \/ MergeListAt(p)))
            \/ May("orphan", Call("disown", DisownAt(p)))
            \/ May("orphan", Call("adopt", AdoptAt(p)))
       \/ May("orphan", Call("orphan", NewOrphan))
       \/ May("forget", Call("forget", DropOrphan))
    /\ UNCHANGED client

Spec == Init /\ [][Next]_vars

-----------------------------------------------------------------------------
(* What every call keeps *)
\* The words a pointer stands for: its landing pads and its object.
PadsOf(mem, p) ==
    LET w == At(mem, p) IN
    IF Kind(w) # Far THEN {} ELSE ToSet(Places(PadOf(w), IF IsDouble(w) THEN 2 ELSE 1))
ContentWords(c) ==
    LET at == ContentAt(c) IN
    CASE Kind(c.ptr) = Struct -> ToSet(Places(at, Total(SizeOf(c.ptr))))
      [] Kind(c.ptr) = List /\ ElementOf(c.ptr) = "InlineComposite" ->
           ToSet(Places(at, CountOf(c.ptr) + 1))
      [] Kind(c.ptr) = List /\ ElementOf(c.ptr) # "InlineComposite" ->
           ToSet(Places(at, TotalWords(Element(ElementOf(c.ptr)), CountOf(c.ptr))))
      [] OTHER -> {}
OwnedBy(p) == PadsOf(m, p) \cup ContentWords(Locate(m, p))

\* The orphan's own words, and the slots below it.
OrphanPads ==
    CASE orphan.k = "far" -> {orphan.at}
      [] orphan.k = "double" -> {orphan.at, Fwd(orphan.at, 1)}
      [] OTHER -> {}
OrphanWords ==
    IF orphan = NoOrphan THEN {} ELSE OrphanPads \cup ContentWords(OrphanContent(m, orphan))
OrphanSlots == IF orphan = NoOrphan THEN {} ELSE SlotsOf(m, OrphanContent(m, orphan))

Live == { p \in Slots \cup OrphanSlots : ~IsNull(At(m, p)) }
Used == UNION { OwnedBy(p) : p \in Live } \cup OrphanWords \cup {RootPlace}
AllWords == UNION { { Place(s, i - 1) : i \in DOMAIN m.words[s] } : s \in DOMAIN m.words }

\* Every word in use belongs to one object or pad, in a segment no longer than it was made.
NothingShared ==
    /\ \A s \in DOMAIN m.words : Len(m.words[s]) <= m.len[s]
    /\ Used \subseteq AllWords
    /\ \A p, q \in Live : p # q => OwnedBy(p) \cap OwnedBy(q) = {}
    /\ \A p \in Live : OwnedBy(p) \cap (OrphanWords \cup {RootPlace}) = {}

\* What was cleared or moved away from is zero again.
UnusedIsNull == leaked \/ \A p \in AllWords \ Used : IsNull(At(m, p))

\* A capability is held as long as one pointer, and no other, names it; none names one
\* that is not held.
CapsOf(slots) == { p \in slots : IsCap(At(m, p)) }
CapHolders(i) ==
    Cardinality({ p \in CapsOf(Live) : CapIndex(At(m, p)) = i })
    + (IF orphan.k = "cap" /\ CapIndex(orphan.w) = i THEN 1 ELSE 0)
CapsHeldOnce ==
    /\ \A i \in DOMAIN m.caps : m.caps[i] /\ ~leaked => CapHolders(i - 1) = 1
    /\ \A i \in 0..Len(m.caps) : CapHolders(i) > 0 => HasCap(m, i)

\* Whatever the builders made can be read back, and its size is the number of words that
\* hold it, without the landing pads.
Below(p) == { q \in SlotsBelow(m, p) : ~IsNull(At(m, q)) }
SizeIsWhatIsHeld ==
    \A p \in Live :
        LET size == TargetSize(m, Unlimited, p, Unlimited) IN
        /\ Ok(size)
        /\ size.words = Cardinality(UNION { ContentWords(Locate(m, q)) : q \in Below(p) })
        /\ size.caps = Cardinality(CapsOf(Below(p)))

\* Pointers to the same value are equal, but for the capabilities in it, and only pointers
\* to values that agree in what both of them have are.
RECURSIVE SameValue(_, _)
SameItem(u, v) ==
    u.data = v.data /\ \A i \in DOMAIN u.kids \cap DOMAIN v.kids : SameValue(u.kids[i], v.kids[i])
SameValue(u, v) ==
    CASE u.k = "struct" /\ v.k = "struct" -> SameItem(u, v)
      [] u.k = "list" /\ v.k = "list" ->
           /\ u.el.e = v.el.e /\ DOMAIN u.items = DOMAIN v.items
           /\ \A i \in DOMAIN u.items : SameItem(u.items[i], v.items[i])
      [] {u.k, v.k} = {"null", "struct"} ->   \* null is read as a struct without fields
           (u.k = "null" /\ v.data = <<>>) \/ (v.k = "null" /\ u.data = <<>>)
      [] OTHER -> u.k = v.k
\* Structs at hand are compared without the zeros at their ends.
RECURSIVE Zeroless(_, _)
Zeroless(s, x) == IF s # <<>> /\ Last(s) = x THEN Zeroless(Front(s), x) ELSE s
SameStruct(u, v) ==
    LET kids == Zeroless(u.kids, NoValue) IN
    /\ Zeroless(u.data, Null) = Zeroless(v.data, Null)
    /\ Len(kids) = Len(Zeroless(v.kids, NoValue))
    /\ \A i \in DOMAIN kids : SameValue(u.kids[i], v.kids[i])

EqualWhenSame ==
    \A p, q \in Live :
        LET u == ValueOf(m, p)
            v == ValueOf(m, q)
            r == CmpPtr(m, p, q)
            s == StructsEqual(m, BuildStruct(m, p), BuildStruct(m, q))
        IN  /\ Ok(r) /\ (r.eq = "NotEqual" <=> ~SameValue(u, v))
            /\ u.k = "struct" /\ v.k = "struct" =>
                 Ok(s) /\ (s.eq = "NotEqual" <=> ~SameStruct(u, v))
=============================================================================
