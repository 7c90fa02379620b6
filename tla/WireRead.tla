------------------------------ MODULE WireRead ------------------------------
(***************************************************************************)
(* Reading a message that nobody vouches for: ObjectReader and the readers *)
(* made from it (recapn/src/ptr.rs), with the read limiter of message.rs.  *)
(* A message is a memory m whose m.words are its segments; `left` is what  *)
(* the limiter still allows.  A read answers a record with its error, ""   *)
(* if there is none, and what it leaves of the limit.                      *)
(*                                                                         *)
(* Segments are numbered from 1 here and from 0 in pointers.               *)
(***************************************************************************)
EXTENDS WirePointer, Sequences

WordBytes == 8

Place(s, o) == [s |-> s, o |-> o]
Fwd(p, n) == Place(p.s, p.o + n)
At(m, p) == m.words[p.s][p.o + 1]
\* The words of a pointer section, and of one without its last nulls.
SectionOf(m, p, n) == SubSeq(m.words[p.s], p.o + 1, p.o + n)

\* try_get_section: the n words at p are in their segment.
InSegment(m, p, n) ==
    p.s \in DOMAIN m.words /\ p.o \in 0..Len(m.words[p.s]) - n

Fail(e, left) == [err |-> e, left |-> left]
Ok(r) == r.err = ""

\* try_read_object_in and try_read_object_from_end_of, with ReadLimiter::try_read
ReadObject(m, left, p, n) ==
    CASE p.s \notin DOMAIN m.words -> Fail("MissingSegment", left)
      [] p.s \in DOMAIN m.words /\ ~InSegment(m, p, n) -> Fail("PointerOutOfBounds", left)
      [] InSegment(m, p, n) /\ n > left -> Fail("ReadLimitExceeded", left)
      [] OTHER -> [err |-> "", left |-> left - n, at |-> p]

-----------------------------------------------------------------------------
(***************************************************************************)
(* location_of: the pointer word that describes the object of the pointer  *)
(* at p, and either the place of that word (the object is at its offset)   *)
(* or, behind two far pointers, the place of the object itself.            *)
(***************************************************************************)
PadOf(w) == Place(SegmentOf(w) + 1, FarOffset(w))
PadLen(w) == IF IsDouble(w) THEN 2 ELSE 1

Located(ptr, direct, at, left) ==
    [err |-> "", left |-> left, ptr |-> ptr, direct |-> direct, at |-> at]

LocationOf(m, left, p) ==
    LET w == At(m, p)
        pad == ReadObject(m, left, PadOf(w), PadLen(w))
        far == At(m, PadOf(w))
    IN  IF Kind(w) # Far THEN Located(w, FALSE, p, left)
        ELSE CASE ~Ok(pad) -> pad
               [] Ok(pad) /\ ~IsDouble(w) -> Located(far, FALSE, PadOf(w), pad.left)
               [] Ok(pad) /\ IsDouble(w) /\ Kind(far) # Far -> Fail("FailedRead", pad.left)
               [] OTHER -> Located(At(m, Fwd(PadOf(w), 1)), TRUE, PadOf(far), pad.left)

\* The place of the object, from the end of the word that describes it.
ContentAt(c) == IF c.direct THEN c.at ELSE Fwd(c.at, 1 + Offset(c.ptr))

-----------------------------------------------------------------------------
ReadStructAt(m, c) ==
    LET r == ReadObject(m, c.left, ContentAt(c), Total(SizeOf(c.ptr))) IN
    IF ~Ok(r) THEN r
    ELSE [k |-> "struct", err |-> "", left |-> r.left, at |-> r.at, size |-> SizeOf(c.ptr)]

ReadStructIn(m, c) ==
    CASE ~Ok(c) -> c
      [] Ok(c) /\ Kind(c.ptr) # Struct -> Fail("FailedRead", c.left)
      [] OTHER -> ReadStructAt(m, c)

ReadStruct(m, left, p) == ReadStructIn(m, LocationOf(m, left, p))

\* Mutant: elements without a size are free.
Unamplified(n, r) == r

\* An amplified read: elements without a size count as a word each.
Amplified(n, r) ==
    IF n > r.left THEN Fail("ReadLimitExceeded", r.left) ELSE [r EXCEPT !.left = @ - n]

Listed(at, el, n, left) ==
    [k |-> "list", err |-> "", left |-> left, at |-> at, el |-> el, n |-> n]

\* `expected` is the kind of the elements, or AnyElement.
AnyElement == "AnyElement"
Readable(x, expected) == expected = AnyElement \/ UpgradableTo(x, expected)

\* Mutant: structs are counted, not their words.
OverrunCounted(n, size, words) == n > words

\* The structs the tag promises are longer than the list.
Overrun(n, size, words) == n * Total(size) > words

\* A list of structs in that many words, by its tag; r is the read of all of it.
ReadTagged(r, tag, el, words, expected) ==
    CASE Kind(tag) # Struct -> Fail("UnsupportedInlineCompositeElementTag", r.left)
      [] Kind(tag) = Struct /\ ~Readable(el, expected) -> Fail("IncompatibleUpgrade", r.left)
      [] Kind(tag) = Struct /\ Readable(el, expected) /\ Overrun(TagCount(tag), el.size, words) ->
           Fail("InlineCompositeOverrun", r.left)
      [] OTHER ->
           LET listed == Listed(Fwd(r.at, 1), el, TagCount(tag), r.left) IN
           IF el.size = Empty THEN Amplified(TagCount(tag), listed) ELSE listed

ReadComposites(m, c, expected) ==
    LET words == CountOf(c.ptr)
        r == ReadObject(m, c.left, ContentAt(c), words + 1)
        tag == At(m, r.at)
    IN  CASE words + 1 >= U29 -> Fail("PointerOutOfBounds", c.left)
          [] words + 1 < U29 /\ ~Ok(r) -> r
          [] OTHER -> ReadTagged(r, tag, Composite(SizeOf(tag)), words, expected)

ReadElements(m, c, expected) ==
    LET el == Element(ElementOf(c.ptr))
        n == CountOf(c.ptr)
        limit == IF el.e = "Void" THEN Amplified(n, c) ELSE c
        r == ReadObject(m, limit.left, ContentAt(c), TotalWords(el, n))
    IN  CASE ~Readable(el, expected) -> Fail("IncompatibleUpgrade", c.left)
          [] Readable(el, expected) /\ ~Ok(limit) -> limit
          [] Readable(el, expected) /\ Ok(limit) /\ ~Ok(r) -> r
          [] OTHER -> Listed(r.at, el, n, r.left)

ReadListAt(m, c, expected) ==
    IF ElementOf(c.ptr) = "InlineComposite"
    THEN ReadComposites(m, c, expected) ELSE ReadElements(m, c, expected)

ReadListIn(m, c, expected) ==
    CASE ~Ok(c) -> c
      [] Ok(c) /\ Kind(c.ptr) # List -> Fail("FailedRead", c.left)
      [] OTHER -> ReadListAt(m, c, expected)

ReadList(m, left, p, expected) == ReadListIn(m, LocationOf(m, left, p), expected)

\* to_blob reads bytes and nothing else; a list of Void is not charged here.
ReadBlobIn(m, c) ==
    LET r == ReadObject(m, c.left, ContentAt(c), TotalWords(Element("Byte"), CountOf(c.ptr)))
    IN  CASE ~Ok(c) -> c
          [] Ok(c) /\ Kind(c.ptr) # List -> Fail("FailedRead", c.left)
          [] Ok(c) /\ Kind(c.ptr) = List /\ ElementOf(c.ptr) # "Byte" ->
               Fail("IncompatibleUpgrade", c.left)
          [] OTHER -> IF ~Ok(r) THEN r
                      ELSE Listed(r.at, Element("Byte"), CountOf(c.ptr), r.left)

ReadBlob(m, left, p) == ReadBlobIn(m, LocationOf(m, left, p))

ReadCap(m, left, p) ==
    IF IsCap(At(m, p)) THEN [k |-> "cap", err |-> "", left |-> left, i |-> CapIndex(At(m, p))]
    ELSE Fail("FailedRead", left)

\* try_read_typed: whatever is there.
ReadTypedIn(m, c) ==
    CASE ~Ok(c) -> c
      [] Ok(c) /\ Kind(c.ptr) = Struct -> ReadStructAt(m, c)
      [] Ok(c) /\ Kind(c.ptr) = List -> ReadListAt(m, c, AnyElement)
      [] Ok(c) /\ IsCap(c.ptr) ->
           [k |-> "cap", err |-> "", left |-> c.left, i |-> CapIndex(c.ptr)]
      [] OTHER -> Fail("FailedRead", c.left)

ReadTyped(m, left, p) == ReadTypedIn(m, LocationOf(m, left, p))
=============================================================================
