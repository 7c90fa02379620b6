----------------------------- MODULE MCMessage -----------------------------
(* A message of a few segments, beside the tree it stands for. *)
EXTENDS Message

S(d, p) == [data |-> d, ptrs |-> p]
ListReq(el, n) == [el |-> el, n |-> n]
W(x) == [lo |-> x, up |-> 0]

Bytes1 == ListReq(Element("Byte"), 1)
Pointers1 == ListReq(Element("Pointer"), 1)
Structs1 == ListReq(Composite(S(0, 1)), 1)
LongestList == ListReq(Element("EightBytes"), MaxU29)

Client(calls, structs, lists, elements, segments) ==
    [calls |-> calls, structs |-> structs, lists |-> lists, elements |-> elements,
     segments |-> segments]
MCClients == {
    Client({"grow", "write"}, {S(1, 0), S(0, 1), S(1, 1)}, {Bytes1, Structs1}, {Composite(S(1, 0))}, 3),
    Client({"grow", "cap"}, {S(0, 0), S(1, 0), S(0, 1)}, {Pointers1, LongestList},
           {Composite(S(0, 1)), Element("Byte")}, 2),
    Client({"copy"}, {S(1, 1)}, {Pointers1},
           {Composite(S(1, 0))}, 3),
    Client({"merge"}, {S(1, 1), S(0, 1)}, {ListReq(Element("Byte"), 2), ListReq(Composite(S(1, 0)), 2),
           ListReq(Composite(S(1, 1)), 2)}, {}, 3),
    Client({"orphan", "cap"}, {S(0, 1), S(1, 0)}, {Structs1, LongestList}, {}, 2),
    Client({"orphan", "grow", "forget"}, {S(0, 1), S(0, 0)}, {Bytes1}, {Composite(S(1, 0))}, 2) }
MCData == {W(1)}

\* A struct with a list and a capability, behind a far pointer; and a list of pointers.
Source1 == [words |-> << <<FarPtr(1, 0, FALSE)>>,
                         <<StructPtr(0, S(1, 1)), W(1), ListPtr(0, "Pointer", 1), CapPtr(0)>> >>,
            caps |-> <<TRUE>>]
\* Structs with a word and a list of bytes each; a list of two bytes; nothing to copy well.
Source2 == [words |-> << <<ListPtr(0, "InlineComposite", 4), TagPtr(2, S(1, 1)),
                           W(2), ListPtr(2, "Byte", 2), W(0), Null, W(3)>> >>, caps |-> <<>>]
Source3 == [words |-> << <<ListPtr(0, "Byte", 2), W(5)>> >>, caps |-> <<>>]

Source(mem, canonical) == [m |-> mem, p |-> RootPlace, canonical |-> canonical]
MCSources == { Source(Source1, FALSE), Source(Source1, TRUE), Source(Source2, FALSE),
               Source(Source3, FALSE) }
MCCopied == { ValueOf(s.m, s.p) : s \in MCSources }

\* The tree of the message, kept beside it: the refinement mapping reads it often.
VARIABLES root, spare
Seen == root' = ValueOf(m', RootPlace) /\ spare' = OrphanValue(m', orphan')
MCInit == Init /\ root = NoValue /\ spare = NoValue
MCSpec == MCInit /\ [][Next /\ Seen]_<<vars, root, spare>>

\* No step depends on what the last call was, and no invariant does.
Contents == <<m, orphan, leaked, client>>

Every(f(_)) == UNION { f(c) : c \in Clients }
Tree == INSTANCE MessageTree WITH
    Structs <- Every(LAMBDA c : c.structs), Lists <- Every(LAMBDA c : c.lists),
    Elements <- Every(LAMBDA c : c.elements),
    orphan <- spare, caps <- m.caps, Copied <- MCCopied
TreeSpec == Tree!Spec
=============================================================================
