------------------------------ MODULE MCFields ------------------------------
\* A few struct types for Fields.  A word is four bits, a tag two.
EXTENDS Fields

S(d, p) == [data |-> d, ptrs |-> p]
W(x) == [lo |-> x, up |-> 0]
Byte == Element("Byte")
Pointer == Element("Pointer")

Bytes(xs) == ListOf(Byte, [i \in DOMAIN xs |-> Item(<<W(xs[i])>>, <<>>)])
StructOf(xs, kids) == Item([i \in DOMAIN xs |-> W(xs[i])], kids)
PointersTo(vs) == ListOf(Pointer, [i \in DOMAIN vs |-> Item(<<>>, <<vs[i]>>)])
Text(xs) == Bytes(xs \o <<0>>)

Field(kind, slot, type, default, variant, within) ==
    [kind |-> kind, slot |-> slot, type |-> type, default |-> default,
     variant |-> variant, within |-> within]
In(slot, case) == [slot |-> slot, case |-> case]
First == In(0, <<0, 0>>)
Second == In(0, <<1, 0>>)
Third == In(0, <<0, 1>>)

Number(slot, default, variant, within) == Field("data", slot, 0, default, variant, within)
Enum(slot, default, variant, within) ==
    [Number(slot, default, variant, within) EXCEPT !.kind = "enum"]
    @@ [known |-> {<<0, 0>>, <<1, 1>>}]
Ptr(slot, type, default, variant) == Field("ptr", slot, type, default, variant, Top)
Group(variant) == Field("group", 0, 0, 0, variant, Top)
Void(variant, within) == Field("void", 0, 0, 0, variant, within)

\* Sections that come: none, a word, and more than the type knows.
Starts(bits, ptrSections) ==
    { [data |-> SubSeq(b, 1, n), ptrs |-> p] :
        b \in bits, n \in {0, 4, 12}, p \in ptrSections }
Zeros == ZeroBits(12)
Ones == [i \in 1..12 |-> 1]
Tag01 == <<0, 1, 1, 0, 1, 0, 1, 1, 0, 1, 1, 0>>

Pair == StructType(S(1, 1))
OldStruct == StructOf(<<1>>, <<>>)
NewStruct == StructOf(<<0, 2>>, <<NoValue, Bytes(<<1>>)>>)
BytesAsStructs == ListOf(Composite(S(1, 1)), <<StructOf(<<3>>, <<Text(<<1>>)>>), StructOf(<<0>>, <<NoValue>>)>>)

(* A union of a number, a struct and a group, with a flag beside it. *)
UnionSchema ==
    [size |-> S(8, 1),
     fields |->
       [num |-> Number(1, <<1, 0>>, First, Top),
        sub |-> Ptr(0, Pair, NoValue, Second),
        grp |-> Group(Third),
        x |-> Number(1, <<1, 1>>, NoVariant, "grp"),
        y |-> Field("ptr", 0, DataType, NoValue, NoVariant, "grp"),
        flag |-> Number(4, <<1>>, NoVariant, Top)],
     from |-> Starts({Tag01}, {<<OldStruct>>, <<Bytes(<<1, 2>>), CapOf(1)>>})]

(* A named union of nothing, a number and an enum. *)
NamedUnionSchema ==
    [size |-> S(8, 0),
     fields |->
       [u |-> Group(NoVariant),
        none |-> Void(First, "u"),
        a |-> Number(1, <<0, 1>>, Second, "u"),
        e |-> Enum(1, <<1, 1>>, Third, "u"),
        f |-> Enum(3, <<0, 1>>, NoVariant, Top),
        unit |-> Void(NoVariant, Top),
        b |-> Number(5, <<1>>, NoVariant, Top)],
     from |-> Starts({Zeros, Ones, Tag01}, {<<>>})]

(* Two structs of a type, one with a default. *)
TwoStructs ==
    [size |-> S(0, 2),
     fields |-> [p |-> Ptr(0, Pair, NoValue, NoVariant),
                 q |-> Ptr(1, Pair, StructOf(<<4>>, <<Bytes(<<2>>)>>), NoVariant)],
     from |-> Starts({Zeros}, {<<>>, <<OldStruct>>, <<NewStruct, Bytes(<<1>>), CapOf(1)>>})]

(* Blobs and a struct list share a slot. *)
BlobSchema ==
    [size |-> S(4, 1),
     fields |-> [text |-> Ptr(0, OtherType("text"), Text(<<7>>), First),
                 blob |-> Ptr(0, DataType, Bytes(<<7, 8>>), Second),
                 any |-> Ptr(0, OtherType("anyptr"), NoValue, Third)],
     from |-> Starts({Zeros, Tag01}, {<<>>, <<Text(<<1>>)>>, <<Bytes(<<1>>)>>, <<Bytes(<<>>), OldStruct>>})]

ListSchema(el, of, default, contents) ==
    [size |-> S(0, 1),
     fields |-> [list |-> Ptr(0, ListType(el, of), default, NoVariant)],
     from |-> Starts({Zeros}, { <<v>> : v \in contents } \cup { <<v, CapOf(1)>> : v \in contents })]
ByteLists == ListSchema(Byte, OtherType("word"), Bytes(<<5, 6>>), {Bytes(<<1>>), OldStruct})
StructLists == ListSchema(Composite(S(1, 1)), Pair, BytesAsStructs,
                          {Bytes(<<3, 4>>), PointersTo(<<Text(<<1>>)>>), NoValue})
TextLists == ListSchema(Pointer, OtherType("text"), NoValue,
                        {PointersTo(<<Text(<<1>>), OldStruct>>), NoValue, Bytes(<<1>>)})
NestedLists == ListSchema(Pointer, ListType(Byte, OtherType("word")), PointersTo(<<Bytes(<<1>>)>>),
                          {PointersTo(<<NoValue, BytesAsStructs>>), CapOf(1)})

AnyStructLists ==
    [size |-> S(4, 1),
     fields |-> [structs |-> Ptr(0, StructsType(S(1, 1)), BytesAsStructs, First),
                 clients |-> Ptr(0, ListType(Pointer, OtherType("cap")), NoValue, Second),
                 list |-> Ptr(0, ListType(Byte, OtherType("word")), Bytes(<<1>>), Third)],
     from |-> Starts({Zeros}, {<<>>, <<Bytes(<<3>>)>>, <<PointersTo(<<CapOf(1)>>)>>})]

(* Pointers of no type and a client share a slot. *)
AnySchema ==
    [size |-> S(4, 1),
     fields |-> [struct |-> Ptr(0, OtherType("anystruct"), StructOf(<<1>>, <<>>), First),
                 list |-> Ptr(0, OtherType("anylist"), Bytes(<<9>>), Second),
                 client |-> Ptr(0, OtherType("cap"), NoValue, Third)],
     from |-> Starts({Zeros, Ones}, {<<>>, <<NewStruct>>, <<CapOf(1)>>})]

\* A union in a group that is a variant of another one.  RecordSpec does not hold of it:
\* the group is set, but its union keeps the tag it had (see ClearedBits).
GroupedUnion ==
    [size |-> S(8, 0),
     fields |->
       [plain |-> Void(First, Top),
        grp |-> Group(Second),
        a |-> Void(In(1, <<0, 0>>), "grp"),
        b |-> Void(In(1, <<1, 0>>), "grp")],
     from |-> Starts({Zeros}, {<<>>})]

MCSchemas == {UnionSchema, NamedUnionSchema, TwoStructs, BlobSchema, ByteLists, StructLists,
              TextLists, NestedLists, AnyStructLists, AnySchema}
MCSources == {OldStruct, NewStruct, Text(<<2>>), Bytes(<<3>>), BytesAsStructs,
              PointersTo(<<Text(<<1>>)>>), CapOf(2)}
MCWords == {W(0), W(1)}
MCSizes == {S(0, 0), S(1, 1)}
MCCounts == {0, 1}
=============================================================================
