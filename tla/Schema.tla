------------------------------- MODULE Schema -------------------------------
(***************************************************************************)
(* Struct types as generated code describes them to recapn/src/field.rs:   *)
(* for every field its place, its default, the union it is a variant of    *)
(* and the group it is in; and what the reader of a type makes of a value. *)
(* There is no state here.                                                 *)
(*                                                                         *)
(* Readers give a value in its canonical form: list elements and structs   *)
(* may be longer than their type, with zeros or with fields of a newer one.*)
(***************************************************************************)
EXTENDS Values

\* The width of the tag of a union, 16 in the code.
CONSTANT TagBits
ASSUME TagBitsAssumption == TagBits \in Nat \ {0}

ZeroBits(n) == [i \in 1..n |-> 0]
Top == "top"
NoVariant == [slot |-> 0, case |-> <<>>]

(* Types of pointers.  A list has the size its elements are made with, and *)
(* the type of the elements.                                               *)
StructType(size) == [t |-> "struct", size |-> size]
ListType(el, of) == [t |-> "list", el |-> el, of |-> of]
OtherType(t) == [t |-> t]
\* List(AnyStruct): its accessors are given a size, here always the same.
StructsType(size) == [t |-> "structs", el |-> Composite(size), of |-> StructType(size)]
DataType == [t |-> "data", of |-> OtherType("word")]

(* What a field may be, beside the values of pointers. *)
Unset == NoValue
Hidden == [k |-> "hidden"]
Chosen == [k |-> "chosen"]
BitsOf(b) == [k |-> "bits", bits |-> b]

-----------------------------------------------------------------------------
IsBytes(v) == v.k = "list" /\ v.el = Element("Byte")
Nul == Item(<<ZeroWord>>, <<>>)

RECURSIVE Canon(_)
CanonItem(v) ==
    Item(TrimEnd(v.data, ZeroWord), TrimEnd([j \in DOMAIN v.kids |-> Canon(v.kids[j])], NoValue))
Elems(items) == [k |-> "elems", items |-> items]
Canon(v) ==
    CASE v.k = "struct" -> CanonItem(v)
      [] v.k = "list" -> Elems([i \in DOMAIN v.items |-> CanonItem(v.items[i])])
      [] OTHER -> v

(* try_get_option of each type: Unset for a null pointer and for an error. *)
StructOption(v) == IF v.k = "struct" THEN Canon(v) ELSE Unset
ListOption(type, v) == IF v.k = "list" /\ UpgradableTo(v.el, type.el.e) THEN Canon(v) ELSE Unset
AnyListOption(v) == IF v.k = "list" THEN Canon(v) ELSE Unset
DataOption(v) == IF IsBytes(v) THEN Canon(v) ELSE Unset
TextOption(v) ==
    IF IsBytes(v) /\ v.items # <<>> /\ Last(v.items) = Nul
    THEN Canon(ListOf(v.el, Front(v.items))) ELSE Unset
AnyPtrOption(v) == Canon(v)
CapOption(v) == IF v.k = "cap" THEN v ELSE Unset

Option(type, v) ==
    CASE type.t \in {"struct", "anystruct"} -> StructOption(v)
      [] type.t \in {"list", "structs"} -> ListOption(type, v)
      [] type.t = "anylist" -> AnyListOption(v)
      [] type.t = "data" -> DataOption(v)
      [] type.t = "text" -> TextOption(v)
      [] type.t = "cap" -> CapOption(v)
      [] type.t = "anyptr" -> AnyPtrOption(v)
Accepts(type, v) == Option(type, v) # Unset

\* What a null pointer without a default is read as.
Blank(type) ==
    CASE type.t \in {"struct", "anystruct"} -> Item(<<>>, <<>>)
      [] type.t \in {"list", "structs", "anylist", "data", "text"} -> Elems(<<>>)
      [] OTHER -> Unset

Default(f) ==
    IF f.kind # "ptr" THEN BitsOf(f.default)
    ELSE IF f.default = NoValue THEN Blank(f.type) ELSE Option(f.type, f.default)

-----------------------------------------------------------------------------
(* Groups and unions.  s is a schema, f and g are names of its fields. *)
IsVariant(s, f) == s.fields[f].variant # NoVariant

RECURSIVE Enclosing(_, _)
Enclosing(s, f) ==
    LET g == s.fields[f].within IN IF g = Top THEN {} ELSE {g} \cup Enclosing(s, g)

Members(s, g) == { f \in DOMAIN s.fields : g \in Enclosing(s, f) }

\* The other variants of the union of f, and what is in them.
Excluded(s, f) ==
    LET rivals == { g \in DOMAIN s.fields :
                      /\ IsVariant(s, f) /\ IsVariant(s, g)
                      /\ s.fields[g].within = s.fields[f].within
                      /\ s.fields[g].variant.case # s.fields[f].variant.case }
    IN  rivals \cup UNION { Members(s, g) : g \in rivals }

IsFirst(s, f) == IsVariant(s, f) => s.fields[f].variant.case = ZeroBits(TagBits)

\* A member of a group that was cleared: every union in it is at its first variant.
Fresh(s, g, f) ==
    CASE \E h \in ({f} \cup Enclosing(s, f)) \cap Members(s, g) : ~IsFirst(s, h) -> Hidden
      [] s.fields[f].kind \in {"data", "enum"} -> Default(s.fields[f])
      [] s.fields[f].kind = "ptr" -> Unset
      [] OTHER -> Chosen
=============================================================================
