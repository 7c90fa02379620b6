------------------------------- MODULE Fields -------------------------------
(***************************************************************************)
(* The accessors of fields and list elements (recapn/src/field.rs, list.rs *)
(* and any.rs) over the data section and the pointers of one struct.  The  *)
(* struct may come from a program with an older or a newer schema: its     *)
(* sections may be shorter or longer than the type of the reader, and its  *)
(* pointers may be anything.  A builder has first grown it to its type.    *)
(***************************************************************************)
EXTENDS Schema

CONSTANTS
    Schemas,   \* struct types: [size, fields, from], with the structs that come
    Sources,   \* values that fields are set to
    Words,     \* words that list elements are set to
    Sizes,     \* sizes for structs of no type
    Counts     \* lengths of new lists

VARIABLES
    schema,  \* the type of the struct
    data,    \* the bits of its data section
    ptrs,    \* the values of its pointers
    orphan,  \* a disowned value and its type, or NoOrphan
    call     \* the last call: the accessor, its field and what it was given

vars == <<schema, data, ptrs, orphan, call>>

D(f) == schema.fields[f]
Names == DOMAIN schema.fields
Of(kinds) == { f \in Names : D(f).kind \in kinds }
NoOrphan == [type |-> OtherType("none"), v |-> NoValue]

-----------------------------------------------------------------------------
(* The sections.  A slot counts in units of the width of its field; a      *)
(* value is stored xor its default, so that zeros are the default.         *)
Slot(slot, width) == slot * width + 1 .. (slot + 1) * width
Xor(b, c) == [i \in DOMAIN b |-> (b[i] + c[i]) % 2]

ReadData(slot, default) ==
    LET w == Len(default) IN
    IF slot * w < Len(data) THEN Xor(SubSeq(data, slot * w + 1, (slot + 1) * w), default) ELSE default

\* Mutant: a narrow field is written with the width of a wider one.
WriteDataWide(section, slot, value, default) ==
    LET w == Len(default) IN
    [i \in DOMAIN section |->
       IF i \in Slot(slot, w) THEN Xor(value, default)[i - slot * w]
       ELSE IF i - w \in Slot(slot, w) THEN 0 ELSE section[i]]

WriteData(section, slot, value, default) ==
    LET w == Len(default) IN
    [i \in DOMAIN section |->
       IF i \in Slot(slot, w) THEN Xor(value, default)[i - slot * w] ELSE section[i]]

PtrAt(slot) == IF slot < Len(ptrs) THEN ptrs[slot + 1] ELSE NoValue

(* Unions *)
IsSet(f) ==
    IsVariant(schema, f) => ReadData(D(f).variant.slot, ZeroBits(TagBits)) = D(f).variant.case
SetVariant(f) ==
    IF IsVariant(schema, f)
    THEN WriteData(data, D(f).variant.slot, D(f).variant.case, ZeroBits(TagBits)) ELSE data

\* What the readers of a field find.  `which` is an error when no variant is set.
Read(f) ==
    CASE \E g \in {f} \cup Enclosing(schema, f) : ~IsSet(g) -> Hidden
      [] D(f).kind \in {"data", "enum"} -> BitsOf(ReadData(D(f).slot, D(f).default))
      [] D(f).kind = "ptr" -> Option(D(f).type, PtrAt(D(f).slot))
      [] OTHER -> Chosen

-----------------------------------------------------------------------------
(* Builders *)
Pointers == Of({"ptr"})
Built == Len(data) >= schema.size.data /\ Len(ptrs) >= schema.size.ptrs
Reachable(f) == \A g \in Enclosing(schema, f) : IsSet(g)
Do(op, f, arg) ==
    /\ Built /\ Reachable(f)
    /\ call' = [op |-> op, field |-> f, arg |-> arg]
    /\ UNCHANGED schema

SetPtr(f, v) == ptrs' = [ptrs EXCEPT ![D(f).slot + 1] = v]

\* Mutant: the pointer of the former variant stays.
KeepCaseAndBuildPtr(f) == PtrAt(D(f).slot)

\* A builder of the pointer of a variant that may not be set yet: it is cleared first.
SetCaseAndBuildPtr(f) == IF IsSet(f) THEN PtrAt(D(f).slot) ELSE NoValue

\* to_struct_mut for a type or a size: the struct is promoted in its place.
GrowStruct ==
    /\ ~Built
    /\ data' = data \o ZeroBits(schema.size.data - Len(data))
    /\ ptrs' = Pad(ptrs, schema.size.ptrs, NoValue)
    /\ call' = [op |-> "grow", field |-> Top, arg |-> NoValue]
    /\ UNCHANGED <<schema, orphan>>

WriteField(f, value) ==
    /\ Do("set", f, value)
    /\ data' = WriteData(SetVariant(f), D(f).slot, value, D(f).default)
    /\ UNCHANGED <<ptrs, orphan>>
SetData(f, value) == D(f).kind = "data" /\ WriteField(f, value)
\* set_value takes numbers the enum does not know, too; a variant has no set_value.
SetEnum(f, value) ==
    /\ D(f).kind = "enum" /\ (IsVariant(schema, f) => value \in D(f).known)
    /\ WriteField(f, value)

SetVoid(f) ==
    /\ Do("choose", f, NoValue) /\ IsVariant(schema, f)
    /\ data' = SetVariant(f)
    /\ UNCHANGED <<ptrs, orphan>>

(* A group that is set has its fields cleared, and those of the first      *)
(* variant of a union in it.  The clears write zeros; the tag is written   *)
(* as the literal 0, an i32 of two tags' width.                            *)
RECURSIVE ClearedWith(_)
ClearedWith(g) ==
    LET direct == { f \in Names : D(f).within = g /\ IsFirst(schema, f) } IN
    direct \cup UNION { ClearedWith(f) : f \in { h \in direct : D(h).kind = "group" } }
ClearedBits(g) ==
    UNION { IF D(f).kind \in {"data", "enum"} THEN Slot(D(f).slot, Len(D(f).default)) ELSE {} :
              f \in ClearedWith(g) }
    \cup UNION { Slot(D(f).variant.slot, 2 * TagBits) :
                   f \in { h \in ClearedWith(g) : IsVariant(schema, h) } }

SetGroup(g) ==
    /\ Do("choose_group", g, NoValue) /\ IsVariant(schema, g)
    /\ data' = [i \in DOMAIN data |-> IF i \in ClearedBits(g) THEN 0 ELSE SetVariant(g)[i]]
    /\ ptrs' = [j \in DOMAIN ptrs |->
                  IF \E f \in ClearedWith(g) \cap Pointers : D(f).slot = j - 1
                  THEN NoValue ELSE ptrs[j]]
    /\ UNCHANGED orphan

-----------------------------------------------------------------------------
(* Pointers *)
IsList(v) == v.k = "list"
Upgrades(v, el) == IsList(v) /\ UpgradeTo(v.el, el) # NoUpgrade
Upgraded(v, el) == GrownList(v, UpgradeTo(v.el, el))
Otherwise(v, w) == IF v = NoValue THEN w ELSE v

(* What `get` of each type leaves in a pointer: its value, made to fit, or  *)
(* else a copy of the default.                                             *)
GottenStruct(size, v, default) ==
    IF v.k = "struct" THEN Grown(v, size) ELSE Grown(Otherwise(default, Zero(Empty)), size)
GottenList(el, v, default) ==
    IF Upgrades(v, el) THEN Upgraded(v, el) ELSE Otherwise(default, ZeroList(el, 0))
GottenStructs(el, v, default) ==
    IF Upgrades(v, el) THEN Upgraded(v, el)
    ELSE IF default = NoValue THEN ZeroList(el, 0) ELSE Upgraded(default, el)
GottenAnyList(v, default) ==
    IF IsList(v) THEN v ELSE Otherwise(default, ZeroList(Element("Void"), 0))
GottenData(v, default) == IF IsBytes(v) THEN v ELSE Otherwise(default, ZeroList(Element("Byte"), 0))
GottenText(v, default) == IF IsBytes(v) THEN v ELSE Otherwise(default, ZeroList(Element("Byte"), 1))

Gotten(type, size, v, default) ==
    CASE type.t \in {"struct", "anystruct"} -> GottenStruct(size, v, default)
      [] type.t = "list" -> GottenList(type.el, v, default)
      [] type.t = "structs" -> GottenStructs(type.el, v, default)
      [] type.t = "anylist" -> GottenAnyList(v, default)
      [] type.t = "data" -> GottenData(v, default)
      [] type.t = "text" -> GottenText(v, default)
      [] OTHER -> v

\* The sizes an accessor may ask for.
SizesOf(type) ==
    CASE type.t = "struct" -> {type.size}
      [] type.t = "anystruct" -> Sizes
      [] OTHER -> {Empty}

(* What a pointer is set to.  Only the field of a typed list asks for a    *)
(* size; its variant takes the list as it is.  A list that cannot have the *)
(* size is an error, which leaves null.                                    *)
TakenStruct(size, w) == Grown(w, size)
TakenList(el, w) == IF Upgrades(w, el) THEN Upgraded(w, el) ELSE NoValue
Taken(type, size, w, ofVariant) ==
    CASE type.t \in {"struct", "anystruct"} -> TakenStruct(size, w)
      [] type.t = "list" /\ ~ofVariant -> TakenList(type.el, w)
      [] OTHER -> w

(* What `init` puts into a pointer. *)
InitialStructs(type) == { Zero(size) : size \in SizesOf(type) }
InitialList(el) == { ZeroList(el, n) : n \in { m \in Counts : m <= MaxElements(el) } }
InitialText == { ZeroList(Element("Byte"), n + 1) : n \in Counts }
InitialAny == { Zero(size) : size \in Sizes } \cup { ZeroList(Element("Byte"), 1) }
Initial(type) ==
    CASE type.t \in {"struct", "anystruct"} -> InitialStructs(type)
      [] type.t \in {"list", "structs"} -> InitialList(type.el)
      [] type.t = "anylist" -> UNION { InitialList(Element(e)) : e \in {"Pointer", "Byte"} }
      [] type.t = "data" -> InitialList(Element("Byte"))
      [] type.t = "text" -> InitialText
      [] type.t = "anyptr" -> InitialAny
      [] OTHER -> {}

Get(f) ==
    /\ Do("get", f, NoValue) /\ IsSet(f) /\ D(f).type.t # "cap"
    /\ \E size \in SizesOf(D(f).type) :
          SetPtr(f, Gotten(D(f).type, size, PtrAt(D(f).slot), D(f).default))
    /\ UNCHANGED <<data, orphan>>

GetOrInit(f) ==
    /\ Do("get_or_init", f, NoValue) /\ IsSet(f) /\ D(f).type.t \in {"struct", "anystruct"}
    /\ \E size \in SizesOf(D(f).type) :
          SetPtr(f, Gotten(D(f).type, size, PtrAt(D(f).slot), NoValue))
    /\ UNCHANGED <<data, orphan>>

\* init_case, and `get` of an AnyPtr variant.
InitCase(f) ==
    /\ Do("choose", f, NoValue) /\ IsVariant(schema, f)
    /\ data' = SetVariant(f)
    /\ SetPtr(f, SetCaseAndBuildPtr(f))
    /\ UNCHANGED orphan

InitPtr(f, v) ==
    /\ Do("init", f, v) /\ v \in Initial(D(f).type)
    /\ data' = SetVariant(f)
    /\ SetPtr(f, v)
    /\ UNCHANGED orphan

Set(f, w) ==
    /\ Do("set", f, w) /\ Accepts(D(f).type, w)
    /\ data' = SetVariant(f)
    /\ \E size \in SizesOf(D(f).type) : SetPtr(f, Taken(D(f).type, size, w, IsVariant(schema, f)))
    /\ UNCHANGED orphan

Clear(f) ==
    /\ Do("clear", f, NoValue) /\ IsSet(f)
    /\ SetPtr(f, NoValue)
    /\ UNCHANGED <<data, orphan>>

Disown(f) ==
    /\ Do("disown", f, NoValue) /\ IsSet(f) /\ orphan = NoOrphan
    /\ orphan' = [type |-> D(f).type, v |-> PtrAt(D(f).slot)]
    /\ SetPtr(f, NoValue)
    /\ UNCHANGED data

Adopt(f) ==
    /\ Do("adopt", f, NoValue) /\ orphan.type = D(f).type
    /\ data' = SetVariant(f)
    /\ SetPtr(f, orphan.v)
    /\ orphan' = NoOrphan

-----------------------------------------------------------------------------
(* Elements, behind the builder that `get` gives. *)
Lists == { f \in Pointers : D(f).type.t \in {"list", "structs", "data"} }
ListBuilder(f) == Gotten(D(f).type, Empty, PtrAt(D(f).slot), D(f).default)
ItemType(f) == D(f).type.of
PtrLists == { f \in Lists : ItemType(f).t \notin {"word", "struct"} }
DoItem(op, f, i, w, list) ==
    /\ Do(op, f, [i |-> i, v |-> w]) /\ IsSet(f)
    /\ SetPtr(f, list)
    /\ UNCHANGED <<data, orphan>>

SetWordItem(f, i, w) ==
    /\ ItemType(f).t = "word"
    /\ DoItem("set_item", f, i, w, SetWord(ListBuilder(f), i, 1, w))

\* set_with_caveats: as much of a struct as the element has room for.  Null pointers are skipped.
Overlay(s, t, given) == [j \in DOMAIN s |-> IF j \in given THEN t[j] ELSE s[j]]
Given(kids) == { j \in DOMAIN kids : kids[j] # NoValue }
SetStructItem(f, i, w) ==
    /\ ItemType(f).t = "struct" /\ w.k = "struct"
    /\ DoItem("set_item", f, i, w,
              [ListBuilder(f) EXCEPT !.items[i] =
                 Item(Overlay(@.data, w.data, DOMAIN w.data), Overlay(@.kids, w.kids, Given(w.kids)))])

PtrItem(f, i) == Kid(ListBuilder(f), <<i, 1>>)
DoPtrItem(op, f, i, w, v) == DoItem(op, f, i, w, SetKid(ListBuilder(f), <<i, 1>>, v))

\* A list that cannot be had, and a blob that is not there, is an empty builder beside the message.
GetItem(f, i) ==
    DoPtrItem("get", f, i, NoValue,
      IF ItemType(f).t = "list" /\ Upgrades(PtrItem(f, i), ItemType(f).el)
      THEN Upgraded(PtrItem(f, i), ItemType(f).el) ELSE PtrItem(f, i))
SetPtrItem(f, i, w) ==
    Accepts(ItemType(f), w) /\ DoPtrItem("set_item", f, i, w, Taken(ItemType(f), Empty, w, FALSE))
InitItem(f, i, v) == v \in Initial(ItemType(f)) /\ DoPtrItem("set_item", f, i, v, v)
ClearItem(f, i) == DoPtrItem("set_item", f, i, NoValue, NoValue)

-----------------------------------------------------------------------------
Init ==
    /\ schema \in Schemas
    /\ \E s \in schema.from : data = s.data /\ ptrs = s.ptrs
    /\ orphan = NoOrphan
    /\ call = [op |-> "none", field |-> Top, arg |-> NoValue]

Next ==
    \/ GrowStruct
    \/ \E f \in Of({"data", "enum"}) : \E value \in [DOMAIN D(f).default -> {0, 1}] :
         SetData(f, value) \/ SetEnum(f, value)
    \/ \E f \in Of({"void"}) : SetVoid(f)
    \/ \E g \in Of({"group"}) : SetGroup(g)
    \/ \E f \in Pointers :
         \/ Get(f) \/ GetOrInit(f) \/ InitCase(f) \/ Clear(f) \/ Disown(f) \/ Adopt(f)
         \/ \E v \in Initial(D(f).type) : InitPtr(f, v)
         \/ \E w \in Sources : Set(f, w)
    \/ \E f \in Lists \ PtrLists : \E i \in DOMAIN ListBuilder(f).items :
         \/ \E w \in Words : SetWordItem(f, i, w)
         \/ \E w \in Sources : SetStructItem(f, i, w)
    \/ \E f \in PtrLists : \E i \in DOMAIN ListBuilder(f).items :
         \/ \E w \in Sources : SetPtrItem(f, i, w)
         \/ \E v \in Initial(ItemType(f)) : InitItem(f, i, v)
         \/ GetItem(f, i) \/ ClearItem(f, i)

Spec == Init /\ [][Next]_vars

-----------------------------------------------------------------------------
(* The accessors do with bits and pointers what the same calls do to a     *)
(* record: a field has the value it was last set to or the default,        *)
(* whatever shares its slot; a variant is hidden once another is set, and  *)
(* nothing of its value comes back as that of the other; a builder shows   *)
(* what the readers showed before it grew or copied anything; orphans keep *)
(* their value; and one element of a list is changed alone.                *)
View == INSTANCE Record WITH
    rec <- [f \in Names |-> Read(f)],
    held <- IF orphan = NoOrphan THEN orphan ELSE [orphan EXCEPT !.v = Option(orphan.type, @)]
RecordSpec == View!Spec

(* What the schema does not know, padding and the fields of newer schemas, *)
(* is never touched (ptr.rs, write_unchecked; quotes.rs, the clears).      *)
Known(f) ==
    (IF D(f).kind \in {"data", "enum"} THEN Slot(D(f).slot, Len(D(f).default)) ELSE {})
    \cup (IF IsVariant(schema, f) THEN Slot(D(f).variant.slot, TagBits) ELSE {})
UnknownKept ==
    [][ /\ \A i \in DOMAIN data \ UNION { Known(f) : f \in Names } : data'[i] = data[i]
        /\ \A j \in DOMAIN ptrs \ { D(f).slot + 1 : f \in Pointers } : ptrs'[j] = ptrs[j] ]_vars

\* The last call is no part of a state.
FieldsView == <<schema, data, ptrs, orphan>>
=============================================================================
