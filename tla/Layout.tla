------------------------------- MODULE Layout -------------------------------
(***************************************************************************)
(* Sizes of structs and of list elements (recapn/src/ptr.rs, num.rs and    *)
(* the rounding of alloc.rs): what the builders allocate and the readers   *)
(* check, and the upgrades of one element size to another.  There is no    *)
(* state here; the widths are parameters, so that the limits of an         *)
(* instance are few enough to try every value next to them.                *)
(***************************************************************************)
EXTENDS Integers

CONSTANTS
    MaxU29,  \* the largest u29: lengths of objects and lists
    MaxU16   \* the largest u16: words of a section of a struct

ASSUME LayoutAssumption ==
    /\ MaxU29 \in Nat \ {0} /\ MaxU16 \in Nat
    /\ MaxU29 > 2 * MaxU16   \* a struct is never longer than a segment

WordBits == 64

-----------------------------------------------------------------------------
(* StructSize *)
StructSize == [data : 0..MaxU16, ptrs : 0..MaxU16]
Empty == [data |-> 0, ptrs |-> 0]
Total(s) == s.data + s.ptrs
FitsInside(s, outer) == s.data <= outer.data /\ s.ptrs <= outer.ptrs
Larger(a, b) == IF a >= b THEN a ELSE b
Smaller(a, b) == IF a <= b THEN a ELSE b
MaxSize(s, t) == [data |-> Larger(s.data, t.data), ptrs |-> Larger(s.ptrs, t.ptrs)]
\* One word of the longest list is its tag.
MaxStructs(s) == IF s = Empty THEN MaxU29 ELSE (MaxU29 - 1) \div Total(s)

(* PtrElementSize and ElementSize: an inline composite carries its size. *)
DataSizes == {"Byte", "TwoBytes", "FourBytes", "EightBytes"}
PtrElementSize == {"Void", "Bit", "Pointer", "InlineComposite"} \cup DataSizes
Element(e) == [e |-> e, size |-> Empty]
Composite(s) == [e |-> "InlineComposite", size |-> s]
ElementSize == {Element(e) : e \in PtrElementSize} \cup {Composite(s) : s \in StructSize}

IsComposite(x) == x.e = "InlineComposite"
IsEmptyElement(x) == x.e = "Void" \/ x = Composite(Empty)
IsPtrs(x) ==
    \/ x.e = "Pointer"
    \/ IsComposite(x) /\ x.size.data = 0 /\ x.size.ptrs # 0
IsMixed(x) == IsComposite(x) /\ x.size.data # 0 /\ x.size.ptrs # 0
IsData(x) == ~IsEmptyElement(x) /\ ~IsPtrs(x) /\ ~IsMixed(x)

Bits(x) ==
    CASE x.e = "Void" -> 0
      [] x.e = "Bit" -> 1
      [] x.e = "Byte" -> 8
      [] x.e = "TwoBytes" -> 16
      [] x.e = "FourBytes" -> 32
      [] x.e \in {"EightBytes", "Pointer"} -> 64
      [] IsComposite(x) -> Total(x.size) * WordBits

\* The words and pointers of one element seen as a struct, as far as upgrades go.
StructUpgrade(x) ==
    CASE x.e \in {"Void", "Bit"} -> Empty
      [] x.e \in DataSizes -> [data |-> 1, ptrs |-> 0]
      [] x.e = "Pointer" -> [data |-> 0, ptrs |-> 1]
      [] IsComposite(x) -> x.size

MaxElements(x) == IF IsComposite(x) THEN MaxStructs(x.size) ELSE MaxU29

DivCeil(a, b) == (a + b - 1) \div b
TotalBytes(x, n) == DivCeil(Bits(x) * n, 8)
TotalWords(x, n) == DivCeil(Bits(x) * n, WordBits)
ObjectWords(x, n) == TotalWords(x, n) + (IF IsComposite(x) THEN 1 ELSE 0)

-----------------------------------------------------------------------------
(***************************************************************************)
(* upgrade_to: the size of a list that serves both as a list of x and as a *)
(* list of y.  NoUpgrade is its None.                                      *)
(***************************************************************************)
NoUpgrade == [e |-> "None", size |-> Empty]

\* A list of primitives or pointers becomes a list of structs that have a word,
\* or a pointer, to put an element in.
StructsHold(s, x) ==
    CASE x.e = "Void" -> TRUE
      [] x.e = "Pointer" -> s.ptrs # 0
      [] x.e \in DataSizes -> s.data # 0
      [] OTHER -> FALSE

UpgradeTo(x, y) ==
    CASE x = y -> x
      [] IsComposite(x) /\ IsComposite(y) /\ x # y -> Composite(MaxSize(x.size, y.size))
      [] IsComposite(x) /\ ~IsComposite(y) /\ StructsHold(x.size, y) -> x
      [] IsComposite(y) /\ ~IsComposite(x) /\ StructsHold(y.size, x) -> y
      [] OTHER -> NoUpgrade

\* upgradable_to: may a reader that expects elements of kind e read a list of x?
UpgradableTo(x, e) ==
    CASE IsComposite(x) /\ e = "InlineComposite" -> TRUE
      [] x.e = "Bit" \/ e = "Bit" -> x.e = e
      [] x.e # "Bit" /\ e = "InlineComposite" -> TRUE
      [] OTHER -> x.e = e
=============================================================================
