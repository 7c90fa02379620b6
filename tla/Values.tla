------------------------------- MODULE Values -------------------------------
(***************************************************************************)
(* The values a pointer of a message may have: nothing, a struct, a list   *)
(* or a capability.  A struct has data words and pointers; an element of   *)
(* any list is seen as a struct, so that a list that grows is a list whose *)
(* items grow.                                                             *)
(***************************************************************************)
EXTENDS Layout, SequencesExt

NoValue == [k |-> "null"]
ZeroWord == [lo |-> 0, up |-> 0]
Item(data, kids) == [k |-> "struct", data |-> data, kids |-> kids]
ListOf(el, items) == [k |-> "list", el |-> el, items |-> items]
CapOf(i) == [k |-> "cap", i |-> i]

Pad(s, n, x) == s \o [i \in 1..(n - Len(s)) |-> x]
\* A struct that has at least some size.
Grown(v, size) == [v EXCEPT !.data = Pad(@, size.data, ZeroWord), !.kids = Pad(@, size.ptrs, NoValue)]
Zero(size) == Grown(Item(<<>>, <<>>), size)
ZeroList(el, n) == ListOf(el, [i \in 1..n |-> Zero(StructUpgrade(el))])
GrownList(v, el) ==
    ListOf(el, [i \in DOMAIN v.items |-> Grown(v.items[i], StructUpgrade(el))])

(* A path is the pointers that lead to a value, each an item and one of its pointers. *)
Items(v) == CASE v.k = "struct" -> <<v>> [] v.k = "list" -> v.items [] OTHER -> <<>>
Branches(v) ==
    UNION { {<<i, j>> : j \in DOMAIN Items(v)[i].kids} : i \in DOMAIN Items(v) }
Kid(v, b) == Items(v)[b[1]].kids[b[2]]
SetKid(v, b, w) ==
    IF v.k = "struct" THEN [v EXCEPT !.kids[b[2]] = w] ELSE [v EXCEPT !.items[b[1]].kids[b[2]] = w]
SetWord(v, i, j, x) ==
    IF v.k = "struct" THEN [v EXCEPT !.data[j] = x] ELSE [v EXCEPT !.items[i].data[j] = x]

(* The canonical form of a value has no zeros at the end of its structs. *)
RECURSIVE TrimEnd(_, _)
TrimEnd(s, x) == IF s # <<>> /\ Last(s) = x THEN TrimEnd(Front(s), x) ELSE s
=============================================================================
