---------------------------- MODULE MessageTree ----------------------------
(***************************************************************************)
(* What a message under construction promises: a tree of values, with one  *)
(* orphan beside it and the capabilities its table holds.  There are no    *)
(* segments, offsets, pads or pointers here: an operation changes the      *)
(* value at one place of the tree and nothing else.                        *)
(***************************************************************************)
EXTENDS Values

CONSTANTS
    Structs,   \* the sizes structs are made with
    Lists,     \* [el, n]: the lists that are made
    Elements,  \* the element sizes lists are grown to
    Data,      \* what is written: it fits the smallest element
    Copied     \* the values of other messages

VARIABLES
    root,     \* the value of the root pointer
    orphan,   \* the value of the orphan, NoValue if there is none
    caps,     \* for each entry of the table, whether it is held
    short,    \* the last call could not do all it was asked for
    call      \* what the last call was

vars == <<root, orphan, caps, short, call>>

-----------------------------------------------------------------------------
RECURSIVE Paths(_)
Paths(v) ==
    {<<>>} \cup UNION { { <<b>> \o path : path \in Paths(Kid(v, b)) } : b \in Branches(v) }

RECURSIVE ValueAt(_, _)
ValueAt(v, path) == IF path = <<>> THEN v ELSE ValueAt(Kid(v, Head(path)), Tail(path))

RECURSIVE Put(_, _, _)
Put(v, path, w) ==
    IF path = <<>> THEN w
    ELSE SetKid(v, Head(path), Put(Kid(v, Head(path)), Tail(path), w))

RECURSIVE CapsIn(_)
CapsIn(v) ==
    IF v.k = "cap" THEN {v.i} ELSE UNION { CapsIn(Kid(v, b)) : b \in Branches(v) }
\* What was dropped with a value is not held any more.
Without(held, v) == [i \in DOMAIN held |-> held[i] /\ i - 1 \notin CapsIn(v)]

\* w copies v, with capabilities from `first` on; a partial copy has nulls for what
\* could not be copied.
RECURSIVE CopyOf(_, _, _, _)
CopyOf(w, v, first, partial) ==
    \/ w = NoValue /\ (partial \/ v = NoValue)
    \/ w.k = "cap" /\ v.k = "cap" /\ w.i >= first
    \/ /\ w.k = v.k /\ w.k \in {"struct", "list"}
       /\ w.k = "list" => w.el = v.el
       /\ Len(Items(w)) = Len(Items(v)) /\ Branches(w) = Branches(v)
       /\ \A i \in DOMAIN Items(w) : Items(w)[i].data = Items(v)[i].data
       /\ \A b \in Branches(w) : CopyOf(Kid(w, b), Kid(v, b), first, partial)

Needed(v) == [data |-> Len(TrimEnd(v.data, ZeroWord)), ptrs |-> Len(TrimEnd(v.kids, NoValue))]

RECURSIVE Canonical(_)
CanonicalItem(v, size) ==
    Item(SubSeq(v.data, 1, size.data), [j \in 1..size.ptrs |-> Canonical(v.kids[j])])
Canonical(v) ==
    LET most == FoldLeft(LAMBDA size, u : MaxSize(size, Needed(u)), Empty, Items(v)) IN
    CASE v.k = "struct" -> CanonicalItem(v, Needed(v))
      [] v.k = "list" /\ IsComposite(v.el) ->
           ListOf(Composite(most), [i \in DOMAIN v.items |-> CanonicalItem(v.items[i], most)])
      [] v.k = "list" /\ ~IsComposite(v.el) ->
           ListOf(v.el, [i \in DOMAIN v.items |-> CanonicalItem(v.items[i], StructUpgrade(v.el))])
      [] OTHER -> v

\* What a value may be copied as: as it is, canonically, or with room for more.
Forms(v) ==
    {v, Canonical(v)}
    \cup (IF v.k = "struct" THEN { Grown(v, size) : size \in Structs } ELSE {})
    \cup (IF v.k = "list"
          THEN { GrownList(v, UpgradeTo(v.el, el)) :
                   el \in { e \in Elements : UpgradeTo(v.el, e) # NoUpgrade } } ELSE {})

-----------------------------------------------------------------------------
Init ==
    /\ root = NoValue /\ orphan = NoValue /\ caps = <<>>
    /\ short = FALSE /\ call = "init"

Replace(path, v) == root' = Put(root, path, v)
Drop(path) == caps' = Without(caps, ValueAt(root, path))

\* init_struct, init_list, init_blob and clear; an allocation that fails leaves null.
Overwrite(path) ==
    /\ \/ Replace(path, NoValue)
       \/ /\ short' = FALSE
          /\ \/ \E size \in Structs : Replace(path, Zero(size))
             \/ \E l \in Lists : Replace(path, ZeroList(l.el, l.n))
    /\ Drop(path)
    /\ UNCHANGED orphan

\* to_struct_mut and to_list_mut: the value grows, its content stays.
Enlarge(path) ==
    LET v == ValueAt(root, path) IN
    /\ \/ \E size \in Structs : v.k = "struct" /\ Replace(path, Grown(v, size))
       \/ \E el \in Elements :
             /\ v.k = "list" /\ UpgradeTo(v.el, el) # NoUpgrade
             /\ Replace(path, GrownList(v, UpgradeTo(v.el, el)))
    /\ short' = FALSE
    /\ UNCHANGED <<orphan, caps>>

\* A call that is refused leaves everything as it was.
Refuse == short' = TRUE /\ UNCHANGED <<root, orphan, caps>>

Write(path) ==
    LET v == ValueAt(root, path) IN
    /\ \E i \in DOMAIN Items(v), x \in Data : \E j \in DOMAIN Items(v)[i].data :
          Replace(path, SetWord(v, i, j, x))
    /\ short' = FALSE
    /\ UNCHANGED <<orphan, caps>>

SetCap(path) ==
    /\ Replace(path, CapOf(Len(caps)))
    /\ caps' = Append(Without(caps, ValueAt(root, path)), TRUE)
    /\ short' = FALSE
    /\ UNCHANGED orphan

\* copy_from, set_struct and set_list, which may stop anywhere.
Copy(path) ==
    /\ path \in Paths(root') /\ Replace(path, ValueAt(root', path))
    /\ \E v \in UNION { Forms(u) : u \in Copied } :
          CopyOf(ValueAt(root', path), v, Len(caps), short')
    /\ LET kept == Without(caps, ValueAt(root, path)) IN
       /\ Len(caps') >= Len(caps)
       /\ \A i \in DOMAIN caps' : caps'[i] = (IF i \in DOMAIN caps THEN kept[i] ELSE TRUE)
       /\ CapsIn(ValueAt(root', path)) = Len(caps)..Len(caps') - 1
    /\ UNCHANGED orphan

\* A copy into the items of a value: w becomes u, as much of it as v has.
Common(s, t) == 1..Smaller(Len(s), Len(t))
Merged(u, w, v, partial) ==
    /\ DOMAIN u.data = DOMAIN w.data /\ DOMAIN u.kids = DOMAIN w.kids
    /\ \A i \in DOMAIN u.data :
          u.data[i] = IF i \in Common(w.data, v.data) THEN v.data[i] ELSE w.data[i]
    /\ \A i \in DOMAIN u.kids :
          IF i \in Common(w.kids, v.kids) /\ v.kids[i] # NoValue
          THEN CopyOf(u.kids[i], v.kids[i], Len(caps), partial) ELSE u.kids[i] = w.kids[i]

\* Items of a list can be copied alone, and only an error stops in between.
Merge(path) ==
    LET w == ValueAt(root, path)
        u == ValueAt(root', path)
    IN  /\ path \in Paths(root') /\ Replace(path, u)
        /\ u.k = w.k /\ w.k \in {"struct", "list"}
        /\ w.k = "list" => u.el = w.el
        /\ DOMAIN Items(u) = DOMAIN Items(w)
        /\ \/ \E v \in Copied, i \in DOMAIN Items(w) :
                 /\ v.k = "struct" /\ Merged(Items(u)[i], Items(w)[i], v, short')
                 /\ \A j \in DOMAIN Items(w) \ {i} : Items(u)[j] = Items(w)[j]
           \/ \E v \in Copied :
                 /\ v.k = "list" /\ w.k = "list"
                 /\ \E first \in DOMAIN v.items, to, last \in DOMAIN w.items :
                      /\ first + last - to \in DOMAIN v.items
                      /\ \A j \in DOMAIN w.items :
                           \/ /\ j \in to..last
                              /\ Merged(u.items[j], w.items[j], v.items[first + j - to], short')
                           \/ (j \notin to..last \/ short') /\ u.items[j] = w.items[j]
        /\ \A i \in DOMAIN caps : caps'[i] = caps[i]
        /\ \A i \in DOMAIN caps' \ DOMAIN caps : caps'[i]
        /\ UNCHANGED orphan

Disown(path) ==
    /\ orphan = NoValue /\ orphan' = ValueAt(root, path)
    /\ Replace(path, NoValue)
    /\ short' = FALSE
    /\ UNCHANGED caps

Adopt(path) ==
    /\ \/ short' = FALSE /\ Replace(path, orphan) /\ orphan' = NoValue
       \/ short' = TRUE /\ Replace(path, NoValue) /\ UNCHANGED orphan
    /\ Drop(path)

NewOrphan ==
    /\ orphan = NoValue /\ short' = FALSE
    /\ \/ \E size \in Structs : orphan' = Zero(size)
       \/ \E l \in Lists : orphan' = ZeroList(l.el, l.n)
    /\ UNCHANGED <<root, caps>>

\* An orphan that is forgotten keeps its capabilities.
DropOrphan == orphan' = NoValue /\ short' = FALSE /\ UNCHANGED <<root, caps>>

By(calls, A) == call' \in calls /\ A
Next ==
    \/ \E path \in Paths(root) :
         \/ By({"init", "obtain"}, Overwrite(path))
         \/ By({"grow", "obtain"}, Enlarge(path))
         \/ By({"write"}, Write(path))
         \/ By({"cap"}, SetCap(path))
         \/ By({"copy"}, Copy(path))
         \/ By({"merge"}, Merge(path))
         \/ By({"disown"}, Disown(path))
         \/ By({"adopt"}, Adopt(path))
    \/ By({"orphan"}, NewOrphan)
    \/ By({"forget"}, DropOrphan)
    \/ By({"grow", "orphan", "merge"}, Refuse)

Spec == Init /\ [][Next]_vars
=============================================================================
