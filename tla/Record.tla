------------------------------- MODULE Record -------------------------------
(***************************************************************************)
(* What the accessors of generated code promise: a record whose fields     *)
(* have values of their types.  There are no slots, tags, bits or pointers *)
(* here.  A variant is hidden while another one of its union is chosen; a  *)
(* pointer that is null, or not of its type, is unset and read as its      *)
(* default.                                                                *)
(***************************************************************************)
EXTENDS Schema

CONSTANT Schemas  \* the struct types

VARIABLES
    schema,  \* the type of the record
    rec,     \* for each field its value, Unset or Hidden
    held,    \* the orphan: its type and value; NoOrphan if there is none
    call     \* the last call: the accessor, its field and what it was given

vars == <<schema, rec, held, call>>

NoOrphan == [type |-> OtherType("none"), v |-> NoValue]

D(f) == schema.fields[f]
Reachable(f) == \A g \in Enclosing(schema, f) : rec[g] # Hidden
Shown(f) == IF rec[f] = Unset THEN Default(D(f)) ELSE rec[f]
\* Field f is chosen and has value v.
After(f, v) ==
    [g \in DOMAIN rec |->
       CASE g = f -> v [] g \in Excluded(schema, f) -> Hidden [] OTHER -> rec[g]]

Init ==
    /\ schema \in Schemas
    /\ DOMAIN rec = DOMAIN schema.fields
    /\ \A f \in DOMAIN rec :
          (rec[f] = Hidden) =>
              \/ IsVariant(schema, f)
              \/ \E g \in Enclosing(schema, f) : rec[g] = Hidden
    /\ held = NoOrphan /\ call.op = "none"

-----------------------------------------------------------------------------
\* A builder of the field: a default may take the place of what is unset.
Get(f) ==
    /\ rec[f] # Hidden
    /\ rec' \in {rec, [rec EXCEPT ![f] = Shown(f)]}
    /\ UNCHANGED held

\* A builder of the field that has no default: what is unset becomes blank.
GetOrInit(f) ==
    /\ rec[f] # Hidden
    /\ rec' = [rec EXCEPT ![f] = IF @ = Unset THEN Blank(D(f).type) ELSE @]
    /\ UNCHANGED held

Set(f) ==
    /\ rec' = After(f, IF D(f).kind = "ptr" THEN Option(D(f).type, call'.arg) ELSE BitsOf(call'.arg))
    /\ UNCHANGED held

\* A variant is chosen; one that was not chosen before is as good as new.
Choose(f) ==
    /\ rec' = After(f, IF rec[f] # Hidden THEN rec[f]
                       ELSE IF D(f).kind = "ptr" THEN Unset ELSE Chosen)
    /\ UNCHANGED held

ChooseGroup(g) ==
    /\ rec' = [f \in DOMAIN rec |->
                 IF f \in Members(schema, g) THEN Fresh(schema, g, f) ELSE After(g, Chosen)[f]]
    /\ UNCHANGED held

Clear(f) == rec[f] # Hidden /\ rec' = [rec EXCEPT ![f] = Unset] /\ UNCHANGED held

Disown(f) ==
    /\ rec[f] # Hidden
    /\ held' = [type |-> D(f).type, v |-> rec[f]]
    /\ rec' = [rec EXCEPT ![f] = Unset]

Adopt(f) ==
    /\ held.type = D(f).type
    /\ rec' = After(f, held.v)
    /\ held' = NoOrphan

-----------------------------------------------------------------------------
(* Elements of lists. *)
At(s, j, zero) == IF j \in DOMAIN s THEN s[j] ELSE zero
\* new is old with what source has, as far as the element has room: it has some size at least.
Overlaid(new, old, source, size, zero) ==
    \A j \in DOMAIN new \cup DOMAIN old \cup DOMAIN source :
       At(new, j, zero) \in
          (IF j \in DOMAIN source THEN {source[j]} ELSE {}) \cup
          (IF j \in DOMAIN source /\ j <= size THEN {} ELSE {At(old, j, zero)})

\* Null pointers are not copied.
Given(kids) == [j \in { k \in DOMAIN kids : kids[k] # NoValue } |-> kids[j]]

\* Only element i changes.
OnlyItem(f, i) ==
    /\ rec' = [rec EXCEPT ![f] = Elems(rec'[f].items)]
    /\ DOMAIN rec'[f].items = DOMAIN Shown(f).items
    /\ \A j \in DOMAIN rec'[f].items \ {i} : rec'[f].items[j] = Shown(f).items[j]
    /\ UNCHANGED held

SetItem(f) ==
    LET i == call'.arg.i
        w == call'.arg.v
        of == D(f).type.of
        new == rec'[f].items[i]
        old == Shown(f).items[i]
    IN  /\ rec[f] # Hidden /\ OnlyItem(f, i)
        /\ CASE of.t = "word" ->
                  new = CanonItem(Item(<<w>> \o SubSeq(old.data, 2, Len(old.data)), old.kids))
             [] of.t = "struct" ->
                  /\ Overlaid(new.data, old.data, w.data, of.size.data, ZeroWord)
                  /\ Overlaid(new.kids, old.kids, Given(CanonItem(w).kids), of.size.ptrs, NoValue)
             [] OTHER ->
                  new = CanonItem(Item(old.data, <<Canon(w)>> \o SubSeq(old.kids, 2, Len(old.kids))))

-----------------------------------------------------------------------------
By(ops, A) == call'.op \in ops /\ A
Next ==
    /\ UNCHANGED schema
    /\ \/ By({"grow"}, UNCHANGED <<rec, held>>)
       \/ LET f == call'.field IN
          /\ call'.op # "grow" /\ Reachable(f)
          /\ \/ By({"get"}, Get(f))
             \/ By({"get_or_init"}, GetOrInit(f))
             \/ By({"set", "init"}, Set(f))
             \/ By({"choose"}, Choose(f))
             \/ By({"choose_group"}, ChooseGroup(f))
             \/ By({"clear"}, Clear(f))
             \/ By({"disown"}, Disown(f))
             \/ By({"adopt"}, Adopt(f))
             \/ By({"set_item"}, SetItem(f))

Spec == Init /\ [][Next]_vars
=============================================================================
