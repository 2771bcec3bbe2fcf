------------------------------- MODULE Layout -------------------------------
(***************************************************************************)
(* Class layouts (newbcpl-sema/src/layout.rs): the offset of every field,  *)
(* the virtual table and the pointers the collector traces.  A root class  *)
(* starts with the word of its table and the slots of CREATE and RELEASE;  *)
(* a subclass starts with all its parent has.                              *)
(***************************************************************************)
EXTENDS Typing

WordBytes == 8

Entry(method, owner, class) == [method |-> method, owner |-> owner, class |-> class]
SlotOf(vtable, method) == Min({i \in DOMAIN vtable : vtable[i].method = method}) - 1
Methods(vtable) == {vtable[i].method : i \in DOMAIN vtable}

Root == [parent |-> NoName, size |-> WordBytes, fields |-> <<>>, pointers |-> {},
         vtable |-> <<Entry("CREATE", NoName, NoName), Entry("RELEASE", NoName, NoName)>>]

\* Variant of AddMethod: an override is one more entry of the table.
AddMethodAgain(layout, class, m) ==
    [layout EXCEPT !.vtable = Append(@, Entry(m.name, class, m.class))]

\* An override takes its method's slot, any other method the next one.
AddMethod(layout, class, m) ==
    LET slot == SlotOf(layout.vtable, m.name) + 1
    IN IF m.name \in Methods(layout.vtable)
       THEN [layout EXCEPT
                !.vtable[slot].owner = class,
                !.vtable[slot].class = IF m.class # NoName THEN m.class ELSE @]
       ELSE [layout EXCEPT !.vtable = Append(@, Entry(m.name, class, m.class))]

AddField(layout, class, f) ==
    [layout EXCEPT
        !.fields = Append(@, [name |-> f.name, hint |-> f.hint, class |-> f.class,
                              offset |-> layout.size]),
        !.pointers = IF f.hint \in Pointers \/ f.class # NoName
                     THEN @ \cup {layout.size} ELSE @,
        !.size = @ + WordBytes]

\* compute_one; an unknown parent counts as none.
RECURSIVE LayoutOf(_, _)
LayoutOf(classes, name) ==
    LET c == classes[name]
        start == IF c.extends \in DOMAIN classes THEN LayoutOf(classes, c.extends) ELSE Root
        fields == FoldLeft(LAMBDA l, f: AddField(l, name, f), start, c.fields)
    IN FoldLeft(LAMBDA l, m: AddMethod(l, name, m),
                [fields EXCEPT !.parent = c.extends], c.methods)
Layouts(classes) == [name \in DOMAIN classes |-> LayoutOf(classes, name)]
=============================================================================
