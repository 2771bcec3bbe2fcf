----------------------------- MODULE ObjectHeap -----------------------------
(***************************************************************************)
(* What the heap of newbcpl-runtime promises compiled programs: typed      *)
(* objects that never overlap, are born with every field null, keep their  *)
(* place and contents as long as the program can get at them, and a        *)
(* collection that reclaims exactly the objects it cannot get at.          *)
(***************************************************************************)
EXTENDS Naturals

CONSTANTS
  Addresses,   (* <<cluster, unit>>: where an object may start             *)
  Types,       (* a type is named by the number of units its objects take  *)
  Slots,       (* stack words and module variables                         *)
  Null

VARIABLES
  type,   (* the objects: a function from their addresses to Types         *)
  ref,    (* the one reference field of every object                       *)
  slots   (* what each slot refers to                                      *)

objVars == <<type, ref, slots>>

Objects == DOMAIN type

Extent(a, T) == {<<a[1], u>> : u \in a[2] .. a[2] + T - 1}

(* The objects a chain of fields leads to from the slots: the least set    *)
(* that holds what the slots and its own objects refer to.                 *)
Reachable ==
  LET referred(A) ==
        ({slots[s] : s \in Slots} \cup {ref[a] : a \in A}) \cap Objects
  IN {a \in Objects :
        \A A \in SUBSET Objects : referred(A) \subseteq A => a \in A}

ObjInit ==
  /\ type = << >>
  /\ ref = << >>
  /\ slots = [s \in Slots |-> Null]

(* A new object, clear of every other.  Garbage may be collected on the    *)
(* way, all of it or none.                                                 *)
New ==
  \E s \in Slots, a \in Addresses, kept \in {Objects, Reachable} :
    /\ slots' = [slots EXCEPT ![s] = a]
    /\ \E T \in Types :
         /\ type' = [b \in kept \cup {a} |-> IF b = a THEN T ELSE type[b]]
         /\ \A b \in kept : Extent(a, T) \cap Extent(b, type[b]) = {}
    /\ ref' = [b \in kept \cup {a} |-> IF b = a THEN Null ELSE ref[b]]

(* A program stores only references it holds.                              *)
SetRef ==
  /\ UNCHANGED <<type, slots>>
  /\ \E s \in Slots, v \in {slots[r] : r \in Slots} \cup {Null} :
       /\ slots[s] \in Objects
       /\ ref' = [ref EXCEPT ![slots[s]] = v]

(* It gets them from another slot or from a field of an object.            *)
SetSlot ==
  /\ UNCHANGED <<type, ref>>
  /\ LET held == {slots[s] : s \in Slots}
     IN \E s \in Slots,
           v \in held \cup {Null} \cup {ref[a] : a \in held \cap Objects} :
          slots' = [slots EXCEPT ![s] = v]

Reclaim ==
  /\ UNCHANGED slots
  /\ LET kept == Reachable
     IN /\ type' = [a \in kept |-> type[a]]
        /\ ref' = [a \in kept |-> ref[a]]

ObjNext == SetRef \/ SetSlot \/ Reclaim \/ New

ObjSpec == ObjInit /\ [][ObjNext]_objVars

=============================================================================
