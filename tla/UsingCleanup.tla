---------------------------- MODULE UsingCleanup ----------------------------
(***************************************************************************)
(* USING name = expr DO body, as newbcpl-ir/src/lower.rs lowers it: which  *)
(* RELEASE calls one activation of a routine executes on its way through   *)
(* nested statements and out of them again.                                *)
(*                                                                         *)
(* The lowering keeps its context (using_cleanups, frames, valofs, scopes) *)
(* by recursion over the statements, so the context of a point of a path   *)
(* is that of the statements open there: nest.  What the lowering emits in *)
(* a context is executed when the path gets there, and a path that leaves  *)
(* a statement is back in the context the statement was found in.  Objects *)
(* are numbered as they are bound.                                         *)
(*                                                                         *)
(* IF and its kin open nothing and do not appear; a FOR is a block around  *)
(* a loop; a USING whose class is unknown is no more than a LET; FINISH    *)
(* lowers to what RETURN lowers to.                                        *)
(***************************************************************************)
EXTENDS Naturals, SequencesExt

CONSTANTS
  Names,
  MaxObjects,      (* bound: objects bound by LET and USING                *)
  MaxDepth         (* bound: statements open at a time                     *)

ASSUME UsingAssumption == MaxObjects \in Nat /\ MaxDepth \in Nat

VARIABLES
  nest,      (* the open statements, outermost first                       *)
  scopes,    (* Builder::scopes, with what each name's slot holds          *)
  using_cleanups,  (* the cleanups of the open USINGs, innermost last: the *)
             (* name, and for the properties the object it was bound to    *)
  bound,     (* number of objects bound                                    *)
  owned,     (* the objects bound by a USING                               *)
  released,  (* the objects RELEASE was called on, in order                *)
  done,      (* the routine has returned                                   *)
  shadowed,  (* history: the name of an open USING was bound again         *)
  skipped    (* history: the objects of the USINGs that a RESULTIS inside  *)
             (* a VALOF, or a GOTO, has left without a call                *)

vars == <<nest, scopes, using_cleanups, bound, owned, released, done,
          shadowed, skipped>>

Kinds   == {"block", "using", "loop", "switchon", "valof"}
Objects == 1 .. MaxObjects
Scopes  == Seq([Names -> {0} \cup Objects])
Cleanups   == [name : Names, object : Objects]           (* UsingCleanup *)
Statements == [kind : Kinds, at : 0 .. MaxDepth, scopes : Scopes]

IsUsing(entry) == entry.kind = "using"

IsFrame(i) == nest[i].kind \in {"loop", "switchon"}

Above(i) == {nest[k] : k \in i + 1 .. Len(nest)}

-----------------------------------------------------------------------------
(* Names.                                                                  *)

EmptyScope == [n \in Names |-> 0]

Declared(n, object) == [scopes EXCEPT ![Len(scopes)][n] = object]

Declaring(n) == {i \in DOMAIN scopes : scopes[i][n] # 0}

Lookup(n) == scopes[Max(Declaring(n))][n]

-----------------------------------------------------------------------------
(* Leaving statements.                                                     *)

(* emit_release_call finds the receiver by the USING's name.               *)
Receivers(cleanups) == [i \in DOMAIN cleanups |-> Lookup(cleanups[i].name)]

(* Fault: the slice of cleanups is not reversed.                           *)
EmitFromOutermost(start) ==
  released' = released \o
    Receivers(SubSeq(using_cleanups, start + 1, Len(using_cleanups)))

(* Fault: the slice of cleanups starts one too late.                       *)
EmitFromNext(start) ==
  released' = released \o
    Receivers(Reverse(SubSeq(using_cleanups, start + 2, Len(using_cleanups))))

(* emit_using_cleanups_from.                                               *)
EmitFrom(start) ==
  released' = released \o
    Receivers(Reverse(SubSeq(using_cleanups, start + 1, Len(using_cleanups))))

(* Fault: the scopes opened inside stay open.                              *)
CloseKeepingScopes(i) ==
  /\ nest' = SubSeq(nest, 1, i - 1)
  /\ using_cleanups' = SubSeq(using_cleanups, 1, nest[i].at)
  /\ UNCHANGED scopes

(* Control leaves the i-th open statement: its cleanups and scopes go, a   *)
(* name declared beside it stays.                                          *)
Close(i) ==
  /\ nest' = SubSeq(nest, 1, i - 1)
  /\ using_cleanups' = SubSeq(using_cleanups, 1, nest[i].at)
  /\ scopes' = SubSeq(scopes, 1, Len(nest[i].scopes))

(* The USINGs inside the i-th open statement, and the statement if it is   *)
(* one, are left without a call.                                           *)
Skip(i) ==
  skipped' = skipped \cup
    {using_cleanups[j].object : j \in nest[i].at + 1 .. Len(using_cleanups)}

-----------------------------------------------------------------------------
Init ==
  /\ nest = <<>> /\ scopes = <<EmptyScope>> /\ using_cleanups = <<>>
  /\ bound = 0 /\ owned = {} /\ released = <<>> /\ done = FALSE
  /\ shadowed = FALSE /\ skipped = {}

Open(kind) ==
  /\ ~done
  /\ Len(nest) < MaxDepth
  /\ nest' = Append(nest, [kind |-> kind, at |-> Len(using_cleanups),
                           scopes |-> scopes])
  /\ UNCHANGED <<released, done, skipped>>

Enter ==
  /\ \E kind \in Kinds \ {"using"} :
       /\ Open(kind)
       /\ scopes' = IF kind = "block" THEN Append(scopes, EmptyScope) ELSE scopes
  /\ UNCHANGED <<using_cleanups, bound, owned, shadowed>>

(* Nothing keeps the name of an open USING from being taken again.         *)
Bind(n) ==
  /\ bound < MaxObjects
  /\ bound' = bound + 1
  /\ shadowed' =
       (shadowed \/ \E i \in DOMAIN using_cleanups : using_cleanups[i].name = n)
  /\ scopes' = Declared(n, bound + 1)

Let ==
  /\ ~done
  /\ \E n \in Names : Bind(n)
  /\ UNCHANGED <<nest, using_cleanups, owned, released, done, skipped>>

(* lower_using declares the name in the scope it finds.                    *)
EnterUsing ==
  /\ \E n \in Names :
       /\ Bind(n) /\ Open("using")
       /\ using_cleanups' =
            Append(using_cleanups, [name |-> n, object |-> bound + 1])
  /\ owned' = owned \cup {bound + 1}

(* Control falls off the end of the innermost statement, for a loop with   *)
(* the test that ends it.  The cleanup of a USING is popped and called.    *)
FallThrough ==
  /\ nest # <<>>
  /\ Close(Len(nest))
  /\ IF IsUsing(Last(nest)) THEN EmitFrom(Len(using_cleanups) - 1)
                            ELSE UNCHANGED released
  /\ UNCHANGED <<bound, owned, done, shadowed, skipped>>

(* BREAK and ENDCASE: to the end of the innermost frame.                   *)
Break ==
  /\ \E i \in DOMAIN nest :
       /\ IsFrame(i)
       /\ \A k \in i + 1 .. Len(nest) : ~IsFrame(k)
       /\ EmitFrom(nest[i].at)
       /\ Close(i)
  /\ UNCHANGED <<bound, owned, done, shadowed, skipped>>

(* LOOP, and the back edge of a loop: past any SWITCHON to the next round  *)
(* of the innermost loop, whose body is lowered once, in the scopes it was *)
(* entered with.                                                           *)
Loop ==
  /\ \E i \in DOMAIN nest :
       /\ nest[i].kind = "loop"
       /\ \A entry \in Above(i) : entry.kind # "loop"
       /\ EmitFrom(nest[i].at)
       /\ nest' = SubSeq(nest, 1, i)
       /\ using_cleanups' = SubSeq(using_cleanups, 1, nest[i].at)
       /\ scopes' = nest[i].scopes
  /\ UNCHANGED <<bound, owned, done, shadowed, skipped>>

Valofs == {i \in DOMAIN nest : nest[i].kind = "valof"}

ReturnFromRoutine ==
  /\ ~done /\ done' = TRUE
  /\ EmitFrom(0)
  /\ nest' = <<>> /\ scopes' = SubSeq(scopes, 1, 1) /\ using_cleanups' = <<>>
  /\ UNCHANGED <<bound, owned, shadowed, skipped>>

(* A RESULTIS inside a VALOF goes to the end of the VALOF and emits no     *)
(* cleanups; outside it returns.                                           *)
Resultis ==
  \/ Valofs = {} /\ ReturnFromRoutine
  \/ /\ Valofs # {}
     /\ Close(Max(Valofs))
     /\ Skip(Max(Valofs))
     /\ UNCHANGED <<bound, owned, released, done, shadowed>>

(* GOTO, to a label in a statement further out: no cleanups.               *)
Goto ==
  /\ \E i \in DOMAIN nest :
       /\ Close(i)
       /\ Skip(i)
  /\ UNCHANGED <<bound, owned, released, done, shadowed>>

Next ==
  \/ Enter \/ Let \/ EnterUsing
  \/ FallThrough \/ Break \/ Loop \/ Goto
  \/ ReturnFromRoutine \/ Resultis

Spec == Init /\ [][Next]_vars

-----------------------------------------------------------------------------
(* Properties.                                                             *)

(* The context has the shape the lowering gives it: there is one scope for *)
(* the routine and one for every open block.                               *)
TypeOK ==
  /\ nest \in Seq(Statements)
  /\ scopes \in Scopes
  /\ using_cleanups \in Seq(Cleanups)
  /\ Len(scopes) =
       1 + Cardinality({i \in DOMAIN nest : nest[i].kind = "block"})
  /\ bound \in 0 .. MaxObjects /\ owned \subseteq 1 .. bound
  /\ released \in Seq(Objects)
  /\ done \in BOOLEAN /\ shadowed \in BOOLEAN
  /\ skipped \subseteq Objects

Held == {using_cleanups[i].object : i \in DOMAIN using_cleanups}

(* RELEASE is called on the object of every USING that control has left,   *)
(* once, and on no other: "calls name.RELEASE() exactly once" whatever the *)
(* way out of whatever nest of loops, SWITCHONs and VALOFs, but for the    *)
(* RESULTIS and the GOTO that emit no call.  That much holds until the     *)
(* name of an open USING is bound again: the cleanup then finds the wrong  *)
(* object.                                                                 *)
ReleasedExactlyOnce ==
  ~shadowed =>
    /\ ToSet(released) = owned \ (Held \cup skipped)
    /\ Len(released) = Cardinality(ToSet(released))

(* A step that releases several objects releases the last bound first:     *)
(* "Innermost-first when nested".                                          *)
InnermostFirst ==
  [][~shadowed' =>
       \A i, j \in Len(released) + 1 .. Len(released') :
         i < j => released'[i] > released'[j]]_vars

(* Two promises of the guide that the lowering does not keep: no way out   *)
(* of a USING skips its call, and the object of the call is a USING's      *)
(* whatever names are bound inside.                                        *)
NothingSkipped == skipped = {}

ShadowingHarmless == ToSet(released) \subseteq owned

=============================================================================
