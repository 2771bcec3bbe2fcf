------------------------------- MODULE GcHeap -------------------------------
(***************************************************************************)
(* The clusters of newbcpl-runtime/src/gc.rs: first-fit allocation from a  *)
(* free list or from the bump pointer, the marker, and the linear sweep    *)
(* that coalesces and rebuilds the free list.  A collection is one step    *)
(* here; that the world stands still meanwhile is the business of          *)
(* GcSafepoint.                                                            *)
(*                                                                         *)
(* A unit is BLOCK_ALIGN (16) bytes, the size of a header; a pointer is    *)
(* <<cluster, unit>> and refers to a payload unit.  A type is named by the *)
(* number of units total_block_size gives its blocks, and has one          *)
(* reference field, at the start of the payload.                           *)
(*                                                                         *)
(* Two things break what the heap is for, and here they may happen; astray *)
(* is a history variable that keeps which of them have, and nothing but    *)
(* the properties reads it:                                                *)
(*   "sliver"    an allocation left one unit of a free block over, which   *)
(*               is too small for a block and in nobody's;                 *)
(*   "unlisted"  the program stored a reference in a field that the        *)
(*               TypeDesc of its object does not list.                     *)
(***************************************************************************)
EXTENDS Naturals, SequencesExt

CONSTANTS
  Units,        (* units in a cluster                                      *)
  MaxClusters,  (* bound: the heap grows no further                        *)
  Types,        (* block sizes in use                                      *)
  Traced,       (* the types whose TypeDesc lists the field                *)
  Stack,        (* stack words, scanned conservatively                     *)
  Globals,      (* module variables, registered as precise roots           *)
  Null

MinBlock == 2
Slots == Stack \cup Globals
Addresses == (1 .. MaxClusters) \X (0 .. Units - 1)

ASSUME HeapAssumption ==
  /\ Units \in Nat /\ MaxClusters \in Nat \ {0}
  /\ Types \subseteq MinBlock .. Units
  /\ Traced \subseteq Types
  /\ Stack \cap Globals = {}
  /\ Null \notin Addresses

VARIABLES
  clusters,      (* Heap::clusters                                         *)
  block_count,   (* TypeDescRegistry: block_count of every type            *)
  slots,         (* what each slot refers to                               *)
  astray         (* history: what has gone wrong with the heap so far      *)

vars == <<clusters, block_count, slots, astray>>

-----------------------------------------------------------------------------
(* Memory.                                                                 *)

Zeroed == [tag |-> 0, size |-> 0, mark |-> FALSE]

NewCluster ==
  [bump   |-> 0,
   free   |-> <<>>,                               (* free_list, in order   *)
   starts |-> {},                                 (* block_starts          *)
   hdr    |-> [u \in 0 .. Units - 1 |-> Zeroed],
   field  |-> [u \in 0 .. Units - 1 |-> Null]]    (* of the block at u     *)

(* The pointer to the payload of the block at a, and back (header_of).     *)
Payload(a) == <<a[1], a[2] + 1>>
HeaderOf(p) == <<p[1], p[2] - 1>>

Hdr(cs, a) == cs[a[1]].hdr[a[2]]

(* The offsets a linear walk of cluster c visits: it stops at the bump     *)
(* pointer or at the first header that makes no sense.                     *)
Walk(c) ==
  LET from[o \in 0 .. Units] ==
        IF /\ o < c.bump
           /\ c.hdr[o].size >= MinBlock
           /\ o + c.hdr[o].size <= c.bump
        THEN {o} \cup from[o + c.hdr[o].size]
        ELSE {}
  IN from[0]

WalkEnd(c) == Max({0} \cup {o + c.hdr[o].size : o \in Walk(c)})

InUse(c) == {o \in Walk(c) : c.hdr[o].tag # 0}

-----------------------------------------------------------------------------
(* Allocation.                                                             *)

(* Fault: a block from the free list keeps its old payload.                *)
ZeroNothing(c, lo, hi) == c

Zero(c, lo, hi) ==
  [c EXCEPT !.hdr = [u \in DOMAIN @ |-> IF u \in lo .. hi THEN Zeroed ELSE @[u]],
            !.field = [u \in DOMAIN @ |-> IF u \in lo .. hi THEN Null ELSE @[u]]]

Fits(c, n) == {i \in DOMAIN c.free : c.hdr[c.free[i]].size >= n}

(* Fault: the bump pointer is compared without the size asked for.         *)
CanAllocPastEnd(c, n) == Fits(c, n) # {} \/ c.bump < Units

CanAlloc(c, n) == Fits(c, n) # {} \/ c.bump + n <= Units

AllocOffset(c, n) == IF Fits(c, n) # {} THEN c.free[Min(Fits(c, n))] ELSE c.bump

(* Fault: the tail of a split block is not put on the free list.           *)
CutTailLost(c, tail, left) ==
  [c EXCEPT !.starts = @ \cup {tail},
            !.hdr[tail] = [Zeroed EXCEPT !.size = left]]

(* Fault: the tail of a split block is not entered in the bitmap.          *)
CutTailUnmarked(c, tail, left) ==
  [c EXCEPT !.free = <<tail>> \o @,
            !.hdr[tail] = [Zeroed EXCEPT !.size = left]]

(* What is left of a split block goes to the front of the free list.       *)
CutTail(c, tail, left) ==
  [c EXCEPT !.free = <<tail>> \o @,
            !.starts = @ \cup {tail},
            !.hdr[tail] = [Zeroed EXCEPT !.size = left]]

(* Unlink the first block that fits; give back what is left of it when     *)
(* that can be a block of its own.                                         *)
TakeFree(c, n) ==
  LET i     == Min(Fits(c, n))
      b     == c.free[i]
      left  == c.hdr[b].size - n
      split == left >= MinBlock
      taken == Zero([c EXCEPT !.free = RemoveAt(@, i)],
                    b, b + n - 1 + (IF split THEN 0 ELSE left))
  IN IF split THEN CutTail(taken, b + n, left) ELSE taken

TakeBump(c, n) == [c EXCEPT !.bump = @ + n, !.starts = @ \cup {c.bump}]

(* What is left of a split block is too small to be one.                   *)
LeavesSliver(c, n) ==
  /\ Fits(c, n) # {}
  /\ c.hdr[c.free[Min(Fits(c, n))]].size - n \in 1 .. MinBlock - 1

(* Cluster::try_alloc, and the header __newbcpl_new_rec then writes.       *)
TryAlloc(c, n) ==
  LET taken == IF Fits(c, n) # {} THEN TakeFree(c, n) ELSE TakeBump(c, n)
  IN [taken EXCEPT !.hdr[AllocOffset(c, n)] =
                     [tag |-> n, size |-> n, mark |-> FALSE]]

-----------------------------------------------------------------------------
(* Marking.                                                                *)

(* Fault: a pointer to the header counts too.                              *)
InBlock(c, o, unit) == unit \in o .. o + c.hdr[o].size - 1

InPayload(c, o, unit) == unit \in o + 1 .. o + c.hdr[o].size - 1

(* Cluster::resolve: the block whose payload the unit lies in, if any.     *)
Resolve(c, unit) ==
  {o \in {Max({p \in c.starts \cup {0} : p <= unit})} \cap c.starts :
     /\ unit < c.bump
     /\ c.hdr[o].size >= MinBlock
     /\ o + c.hdr[o].size <= c.bump
     /\ InPayload(c, o, unit)
     /\ c.hdr[o].tag # 0}

(* Stack words resolve conservatively, module variables are taken at face  *)
(* value.                                                                  *)
Roots(cs) ==
  LET pointers(S) == {slots[s] : s \in S} \ {Null}
  IN {HeaderOf(p) : p \in pointers(Globals)}
     \cup UNION {{p[1]} \X Resolve(cs[p[1]], p[2]) : p \in pointers(Stack)}

Unmarked(h) == [h EXCEPT !.mark = FALSE]

ClearMarks(c) ==
  LET walk == Walk(c)
  IN [c EXCEPT !.hdr = [u \in DOMAIN @ |->
                          IF u \in walk THEN Unmarked(@[u]) ELSE @[u]]]

(* Fault: the fields of a root are followed, but no further.               *)
NewlyMarkedShallow(cs) ==
  LET open(A) == {a \in A : Hdr(cs, a).tag # 0 /\ ~Hdr(cs, a).mark}
      roots   == open(Roots(cs))
  IN roots \cup open({HeaderOf(p) : p \in
                        {cs[a[1]].field[a[2]] :
                           a \in {b \in roots : Hdr(cs, b).tag \in Traced}}
                          \ {Null}})

(* mark_object over all roots: the blocks it newly marks.  It stops at a   *)
(* block that is marked already or free.                                   *)
NewlyMarked(cs) ==
  LET open(A) == {a \in A : Hdr(cs, a).tag # 0 /\ ~Hdr(cs, a).mark}
      children(A) ==
        {HeaderOf(p) : p \in
           {cs[a[1]].field[a[2]] : a \in {b \in A : Hdr(cs, b).tag \in Traced}}
             \ {Null}}
      upTo[n \in Nat] ==
        IF n = 0 THEN open(Roots(cs))
        ELSE LET found == upTo[n - 1] IN found \cup open(children(found))
  IN upTo[Len(cs) * Units]

SetMarks(cs) ==
  LET new == NewlyMarked(cs)
  IN [i \in DOMAIN cs |->
        [cs[i] EXCEPT !.hdr = [u \in DOMAIN @ |->
            IF <<i, u>> \in new THEN [@[u] EXCEPT !.mark = TRUE] ELSE @[u]]]]

-----------------------------------------------------------------------------
(* Sweeping.                                                               *)

Survives(c, o) == c.hdr[o].tag # 0 /\ c.hdr[o].mark

(* The offsets of S in the order in which pushing them on the front of a   *)
(* list, lowest first, leaves them.                                        *)
Descending(S) ==
  CHOOSE list \in [1 .. Cardinality(S) -> S] :
    \A i, j \in DOMAIN list : i < j => list[i] > list[j]

(* cluster_sweep: every maximal run of blocks that do not survive becomes  *)
(* one free block, pushed on the front of a new free list.                 *)
Sweep(c) ==
  LET walk   == Walk(c)
      end    == WalkEnd(c)
      kept   == {o \in walk : Survives(c, o)}
      gone   == walk \ kept
      inner  == {o \in gone : \E p \in gone : p + c.hdr[p].size = o}
      starts == gone \ inner
      runEnd(o) == Min({k \in kept : k > o} \cup {end})
  IN [c EXCEPT
        !.free = Descending(starts),
        !.starts = @ \ inner,
        !.hdr = [u \in DOMAIN @ |->
                   IF u \in kept THEN Unmarked(@[u])
                   ELSE IF u \in starts
                     THEN [tag |-> 0, size |-> runEnd(u) - u, mark |-> FALSE]
                   ELSE @[u]]]

DeadOfType(c, T) == {o \in InUse(c) : ~Survives(c, o) /\ c.hdr[o].tag = T}

(* run_collect_cycle on a heap [clusters, counts].                         *)
Collected(h) ==
  LET cleared == [i \in DOMAIN h.clusters |-> ClearMarks(h.clusters[i])]
      marked  == SetMarks(cleared)
      dead(T) == UNION {{i} \X DeadOfType(marked[i], T) : i \in DOMAIN marked}
  IN [clusters |-> [i \in DOMAIN marked |-> Sweep(marked[i])],
      counts   |-> [T \in Types |-> h.counts[T] - Cardinality(dead(T))]]

-----------------------------------------------------------------------------
Init ==
  /\ clusters = <<>>
  /\ block_count = [T \in Types |-> 0]
  /\ slots = [s \in Slots |-> Null]
  /\ astray = {}

Heap == [clusters |-> clusters, counts |-> block_count]

Becomes(h) == clusters' = h.clusters /\ block_count' = h.counts

CanAllocIn(cs, n) == {i \in DOMAIN cs : CanAlloc(cs[i], n)}

Grow(h) == [h EXCEPT !.clusters = Append(@, NewCluster)]

(* alloc_under_lock: try, collect, try again, grow.                        *)
WithRoom(h, n) ==
  LET after == Collected(h)
  IN IF CanAllocIn(h.clusters, n) # {} THEN h
     ELSE IF CanAllocIn(after.clusters, n) # {} THEN after
     ELSE Grow(after)

(* __newbcpl_new_rec into slot s, with a collection up front when the      *)
(* allocation threshold says so.                                           *)
NewRec(s, T) ==
  \E h \in {WithRoom(Heap, T), WithRoom(Collected(Heap), T)} :
    LET i == Min(CanAllocIn(h.clusters, T))
    IN /\ Len(h.clusters) <= MaxClusters
       /\ Becomes([clusters |-> [h.clusters EXCEPT ![i] = TryAlloc(@, T)],
                   counts   |-> [h.counts EXCEPT ![T] = @ + 1]])
       /\ slots' = [slots EXCEPT ![s] =
                      Payload(<<i, AllocOffset(h.clusters[i], T)>>)]
       /\ astray' = IF LeavesSliver(h.clusters[i], T)
                      THEN astray \cup {"sliver"} ELSE astray

(* collect(), for GC() and __newbcpl_collect.                              *)
Collect == Becomes(Collected(Heap)) /\ UNCHANGED <<slots, astray>>

(* What compiled code does with references.  A pointer that is stored or   *)
(* dereferenced is a payload start; a stack word may also point further    *)
(* into the payload.                                                       *)
Starts(p) == p # Null /\ Hdr(clusters, HeaderOf(p)).tag # 0

SetField(s, v) ==
  /\ Starts(slots[s])
  /\ v = Null \/ Starts(v)
  /\ LET a == HeaderOf(slots[s])
     IN /\ clusters' = [clusters EXCEPT ![a[1]].field[a[2]] = v]
        /\ astray' = IF v = Null \/ Hdr(clusters, a).tag \in Traced
                       THEN astray ELSE astray \cup {"unlisted"}
  /\ UNCHANGED <<block_count, slots>>

LoadField(s, r) ==
  /\ Starts(slots[r])
  /\ LET a == HeaderOf(slots[r])
     IN slots' = [slots EXCEPT ![s] = clusters[a[1]].field[a[2]]]
  /\ UNCHANGED <<clusters, block_count, astray>>

Copy(s, r) ==
  /\ Starts(slots[r])
  /\ slots' = [slots EXCEPT ![s] = slots[r]]
  /\ UNCHANGED <<clusters, block_count, astray>>

Forget(s) ==
  /\ slots' = [slots EXCEPT ![s] = Null]
  /\ UNCHANGED <<clusters, block_count, astray>>

(* The pointer to the last element, say, is all that is left.              *)
Advance(s) ==
  /\ Starts(slots[s])
  /\ slots' = [slots EXCEPT ![s] =
                 <<@[1], @[2] + Hdr(clusters, HeaderOf(@)).size - 2>>]
  /\ UNCHANGED <<clusters, block_count, astray>>

Next ==
  \/ \E s \in Stack, T \in Types : NewRec(s, T)
  \/ \E s \in Slots, r \in Slots : SetField(s, slots[r])
  \/ \E s \in Slots : SetField(s, Null)
  \/ \E s \in Stack, r \in Slots : LoadField(s, r)
  \/ \E s, r \in Slots : Copy(s, r)
  \/ \E s \in Slots : Forget(s)
  \/ \E s \in Stack : Advance(s)
  \/ Collect

Spec == Init /\ [][Next]_vars
-----------------------------------------------------------------------------
(* Properties.                                                             *)

(* The blocks in use, whether or not a walk gets to them.                  *)
Used == UNION {{i} \X {o \in clusters[i].starts : clusters[i].hdr[o].tag # 0} :
                 i \in DOMAIN clusters}

Pointers == {Payload(a) : a \in Addresses}

(* No allocation has cut a block short yet.                                *)
Unslivered == "sliver" \notin astray

(* The state has the shape Heap, Cluster and BlockHeader give it.          *)
TypeOK ==
  /\ \A i \in DOMAIN clusters :
       /\ clusters[i].bump \in 0 .. Units
       /\ clusters[i].free \in Seq(0 .. Units - 1)
       /\ clusters[i].starts \subseteq 0 .. Units - 1
       /\ clusters[i].hdr \in [0 .. Units - 1 ->
            [tag : {0} \cup Types, size : 0 .. Units, mark : BOOLEAN]]
       /\ clusters[i].field \in [0 .. Units - 1 -> {Null} \cup Pointers]
  /\ block_count \in [Types -> Nat]
  /\ slots \in [Slots -> {Null} \cup Pointers]
  /\ astray \subseteq {"sliver", "unlisted"}

(* The headers tile every cluster up to the bump pointer, as the sweep     *)
(* needs ("Required to walk the cluster linearly during sweep"), and the   *)
(* block_starts bitmap of the stack scan says the same, until an           *)
(* allocation leaves a sliver.                                             *)
Walkable ==
  \A i \in DOMAIN clusters :
    LET c == clusters[i]
    IN WalkEnd(c) = c.bump /\ c.starts = Walk(c)

HeapWalks == Unslivered => Walkable

(* The free list holds every block without a tag, once, and no two of them *)
(* are neighbours: coalescing is complete however splits and sweeps mix.   *)
FreeListExact ==
  \A i \in DOMAIN clusters :
    LET c    == clusters[i]
        free == Walk(c) \ InUse(c)
    IN /\ ToSet(c.free) = free
       /\ Len(c.free) = Cardinality(free)
       /\ \A o \in free : o + c.hdr[o].size \notin free

(* No mark outlives its cycle: a block still marked would hide its         *)
(* children from the next one.                                             *)
NoMarkLeft ==
  \A i \in DOMAIN clusters : \A o \in InUse(clusters[i]) :
    ~clusters[i].hdr[o].mark

(* block_count is what module_has_no_live_blocks takes it for: zero just   *)
(* when no block carries the type's tag.                                   *)
CountsMatch ==
  \A T \in Types :
    block_count[T] =
      Cardinality({a \in Used : Hdr(clusters, a).tag = T})

(* What the collector keeps besides the headers agrees with them whenever  *)
(* the program runs, until an allocation leaves a sliver: free lists,      *)
(* marks and the counts of the types.                                      *)
BooksExact == Unslivered => FreeListExact /\ NoMarkLeft /\ CountsMatch

(* A word of the stack that points anywhere into the payload of a block in *)
(* use keeps that block, and no other word keeps any, until an allocation  *)
(* leaves a sliver.                                                        *)
Resolves ==
  \A i \in DOMAIN clusters : \A u \in 0 .. Units - 1 :
    LET c == clusters[i]
    IN Resolve(c, u) =
         {o \in InUse(c) : u \in o + 1 .. o + c.hdr[o].size - 1}

ResolveExact == Unslivered => Resolves

(* The block a slot or a field refers to.                                  *)
Owner(p) ==
  IF p = Null THEN Null
  ELSE LET hit == Resolve(clusters[p[1]], p[2])
       IN IF hit = {} THEN HeaderOf(p) ELSE <<p[1], Max(hit)>>

(* The clusters implement the heap compiled programs are promised, for as  *)
(* long as nothing has gone astray.                                        *)
Objects == INSTANCE ObjectHeap WITH
  type  <- [a \in Used |-> Hdr(clusters, a).tag],
  ref   <- [a \in Used |-> Owner(clusters[a[1]].field[a[2]])],
  slots <- [s \in Slots |-> Owner(slots[s])]

ObjectsStep == astray' = {} => Objects!ObjNext
ImplementsObjects == Objects!ObjInit /\ [][ObjectsStep]_(Objects!objVars)

(* Whatever a program can get at through its slots and the fields of the   *)
(* objects it reaches is a block in use.                                   *)
ReachesUsedOnly ==
  LET refs(A) == {Owner(clusters[a[1]].field[a[2]]) : a \in A} \ {Null}
  IN /\ {Owner(slots[s]) : s \in Slots} \ {Null} \subseteq Used
     /\ refs(Objects!Reachable) \subseteq Used

(* No use after free, until an allocation leaves a sliver or a reference   *)
(* is stored where the marker does not look for it.                        *)
NoDangling == astray = {} => ReachesUsedOnly

(* Either alone is enough for a use after free (a configuration refutes    *)
(* both).                                                                  *)
HarmlessSliver   == astray \subseteq {"sliver"} => ReachesUsedOnly
HarmlessUnlisted == astray \subseteq {"unlisted"} => ReachesUsedOnly

=============================================================================
