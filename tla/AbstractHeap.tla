----------------------------- MODULE AbstractHeap -----------------------------
(***************************************************************************)
(* What the collector of newbcpl-runtime promises its mutators, with no    *)
(* word about how: blocks are allocated to a mutator, references move      *)
(* between stacks and module roots, and a collection may reclaim only      *)
(* blocks that nobody can reach any more.                                  *)
(***************************************************************************)
CONSTANTS
  Mutators,   (* threads registered with the collector, over a whole run   *)
  Blocks      (* block identities                                          *)

VARIABLES
  allocated,  (* the blocks handed out and not yet reclaimed               *)
  held,       (* held[t]: the blocks the frames of t hold a reference to   *)
  globals     (* the blocks a registered module root refers to             *)

absVars == <<allocated, held, globals>>

(* Everything a mutator can still get at.                                  *)
Reachable == globals \cup UNION {held[t] : t \in Mutators}

AbsInit ==
  /\ allocated = {}
  /\ held = [t \in Mutators |-> {}]
  /\ globals = {}

AbsNew(t) ==
  \E b \in Blocks \ allocated :
    /\ allocated' = allocated \cup {b}
    /\ held' = [held EXCEPT ![t] = @ \cup {b}]
    /\ UNCHANGED globals

AbsLoad(t) ==
  \E b \in globals :
    /\ held' = [held EXCEPT ![t] = @ \cup {b}]
    /\ UNCHANGED <<allocated, globals>>

AbsStore(t) ==
  \E b \in held[t] :
    /\ globals' = globals \cup {b}
    /\ UNCHANGED <<allocated, held>>

AbsClear ==
  \E b \in globals :
    /\ globals' = globals \ {b}
    /\ UNCHANGED <<allocated, held>>

AbsDrop(t) ==
  \E D \in SUBSET held[t] :
    /\ held' = [held EXCEPT ![t] = @ \ D]
    /\ UNCHANGED <<allocated, globals>>

(* The whole contract: garbage, and nothing else, may be reclaimed.        *)
AbsCollect ==
  /\ allocated' \in SUBSET allocated
  /\ Reachable \cap allocated \subseteq allocated'
  /\ UNCHANGED <<held, globals>>

AbsNext ==
  \/ \E t \in Mutators :
       AbsNew(t) \/ AbsLoad(t) \/ AbsStore(t) \/ AbsDrop(t)
  \/ AbsClear
  \/ AbsCollect

AbsSpec == AbsInit /\ [][AbsNext]_absVars

=============================================================================
