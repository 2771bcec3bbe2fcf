----------------------------- MODULE GcSafepoint -----------------------------
(***************************************************************************)
(* The stop-the-world handshake of newbcpl-runtime/src/gc.rs: mutators     *)
(* that poll SAFEPOINT_REQUESTED and park on SAFEPOINT_CONDVAR, and a      *)
(* mutator that becomes the collector in collect_stw.                      *)
(*                                                                         *)
(* A mutator of the model is one Arc<Mutator> of the code; it registers at *)
(* most once, because registering again creates another Arc.  Blocks have  *)
(* no fields here (tracing is the business of GcHeap): a block is kept by  *)
(* a reference in some frame (held) or in a module root (globals).         *)
(*                                                                         *)
(* collect_stw counts on things that the code does not see to.  Here they  *)
(* may all happen; disturbed is a history variable that keeps which of     *)
(* them have, and nothing but the properties reads it:                     *)
(*   "overlap"    a thread entered collect_stw while another was in it;    *)
(*   "unsettled"  one entered it while a mutator was still on its way into *)
(*                or out of an earlier park;                               *)
(*   "late"       a thread registered while a collection ran;              *)
(*   "unscanned"  a scan passed over the stack of a mutator that held a    *)
(*                block, because its stack_top is 0.                       *)
(***************************************************************************)
EXTENDS Naturals, FiniteSets

CONSTANTS
  Mutators,
  Blocks,
  NoBlock,
  Nobody,          (* owner of a free mutex                                *)
  ScannedStacks,   (* mutators whose stack_top is known (not 0)            *)
  Timeouts,        (* the two seconds of collect_stw may elapse            *)
  Departures       (* the ways a thread leaves: "exit", "unregister"       *)

ASSUME ConstantsAssumption ==
  /\ NoBlock \notin Blocks
  /\ Nobody \notin Mutators
  /\ ScannedStacks \subseteq Mutators
  /\ Timeouts \in BOOLEAN
  /\ Departures \subseteq {"exit", "unregister"}

VARIABLES
  pc,          (* where each mutator is                                    *)
  cont,        (* where a mutator goes on after a park or a collection     *)
  registry,    (* MUTATORS                                                 *)
  state,       (* Mutator::state                                           *)
  requested,   (* SAFEPOINT_REQUESTED                                      *)
  spLock,      (* owner of SAFEPOINT_LOCK                                  *)
  heapLock,    (* owner of the HEAP_CELL mutex during a cycle              *)
  snap,        (* the mutators collect_stw cloned out of MUTATORS          *)
  visible,     (* blocks found between parked_sp and stack_top, and in the *)
               (* spill buffer: the frames as of the last park             *)
  held,        (* blocks the frames really refer to                        *)
  globals,     (* blocks referred to by module roots                       *)
  allocated,   (* blocks outside every free list                           *)
  tagged,      (* allocated blocks whose header carries a type tag         *)
  raw,         (* the block a mutator has been given and not yet tagged    *)
  sps,         (* the mutators whose parked_sp is not 0                    *)
  marked,      (* blocks marked by the running cycle                       *)
  disturbed    (* history: what collect_stw does not allow for, so far     *)

control == <<pc, cont, registry, state, requested, spLock, heapLock, snap>>
data    == <<sps, visible, held, globals, allocated, tagged, raw, marked>>
memory  == <<data, disturbed>>
vars    == <<control, memory>>

-----------------------------------------------------------------------------
(* Control points.                                                         *)

ParkPoints    == {"saw", "lock", "to_wait", "waiting", "leaving"}
CyclePoints   == {"enter", "mark_stacks", "mark_roots", "sweep"}
FinishPoints  == {"release", "resume", "notify"}
AbortPoints   == {"abort_clear", "abort_notify"}
CollectPoints == {"park_self", "request", "poll"}
                   \cup CyclePoints \cup FinishPoints \cup AbortPoints
RunPoints     == {"run", "alloc", "tag"}
Points        == {"absent", "exiting", "exit_notify", "gone"}
                   \cup RunPoints \cup ParkPoints \cup CollectPoints

Goto(t, from, to) ==
  /\ pc[t] = from
  /\ pc' = [pc EXCEPT ![t] = to]

(* SAFEPOINT_CONDVAR.notify_all(): every waiter goes back for the mutex,   *)
(* t itself moves to the point "to".                                       *)
NotifyAll(t, from, to) ==
  /\ pc[t] = from
  /\ pc' = [u \in Mutators |->
              IF u = t THEN to
              ELSE IF pc[u] = "waiting" THEN "lock" ELSE pc[u]]

Collecting(t) == pc[t] \in CollectPoints

Disturbances == {"overlap", "unsettled", "late", "unscanned"}

Disturb(kind, happened) ==
  disturbed' = IF happened THEN disturbed \cup {kind} ELSE disturbed

-----------------------------------------------------------------------------
Init ==
  /\ pc = [t \in Mutators |-> "absent"]
  /\ cont = [t \in Mutators |-> "run"]
  /\ registry = {}
  /\ state = [t \in Mutators |-> "running"]
  /\ requested = FALSE
  /\ spLock = Nobody
  /\ heapLock = Nobody
  /\ snap = [t \in Mutators |-> {}]
  /\ sps = {}
  /\ visible = [t \in Mutators |-> {}]
  /\ held = [t \in Mutators |-> {}]
  /\ globals = {}
  /\ allocated = {}
  /\ tagged = {}
  /\ raw = [t \in Mutators |-> NoBlock]
  /\ marked = {}
  /\ disturbed = {}

-----------------------------------------------------------------------------
(* Joining and leaving.                                                    *)

Register(t) ==
  /\ Goto(t, "absent", "run")
  /\ registry' = registry \cup {t}
  /\ Disturb("late", \E u \in Mutators : Collecting(u))
  /\ UNCHANGED <<cont, state, requested, spLock, heapLock, snap, data>>

(* __newbcpl_unregister_thread: the entry goes, the state stays RUNNING.   *)
Unregister(t) ==
  /\ "unregister" \in Departures
  /\ Goto(t, "run", "gone")
  /\ registry' = registry \ {t}
  /\ held' = [held EXCEPT ![t] = {}]
  /\ UNCHANGED <<cont, state, requested, spLock, heapLock, snap, sps, visible,
                 globals, allocated, tagged, raw, marked, disturbed>>

(* Fault: an exiting thread leaves its state as it was.                    *)
ThreadExitStillRunning(t) ==
  /\ "exit" \in Departures
  /\ Goto(t, "run", "exiting")
  /\ held' = [held EXCEPT ![t] = {}]
  /\ UNCHANGED <<cont, registry, state, requested, spLock, heapLock, snap,
                 sps, visible, globals, allocated, tagged, raw, marked,
                 disturbed>>

(* Drop of the thread-local MutatorTls: a dead thread counts as parked,    *)
(* then its entry goes, then a waiting collector is told.                  *)
ThreadExit(t) ==
  /\ "exit" \in Departures
  /\ Goto(t, "run", "exiting")
  /\ state' = [state EXCEPT ![t] = "parked"]
  /\ held' = [held EXCEPT ![t] = {}]
  /\ UNCHANGED <<cont, registry, requested, spLock, heapLock, snap, sps,
                 visible, globals, allocated, tagged, raw, marked, disturbed>>

ExitRemove(t) ==
  /\ Goto(t, "exiting", "exit_notify")
  /\ registry' = registry \ {t}
  /\ UNCHANGED <<cont, state, requested, spLock, heapLock, snap, memory>>

ExitNotify(t) ==
  /\ spLock = Nobody
  /\ NotifyAll(t, "exit_notify", "gone")
  /\ UNCHANGED <<cont, registry, state, requested, spLock, heapLock, snap,
                 memory>>

-----------------------------------------------------------------------------
(* Mutator code.                                                           *)

(* Compiled code loads a module root, stores into one, clears one, or lets *)
(* a reference go; what it loads lies below the last parked_sp, so it does *)
(* not become visible.                                                     *)
Load(t, b) ==
  /\ pc[t] = "run"
  /\ b \in globals
  /\ held' = [held EXCEPT ![t] = @ \cup {b}]
  /\ UNCHANGED <<control, sps, visible, globals, allocated, tagged, raw,
                 marked, disturbed>>

Store(t, b) ==
  /\ pc[t] = "run"
  /\ b \in held[t]
  /\ globals' = globals \cup {b}
  /\ UNCHANGED <<control, sps, visible, held, allocated, tagged, raw, marked,
                 disturbed>>

Clear(t, b) ==
  /\ pc[t] = "run"
  /\ b \in globals
  /\ globals' = globals \ {b}
  /\ UNCHANGED <<control, sps, visible, held, allocated, tagged, raw, marked,
                 disturbed>>

Drop(t, b) ==
  /\ pc[t] = "run"
  /\ b \in held[t]
  /\ held' = [held EXCEPT ![t] = @ \ {b}]
  /\ visible' = [visible EXCEPT ![t] = @ \ {b}]
  /\ UNCHANGED <<control, sps, globals, allocated, tagged, raw, marked,
                 disturbed>>

(* __newbcpl_safepoint at a function entry or a loop back-edge.            *)
SafepointPoll(t) ==
  /\ requested
  /\ Goto(t, "run", "saw")
  /\ cont' = [cont EXCEPT ![t] = "run"]
  /\ UNCHANGED <<registry, state, requested, spLock, heapLock, snap, memory>>

(* __newbcpl_new_rec: poll, then perhaps collect, then allocate.           *)
NewRec(t) ==
  /\ Goto(t, "run", IF requested THEN "saw" ELSE "alloc")
  /\ cont' = [cont EXCEPT ![t] = "alloc"]
  /\ UNCHANGED <<registry, state, requested, spLock, heapLock, snap, memory>>

(* Fault: the block is lost between the allocator and the tag write.       *)
AllocLost(t, b) ==
  /\ heapLock = Nobody
  /\ b \notin allocated
  /\ Goto(t, "alloc", "tag")
  /\ allocated' = allocated \cup {b}
  /\ UNCHANGED <<cont, registry, state, requested, spLock, heapLock, snap,
                 sps, visible, held, globals, tagged, raw, marked, disturbed>>

(* alloc_under_lock hands out a block; its header has no tag yet.          *)
Alloc(t, b) ==
  /\ heapLock = Nobody
  /\ b \notin allocated
  /\ Goto(t, "alloc", "tag")
  /\ allocated' = allocated \cup {b}
  /\ raw' = [raw EXCEPT ![t] = b]
  /\ held' = [held EXCEPT ![t] = @ \cup {b}]
  /\ UNCHANGED <<cont, registry, state, requested, spLock, heapLock, snap,
                 sps, visible, globals, tagged, marked, disturbed>>

(* The bound on Blocks: where the code would grow the heap by one more     *)
(* cluster, the model goes on without the block.                           *)
AllocBeyondBound(t) ==
  /\ heapLock = Nobody
  /\ Blocks \subseteq allocated
  /\ Goto(t, "alloc", "run")
  /\ UNCHANGED <<cont, registry, state, requested, spLock, heapLock, snap,
                 memory>>

(* The tag is written after the heap lock was given up.                    *)
WriteTag(t) ==
  /\ Goto(t, "tag", "run")
  /\ tagged' = tagged \cup {raw[t]}
  /\ raw' = [raw EXCEPT ![t] = NoBlock]
  /\ UNCHANGED <<cont, registry, state, requested, spLock, heapLock, snap,
                 sps, visible, held, globals, allocated, marked, disturbed>>

-----------------------------------------------------------------------------
(* park_self_for_safepoint.                                                *)

(* Fault: parks without storing the captured sp and registers.             *)
ParkSelfUncaptured(t) ==
  /\ Goto(t, "saw", "lock")
  /\ state' = [state EXCEPT ![t] = "parked"]
  /\ UNCHANGED <<cont, registry, requested, spLock, heapLock, snap, sps,
                 visible, held, globals, allocated, tagged, raw, marked,
                 disturbed>>

ParkSelf(t) ==
  /\ Goto(t, "saw", "lock")
  /\ visible' = [visible EXCEPT ![t] = held[t]]
  /\ sps' = sps \cup {t}
  /\ state' = [state EXCEPT ![t] = "parked"]
  /\ UNCHANGED <<cont, registry, requested, spLock, heapLock, snap, held,
                 globals, allocated, tagged, raw, marked, disturbed>>

(* Takes SAFEPOINT_LOCK and tests the flag; keeps the mutex up to the wait *)
(* when the flag is up, gives it back at once when it is down.             *)
LockAndTest(t) ==
  /\ spLock = Nobody
  /\ Goto(t, "lock", IF requested THEN "to_wait" ELSE "leaving")
  /\ spLock' = IF requested THEN t ELSE Nobody
  /\ UNCHANGED <<cont, registry, state, requested, heapLock, snap, memory>>

CondWait(t) ==
  /\ Goto(t, "to_wait", "waiting")
  /\ spLock' = Nobody
  /\ UNCHANGED <<cont, registry, state, requested, heapLock, snap, memory>>

(* The wait is over, but the state says PARKED until this step.            *)
Leave(t) ==
  /\ Goto(t, "leaving", cont[t])
  /\ state' = [state EXCEPT ![t] = "running"]
  /\ UNCHANGED <<cont, registry, requested, spLock, heapLock, snap, memory>>

-----------------------------------------------------------------------------
(* collect_stw.  Called by collect() from compiled code, and by            *)
(* __newbcpl_new_rec on the threshold or when the clusters are full.       *)

EnterUnsuited ==
  disturbed' = disturbed
    \cup {k \in {"overlap"} : \E u \in Mutators : Collecting(u)}
    \cup {k \in {"unsettled"} : \E u \in Mutators : pc[u] \in ParkPoints}

(* Fault: the initiator leaves itself out of the snapshot.                 *)
BeginCollectOthersOnly(t) ==
  /\ pc[t] \in {"run", "alloc"}
  /\ cont' = [cont EXCEPT ![t] = pc[t]]
  /\ pc' = [pc EXCEPT ![t] = "park_self"]
  /\ snap' = [snap EXCEPT ![t] = registry \ {t}]
  /\ EnterUnsuited
  /\ UNCHANGED <<registry, state, requested, spLock, heapLock, data>>

BeginCollect(t) ==
  /\ pc[t] \in {"run", "alloc"}
  /\ cont' = [cont EXCEPT ![t] = pc[t]]
  /\ pc' = [pc EXCEPT ![t] = "park_self"]
  /\ snap' = [snap EXCEPT ![t] = registry]
  /\ EnterUnsuited
  /\ UNCHANGED <<registry, state, requested, spLock, heapLock, data>>

ParkInitiator(t) ==
  /\ Goto(t, "park_self", "request")
  /\ visible' = [visible EXCEPT ![t] = held[t]]
  /\ sps' = sps \cup {t}
  /\ state' = [state EXCEPT ![t] = "parked"]
  /\ UNCHANGED <<cont, registry, requested, spLock, heapLock, snap, held,
                 globals, allocated, tagged, raw, marked, disturbed>>

Request(t) ==
  /\ Goto(t, "request", "poll")
  /\ requested' = TRUE
  /\ UNCHANGED <<cont, registry, state, spLock, heapLock, snap, memory>>

(* Fault: one parked mutator is taken for all of them.                     *)
SomeParked(t) == \E u \in snap[t] : state[u] = "parked"

OthersParked(t) == \A u \in snap[t] \ {t} : state[u] = "parked"

AllParked(t) ==
  /\ OthersParked(t)
  /\ Goto(t, "poll", "enter")
  /\ UNCHANGED <<cont, registry, state, requested, spLock, heapLock, snap,
                 memory>>

(* Two seconds passed: give up.  The last mutator may well have parked     *)
(* since the states were last looked at.                                   *)
ParkTimeout(t) ==
  /\ Timeouts
  /\ Goto(t, "poll", "abort_clear")
  /\ state' = [state EXCEPT ![t] = "running"]
  /\ UNCHANGED <<cont, registry, requested, spLock, heapLock, snap, memory>>

AbortClear(t) ==
  /\ Goto(t, "abort_clear", "abort_notify")
  /\ requested' = FALSE
  /\ UNCHANGED <<cont, registry, state, spLock, heapLock, snap, memory>>

(* notify_all without SAFEPOINT_LOCK: a mutator between its test of the    *)
(* flag and its wait is not woken.                                         *)
AbortNotify(t) ==
  /\ NotifyAll(t, "abort_notify", cont[t])
  /\ UNCHANGED <<cont, registry, state, requested, spLock, heapLock, snap,
                 memory>>

EnterCycle(t) ==
  /\ heapLock = Nobody
  /\ Goto(t, "enter", "mark_stacks")
  /\ heapLock' = t
  /\ UNCHANGED <<cont, registry, state, requested, spLock, snap, memory>>

(* Fault: only the initiator's own stack is scanned.                       *)
MarkOwnStack(t) ==
  /\ Goto(t, "mark_stacks", "mark_roots")
  /\ marked' = tagged \cap visible[t]
  /\ Disturb("unscanned",
             \E u \in registry \ ScannedStacks : held[u] # {})
  /\ UNCHANGED <<cont, registry, state, requested, spLock, heapLock, snap,
                 sps, visible, held, globals, allocated, tagged, raw>>

(* Conservative scan: a word that points into an untagged block resolves   *)
(* to nothing; a mutator without a stack_top is skipped.                   *)
MarkStacks(t) ==
  /\ Goto(t, "mark_stacks", "mark_roots")
  /\ marked' = tagged \cap
                 UNION {visible[u] : u \in snap[t] \cap ScannedStacks}
  /\ Disturb("unscanned",
             \E u \in registry \ ScannedStacks : held[u] # {})
  /\ UNCHANGED <<cont, registry, state, requested, spLock, heapLock, snap,
                 sps, visible, held, globals, allocated, tagged, raw>>

(* Fault: the phase of the module roots is left out.                       *)
MarkRootsSkipped(t) ==
  /\ Goto(t, "mark_roots", "sweep")
  /\ UNCHANGED <<cont, registry, state, requested, spLock, heapLock, snap,
                 memory>>

(* Fault: the flag is cleared as soon as the marking is over.              *)
MarkRootsEarlyRelease(t) ==
  /\ Goto(t, "mark_roots", "sweep")
  /\ marked' = marked \cup (globals \cap tagged)
  /\ requested' = FALSE
  /\ UNCHANGED <<cont, registry, state, spLock, heapLock, snap, sps, visible,
                 held, globals, allocated, tagged, raw, disturbed>>

MarkRoots(t) ==
  /\ Goto(t, "mark_roots", "sweep")
  /\ marked' = marked \cup (globals \cap tagged)
  /\ UNCHANGED <<cont, registry, state, requested, spLock, heapLock, snap,
                 sps, visible, held, globals, allocated, tagged, raw,
                 disturbed>>

(* cluster_sweep: unmarked blocks and blocks without a tag become free     *)
(* list entries; the marks are cleared and the heap lock is given up.      *)
Sweep(t) ==
  /\ Goto(t, "sweep", "release")
  /\ allocated' = allocated \cap marked
  /\ tagged' = tagged \cap marked
  /\ marked' = {}
  /\ heapLock' = Nobody
  /\ UNCHANGED <<cont, registry, state, requested, spLock, snap, sps, visible,
                 held, globals, raw, disturbed>>

ReleaseFlag(t) ==
  /\ Goto(t, "release", "resume")
  /\ requested' = FALSE
  /\ UNCHANGED <<cont, registry, state, spLock, heapLock, snap, memory>>

ResumeInitiator(t) ==
  /\ Goto(t, "resume", "notify")
  /\ state' = [state EXCEPT ![t] = "running"]
  /\ UNCHANGED <<cont, registry, requested, spLock, heapLock, snap, memory>>

(* Fault: notify_all without the mutex.                                    *)
NotifyUnlocked(t) ==
  /\ NotifyAll(t, "notify", cont[t])
  /\ UNCHANGED <<cont, registry, state, requested, spLock, heapLock, snap,
                 memory>>

(* notify_all under SAFEPOINT_LOCK.                                        *)
NotifyLocked(t) ==
  /\ spLock = Nobody
  /\ NotifyAll(t, "notify", cont[t])
  /\ UNCHANGED <<cont, registry, state, requested, spLock, heapLock, snap,
                 memory>>

-----------------------------------------------------------------------------
Mutate(t) ==
  \E b \in Blocks : Load(t, b) \/ Store(t, b) \/ Clear(t, b) \/ Drop(t, b)

Allocate(t) ==
  \/ NewRec(t)
  \/ \E b \in Blocks : Alloc(t, b)
  \/ AllocBeyondBound(t)
  \/ WriteTag(t)

Park(t) == SafepointPoll(t) \/ ParkSelf(t) \/ LockAndTest(t) \/ CondWait(t)
             \/ Leave(t)

Collect(t) ==
  \/ ParkInitiator(t) \/ Request(t) \/ AllParked(t)
  \/ EnterCycle(t) \/ MarkStacks(t) \/ MarkRoots(t) \/ Sweep(t)
  \/ ReleaseFlag(t) \/ ResumeInitiator(t) \/ NotifyLocked(t)

Abort(t) == ParkTimeout(t) \/ AbortClear(t) \/ AbortNotify(t)

Membership(t) ==
  Register(t) \/ Unregister(t) \/ ThreadExit(t) \/ ExitRemove(t)
    \/ ExitNotify(t)

Next ==
  \E t \in Mutators :
    Membership(t) \/ Mutate(t) \/ Allocate(t) \/ Park(t)
      \/ BeginCollect(t) \/ Collect(t) \/ Abort(t)

Spec == Init /\ [][Next]_vars

(* Running code keeps reaching polls (the compiler emits one at every      *)
(* function entry and loop back-edge) and the operating system keeps       *)
(* scheduling every thread; nobody is obliged to start a collection.       *)
Fairness ==
  \A t \in Mutators :
    /\ WF_vars(Park(t))
    /\ WF_vars(Collect(t))
    /\ WF_vars(AbortClear(t) \/ AbortNotify(t))
    /\ WF_vars(ExitRemove(t) \/ ExitNotify(t))
    /\ WF_vars(WriteTag(t))
    /\ WF_vars((\E b \in Blocks : Alloc(t, b)) \/ AllocBeyondBound(t))

FairSpec == Spec /\ Fairness

-----------------------------------------------------------------------------
(* Properties.                                                             *)

TypeOK ==
  /\ pc \in [Mutators -> Points]
  /\ cont \in [Mutators -> {"run", "alloc"}]
  /\ registry \subseteq Mutators
  /\ state \in [Mutators -> {"running", "parked"}]
  /\ requested \in BOOLEAN
  /\ spLock \in Mutators \cup {Nobody}
  /\ heapLock \in Mutators \cup {Nobody}
  /\ snap \in [Mutators -> SUBSET Mutators]
  /\ sps \subseteq Mutators
  /\ visible \in [Mutators -> SUBSET Blocks]
  /\ held \in [Mutators -> SUBSET Blocks]
  /\ globals \subseteq Blocks
  /\ allocated \subseteq Blocks
  /\ tagged \subseteq Blocks
  /\ raw \in [Mutators -> Blocks \cup {NoBlock}]
  /\ marked \subseteq Blocks
  /\ disturbed \subseteq Disturbances

(* No block that a frame of a live thread or a module root refers to has   *)
(* been put on a free list by a sweep.                                     *)
HeldBlocksAllocated ==
  /\ globals \subseteq allocated
  /\ \A t \in Mutators : held[t] \subseteq allocated

(* The collector takes no block that is still referred to, until one of    *)
(* the things collect_stw does not allow for has happened.                 *)
HeldBlocksSurvive == disturbed = {} => HeldBlocksAllocated

(* Each of the four is needed (a configuration refutes it): with the kinds *)
(* alone, a block that is still referred to can be taken.                  *)
HarmlessOverlap   == disturbed \subseteq {"overlap"} => HeldBlocksAllocated
HarmlessUnsettled == disturbed \subseteq {"unsettled"} => HeldBlocksAllocated
HarmlessLate      == disturbed \subseteq {"late"} => HeldBlocksAllocated
HarmlessUnscanned == disturbed \subseteq {"unscanned"} => HeldBlocksAllocated

(* An unscanned stack leaves the handshake itself alone.                   *)
Orderly == disturbed \subseteq {"unscanned"}

StillPoints   == {"lock", "to_wait", "waiting"}

(* From the moment the collector has the heap until the sweep is over, no  *)
(* other registered mutator executes compiled or allocator code: the world *)
(* that collect_stw scans is stopped, in every orderly collection.         *)
WorldStopped ==
  Orderly =>
    \A t, u \in Mutators :
      (pc[t] \in CyclePoints /\ u \in registry \ {t})
        => pc[u] \in StillPoints \cup {"exiting"}

(* The conservative scan sees the frames as they are: while the cycle of   *)
(* an orderly collection runs, the captured stack of every registered      *)
(* mutator is its current one, or it is an exiting thread's.               *)
ScanIsCurrent ==
  Orderly =>
    \A t, u \in Mutators :
      (pc[t] \in CyclePoints /\ u \in registry)
        => visible[u] = held[u] \/ pc[u] = "exiting"

(* The request stays up through the whole cycle, so that no parked mutator *)
(* can find it cleared and walk off.                                       *)
FlagOutlivesCycle ==
  Orderly => \A t \in Mutators : pc[t] \in CyclePoints => requested

(* The strengthening that makes the safety properties above inductive.     *)

RequestPoints == {"poll", "release", "abort_clear"} \cup CyclePoints
LeftPoints    == {"absent", "exit_notify", "gone"}

(* At most one thread is inside collect_stw.                               *)
SoleCollector ==
  \A t, u \in Mutators : Collecting(t) /\ Collecting(u) => t = u

(* Whoever says PARKED is parked, collecting, or dead.                     *)
StateMatchesPc ==
  \A u \in Mutators :
    state[u] = "parked" =>
      pc[u] \in StillPoints \cup {"leaving", "exiting", "exit_notify", "gone"}
                 \cup {"request", "poll"} \cup CyclePoints
                 \cup {"release", "resume"}

(* The flag is up exactly while some collection wants it up.               *)
FlagMatchesPc ==
  /\ \A t \in Mutators : pc[t] \in RequestPoints => requested
  /\ requested => \E t \in Mutators : pc[t] \in RequestPoints

(* Nobody is half in a park before the request, or half out of one after.  *)
NoStalePark ==
  \A t, u \in Mutators :
    /\ pc[t] \in {"park_self", "request"} => pc[u] \notin ParkPoints
    /\ pc[t] \in {"poll"} \cup CyclePoints => pc[u] # "leaving"

(* The registry holds the threads that have joined and not left; the       *)
(* snapshot of a collection covers it; who left holds nothing.             *)
RegistryMatchesPc ==
  /\ \A u \in Mutators : u \in registry <=> pc[u] \notin LeftPoints
  /\ \A u \in Mutators :
       pc[u] \in LeftPoints \cup {"exiting"} => held[u] = {}
  /\ \A t \in Mutators : Collecting(t) => registry \subseteq snap[t]

(* Whoever stands still has published its frames.                          *)
ParkedIsVisible ==
  \A u \in Mutators :
    pc[u] \in StillPoints \cup {"request", "poll"} \cup CyclePoints
      => visible[u] = held[u]

Stopped ==
  \A t, u \in Mutators :
    (pc[t] \in CyclePoints /\ u # t)
      => pc[u] \in StillPoints \cup LeftPoints \cup {"exiting"}

(* A block without a tag belongs to an allocation in progress.             *)
TagsMatch ==
  \A b \in allocated :
    b \in tagged \/ \E t \in Mutators : pc[t] = "tag" /\ raw[t] = b

(* What the cycle has marked so far covers what it has scanned so far.     *)
MarksCover ==
  \A t \in Mutators :
    /\ pc[t] \in {"mark_roots", "sweep"} =>
         \A u \in Mutators : held[u] \subseteq marked
    /\ pc[t] = "sweep" => globals \subseteq marked

RawIsBlock == \A t \in Mutators : pc[t] = "tag" => raw[t] \in Blocks

TypeInv == TypeOK /\ RawIsBlock

ControlInv ==
  /\ SoleCollector
  /\ StateMatchesPc
  /\ FlagMatchesPc
  /\ NoStalePark
  /\ RegistryMatchesPc
  /\ Stopped

DataInv ==
  /\ ParkedIsVisible
  /\ TagsMatch
  /\ MarksCover
  /\ HeldBlocksAllocated

IInv ==
  /\ TypeInv
  /\ Orderly => ControlInv /\ ParkedIsVisible
  /\ disturbed = {} => DataInv

(* A thread parked on the condition variable runs again ("Mutators wait    *)
(* on the safepoint condvar until the collector clears the flag"), unless  *)
(* collections have got into each other's way.                             *)
ParkedResumes ==
  \A t \in Mutators :
    pc[t] = "waiting" ~> (state[t] = "running" \/ ~Orderly)

(* A collection that was begun gets everybody parked and ends, unless      *)
(* another has got in its way.                                             *)
CollectionEnds ==
  \A t \in Mutators :
    pc[t] = "poll" ~> (pc[t] \in {"run", "alloc"} \/ ~Orderly)

(* The handshake implements the collector's contract for as long as        *)
(* nothing has disturbed it: a step of it reclaims only blocks that no     *)
(* frame and no module root refers to.                                     *)
Contract == INSTANCE AbstractHeap

ContractStep == disturbed' = {} => Contract!AbsNext
ContractSpec == Contract!AbsInit /\ [][ContractStep]_(Contract!absVars)

=============================================================================
