--------------------------- MODULE SurfaceBridge ---------------------------
(***************************************************************************)
(* Drawing panes (igui/batch.rs, replies.rs, registry.rs, child.rs and the *)
(* exports of cp_exports.rs).  Language threads build command batches and  *)
(* store them, one per pane, where the GUI thread finds them when Windows  *)
(* asks it to paint.  A text query is a batch too: its answer comes back   *)
(* through a reply slot from the paint that executes it, and the caller    *)
(* waits for it at most five seconds.                                      *)
(***************************************************************************)
EXTENDS Naturals, Sequences, FiniteSets, SequencesExt

CONSTANTS
    Threads,      \* language threads
    Panes,        \* child windows, ids are never used again (registry.rs:20)
    Drawings,     \* the command sequences programs draw
    MaxBatches,   \* bound: batches submitted
    MaxQueries,   \* bound: requests allocated
    MaxFailures,  \* bound: frames in which Direct2D fails
    None,         \* stands for a missing batch, target or paint
    Careful       \* TRUE: no query while its thread is building a batch

Commands == [op : {"fill", "push", "pop", "query"}, id : Nat]
Batches == [pane : Panes, seq : Nat \ {0}, cmds : Seq(Commands)]
Paints == [pane : Panes, via : {"begun", "d2d", "gdi"}, seq : Nat, cmds : Seq(Commands),
           done : Nat, at : Seq(Nat)]

ASSUME BridgeAssumption ==
    /\ MaxBatches \in Nat /\ MaxQueries \in Nat /\ MaxFailures \in Nat
    /\ Careful \in BOOLEAN
    /\ None \notin Batches /\ None \notin Paints

VARIABLES
    current,      \* CURRENT, thread-local: the batch a thread is building
    drafting,     \* history: the thread began a batch it has not submitted
    staged,       \* the batch a thread is handing over
    pc,           \* where a thread is: "free", "store", "poke", "waiting"
    asking,       \* the request id a thread asked, 0 for none
    inbox,        \* the reply channel of that request, capacity one
    slots,        \* SLOTS: request id -> the thread whose channel it names
    paneStates,   \* PANE_STATES: the latest batch of a pane
    window,       \* "unborn", "open" (registered) or "closed"
    sized,        \* the client area is not empty
    invalid,      \* the pane has an update region: WM_PAINT is due
    transform,    \* offset of the pane's render target, None without one
    offsetStack,  \* OFFSET_STACK, one for all panes of the GUI thread
    shown,        \* what the pane's last paint put on the screen
    paint,        \* the WM_PAINT the GUI thread is handling
    nextSeq, nextId, failures

threadVars == <<current, drafting, staged, pc, asking>>
guiVars == <<window, sized, invalid, transform, offsetStack, shown, paint, failures>>
vars == <<threadVars, inbox, slots, paneStates, guiVars, nextSeq, nextId>>

Batch(p, cmds) == [pane |-> p, seq |-> nextSeq, cmds |-> cmds]
Query(id) == [op |-> "query", id |-> id]
Draw(op) == [op |-> op, id |-> 0]
Blank == [seq |-> 0, via |-> "d2d", at |-> <<>>]
Latest(p) == IF paneStates[p] = None THEN 0 ELSE paneStates[p].seq

Init ==
    /\ current = [t \in Threads |-> None]
    /\ drafting = [t \in Threads |-> FALSE]
    /\ staged = [t \in Threads |-> None]
    /\ pc = [t \in Threads |-> "free"]
    /\ asking = [t \in Threads |-> 0]
    /\ inbox = [t \in Threads |-> <<>>]
    /\ slots = [id \in {} |-> None]
    /\ paneStates = [p \in Panes |-> None]
    /\ window = [p \in Panes |-> "unborn"]
    /\ sized = [p \in Panes |-> FALSE]
    /\ invalid = [p \in Panes |-> FALSE]
    /\ transform = [p \in Panes |-> None]
    /\ offsetStack = <<>>
    /\ shown = [p \in Panes |-> Blank]
    /\ paint = None
    /\ nextSeq = 1 /\ nextId = 1 /\ failures = 0

(***************************************************************************)
(* Windows.  OpenChild and CloseChild are SendMessageW: the GUI thread     *)
(* does the whole of them while the caller waits, and never inside a paint.*)
(***************************************************************************)

\* WM_NCCREATE of both windows, then the WM_SIZE that gives them an area.
OpenChild(t, p) ==
    /\ pc[t] = "free" /\ window[p] = "unborn" /\ paint = None
    /\ window' = [window EXCEPT ![p] = "open"]
    /\ sized' = [sized EXCEPT ![p] = TRUE]
    /\ invalid' = [invalid EXCEPT ![p] = TRUE]
    /\ UNCHANGED <<threadVars, inbox, slots, paneStates, transform, offsetStack,
                   shown, paint, failures, nextSeq, nextId>>

\* WM_SIZE: an area that grows from nothing is invalid as a whole.
Resize(p) ==
    /\ window[p] = "open" /\ paint = None
    /\ sized' = [sized EXCEPT ![p] = ~@]
    /\ invalid' = [invalid EXCEPT ![p] = @ \/ ~sized[p]]
    /\ UNCHANGED <<threadVars, inbox, slots, paneStates, window, transform,
                   offsetStack, shown, paint, failures, nextSeq, nextId>>

\* The pane is uncovered: Windows asks for the same picture again.
Uncover(p) ==
    /\ window[p] = "open" /\ ~invalid[p]
    /\ invalid' = [invalid EXCEPT ![p] = TRUE]
    /\ UNCHANGED <<threadVars, inbox, slots, paneStates, window, sized, transform,
                   offsetStack, shown, paint, failures, nextSeq, nextId>>

\* WM_NCDESTROY of both windows: the user's close box or CloseChild.
CloseChild(p) ==
    /\ window[p] = "open" /\ paint = None
    /\ window' = [window EXCEPT ![p] = "closed"]
    /\ paneStates' = [paneStates EXCEPT ![p] = None]
    /\ invalid' = [invalid EXCEPT ![p] = FALSE]
    /\ transform' = [transform EXCEPT ![p] = None]
    /\ sized' = [sized EXCEPT ![p] = FALSE]
    /\ shown' = [shown EXCEPT ![p] = Blank]
    /\ UNCHANGED <<threadVars, inbox, slots, offsetStack, paint, failures, nextSeq,
                   nextId>>

(***************************************************************************)
(* Building and handing over a batch.                                      *)
(***************************************************************************)

\* iGui.BeginBatch: whatever was being built is dropped.
Begin(t, p) ==
    /\ pc[t] = "free" /\ nextSeq <= MaxBatches
    /\ current' = [current EXCEPT ![t] = Batch(p, <<>>)]
    /\ drafting' = [drafting EXCEPT ![t] = TRUE]
    /\ nextSeq' = nextSeq + 1
    /\ UNCHANGED <<staged, pc, asking, inbox, slots, paneStates, guiVars, nextId>>

\* iGui.Emit...: without a batch the command is lost.
Push(t, op) ==
    /\ pc[t] = "free" /\ current[t] # None
    /\ \E d \in Drawings :
          IsPrefix(Append(current[t].cmds, Draw(op)), d)
    /\ current' = [current EXCEPT ![t].cmds = Append(@, Draw(op))]
    /\ UNCHANGED <<drafting, staged, pc, asking, inbox, slots, paneStates, guiVars,
                   nextSeq, nextId>>

\* iGui.SubmitBatch, its finish(): with nothing to submit it returns 0.
Submit(t) ==
    /\ pc[t] = "free" /\ drafting[t]
    /\ current[t] # None => current[t].cmds \in Drawings
    /\ drafting' = [drafting EXCEPT ![t] = FALSE]
    /\ staged' = [staged EXCEPT ![t] = current[t]]
    /\ pc' = [pc EXCEPT ![t] = IF current[t] = None THEN "free" ELSE "store"]
    /\ current' = [current EXCEPT ![t] = None]
    /\ UNCHANGED <<asking, inbox, slots, paneStates, guiVars, nextSeq, nextId>>

\* iGui.MeasureTextRun, CharIndexAtPoint, PointAtCharIndex up to submit: the
\* query's own batch is begun, filled and finished in CURRENT.
Ask(t, p) ==
    /\ pc[t] = "free" /\ nextId <= MaxQueries /\ nextSeq <= MaxBatches
    /\ Careful => ~drafting[t]
    /\ asking' = [asking EXCEPT ![t] = nextId]
    /\ inbox' = [inbox EXCEPT ![t] = <<>>]
    /\ slots' = [id \in DOMAIN slots \cup {nextId} |->
                    IF id = nextId THEN t ELSE slots[id]]
    /\ staged' = [staged EXCEPT ![t] = Batch(p, <<Query(nextId)>>)]
    /\ current' = [current EXCEPT ![t] = None]
    /\ pc' = [pc EXCEPT ![t] = "store"]
    /\ nextId' = nextId + 1 /\ nextSeq' = nextSeq + 1
    /\ UNCHANGED <<drafting, paneStates, guiVars>>

\* Variant of Store: the paint is asked for before the batch is there.
StoreLate(t) ==
    LET p == staged[t].pane
    IN /\ \/ /\ pc[t] = "store" /\ pc' = [pc EXCEPT ![t] = "late"]
             /\ invalid' = [invalid EXCEPT ![p] = @ \/ window[p] = "open"]
             /\ UNCHANGED <<staged, asking, paneStates>>
          \/ /\ pc[t] = "late" /\ paneStates' = [paneStates EXCEPT ![p] = staged[t]]
             /\ pc' = [pc EXCEPT ![t] = "free"]
             /\ staged' = [staged EXCEPT ![t] = None]
             /\ asking' = [asking EXCEPT ![t] = 0]
             /\ UNCHANGED invalid
       /\ UNCHANGED <<current, drafting, inbox, slots, window, sized, transform,
                      offsetStack, shown, paint, failures, nextSeq, nextId>>

\* submit(), under the PANE_STATES mutex: the pane's earlier batch is replaced.
\* Nothing asks whether the pane is open.
Store(t) ==
    /\ pc[t] = "store"
    /\ paneStates' = [paneStates EXCEPT ![staged[t].pane] = staged[t]]
    /\ pc' = [pc EXCEPT ![t] = "poke"]
    /\ UNCHANGED <<current, drafting, staged, asking, inbox, slots, guiVars,
                   nextSeq, nextId>>

\* submit(), after the mutex: ask for a paint.  A pane that is not registered
\* makes the call fail; a query then returns 0 and leaves its slot behind.
Poke(t) ==
    LET p == staged[t].pane
    IN /\ pc[t] = "poke"
       /\ invalid' = [invalid EXCEPT ![p] = @ \/ window[p] = "open"]
       /\ IF asking[t] # 0 /\ window[p] = "open"
          THEN pc' = [pc EXCEPT ![t] = "waiting"] /\ UNCHANGED <<staged, asking>>
          ELSE /\ pc' = [pc EXCEPT ![t] = "free"]
               /\ staged' = [staged EXCEPT ![t] = None]
               /\ asking' = [asking EXCEPT ![t] = 0]
       /\ UNCHANGED <<current, drafting, inbox, slots, paneStates, window, sized,
                      transform, offsetStack, shown, paint, failures, nextSeq, nextId>>

Leave(t) ==
    /\ pc' = [pc EXCEPT ![t] = "free"]
    /\ asking' = [asking EXCEPT ![t] = 0]
    /\ staged' = [staged EXCEPT ![t] = None]
    /\ inbox' = [inbox EXCEPT ![t] = <<>>]
    /\ UNCHANGED <<current, drafting, slots, paneStates, guiVars, nextSeq, nextId>>

\* wait(): the reply is there.
Answered(t) == pc[t] = "waiting" /\ inbox[t] # <<>> /\ Leave(t)

\* wait(): five seconds went by.
GiveUp(t) == pc[t] = "waiting" /\ inbox[t] = <<>> /\ Leave(t)

(***************************************************************************)
(* Painting.  WM_PAINT runs on the GUI thread from BeginPaint to EndPaint; *)
(* the language threads submit, wait and give up in between.  A Frame is   *)
(* what the commands of a batch change.                                    *)
(***************************************************************************)

\* Variant of Deliver: the slot stays for the next reply.
DeliverKeepingSlot(m, id) ==
    IF id \notin DOMAIN m.slots \/ asking[m.slots[id]] # id THEN m
    ELSE [m EXCEPT !.inbox[m.slots[id]] = Append(@, id)]

\* replies.rs deliver: the slot goes with the first reply, later ones are lost;
\* so is a reply whose caller has given up and dropped its end.
Deliver(m, id) ==
    IF id \notin DOMAIN m.slots THEN m
    ELSE [m EXCEPT !.inbox[m.slots[id]] =
                       IF asking[m.slots[id]] = id THEN Append(@, id) ELSE @,
                   !.slots = [i \in DOMAIN @ \ {id} |-> @[i]]]

\* push_offset and pop_offset; an empty stack ignores the pop.
PushOffset(m) == [m EXCEPT !.stack = Append(@, m.transform), !.transform = @ + 1]
PopOffset(m) ==
    IF m.stack = <<>> THEN m
    ELSE [m EXCEPT !.transform = Last(m.stack), !.stack = Front(@)]

\* One arm of execute_d2d_batch.
ExecuteD2d(m, cmd) ==
    CASE cmd.op = "fill" -> [m EXCEPT !.at = Append(@, m.transform)]
      [] cmd.op = "push" -> PushOffset(m)
      [] cmd.op = "pop" -> PopOffset(m)
      [] cmd.op = "query" -> Deliver(m, cmd.id)

\* Variant of ExecuteGdi: a query is skipped like every text command.
ExecuteGdiMute(m, cmd) == IF cmd.op = "fill" THEN [m EXCEPT !.at = Append(@, 0)] ELSE m

\* One arm of execute_gdi_batch: offsets are skipped, queries get a failure.
ExecuteGdi(m, cmd) ==
    CASE cmd.op = "fill" -> [m EXCEPT !.at = Append(@, 0)]
      [] cmd.op = "query" -> Deliver(m, cmd.id)
      [] OTHER -> m

Execute(via, m, cmd) == IF via = "d2d" THEN ExecuteD2d(m, cmd) ELSE ExecuteGdi(m, cmd)

\* Variant of Fallback: the failed target is used again.
FallbackKeepingTarget(m) == [m EXCEPT !.at = <<>>]

\* The frame is abandoned: its target is dropped, OFFSET_STACK is not unwound.
Fallback(m) == [m EXCEPT !.transform = None, !.at = <<>>]

Frame == [inbox |-> inbox, slots |-> slots, stack |-> offsetStack, at |-> paint.at,
          transform |-> transform[paint.pane]]
Becomes(m) ==
    /\ inbox' = m.inbox /\ slots' = m.slots /\ offsetStack' = m.stack
    /\ transform' = [transform EXCEPT ![paint.pane] = m.transform]

Painting(via) == paint # None /\ paint.via = via
Done == paint.done = Len(paint.cmds)
OnScreen(via) ==
    /\ paint' = None
    /\ shown' = [shown EXCEPT ![paint.pane] =
                    IF via = "nothing" THEN [@ EXCEPT !.via = via]
                    ELSE [seq |-> paint.seq, via |-> via, at |-> paint.at]]

\* WM_PAINT: BeginPaint makes the pane valid before anything is drawn.
BeginPaint(p) ==
    /\ paint = None /\ window[p] = "open" /\ invalid[p]
    /\ invalid' = [invalid EXCEPT ![p] = FALSE]
    /\ paint' = [pane |-> p, via |-> "begun", seq |-> 0, cmds |-> <<>>, done |-> 0,
                 at |-> <<>>]
    /\ UNCHANGED <<threadVars, inbox, slots, paneStates, window, sized, transform,
                   offsetStack, shown, failures, nextSeq, nextId>>

\* render(): a pane without an area is not painted.
PaintEmpty ==
    /\ Painting("begun") /\ ~sized[paint.pane]
    /\ paint' = None
    /\ UNCHANGED <<threadVars, inbox, slots, paneStates, window, sized, invalid,
                   transform, offsetStack, shown, failures, nextSeq, nextId>>

\* ensure_render_target fails: render() returns before it looks for a batch.
NoTarget ==
    /\ Painting("begun") /\ sized[paint.pane] /\ failures < MaxFailures
    /\ failures' = failures + 1
    /\ OnScreen("nothing")
    /\ UNCHANGED <<threadVars, inbox, slots, paneStates, window, sized, invalid,
                   transform, offsetStack, nextSeq, nextId>>

\* batch::snapshot, under the PANE_STATES mutex, with the target in place.
Snapshot ==
    LET p == paint.pane
    IN /\ Painting("begun") /\ sized[p]
       /\ paint' = [paint EXCEPT !.via = "d2d", !.seq = Latest(p),
                        !.cmds = IF paneStates[p] = None THEN <<>> ELSE paneStates[p].cmds]
       /\ transform' = [transform EXCEPT ![p] = IF @ = None THEN 0 ELSE @]
       /\ UNCHANGED <<threadVars, inbox, slots, paneStates, window, sized, invalid,
                      offsetStack, shown, failures, nextSeq, nextId>>

\* The loops of execute_d2d_batch and execute_gdi_batch: the next command.
ExecuteNext ==
    /\ Painting("d2d") \/ Painting("gdi")
    /\ ~Done
    /\ LET m == Execute(paint.via, Frame, paint.cmds[paint.done + 1])
       IN /\ Becomes(m)
          /\ paint' = [paint EXCEPT !.done = @ + 1, !.at = m.at]
    /\ UNCHANGED <<threadVars, paneStates, window, sized, invalid, shown, failures,
                   nextSeq, nextId>>

\* A command or EndDraw fails: the frame starts over in GDI.
StartOver ==
    /\ Painting("d2d") /\ failures < MaxFailures
    /\ failures' = failures + 1
    /\ LET m == Fallback(Frame)
       IN /\ Becomes(m)
          /\ paint' = [paint EXCEPT !.via = "gdi", !.done = 0, !.at = m.at]
    /\ UNCHANGED <<threadVars, paneStates, window, sized, invalid, shown, nextSeq,
                   nextId>>

\* A figure fails in GDI too: the rest of the batch is left out.
GdiFails ==
    /\ Painting("gdi") /\ ~Done /\ paint.cmds[paint.done + 1].op = "fill"
    /\ OnScreen("nothing")
    /\ UNCHANGED <<threadVars, inbox, slots, paneStates, window, sized, invalid,
                   transform, offsetStack, failures, nextSeq, nextId>>

\* EndDraw, EndPaint.
EndPaint ==
    /\ Painting("d2d") \/ Painting("gdi")
    /\ Done
    /\ OnScreen(paint.via)
    /\ UNCHANGED <<threadVars, inbox, slots, paneStates, window, sized, invalid,
                   transform, offsetStack, failures, nextSeq, nextId>>

Next ==
    \/ \E t \in Threads : \/ Submit(t) \/ Store(t) \/ Poke(t)
                          \/ Answered(t) \/ GiveUp(t)
    \/ \E t \in Threads, p \in Panes : OpenChild(t, p) \/ Begin(t, p) \/ Ask(t, p)
    \/ \E t \in Threads, op \in {"fill", "push", "pop"} : Push(t, op)
    \/ \E p \in Panes : Resize(p) \/ Uncover(p) \/ CloseChild(p) \/ BeginPaint(p)
    \/ PaintEmpty \/ NoTarget \/ Snapshot \/ ExecuteNext \/ StartOver \/ GdiFails
    \/ EndPaint

Spec == Init /\ [][Next]_vars

(***************************************************************************)
(* Properties.                                                             *)
(***************************************************************************)

\* A pane at rest shows the latest batch submitted for it: no order of two
\* submissions, a paint, a resize and a close leaves an older picture standing.
ScreenCurrent ==
    \A p \in Panes :
        /\ window[p] = "open" /\ sized[p] /\ ~invalid[p]
        /\ paint = None \/ paint.pane # p
        /\ ~\E t \in Threads : pc[t] = "poke" /\ staged[t].pane = p
        => shown[p].via = "nothing" \/ shown[p].seq = Latest(p)

\* A reply reaches the caller that asked for it, once: the GUI thread never
\* has two replies for a channel that holds one, whatever repaints the query's
\* batch, and a caller that waits has its slot until its reply is there.
RepliesExact ==
    \A t \in Threads :
        /\ Len(inbox[t]) <= 1
        /\ \A i \in DOMAIN inbox[t] : asking[t] # 0 => inbox[t][i] = asking[t]
        /\ pc[t] = "waiting" /\ inbox[t] = <<>> =>
              asking[t] \in DOMAIN slots /\ slots[asking[t]] = t

\* How many of the first i commands are op, and how deep they leave the offset.
Count(cmds, op, i) == Cardinality({j \in 1 .. i : cmds[j].op = op})
Depth(cmds, i) == Count(cmds, "push", i) - Count(cmds, "pop", i)

\* Every figure of the batch is there, at the depth of its command.
Placed(at, cmds) ==
    /\ Len(at) = Count(cmds, "fill", Len(cmds))
    /\ \A i \in 1 .. Len(cmds) :
          cmds[i].op = "fill" => at[Count(cmds, "fill", i)] = Depth(cmds, i)

\* A batch in which every pop has its push before it, and every push its pop.
Balanced(cmds) ==
    /\ \A i \in 1 .. Len(cmds) : Count(cmds, "pop", i) <= Count(cmds, "push", i)
    /\ Count(cmds, "pop", Len(cmds)) = Count(cmds, "push", Len(cmds))

\* If programs draw balanced batches, a frame drawn by Direct2D has every
\* figure at the offset its own batch nests it in: repaints, other panes that
\* share OFFSET_STACK, and frames that were abandoned between a push and its pop
\* leave no offset behind.
DrawnInPlace ==
    \A p \in Panes :
        /\ window[p] = "open" /\ shown[p].via = "d2d"
        /\ paneStates[p] # None /\ shown[p].seq = Latest(p)
        => Placed(shown[p].at, paneStates[p].cmds)

\* The paint under way is yet to reach the query of batch q of pane p.
UnderWay(p, q) ==
    /\ paint # None /\ paint.pane = p
    /\ paint.via # "begun" => paint.seq = q /\ ~Done

\* A query on an open, visible pane is given up only when its paint is still to
\* come or under way after five seconds, when a later batch of the pane took
\* its place, or when the pane could not be painted at all.
GivenUpWithCause ==
    [][\A t \in Threads :
         LET p == staged[t].pane
         IN pc[t] = "waiting" /\ pc'[t] = "free" /\ inbox[t] = <<>> =>
              \/ window[p] # "open" \/ ~sized[p] \/ invalid[p]
              \/ UnderWay(p, staged[t].seq)
              \/ Latest(p) # staged[t].seq
              \/ shown[p].via = "nothing"]_vars

\* batch.rs:366 says of a text query inside a batch that it must not clobber
\* "the user's draw work in progress".
DraftKept == \A t \in Threads : drafting[t] => current[t] # None
=============================================================================
