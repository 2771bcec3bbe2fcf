------------------------ MODULE SurfaceBridgeProofs ------------------------
(***************************************************************************)
(* Machine-checked facts about SurfaceBridge, for any threads, panes,      *)
(* drawings and bounds: that a pane at rest shows the latest batch, that a *)
(* reply reaches the caller that asked for it, that a caller gives up only *)
(* for a cause, and that figures are drawn at their offsets.               *)
(*                                                                         *)
(* The first two are close to inductive once they speak of the paint under *)
(* way.  The third connects them: a query whose batch has been executed    *)
(* has been answered.  For that the numbers of batches must tell them      *)
(* apart wherever one of them is kept.  The last follows a frame command   *)
(* by command: it pushes on what abandoned frames have left, and pops only *)
(* what it pushed.                                                         *)
(***************************************************************************)
EXTENDS SurfaceBridge, SequenceFacts

Pictures == [seq : Nat, via : {"d2d", "gdi", "nothing"}, at : Seq(Nat)]

SlotTables == UNION {[D -> Threads] : D \in SUBSET Nat}

ThreadTypes ==
  /\ current \in [Threads -> {None} \cup Batches]
  /\ staged \in [Threads -> {None} \cup Batches]
  /\ pc \in [Threads -> {"free", "store", "poke", "waiting"}]
  /\ asking \in [Threads -> Nat]
  /\ nextSeq \in Nat \ {0} /\ nextId \in Nat \ {0}

ReplyTypes ==
  /\ inbox \in [Threads -> Seq(Nat)]
  /\ slots \in SlotTables

PaneTypes ==
  /\ paneStates \in [Panes -> {None} \cup Batches]
  /\ window \in [Panes -> {"unborn", "open", "closed"}]
  /\ sized \in [Panes -> BOOLEAN]
  /\ invalid \in [Panes -> BOOLEAN]
  /\ transform \in [Panes -> {None} \cup Nat]
  /\ offsetStack \in Seq(Nat)
  /\ shown \in [Panes -> Pictures]

(* An open pane is painted; a frame of Direct2D has its target.            *)
PaintTypes ==
  /\ paint \in {None} \cup Paints
  /\ paint # None =>
       /\ window[paint.pane] = "open"
       /\ paint.done \in 0 .. Len(paint.cmds)
       /\ paint.via = "begun" => paint.at = <<>> /\ paint.done = 0
       /\ paint.via = "d2d" => transform[paint.pane] \in Nat

Types ==
  /\ ThreadTypes /\ ReplyTypes /\ PaneTypes /\ PaintTypes
  /\ drafting \in [Threads -> BOOLEAN] /\ failures \in Nat

-----------------------------------------------------------------------------
(* Numbers of batches.                                                     *)

(* A thread that has a batch to hand over.                                 *)
Busy(t) == pc[t] # "free"

(* No pane has or shows the batch with number q, and none is being painted. *)
Unseen(q) ==
  /\ \A p \in Panes : Latest(p) # q /\ shown[p].seq # q
  /\ paint # None => paint.seq # q

(* The batch a thread builds has a number of its own.                      *)
DraftsApart ==
  \A t \in Threads : current[t] # None =>
    /\ current[t].seq < nextSeq /\ Unseen(current[t].seq)
    /\ \A u \in Threads : Busy(u) => staged[u].seq # current[t].seq
    /\ \A u \in Threads : current[u] # None /\ current[u].seq = current[t].seq => u = t

(* So has the one it hands over; a pane that keeps a batch with this       *)
(* number keeps just this one.                                             *)
HandedApart ==
  \A t \in Threads : Busy(t) =>
    /\ staged[t] # None /\ staged[t].seq < nextSeq
    /\ \A u \in Threads : Busy(u) /\ staged[u].seq = staged[t].seq => u = t
    /\ pc[t] = "store" => Unseen(staged[t].seq)
    /\ \A p \in Panes : Latest(p) = staged[t].seq => paneStates[p] = staged[t]

KeptBelow ==
  /\ \A p \in Panes : Latest(p) < nextSeq /\ shown[p].seq < nextSeq
  /\ paint # None => paint.seq < nextSeq

(* What a pane has to draw.                                                *)
Kept(p) == IF paneStates[p] = None THEN <<>> ELSE paneStates[p].cmds

(* A snapshot is of the batch that has its number.                         *)
SnapshotExact ==
  paint # None /\ paint.via # "begun" =>
    /\ paint.seq = Latest(paint.pane) => paint.cmds = Kept(paint.pane)
    /\ \A t \in Threads : Busy(t) /\ staged[t].seq = paint.seq =>
         staged[t].cmds = paint.cmds

Serial == DraftsApart /\ HandedApart /\ KeptBelow /\ SnapshotExact

-----------------------------------------------------------------------------
(* Replies.                                                                *)

(* A thread asks while it hands over a query and waits for its reply.      *)
AskingBusy ==
  \A t \in Threads :
    /\ asking[t] < nextId
    /\ pc[t] = "free" => asking[t] = 0
    /\ pc[t] = "waiting" => asking[t] # 0
    /\ asking[t] # 0 => Busy(t) /\ staged[t].cmds = <<Query(asking[t])>>

(* A thread that asks has its slot and no reply, or its reply and no slot. *)
SlotOrReply(box, table) ==
  /\ \A id \in DOMAIN table : id # 0 /\ id < nextId
  /\ \A t \in Threads : Len(box[t]) <= 1
  /\ \A t \in Threads : asking[t] # 0 =>
       IF asking[t] \in DOMAIN table THEN table[asking[t]] = t /\ box[t] = <<>>
                                     ELSE box[t] = <<asking[t]>>

Replies == AskingBusy /\ SlotOrReply(inbox, slots)

-----------------------------------------------------------------------------
(* Pictures.                                                               *)

(* The thread that stored the latest batch of p is about to ask for the    *)
(* paint.                                                                  *)
Waits(p) ==
  \E t \in Threads : pc[t] = "poke" /\ staged[t].pane = p /\ staged[t].seq = Latest(p)

(* A valid pane that does not show its latest batch is being painted, or   *)
(* will be asked to by the thread that stored it; so will one that is      *)
(* painted from an older snapshot.                                         *)
Pictured ==
  /\ \A p \in Panes :
       /\ window[p] = "open" /\ sized[p] /\ ~invalid[p]
       /\ shown[p].via # "nothing" /\ shown[p].seq # Latest(p)
       /\ ~(paint # None /\ paint.pane = p)
       => Waits(p)
  /\ /\ paint # None /\ paint.via # "begun"
     /\ ~invalid[paint.pane] /\ paint.seq # Latest(paint.pane)
     => Waits(paint.pane)

(* A query that has been painted has been answered.                        *)
PaintedAnswered ==
  \A t \in Threads : asking[t] # 0 =>
    /\ \A p \in Panes : shown[p].seq = staged[t].seq => inbox[t] # <<>>
    /\ paint # None /\ paint.via # "begun" /\ Done /\ paint.seq = staged[t].seq
       => inbox[t] # <<>>

IInv == Types /\ Serial /\ Replies /\ Pictured /\ PaintedAnswered

-----------------------------------------------------------------------------
(* What a command does.                                                    *)

(* What a frame works on.  Only the GDI goes on without a target.          *)
Machine ==
  [inbox : [Threads -> Seq(Nat)], slots : SlotTables, stack : Seq(Nat),
   at : Seq(Nat), transform : {None} \cup Nat]

Fit(via, m) == m \in Machine /\ (via = "d2d" => m.transform \in Nat)

(* From m to d nobody loses a reply, and it is known who has a slot.       *)
Furthers(m, d) ==
  /\ SlotOrReply(d.inbox, d.slots)
  /\ \A t \in Threads : m.inbox[t] # <<>> => d.inbox[t] # <<>>

(* The thread that asks id has its reply.                                  *)
Replied(d, id) ==
  \A t \in Threads : asking[t] = id /\ id # 0 => d.inbox[t] # <<>>

LEMMA Delivered ==
  ASSUME asking \in [Threads -> Nat], NEW m \in Machine,
         SlotOrReply(m.inbox, m.slots), NEW id \in Nat
  PROVE  /\ Deliver(m, id) \in Machine
         /\ Deliver(m, id).transform = m.transform
         /\ Furthers(m, Deliver(m, id)) /\ Replied(Deliver(m, id), id)
<1> DEFINE d == Deliver(m, id)
<1>1. /\ m.inbox \in [Threads -> Seq(Nat)] /\ m.slots \in SlotTables
      /\ m.stack \in Seq(Nat) /\ m.at \in Seq(Nat) /\ m.transform \in {None} \cup Nat
  BY DEF Machine
<1>2. PICK D \in SUBSET Nat : m.slots \in [D -> Threads]
  BY <1>1 DEF SlotTables
<1>3. DOMAIN m.slots = D
  BY <1>2
<1>4. CASE id \notin D
  <2>1. d = m
    BY <1>3, <1>4 DEF Deliver
  <2>2. ASSUME NEW t \in Threads, asking[t] = id, id # 0
        PROVE  m.inbox[t] # <<>>
    <3>1. m.inbox[t] = <<asking[t]>>
      BY <2>2, <1>3, <1>4 DEF SlotOrReply
    <3>2. <<asking[t]>> # <<>>
      OBVIOUS
    <3> QED
      BY <3>1, <3>2
  <2> QED
    BY <2>1, <2>2 DEF Furthers, Replied
<1>5. CASE id \in D
  <2> DEFINE u == m.slots[id]
             box == [m.inbox EXCEPT ![u] =
                       IF asking[u] = id THEN Append(@, id) ELSE @]
             table == [i \in D \ {id} |-> m.slots[i]]
  <2>1. /\ d = [m EXCEPT !.inbox = box, !.slots = table]
        /\ u \in Threads
    BY <1>2, <1>3, <1>5 DEF Deliver, Machine
  <2>2. /\ d.inbox = box /\ d.slots = table /\ d.transform = m.transform
        /\ d = [inbox |-> box, slots |-> table, stack |-> m.stack, at |-> m.at,
                transform |-> m.transform]
    BY <2>1 DEF Machine
  <2>3. box \in [Threads -> Seq(Nat)]
    <3>1. Append(m.inbox[u], id) \in Seq(Nat) /\ m.inbox[u] \in Seq(Nat)
      BY <2>1, <1>1
    <3> QED
      BY <3>1, <1>1
  <2>4. table \in SlotTables
    <3>1. D \ {id} \in SUBSET Nat /\ table \in [D \ {id} -> Threads]
      BY <1>2
    <3> HIDE DEF table
    <3> QED
      BY <3>1 DEF SlotTables
  <2>5. d \in Machine
    BY <2>2, <2>3, <2>4, <1>1 DEF Machine
  <2>6. /\ \A t \in Threads : box[t] =
             IF t = u /\ asking[u] = id THEN Append(m.inbox[u], id) ELSE m.inbox[t]
        /\ DOMAIN table = D \ {id}
        /\ \A i \in D \ {id} : table[i] = m.slots[i]
    BY <1>1
  <2> HIDE DEF box, table, d
  <2>7. /\ \A i \in D : i # 0 /\ i < nextId
        /\ \A t \in Threads : Len(m.inbox[t]) <= 1
        /\ \A t \in Threads : asking[t] # 0 =>
             IF asking[t] \in D THEN m.slots[asking[t]] = t /\ m.inbox[t] = <<>>
                                ELSE m.inbox[t] = <<asking[t]>>
    BY <1>3 DEF SlotOrReply
  <2>8. ASSUME NEW t \in Threads
        PROVE  /\ Len(box[t]) <= 1
               /\ asking[t] # 0 =>
                    IF asking[t] \in D \ {id}
                    THEN table[asking[t]] = t /\ box[t] = <<>>
                    ELSE box[t] = <<asking[t]>>
               /\ m.inbox[t] # <<>> => box[t] # <<>>
               /\ asking[t] = id /\ id # 0 => box[t] # <<>>
    <3>1. CASE t = u /\ asking[u] = id
      <4>1. m.inbox[t] = <<>> /\ asking[t] = id /\ id # 0
        BY <3>1, <2>7, <1>5
      <4>2. box[t] = <<id>>
        BY <3>1, <4>1, <2>6
      <4> QED
        BY <4>1, <4>2
    <3>2. CASE ~(t = u /\ asking[u] = id)
      <4>1. box[t] = m.inbox[t]
        BY <3>2, <2>6
      <4>2. asking[t] # id
        BY <3>2, <2>7, <1>5
      <4>3. asking[t] # 0 =>
              IF asking[t] \in D \ {id}
              THEN table[asking[t]] = t /\ m.inbox[t] = <<>>
              ELSE m.inbox[t] = <<asking[t]>>
        BY <4>2, <2>6, <2>7
      <4> QED
        BY <4>1, <4>2, <4>3, <2>7
    <3> QED
      BY <3>1, <3>2
  <2>9. SlotOrReply(box, table)
    BY <2>6, <2>7, <2>8 DEF SlotOrReply
  <2> QED
    BY <2>2, <2>5, <2>8, <2>9 DEF Furthers, Replied, d
<1> QED
  BY <1>4, <1>5

LEMMA ExecuteKeeps ==
  ASSUME asking \in [Threads -> Nat], NEW via \in {"d2d", "gdi"}, NEW m, Fit(via, m),
         SlotOrReply(m.inbox, m.slots), NEW cmd \in Commands
  PROVE  /\ Fit(via, Execute(via, m, cmd)) /\ Furthers(m, Execute(via, m, cmd))
         /\ cmd.op = "query" => Replied(Execute(via, m, cmd), cmd.id)
<1> DEFINE d == Execute(via, m, cmd)
<1>1. /\ m \in Machine
      /\ via = "d2d" => m.transform \in Nat
      /\ cmd.op \in {"fill", "push", "pop", "query"} /\ cmd.id \in Nat
  BY DEF Fit, Commands
<1>2. CASE cmd.op = "query"
  <2>1. d = Deliver(m, cmd.id)
    BY <1>2 DEF Execute, ExecuteD2d, ExecuteGdi
  <2> HIDE DEF d
  <2>2. d \in Machine /\ d.transform = m.transform /\ Furthers(m, d) /\ Replied(d, cmd.id)
    BY <2>1, <1>1, Delivered
  <2> QED
    BY <2>2, <1>1 DEF Fit, d
<1>3. CASE cmd.op # "query"
  <2>1. d.inbox = m.inbox /\ d.slots = m.slots /\ Fit(via, d)
    <3>1. CASE via = "d2d"
      <4>0. m.transform \in Nat /\ m.stack \in Seq(Nat) /\ m.at \in Seq(Nat)
        BY <3>1, <1>1 DEF Machine, Fit
      <4>1. CASE cmd.op = "fill"
        <5>1. d = [m EXCEPT !.at = Append(@, m.transform)]
          BY <3>1, <4>1 DEF Execute, ExecuteD2d
        <5>2. Append(m.at, m.transform) \in Seq(Nat)
          BY <4>0
        <5> HIDE DEF d
        <5> QED
          BY <5>1, <5>2, <4>0, <1>1 DEF Machine, Fit
      <4>2. CASE cmd.op = "push"
        <5>1. d = [m EXCEPT !.stack = Append(@, m.transform), !.transform = @ + 1]
          BY <3>1, <4>2 DEF Execute, ExecuteD2d, PushOffset
        <5>2. Append(m.stack, m.transform) \in Seq(Nat) /\ m.transform + 1 \in Nat
          BY <4>0
        <5> HIDE DEF d
        <5> QED
          BY <5>1, <5>2, <4>0, <1>1 DEF Machine, Fit
      <4>3. CASE cmd.op = "pop"
        <5>1. d = PopOffset(m)
          BY <3>1, <4>3 DEF Execute, ExecuteD2d
        <5> HIDE DEF d
        <5>2. CASE m.stack = <<>>
          BY <5>1, <5>2, <1>1, <3>1 DEF PopOffset, Fit
        <5>3. CASE m.stack # <<>>
          <6>1. d = [m EXCEPT !.transform = Last(m.stack), !.stack = Front(@)]
            BY <5>1, <5>3 DEF PopOffset
          <6>2. Last(m.stack) \in Nat /\ Front(m.stack) \in Seq(Nat)
            <7> DEFINE n == Len(m.stack)
            <7>1. n \in Nat \ {0} /\ \A i \in 1 .. n : m.stack[i] \in Nat
              BY <4>0, <5>3, ElementsOf, EmptySeq
            <7>2. SubSeq(m.stack, 1, n - 1) \in Seq(Nat)
              <8>1. 1 \in Int /\ n - 1 \in Int /\ \A i \in 1 .. n - 1 : m.stack[i] \in Nat
                BY <7>1
              <8> HIDE DEF n
              <8> QED
                BY <8>1, <4>0, SubSeqProperties
            <7> QED
              BY <7>1, <7>2 DEF Front, Last
          <6> QED
            BY <6>1, <6>2, <4>0, <1>1 DEF Machine, Fit
        <5> QED
          BY <5>2, <5>3
      <4> QED
        BY <4>1, <4>2, <4>3, <1>1, <1>3
    <3>2. CASE via = "gdi"
      <4>0. m.at \in Seq(Nat)
        BY <1>1 DEF Machine
      <4>1. CASE cmd.op = "fill"
        <5>1. d = [m EXCEPT !.at = Append(@, 0)]
          BY <3>2, <4>1 DEF Execute, ExecuteGdi
        <5>2. Append(m.at, 0) \in Seq(Nat)
          BY <4>0
        <5> HIDE DEF d
        <5> QED
          BY <5>1, <5>2, <3>2, <1>1 DEF Machine, Fit
      <4>2. CASE cmd.op # "fill"
        <5>1. d = m
          BY <3>2, <4>2, <1>3 DEF Execute, ExecuteGdi
        <5> QED
          BY <5>1
      <4> QED
        BY <4>1, <4>2
    <3> QED
      BY <3>1, <3>2
  <2>2. Furthers(m, d)
    BY <2>1 DEF Furthers
  <2> QED
    BY <2>1, <2>2, <1>3
<1> QED
  BY <1>2, <1>3

-----------------------------------------------------------------------------
(* What a step of a paint does.                                            *)

PaintStep ==
  \/ \E p \in Panes : BeginPaint(p)
  \/ PaintEmpty \/ NoTarget \/ Snapshot \/ ExecuteNext \/ StartOver \/ GdiFails \/ EndPaint

(* The paint of p begins; or it goes on; or it ends, with the picture of   *)
(* its snapshot, with none, or without an area to put it on.               *)
Opens(p) ==
  /\ paint = None /\ paint' # None /\ window[p] = "open"
  /\ paint'.pane = p /\ paint'.via = "begun" /\ paint'.seq = 0
  /\ \A q \in Panes : q # p => invalid'[q] = invalid[q]
  /\ UNCHANGED <<inbox, slots, transform, offsetStack, shown>>

GoesOn ==
  /\ paint # None /\ paint' # None /\ paint'.pane = paint.pane /\ paint'.via # "begun"
  /\ IF paint.via = "begun"
     THEN paint'.seq = Latest(paint.pane) /\ paint'.cmds = Kept(paint.pane)
     ELSE paint'.seq = paint.seq /\ paint'.cmds = paint.cmds
  /\ UNCHANGED <<shown, invalid>>

Closes ==
  /\ paint # None /\ paint' = None
  /\ UNCHANGED <<inbox, slots, transform, offsetStack, invalid>>
  /\ \A q \in Panes : q # paint.pane => shown'[q] = shown[q]
  /\ \/ ~sized[paint.pane] /\ UNCHANGED shown
     \/ shown'[paint.pane].seq = shown[paint.pane].seq /\ shown'[paint.pane].via = "nothing"
     \/ /\ paint.via # "begun" /\ Done
        /\ shown'[paint.pane] = [seq |-> paint.seq, via |-> paint.via, at |-> paint.at]

(* Latest is the number of the batch a pane keeps.                         *)
LEMMA LatestIs ==
  ASSUME paneStates \in [Panes -> {None} \cup Batches], NEW p \in Panes
  PROVE  /\ Latest(p) \in Nat
         /\ paneStates[p] = None => Latest(p) = 0
         /\ paneStates[p] # None =>
              Latest(p) = paneStates[p].seq /\ Latest(p) # 0 /\ paneStates[p] \in Batches
<1>1. paneStates[p] = None \/ paneStates[p] \in Batches
  OBVIOUS
<1> QED
  BY <1>1 DEF Latest, Batches

LEMMA FallbackFit ==
  ASSUME NEW m \in Machine
  PROVE  /\ Fallback(m) \in Machine
         /\ Fallback(m).inbox = m.inbox /\ Fallback(m).slots = m.slots
<1> DEFINE d == Fallback(m)
           none == <<>>
<1>1. d = [m EXCEPT !.transform = None, !.at = none] /\ none \in Seq(Nat)
  BY DEF Fallback
<1> HIDE DEF d, none
<1>2. d \in Machine /\ d.inbox = m.inbox /\ d.slots = m.slots
  BY <1>1 DEF Machine
<1> QED
  BY <1>2 DEF d

LEMMA FrameFits ==
  ASSUME Types, SlotOrReply(inbox, slots), paint # None, paint.via \in {"d2d", "gdi"}
  PROVE  /\ Fit(paint.via, Frame) /\ paint \in Paints
         /\ Frame.inbox = inbox /\ Frame.slots = slots /\ Frame.stack = offsetStack
         /\ Frame.at = paint.at /\ Frame.transform = transform[paint.pane]
<1>1. /\ paint \in Paints
      /\ paint.via = "d2d" => transform[paint.pane] \in Nat
      /\ transform \in [Panes -> {None} \cup Nat] /\ offsetStack \in Seq(Nat)
      /\ inbox \in [Threads -> Seq(Nat)] /\ slots \in SlotTables
  BY DEF Types, PaneTypes, PaintTypes, ReplyTypes
<1>2. paint.pane \in Panes /\ paint.at \in Seq(Nat)
  BY <1>1 DEF Paints
<1>3. /\ Frame \in Machine
      /\ Frame.inbox = inbox /\ Frame.slots = slots /\ Frame.stack = offsetStack
      /\ Frame.at = paint.at /\ Frame.transform = transform[paint.pane]
  BY <1>1, <1>2 DEF Frame, Machine
<1> QED
  BY <1>1, <1>3 DEF Fit

(* The command a frame executes next.                                      *)
NextCommand == paint.cmds[paint.done + 1]
Executed == Execute(paint.via, Frame, NextCommand)

LEMMA NextExecuted ==
  ASSUME Types, SlotOrReply(inbox, slots), ExecuteNext
  PROVE  /\ Fit(paint.via, Executed) /\ Furthers(Frame, Executed)
         /\ NextCommand.op = "query" => Replied(Executed, NextCommand.id)
         /\ paint # None /\ paint.via \in {"d2d", "gdi"} /\ paint.done + 1 \in 1 .. Len(paint.cmds)
<1>1. paint # None /\ paint.via \in {"d2d", "gdi"} /\ ~Done
  BY DEF ExecuteNext, Painting
<1>2. /\ Fit(paint.via, Frame) /\ paint \in Paints
      /\ Frame.inbox = inbox /\ Frame.slots = slots
  BY <1>1, FrameFits
<1>3. paint.done \in 0 .. Len(paint.cmds) /\ paint.cmds \in Seq(Commands)
  BY <1>1, <1>2 DEF Types, PaintTypes, Paints
<1>4. Len(paint.cmds) \in Nat /\ \A i \in 1 .. Len(paint.cmds) : paint.cmds[i] \in Commands
  BY <1>3, ElementsOf
<1>5. paint.done + 1 \in 1 .. Len(paint.cmds)
  BY <1>1, <1>3, <1>4 DEF Done
<1>6. NextCommand \in Commands /\ asking \in [Threads -> Nat]
  BY <1>4, <1>5 DEF NextCommand, Types, ThreadTypes
<1> DEFINE m == Frame
           cmd == NextCommand
           via == paint.via
<1>7. /\ via \in {"d2d", "gdi"} /\ Fit(via, m) /\ SlotOrReply(m.inbox, m.slots)
      /\ cmd \in Commands
  BY <1>1, <1>2, <1>6
<1> HIDE DEF m, cmd, via
<1>8. /\ Fit(via, Execute(via, m, cmd)) /\ Furthers(m, Execute(via, m, cmd))
      /\ cmd.op = "query" => Replied(Execute(via, m, cmd), cmd.id)
  BY <1>6, <1>7, ExecuteKeeps
<1> QED
  BY <1>1, <1>5, <1>8 DEF m, cmd, via, Executed

(* Whatever the step, nobody loses a reply, and it is known who has a slot. *)
PaintReplies ==
  /\ ReplyTypes' /\ SlotOrReply(inbox', slots')
  /\ \A t \in Threads : inbox[t] # <<>> => inbox'[t] # <<>>

LEMMA StepKinds ==
  ASSUME Types, SlotOrReply(inbox, slots), PaintStep
  PROVE  /\ UNCHANGED <<threadVars, paneStates, window, sized, nextSeq, nextId>>
         /\ GoesOn \/ Closes \/ \E p \in Panes : Opens(p)
         /\ PaneTypes' /\ PaintTypes' /\ failures' \in Nat /\ PaintReplies
<1> DEFINE Goal ==
      /\ UNCHANGED <<threadVars, paneStates, window, sized, nextSeq, nextId>>
      /\ GoesOn \/ Closes \/ \E p \in Panes : Opens(p)
      /\ PaneTypes' /\ PaintTypes' /\ failures' \in Nat /\ PaintReplies
<1>0. /\ shown \in [Panes -> Pictures] /\ transform \in [Panes -> {None} \cup Nat]
      /\ invalid \in [Panes -> BOOLEAN] /\ paneStates \in [Panes -> {None} \cup Batches]
      /\ paint \in {None} \cup Paints /\ offsetStack \in Seq(Nat) /\ failures \in Nat
      /\ paint # None => paint.done \in 0 .. Len(paint.cmds) /\ window[paint.pane] = "open"
      /\ inbox \in [Threads -> Seq(Nat)] /\ slots \in SlotTables
      /\ window \in [Panes -> {"unborn", "open", "closed"}] /\ sized \in [Panes -> BOOLEAN]
  BY DEF Types, PaneTypes, PaintTypes, ReplyTypes
<1>a. UNCHANGED <<inbox, slots>> => PaintReplies
  BY <1>0 DEF PaintReplies, ReplyTypes
<1>b. ASSUME Closes, UNCHANGED <<threadVars, paneStates, window, sized, nextSeq, nextId>>,
             shown' \in [Panes -> Pictures], failures' \in Nat
      PROVE  Goal
  <2>1. PaneTypes' /\ PaintTypes' /\ UNCHANGED <<inbox, slots>>
    BY <1>0, <1>b DEF Closes, PaneTypes, PaintTypes
  <2> QED
    BY <2>1, <1>a, <1>b
<1>1. ASSUME NEW p \in Panes, BeginPaint(p)
      PROVE  Goal
  <2> DEFINE none == <<>>
             b == [pane |-> p, via |-> "begun", seq |-> 0, cmds |-> none, done |-> 0,
                   at |-> none]
  <2>1. none \in Seq(Commands) /\ none \in Seq(Nat) /\ 0 \in 0 .. Len(none)
    OBVIOUS
  <2>2. paint' = b
    BY <1>1 DEF BeginPaint
  <2>3. none = <<>>
    OBVIOUS
  <2> HIDE DEF none
  <2>4. /\ b \in Paints /\ b.pane = p /\ b.via = "begun" /\ b.seq = 0 /\ b.cmds = none
        /\ b.at = none /\ b.done = 0
    BY <2>1 DEF Paints
  <2> HIDE DEF b
  <2>5. paint' # None
    BY <2>2, <2>4, BridgeAssumption
  <2>6. Opens(p)
    BY <2>2, <2>4, <2>5, <1>0, <1>1 DEF BeginPaint, Opens
  <2>7. PaintTypes'
    <3>1. window'[p] = "open"
      BY <1>1 DEF BeginPaint
    <3> QED
      BY <3>1, <2>1, <2>2, <2>3, <2>4 DEF PaintTypes
  <2>8. PaneTypes'
    <3>1. invalid' \in [Panes -> BOOLEAN]
      BY <1>0, <1>1 DEF BeginPaint
    <3> QED
      BY <3>1, <1>0, <1>1 DEF BeginPaint, PaneTypes
  <2> QED
    BY <2>6, <2>7, <2>8, <1>0, <1>1, <1>a DEF BeginPaint
<1>2. ASSUME PaintEmpty
      PROVE  Goal
  <2>1. Closes
    BY <1>2 DEF PaintEmpty, Painting, Closes
  <2> HIDE DEF Goal
  <2> QED
    BY <2>1, <1>0, <1>2, <1>b DEF PaintEmpty
<1>3. ASSUME Painting("begun") \/ Painting("gdi"), OnScreen("nothing")
      PROVE  /\ paint # None /\ paint' = None /\ shown' \in [Panes -> Pictures]
             /\ \A q \in Panes : q # paint.pane => shown'[q] = shown[q]
             /\ shown'[paint.pane].seq = shown[paint.pane].seq
             /\ shown'[paint.pane].via = "nothing"
  <2>1. PICK p \in Panes : p = paint.pane
    BY <1>0, <1>3 DEF Painting, Paints
  <2>2. shown[p] \in Pictures /\ shown' = [shown EXCEPT ![p] = [@ EXCEPT !.via = "nothing"]]
    BY <1>0, <1>3, <2>1 DEF OnScreen
  <2> DEFINE blank == [shown[p] EXCEPT !.via = "nothing"]
  <2>3. blank.seq = shown[p].seq /\ blank.via = "nothing" /\ blank \in Pictures
    BY <2>2 DEF Pictures
  <2>4. shown' = [shown EXCEPT ![p] = blank]
    BY <2>2
  <2> HIDE DEF blank
  <2> QED
    BY <1>0, <1>3, <2>1, <2>3, <2>4 DEF OnScreen, Painting
<1>4. ASSUME NoTarget
      PROVE  Goal
  <2>1. Painting("begun") /\ OnScreen("nothing")
    BY <1>4 DEF NoTarget
  <2>2. Closes /\ failures' \in Nat
    BY <2>1, <1>0, <1>3, <1>4 DEF NoTarget, Closes
  <2> HIDE DEF Goal
  <2> QED
    BY <2>1, <2>2, <1>3, <1>4, <1>b DEF NoTarget
<1>5. ASSUME GdiFails
      PROVE  Goal
  <2>1. Painting("gdi") /\ OnScreen("nothing")
    BY <1>5 DEF GdiFails
  <2>2. Closes
    BY <2>1, <1>3, <1>5 DEF GdiFails, Closes
  <2> HIDE DEF Goal
  <2> QED
    BY <2>1, <2>2, <1>0, <1>3, <1>5, <1>b DEF GdiFails
<1>6. ASSUME EndPaint
      PROVE  Goal
  <2>1. PICK p \in Panes : p = paint.pane
    BY <1>0, <1>6 DEF EndPaint, Painting, Paints
  <2>2. paint \in Paints /\ paint.via \in {"d2d", "gdi"}
    BY <1>0, <1>6 DEF EndPaint, Painting
  <2> DEFINE pic == [seq |-> paint.seq, via |-> paint.via, at |-> paint.at]
  <2>3. shown' = [shown EXCEPT ![p] = pic] /\ paint' = None
    BY <1>6, <2>1, <2>2 DEF EndPaint, OnScreen
  <2>4. pic \in Pictures
    BY <2>2 DEF Pictures, Paints
  <2>5. /\ shown'[p] = pic /\ \A q \in Panes : q # p => shown'[q] = shown[q]
        /\ shown' \in [Panes -> Pictures]
    <3> HIDE DEF pic
    <3> QED
      BY <2>3, <2>4, <1>0
  <2>6. Closes
    BY <2>1, <2>2, <2>3, <2>5, <1>6 DEF EndPaint, Painting, Closes
  <2> HIDE DEF Goal
  <2> QED
    BY <2>5, <2>6, <1>0, <1>6, <1>b DEF EndPaint
<1>7. ASSUME Snapshot
      PROVE  Goal
  <2> DEFINE p == paint.pane
             cmds == Kept(p)
             seq == Latest(p)
             none == <<>>
  <2>1. p \in Panes /\ paint \in Paints /\ paint # None /\ paint.via = "begun"
    BY <1>0, <1>7 DEF Snapshot, Painting, Paints
  <2>2. seq \in Nat /\ cmds \in Seq(Commands)
    <3>1. Latest(p) \in Nat
      BY <2>1, <1>0, LatestIs
    <3>2. CASE paneStates[p] = None
      BY <3>1, <3>2 DEF Kept
    <3>3. CASE paneStates[p] # None
      BY <3>1, <3>3, <2>1, <1>0 DEF Kept, Batches
    <3> QED
      BY <3>2, <3>3
  <2>3. paint' = [paint EXCEPT !.via = "d2d", !.seq = seq, !.cmds = cmds]
    BY <1>7 DEF Snapshot, Kept
  <2>4. paint.done = 0 /\ 0 \in 0 .. Len(cmds)
    <3> HIDE DEF cmds
    <3>1. Len(cmds) \in Nat
      BY <2>2, ElementsOf
    <3> QED
      BY <3>1, <2>1 DEF Types, PaintTypes
  <2> HIDE DEF cmds, seq
  <2>5. /\ paint' \in Paints /\ paint'.pane = p /\ paint'.via = "d2d"
        /\ paint'.seq = seq /\ paint'.cmds = cmds /\ paint'.done = 0
    BY <2>1, <2>2, <2>3, <2>4 DEF Paints
  <2>6. GoesOn
    BY <2>1, <2>5, <1>7, BridgeAssumption DEF Snapshot, GoesOn, cmds, seq
  <2>7. transform' \in [Panes -> {None} \cup Nat] /\ transform'[p] \in Nat
    BY <2>1, <1>0, <1>7 DEF Snapshot
  <2>8. PaintTypes'
    <3>1. window'[p] = "open"
      BY <1>0, <1>7, <2>1 DEF Snapshot
    <3> QED
      BY <3>1, <2>4, <2>5, <2>7 DEF PaintTypes
  <2>9. PaneTypes'
    BY <2>7, <1>0, <1>7 DEF Snapshot, PaneTypes
  <2> QED
    BY <2>6, <2>8, <2>9, <1>0, <1>7, <1>a DEF Snapshot
<1>8. ASSUME NEW m \in Machine, NEW via \in {"d2d", "gdi"}, NEW k \in 0 .. Len(paint.cmds),
             paint # None, paint.via \in {"d2d", "gdi"},
             via = "d2d" => m.transform \in Nat, SlotOrReply(m.inbox, m.slots),
             \A t \in Threads : inbox[t] # <<>> => m.inbox[t] # <<>>,
             Becomes(m), paint' = [paint EXCEPT !.via = via, !.done = k, !.at = m.at],
             UNCHANGED <<threadVars, paneStates, window, sized, invalid, shown, nextSeq,
                         nextId>>,
             failures' \in Nat
      PROVE  Goal
  <2>1. paint \in Paints /\ paint.pane \in Panes /\ k \in Nat
    <3>1. paint \in Paints
      BY <1>0, <1>8
    <3>2. Len(paint.cmds) \in Nat
      BY <3>1, ElementsOf DEF Paints
    <3> QED
      BY <3>1, <3>2 DEF Paints
  <2>2. /\ m.inbox \in [Threads -> Seq(Nat)] /\ m.slots \in SlotTables
        /\ m.stack \in Seq(Nat) /\ m.at \in Seq(Nat) /\ m.transform \in {None} \cup Nat
    BY DEF Machine
  <2>3. /\ paint' \in Paints /\ paint'.pane = paint.pane /\ paint'.via = via
        /\ paint'.seq = paint.seq /\ paint'.cmds = paint.cmds /\ paint'.done = k
    BY <2>1, <2>2, <1>8 DEF Paints
  <2>4. /\ inbox' = m.inbox /\ slots' = m.slots /\ offsetStack' = m.stack
        /\ transform' \in [Panes -> {None} \cup Nat] /\ transform'[paint.pane] = m.transform
    BY <2>1, <2>2, <1>0, <1>8 DEF Becomes
  <2>5. GoesOn
    BY <2>3, <1>8, BridgeAssumption DEF GoesOn
  <2>6. PaintTypes'
    <3>1. window'[paint'.pane] = "open"
      BY <1>0, <1>8, <2>3
    <3> QED
      BY <3>1, <2>3, <2>4, <1>8 DEF PaintTypes
  <2>7. PaneTypes'
    BY <2>2, <2>4, <1>0, <1>8 DEF PaneTypes
  <2>8. PaintReplies
    BY <2>2, <2>4, <1>8 DEF PaintReplies, ReplyTypes
  <2> QED
    BY <2>5, <2>6, <2>7, <2>8, <1>8
<1>9. ASSUME ExecuteNext
      PROVE  Goal
  <2> DEFINE m == Executed
             via == paint.via
             k == paint.done + 1
  <2>1. /\ Fit(via, m) /\ Furthers(Frame, m) /\ via \in {"d2d", "gdi"} /\ paint # None
        /\ k \in 1 .. Len(paint.cmds)
    BY <1>9, NextExecuted
  <2>2. paint \in Paints /\ Frame.inbox = inbox
    BY <2>1, FrameFits
  <2>3. /\ Becomes(m) /\ paint' = [paint EXCEPT !.done = k, !.at = m.at]
        /\ UNCHANGED <<threadVars, paneStates, window, sized, invalid, shown, nextSeq,
                       nextId>>
        /\ failures' = failures
    BY <1>9 DEF ExecuteNext, Executed, NextCommand
  <2> HIDE DEF m
  <2>4. paint' = [paint EXCEPT !.via = via, !.done = k, !.at = m.at]
    BY <2>2, <2>3 DEF Paints
  <2>5. k \in 0 .. Len(paint.cmds)
    BY <2>1
  <2>6. /\ m \in Machine
        /\ via = "d2d" => m.transform \in Nat
        /\ SlotOrReply(m.inbox, m.slots)
        /\ \A t \in Threads : inbox[t] # <<>> => m.inbox[t] # <<>>
    BY <2>1, <2>2 DEF Fit, Furthers
  <2> HIDE DEF Goal, k, via
  <2>7. paint.via \in {"d2d", "gdi"} /\ failures' \in Nat
    BY <2>1, <2>3, <1>0 DEF via
  <2> QED
    BY <2>1, <2>3, <2>4, <2>5, <2>6, <2>7, <1>8
<1>10. ASSUME StartOver
      PROVE  Goal
  <2> DEFINE f == Frame
             m == Fallback(f)
  <2>1. paint # None /\ paint.via = "d2d"
    BY <1>10 DEF StartOver, Painting
  <2>2. f \in Machine /\ f.inbox = inbox /\ f.slots = slots /\ paint \in Paints
    BY <2>1, FrameFits DEF Fit
  <2>3. /\ Becomes(m) /\ paint' = [paint EXCEPT !.via = "gdi", !.done = 0, !.at = m.at]
        /\ UNCHANGED <<threadVars, paneStates, window, sized, invalid, shown, nextSeq,
                       nextId>>
        /\ failures' = failures + 1
    BY <1>10 DEF StartOver
  <2> HIDE DEF f
  <2>4. m \in Machine /\ m.inbox = inbox /\ m.slots = slots
    BY <2>2, FallbackFit
  <2> HIDE DEF m, Goal
  <2>5. 0 \in 0 .. Len(paint.cmds)
    BY <2>1, <2>2, <1>0, ElementsOf DEF Paints
  <2>6. failures' \in Nat
    BY <2>3, <1>0
  <2> QED
    BY <2>1, <2>3, <2>4, <2>5, <2>6, <1>8
<1> HIDE DEF Goal
<1>11. Goal
  BY <1>1, <1>2, <1>4, <1>5, <1>6, <1>7, <1>9, <1>10 DEF PaintStep
<1> QED
  BY <1>11 DEF Goal

-----------------------------------------------------------------------------
(* Each part of the invariant, action by action.                           *)

(* Every next-state step is one of these.                                  *)
LEMMA Actions ==
  ASSUME [Next]_vars, NEW G,
         \A t \in Threads, p \in Panes : OpenChild(t, p) \/ Begin(t, p) \/ Ask(t, p) => G,
         \A t \in Threads, op \in {"fill", "push", "pop"} : Push(t, op) => G,
         \A t \in Threads : Submit(t) \/ Store(t) \/ Poke(t) => G,
         \A t \in Threads : pc[t] = "waiting" /\ Leave(t) => G,
         \A p \in Panes : Resize(p) \/ Uncover(p) \/ CloseChild(p) => G,
         PaintStep => G,
         UNCHANGED vars => G
  PROVE  G
  BY DEF Next, Answered, GiveUp, PaintStep

LEMMA ThreadTypesKept ==
  ASSUME Types, Serial, SlotOrReply(inbox, slots), [Next]_vars
  PROVE  ThreadTypes'
<1> DEFINE G == ThreadTypes'
<1>0. ThreadTypes /\ paneStates \in [Panes -> {None} \cup Batches]
  BY DEF Types, PaneTypes
<1>1. ASSUME NEW t \in Threads, NEW p \in Panes, Begin(t, p)
      PROVE  G
  <2>1. Batch(p, <<>>) \in Batches
    BY <1>0 DEF Batch, Batches, ThreadTypes
  <2> QED
    BY <2>1, <1>0, <1>1 DEF Begin, ThreadTypes
<1>2. ASSUME NEW t \in Threads, NEW p \in Panes, Ask(t, p)
      PROVE  G
  <2>1. Query(nextId) \in Commands
    BY <1>0 DEF Query, Commands, ThreadTypes
  <2> DEFINE q == <<Query(nextId)>>
  <2>2. q \in Seq(Commands)
    BY <2>1
  <2> HIDE DEF q
  <2>3. Batch(p, q) \in Batches
    BY <2>2, <1>0 DEF Batch, Batches, ThreadTypes
  <2> QED
    BY <2>3, <1>0, <1>2 DEF Ask, ThreadTypes, q
<1>3. ASSUME NEW t \in Threads, NEW op \in {"fill", "push", "pop"}, Push(t, op)
      PROVE  G
  <2> DEFINE more == Append(current[t].cmds, Draw(op))
  <2>1. Draw(op) \in Commands /\ current[t] \in Batches
    BY <1>0, <1>3 DEF Push, Draw, Commands, ThreadTypes
  <2>2. more \in Seq(Commands)
    BY <2>1 DEF Batches
  <2>3. current' = [current EXCEPT ![t].cmds = more]
    BY <1>3 DEF Push
  <2> HIDE DEF more
  <2>4. [current[t] EXCEPT !.cmds = more] \in Batches
    BY <2>1, <2>2 DEF Batches
  <2>5. current' \in [Threads -> {None} \cup Batches]
    BY <2>3, <2>4, <1>0 DEF ThreadTypes
  <2> QED
    BY <2>5, <1>0, <1>3 DEF Push, ThreadTypes
<1>4. ASSUME NEW t \in Threads, Submit(t) \/ Store(t) \/ Poke(t)
      PROVE  G
  <2>1. CASE Submit(t)
    BY <2>1, <1>0 DEF Submit, ThreadTypes
  <2>2. CASE Store(t)
    BY <2>2, <1>0 DEF Store, ThreadTypes
  <2>3. CASE Poke(t)
    BY <2>3, <1>0 DEF Poke, ThreadTypes
  <2> QED
    BY <1>4, <2>1, <2>2, <2>3
<1>5. ASSUME NEW t \in Threads, Leave(t)
      PROVE  G
  BY <1>0, <1>5 DEF Leave, ThreadTypes
<1>6. UNCHANGED <<threadVars, nextSeq, nextId>> => G
  BY <1>0 DEF threadVars, ThreadTypes
<1>7. ASSUME NEW t \in Threads, NEW p \in Panes, OpenChild(t, p)
      PROVE  G
  BY <1>6, <1>7 DEF OpenChild
<1>8. ASSUME NEW p \in Panes, Resize(p) \/ Uncover(p) \/ CloseChild(p)
      PROVE  G
  <2>1. UNCHANGED <<threadVars, nextSeq, nextId>>
    <3>1. CASE Resize(p)
      BY <3>1 DEF Resize
    <3>2. CASE Uncover(p)
      BY <3>2 DEF Uncover
    <3>3. CASE CloseChild(p)
      BY <3>3 DEF CloseChild
    <3> QED
      BY <1>8, <3>1, <3>2, <3>3
  <2> QED
    BY <2>1, <1>6
<1>9. UNCHANGED vars => G
  BY <1>6 DEF vars
<1> HIDE DEF G
<1>10. \A t \in Threads, p \in Panes : OpenChild(t, p) \/ Begin(t, p) \/ Ask(t, p) => G
  BY <1>1, <1>2, <1>7
<1>11. PaintStep => G
  BY <1>6, StepKinds
<1>12. G
  BY <1>3, <1>4, <1>5, <1>8, <1>9, <1>10, <1>11, Actions
<1> QED
  BY <1>12 DEF G

LEMMA ReplyTypesKept ==
  ASSUME Types, Serial, SlotOrReply(inbox, slots), [Next]_vars
  PROVE  ReplyTypes'
<1> DEFINE G == ReplyTypes'
<1>0. ReplyTypes /\ nextId \in Nat
  BY DEF Types, ThreadTypes
<1>1. UNCHANGED <<inbox, slots>> => G
  BY <1>0 DEF ReplyTypes
<1>2. ASSUME NEW t \in Threads, NEW p \in Panes, Ask(t, p)
      PROVE  G
  <2>1. PICK D \in SUBSET Nat : slots \in [D -> Threads]
    BY <1>0 DEF ReplyTypes, SlotTables
  <2>2. /\ slots' \in [D \cup {nextId} -> Threads]
        /\ D \cup {nextId} \in SUBSET Nat
    BY <2>1, <1>0, <1>2 DEF Ask
  <2>3. slots' \in SlotTables
    BY <2>2 DEF SlotTables
  <2> QED
    BY <2>3, <1>0, <1>2 DEF Ask, ReplyTypes
<1>3. ASSUME NEW t \in Threads, NEW p \in Panes, OpenChild(t, p) \/ Begin(t, p) \/ Ask(t, p)
      PROVE  G
  BY <1>1, <1>2, <1>3 DEF OpenChild, Begin
<1>4. ASSUME NEW t \in Threads, NEW op \in {"fill", "push", "pop"}, Push(t, op)
      PROVE  G
  BY <1>1, <1>4 DEF Push
<1>5. ASSUME NEW t \in Threads, Submit(t) \/ Store(t) \/ Poke(t)
      PROVE  G
  BY <1>1, <1>5 DEF Submit, Store, Poke
<1>6. ASSUME NEW t \in Threads, Leave(t)
      PROVE  G
  BY <1>0, <1>6 DEF Leave, ReplyTypes
<1>7. ASSUME NEW p \in Panes, Resize(p) \/ Uncover(p) \/ CloseChild(p)
      PROVE  G
  BY <1>1, <1>7 DEF Resize, Uncover, CloseChild
<1>8. PaintStep => G
  BY StepKinds DEF PaintReplies
<1>9. UNCHANGED vars => G
  BY <1>1 DEF vars
<1> HIDE DEF G
<1>10. G
  BY <1>3, <1>4, <1>5, <1>6, <1>7, <1>8, <1>9, Actions
<1> QED
  BY <1>10 DEF G

LEMMA PaneTypesKept ==
  ASSUME Types, Serial, SlotOrReply(inbox, slots), [Next]_vars
  PROVE  PaneTypes' /\ PaintTypes'
<1> DEFINE G == PaneTypes' /\ PaintTypes'
<1>0. PaneTypes /\ ThreadTypes /\ PaintTypes
  BY DEF Types
<1>1. UNCHANGED <<paneStates, guiVars>> => G
  BY <1>0 DEF PaneTypes, PaintTypes, guiVars
<1>2. ASSUME NEW t \in Threads, NEW p \in Panes, OpenChild(t, p) \/ Begin(t, p) \/ Ask(t, p)
      PROVE  G
  <2>1. CASE OpenChild(t, p)
    BY <2>1, <1>0 DEF OpenChild, PaneTypes, PaintTypes
  <2>2. CASE Begin(t, p) \/ Ask(t, p)
    BY <2>2, <1>1 DEF Begin, Ask
  <2> QED
    BY <1>2, <2>1, <2>2
<1>3. ASSUME NEW t \in Threads, NEW op \in {"fill", "push", "pop"}, Push(t, op)
      PROVE  G
  BY <1>1, <1>3 DEF Push
<1>4. ASSUME NEW t \in Threads, Submit(t) \/ Store(t) \/ Poke(t)
      PROVE  G
  <2>1. CASE Submit(t)
    BY <2>1, <1>1 DEF Submit
  <2>2. CASE Store(t)
    BY <2>2, <1>0 DEF Store, PaneTypes, PaintTypes, ThreadTypes, guiVars
  <2>3. CASE Poke(t)
    <3>1. invalid' \in [Panes -> BOOLEAN]
      BY <2>3, <1>0 DEF Poke, PaneTypes
    <3> QED
      BY <2>3, <3>1, <1>0 DEF Poke, PaneTypes, PaintTypes
  <2> QED
    BY <1>4, <2>1, <2>2, <2>3
<1>5. ASSUME NEW t \in Threads, Leave(t)
      PROVE  G
  BY <1>1, <1>5 DEF Leave
<1>6. ASSUME NEW p \in Panes, Resize(p) \/ Uncover(p) \/ CloseChild(p)
      PROVE  G
  <2>1. CASE Resize(p)
    <3>1. sized' \in [Panes -> BOOLEAN] /\ invalid' \in [Panes -> BOOLEAN]
      BY <2>1, <1>0 DEF Resize, PaneTypes
    <3> QED
      BY <2>1, <3>1, <1>0 DEF Resize, PaneTypes, PaintTypes
  <2>2. CASE Uncover(p)
    BY <2>2, <1>0 DEF Uncover, PaneTypes, PaintTypes
  <2>3. CASE CloseChild(p)
    <3>1. Blank \in Pictures
      BY DEF Blank, Pictures
    <3> QED
      BY <2>3, <3>1, <1>0 DEF CloseChild, PaneTypes, PaintTypes
  <2> QED
    BY <1>6, <2>1, <2>2, <2>3
<1>7. PaintStep => G
  BY StepKinds
<1>8. UNCHANGED vars => G
  BY <1>1 DEF vars
<1> HIDE DEF G
<1>9. G
  BY <1>2, <1>3, <1>4, <1>5, <1>6, <1>7, <1>8, Actions
<1> QED
  BY <1>9 DEF G

LEMMA TypesKept ==
  ASSUME Types, Serial, SlotOrReply(inbox, slots), [Next]_vars
  PROVE  Types'
<1> DEFINE G == drafting' \in [Threads -> BOOLEAN] /\ failures' \in Nat
<1>0. drafting \in [Threads -> BOOLEAN] /\ failures \in Nat
  BY DEF Types
<1>1. UNCHANGED <<drafting, failures>> => G
  BY <1>0
<1>2. ASSUME NEW t \in Threads, NEW p \in Panes, OpenChild(t, p) \/ Begin(t, p) \/ Ask(t, p)
      PROVE  G
  <2>1. CASE OpenChild(t, p) \/ Ask(t, p)
    BY <2>1, <1>1 DEF OpenChild, Ask, threadVars, guiVars
  <2>2. CASE Begin(t, p)
    BY <2>2, <1>0 DEF Begin, guiVars
  <2> QED
    BY <1>2, <2>1, <2>2
<1>3. ASSUME NEW t \in Threads, NEW op \in {"fill", "push", "pop"}, Push(t, op)
      PROVE  G
  BY <1>1, <1>3 DEF Push, guiVars
<1>4. ASSUME NEW t \in Threads, Submit(t) \/ Store(t) \/ Poke(t)
      PROVE  G
  <2>1. CASE Submit(t)
    BY <2>1, <1>0 DEF Submit, guiVars
  <2>2. CASE Store(t)
    BY <2>2, <1>1 DEF Store, guiVars
  <2>3. CASE Poke(t)
    BY <2>3, <1>1 DEF Poke
  <2> QED
    BY <1>4, <2>1, <2>2, <2>3
<1>5. ASSUME NEW t \in Threads, Leave(t)
      PROVE  G
  BY <1>1, <1>5 DEF Leave, guiVars
<1>6. ASSUME NEW p \in Panes, Resize(p) \/ Uncover(p) \/ CloseChild(p)
      PROVE  G
  BY <1>1, <1>6 DEF Resize, Uncover, CloseChild, threadVars
<1>7. PaintStep => G
  BY <1>0, StepKinds DEF threadVars
<1>8. UNCHANGED vars => G
  BY <1>1 DEF vars, threadVars, guiVars
<1> HIDE DEF G
<1>9. G
  BY <1>2, <1>3, <1>4, <1>5, <1>6, <1>7, <1>8, Actions
<1> QED
  BY <1>9, ThreadTypesKept, ReplyTypesKept, PaneTypesKept DEF G, Types

(* What the numbering needs to know of the types: the batches and their    *)
(* numbers.                                                                *)
LEMMA Numbers ==
  ASSUME Types
  PROVE  /\ nextSeq \in Nat \ {0}
         /\ \A t \in Threads : current[t] # None => current[t].seq \in Nat \ {0}
         /\ \A t \in Threads : staged[t] # None =>
              staged[t].seq \in Nat \ {0} /\ staged[t].pane \in Panes
         /\ \A p \in Panes : Latest(p) \in Nat /\ shown[p].seq \in Nat
         /\ paint # None => paint.seq \in Nat /\ paint.pane \in Panes
<1>1. \A p \in Panes : Latest(p) \in Nat
  BY LatestIs DEF Types, PaneTypes
<1>2. \A t \in Threads : current[t] # None => current[t].seq \in Nat \ {0}
  BY DEF Types, ThreadTypes, Batches
<1>3. \A t \in Threads : staged[t] # None =>
        staged[t].seq \in Nat \ {0} /\ staged[t].pane \in Panes
  BY DEF Types, ThreadTypes, Batches
<1>4. \A p \in Panes : shown[p].seq \in Nat
  BY DEF Types, PaneTypes, Pictures
<1>5. paint # None => paint.seq \in Nat /\ paint.pane \in Panes
  BY DEF Types, PaintTypes, Paints
<1> QED
  BY <1>1, <1>2, <1>3, <1>4, <1>5 DEF Types, ThreadTypes

LEMMA SerialKept ==
  ASSUME Types, Serial, SlotOrReply(inbox, slots), [Next]_vars
  PROVE  Serial'
<1> DEFINE G == Serial'
<1>0. /\ nextSeq \in Nat \ {0}
      /\ \A t \in Threads : current[t] # None => current[t].seq \in Nat \ {0}
      /\ \A t \in Threads : staged[t] # None =>
           staged[t].seq \in Nat \ {0} /\ staged[t].pane \in Panes
      /\ \A p \in Panes : Latest(p) \in Nat /\ shown[p].seq \in Nat
      /\ paint # None => paint.seq \in Nat /\ paint.pane \in Panes
  BY Numbers
<1>a. /\ current \in [Threads -> {None} \cup Batches]
      /\ staged \in [Threads -> {None} \cup Batches]
      /\ pc \in [Threads -> {"free", "store", "poke", "waiting"}]
      /\ paneStates \in [Panes -> {None} \cup Batches]
      /\ shown \in [Panes -> Pictures]
  BY DEF Types, ThreadTypes, PaneTypes
<1>1. UNCHANGED <<current, staged, pc, paneStates, shown, paint, nextSeq>> => G
  BY DEF Serial, DraftsApart, HandedApart, KeptBelow, SnapshotExact, Unseen, Busy, Latest,
         Kept
<1>2. ASSUME NEW t \in Threads, NEW p \in Panes, Begin(t, p)
      PROVE  G
  <2>1. /\ nextSeq' = nextSeq + 1 /\ UNCHANGED <<staged, pc, paneStates, shown, paint>>
        /\ current'[t].seq = nextSeq
        /\ \A u \in Threads : u # t => current'[u] = current[u]
    BY <1>2, <1>a DEF Begin, guiVars, Batch
  <2>2. \A q \in Panes : Latest(q)' = Latest(q)
    BY <2>1 DEF Latest
  <2>3. DraftsApart'
    BY <2>1, <2>2, <1>0 DEF Serial, DraftsApart, HandedApart, KeptBelow, Unseen, Busy
  <2>4. HandedApart'
    BY <2>1, <2>2, <1>0 DEF Serial, HandedApart, Unseen, Busy
  <2>5. KeptBelow'
    BY <2>1, <2>2, <1>0 DEF Serial, KeptBelow
  <2>6. SnapshotExact'
    BY <2>1, <2>2, <1>0 DEF Serial, SnapshotExact, Busy, Kept
  <2> QED
    BY <2>3, <2>4, <2>5, <2>6 DEF Serial
<1>3. ASSUME NEW t \in Threads, NEW p \in Panes, Ask(t, p)
      PROVE  G
  <2>1. /\ nextSeq' = nextSeq + 1 /\ UNCHANGED <<paneStates, shown, paint>>
        /\ staged'[t].seq = nextSeq /\ pc'[t] = "store"
        /\ current'[t] = None
        /\ \A u \in Threads : u # t =>
             staged'[u] = staged[u] /\ pc'[u] = pc[u] /\ current'[u] = current[u]
    BY <1>3, <1>a DEF Ask, guiVars, Batch
  <2>2. staged'[t] # None
    <3>1. Query(nextId) \in Commands
      BY DEF Query, Commands, Types, ThreadTypes
    <3> DEFINE q == <<Query(nextId)>>
    <3>2. q \in Seq(Commands)
      BY <3>1
    <3> HIDE DEF q
    <3>3. Batch(p, q) \in Batches
      BY <3>2, <1>0 DEF Batch, Batches
    <3>4. staged'[t] = Batch(p, q)
      BY <1>3, <1>a DEF Ask, q
    <3> QED
      BY <3>3, <3>4, BridgeAssumption
  <2>3. \A q \in Panes : Latest(q)' = Latest(q)
    BY <2>1 DEF Latest
  <2>4. DraftsApart'
    BY <2>1, <2>3, <1>0 DEF Serial, DraftsApart, HandedApart, KeptBelow, Unseen, Busy
  <2>5. HandedApart'
    BY <2>1, <2>2, <2>3, <1>0 DEF Serial, HandedApart, KeptBelow, Unseen, Busy
  <2>6. KeptBelow'
    BY <2>1, <2>3, <1>0 DEF Serial, KeptBelow
  <2>7. SnapshotExact'
    BY <2>1, <2>3, <1>0 DEF Serial, SnapshotExact, KeptBelow, Busy, Kept
  <2> QED
    BY <2>4, <2>5, <2>6, <2>7 DEF Serial
<1>4. ASSUME NEW t \in Threads, NEW op \in {"fill", "push", "pop"}, Push(t, op)
      PROVE  G
  <2>1. /\ UNCHANGED <<staged, pc, paneStates, shown, paint, nextSeq>>
        /\ current[t] # None /\ current'[t].seq = current[t].seq
        /\ \A u \in Threads : u # t => current'[u] = current[u]
    BY <1>4, <1>a DEF Push, guiVars, Batches
  <2>2. \A q \in Panes : Latest(q)' = Latest(q)
    BY <2>1 DEF Latest
  <2>3. SnapshotExact'
    BY <2>1, <2>2, <1>0 DEF Serial, SnapshotExact, Busy, Kept
  <2> QED
    BY <2>1, <2>2, <2>3, <1>0 DEF Serial, DraftsApart, HandedApart, KeptBelow, Unseen, Busy
<1>5. ASSUME NEW t \in Threads, Submit(t)
      PROVE  G
  <2>1. /\ UNCHANGED <<paneStates, shown, paint, nextSeq>>
        /\ pc[t] = "free" /\ staged'[t] = current[t] /\ current'[t] = None
        /\ pc'[t] = IF current[t] = None THEN "free" ELSE "store"
        /\ \A u \in Threads : u # t =>
             staged'[u] = staged[u] /\ pc'[u] = pc[u] /\ current'[u] = current[u]
    BY <1>5, <1>a DEF Submit, guiVars
  <2>2. \A q \in Panes : Latest(q)' = Latest(q)
    BY <2>1 DEF Latest
  <2>3. DraftsApart'
    BY <2>1, <2>2, <1>0 DEF Serial, DraftsApart, Unseen, Busy
  <2>4. HandedApart'
    BY <2>1, <2>2, <1>0 DEF Serial, DraftsApart, HandedApart, Unseen, Busy
  <2>5. KeptBelow'
    BY <2>1, <2>2 DEF Serial, KeptBelow
  <2>6. SnapshotExact'
    BY <2>1, <2>2, <1>0 DEF Serial, SnapshotExact, DraftsApart, Unseen, Busy, Kept
  <2> QED
    BY <2>3, <2>4, <2>5, <2>6 DEF Serial
<1>6. ASSUME NEW t \in Threads, Store(t)
      PROVE  G
  <2>0. staged[t] # None
    BY <1>6 DEF Store, Serial, HandedApart, Busy
  <2>1. PICK p \in Panes : p = staged[t].pane
    BY <2>0, <1>0
  <2>2. /\ UNCHANGED <<current, staged, shown, paint, nextSeq>>
        /\ pc[t] = "store" /\ pc'[t] = "poke"
        /\ paneStates'[p] = staged[t]
        /\ \A q \in Panes : q # p => paneStates'[q] = paneStates[q]
        /\ \A u \in Threads : u # t => pc'[u] = pc[u]
    BY <1>6, <1>a, <2>1 DEF Store, guiVars
  <2>3. /\ Latest(p)' = staged[t].seq
        /\ \A q \in Panes : q # p => Latest(q)' = Latest(q)
    BY <2>0, <2>2 DEF Latest
  <2>4. DraftsApart'
    BY <2>0, <2>2, <2>3, <1>0 DEF Serial, DraftsApart, Unseen, Busy
  <2>5. HandedApart'
    BY <2>0, <2>2, <2>3, <1>0 DEF Serial, HandedApart, Unseen, Busy
  <2>6. KeptBelow'
    BY <2>0, <2>2, <2>3, <1>0 DEF Serial, KeptBelow, HandedApart, Busy
  <2>7. SnapshotExact'
    BY <2>0, <2>2, <2>3, <1>0 DEF Serial, SnapshotExact, HandedApart, Unseen, Busy, Kept
  <2> QED
    BY <2>4, <2>5, <2>6, <2>7 DEF Serial
<1>7. ASSUME NEW t \in Threads, Poke(t) \/ (pc[t] = "waiting" /\ Leave(t))
      PROVE  G
  <2>1. /\ UNCHANGED <<current, paneStates, shown, paint, nextSeq>>
        /\ pc[t] # "free" /\ pc'[t] \in {"free", "waiting"}
        /\ pc'[t] # "free" => staged'[t] = staged[t]
        /\ \A u \in Threads : u # t => pc'[u] = pc[u] /\ staged'[u] = staged[u]
    <3>1. CASE Poke(t)
      BY <3>1, <1>a DEF Poke
    <3>2. CASE pc[t] = "waiting" /\ Leave(t)
      BY <3>2, <1>a DEF Leave, guiVars
    <3> QED
      BY <1>7, <3>1, <3>2
  <2>2. \A q \in Panes : Latest(q)' = Latest(q)
    BY <2>1 DEF Latest
  <2>3. SnapshotExact'
    BY <2>1, <2>2, <1>0 DEF Serial, SnapshotExact, Busy, Kept
  <2> QED
    BY <2>1, <2>2, <2>3, <1>0 DEF Serial, DraftsApart, HandedApart, KeptBelow, Unseen, Busy
<1>8. ASSUME NEW p \in Panes, CloseChild(p)
      PROVE  G
  <2>1. /\ UNCHANGED <<current, staged, pc, paint, nextSeq>> /\ paint = None
        /\ paneStates'[p] = None /\ shown'[p].seq = 0
        /\ \A q \in Panes : q # p => paneStates'[q] = paneStates[q] /\ shown'[q] = shown[q]
    BY <1>8, <1>a DEF CloseChild, threadVars, Blank
  <2>2. /\ Latest(p)' = 0
        /\ \A q \in Panes : q # p => Latest(q)' = Latest(q)
    BY <2>1 DEF Latest
  <2>3. SnapshotExact'
    BY <2>1 DEF SnapshotExact
  <2> QED
    BY <2>1, <2>2, <2>3, <1>0 DEF Serial, DraftsApart, HandedApart, KeptBelow, Unseen, Busy
<1>9. ASSUME PaintStep
      PROVE  G
  <2>1. UNCHANGED <<current, staged, pc, nextSeq, paneStates>>
    BY <1>9, StepKinds DEF threadVars
  <2>2. \A q \in Panes : Latest(q)' = Latest(q) /\ Kept(q)' = Kept(q)
    BY <2>1 DEF Latest, Kept
  <2>3. ASSUME \A q \in Panes : shown'[q].seq = shown[q].seq
                               \/ (paint # None /\ shown'[q].seq = paint.seq),
               paint' # None => \/ paint'.seq = 0
                                \/ paint # None /\ paint'.seq = paint.seq
                                \/ \E q \in Panes : paint'.seq = Latest(q)
        PROVE  DraftsApart' /\ HandedApart' /\ KeptBelow'
    <3>1. DraftsApart'
      BY <2>1, <2>2, <2>3, <1>0 DEF Serial, DraftsApart, Unseen, Busy
    <3>2. HandedApart'
      BY <2>1, <2>2, <2>3, <1>0 DEF Serial, HandedApart, Unseen, Busy
    <3>3. KeptBelow'
      BY <2>1, <2>2, <2>3, <1>0 DEF Serial, KeptBelow
    <3> QED
      BY <3>1, <3>2, <3>3
  <2>4. CASE \E p \in Panes : Opens(p)
    <3>1. SnapshotExact'
      BY <2>4 DEF Opens, SnapshotExact
    <3> QED
      BY <2>3, <2>4, <3>1 DEF Opens, Serial
  <2>5. CASE Closes
    <3>1. SnapshotExact'
      BY <2>5 DEF Closes, SnapshotExact
    <3>2. \A q \in Panes : shown'[q].seq = shown[q].seq
                          \/ (paint # None /\ shown'[q].seq = paint.seq)
      BY <2>5 DEF Closes
    <3> QED
      BY <2>3, <2>5, <3>1, <3>2 DEF Closes, Serial
  <2>6. CASE GoesOn
    <3>0. paint # None /\ paint.pane \in Panes /\ paint'.pane = paint.pane
      BY <2>6, <1>0 DEF GoesOn
    <3>1. SnapshotExact'
      <4>1. CASE paint.via = "begun"
        <5>1. paint'.seq = Latest(paint.pane) /\ paint'.cmds = Kept(paint.pane)
          BY <2>6, <4>1 DEF GoesOn
        <5>2. ASSUME NEW t \in Threads, Busy(t), staged[t].seq = paint'.seq
              PROVE  staged[t].cmds = paint'.cmds
          <6>1. staged[t] # None /\ paneStates[paint.pane] = staged[t]
            BY <5>1, <5>2, <3>0 DEF Serial, HandedApart
          <6> QED
            BY <5>1, <6>1 DEF Kept
        <5> QED
          BY <5>1, <5>2, <3>0, <2>1, <2>2 DEF SnapshotExact, Busy
      <4>2. CASE paint.via # "begun"
        <5>1. paint'.seq = paint.seq /\ paint'.cmds = paint.cmds
          BY <2>6, <4>2 DEF GoesOn
        <5> QED
          BY <5>1, <4>2, <3>0, <2>1, <2>2 DEF Serial, SnapshotExact, Busy
      <4> QED
        BY <4>1, <4>2
    <3>2. paint'.seq = paint.seq \/ \E q \in Panes : paint'.seq = Latest(q)
      BY <2>6, <3>0 DEF GoesOn
    <3>3. UNCHANGED shown
      BY <2>6 DEF GoesOn
    <3> QED
      BY <2>3, <3>0, <3>1, <3>2, <3>3 DEF Serial
  <2> QED
    BY <1>9, <2>4, <2>5, <2>6, StepKinds
<1>10. ASSUME NEW t \in Threads, NEW p \in Panes, OpenChild(t, p)
       PROVE  G
  BY <1>10, <1>1 DEF OpenChild, threadVars
<1>11. ASSUME NEW p \in Panes, Resize(p) \/ Uncover(p)
       PROVE  G
  BY <1>11, <1>1 DEF Resize, Uncover, threadVars
<1>12. UNCHANGED vars => G
  BY <1>1 DEF vars, threadVars, guiVars
<1> HIDE DEF G
<1>13. G
  BY <1>2, <1>3, <1>4, <1>5, <1>6, <1>7, <1>8, <1>9, <1>10, <1>11, <1>12, Actions
<1> QED
  BY <1>13 DEF G

LEMMA AskingKept ==
  ASSUME Types, Serial, AskingBusy, SlotOrReply(inbox, slots), [Next]_vars
  PROVE  AskingBusy'
<1> DEFINE G == AskingBusy'
<1>0. /\ nextId \in Nat \ {0} /\ asking \in [Threads -> Nat]
      /\ staged \in [Threads -> {None} \cup Batches]
      /\ pc \in [Threads -> {"free", "store", "poke", "waiting"}]
  BY DEF Types, ThreadTypes
<1>1. UNCHANGED <<staged, pc, asking, nextId>> => G
  BY DEF AskingBusy, Busy
<1>2. ASSUME NEW t \in Threads, NEW p \in Panes, Ask(t, p)
      PROVE  G
  <2>1. /\ nextId' = nextId + 1 /\ asking'[t] = nextId /\ pc'[t] = "store"
        /\ staged'[t].cmds = <<Query(nextId)>>
        /\ \A u \in Threads : u # t =>
             staged'[u] = staged[u] /\ pc'[u] = pc[u] /\ asking'[u] = asking[u]
    BY <1>2, <1>0 DEF Ask, Batch
  <2>2. asking' \in [Threads -> Nat]
    BY <1>0, <1>2 DEF Ask
  <2>3. ASSUME NEW u \in Threads
        PROVE  /\ asking'[u] < nextId'
               /\ pc'[u] = "free" => asking'[u] = 0
               /\ pc'[u] = "waiting" => asking'[u] # 0
               /\ asking'[u] # 0 =>
                    pc'[u] # "free" /\ staged'[u].cmds = <<Query(asking'[u])>>
    <3>1. CASE u = t
      BY <3>1, <2>1, <1>0
    <3>2. CASE u # t
      BY <3>2, <2>1, <1>0 DEF AskingBusy, Busy
    <3> QED
      BY <3>1, <3>2
  <2> QED
    BY <2>3 DEF AskingBusy, Busy
<1>3. ASSUME NEW t \in Threads, Submit(t)
      PROVE  G
  <2>1. /\ UNCHANGED <<asking, nextId>> /\ pc[t] = "free"
        /\ pc'[t] \in {"free", "store"}
        /\ \A u \in Threads : u # t => staged'[u] = staged[u] /\ pc'[u] = pc[u]
    BY <1>3, <1>0 DEF Submit
  <2> QED
    BY <2>1 DEF AskingBusy, Busy
<1>4. ASSUME NEW t \in Threads, Store(t)
      PROVE  G
  <2>1. /\ UNCHANGED <<asking, nextId, staged>>
        /\ pc[t] = "store" /\ pc'[t] = "poke"
        /\ \A u \in Threads : u # t => pc'[u] = pc[u]
    BY <1>4, <1>0 DEF Store
  <2> QED
    BY <2>1 DEF AskingBusy, Busy
<1>5. ASSUME NEW t \in Threads, Poke(t)
      PROVE  G
  <2>1. /\ UNCHANGED nextId /\ pc[t] = "poke"
        /\ \/ /\ asking[t] # 0 /\ pc'[t] = "waiting"
              /\ UNCHANGED <<staged, asking>>
           \/ pc'[t] = "free" /\ asking'[t] = 0
        /\ \A u \in Threads : u # t =>
             staged'[u] = staged[u] /\ pc'[u] = pc[u] /\ asking'[u] = asking[u]
    BY <1>5, <1>0 DEF Poke
  <2> QED
    BY <2>1, <1>0 DEF AskingBusy, Busy
<1>6. ASSUME NEW t \in Threads, Leave(t)
      PROVE  G
  <2>1. /\ UNCHANGED nextId /\ pc'[t] = "free" /\ asking'[t] = 0
        /\ \A u \in Threads : u # t =>
             staged'[u] = staged[u] /\ pc'[u] = pc[u] /\ asking'[u] = asking[u]
    BY <1>6, <1>0 DEF Leave
  <2> QED
    BY <2>1, <1>0 DEF AskingBusy, Busy
<1>7. ASSUME NEW t \in Threads, NEW p \in Panes, OpenChild(t, p) \/ Begin(t, p)
      PROVE  G
  BY <1>1, <1>7 DEF OpenChild, Begin, threadVars
<1>8. ASSUME NEW t \in Threads, NEW op \in {"fill", "push", "pop"}, Push(t, op)
      PROVE  G
  BY <1>1, <1>8 DEF Push
<1>9. ASSUME NEW p \in Panes, Resize(p) \/ Uncover(p) \/ CloseChild(p)
      PROVE  G
  BY <1>1, <1>9 DEF Resize, Uncover, CloseChild, threadVars
<1>10. PaintStep => G
  BY <1>1, StepKinds DEF threadVars
<1>11. UNCHANGED vars => G
  BY <1>1 DEF vars, threadVars
<1> HIDE DEF G
<1>12. G
  BY <1>2, <1>3, <1>4, <1>5, <1>6, <1>7, <1>8, <1>9, <1>10, <1>11, Actions
<1> QED
  BY <1>12 DEF G

LEMMA SlotsKept ==
  ASSUME Types, Serial, Replies, [Next]_vars
  PROVE  SlotOrReply(inbox, slots)'
<1> DEFINE G == SlotOrReply(inbox, slots)'
<1>0. /\ nextId \in Nat \ {0} /\ asking \in [Threads -> Nat]
      /\ inbox \in [Threads -> Seq(Nat)]
  BY DEF Types, ThreadTypes, ReplyTypes
<1>a. AskingBusy /\ SlotOrReply(inbox, slots)
  BY DEF Replies
<1>1. UNCHANGED <<asking, inbox, slots, nextId>> => G
  BY <1>a DEF SlotOrReply
<1>2. ASSUME NEW t \in Threads, NEW p \in Panes, Ask(t, p)
      PROVE  G
  <2>1. /\ nextId' = nextId + 1 /\ asking'[t] = nextId /\ inbox'[t] = <<>>
        /\ DOMAIN slots' = DOMAIN slots \cup {nextId} /\ slots'[nextId] = t
        /\ \A id \in DOMAIN slots : id # nextId => slots'[id] = slots[id]
        /\ \A u \in Threads : u # t => inbox'[u] = inbox[u] /\ asking'[u] = asking[u]
    BY <1>2, <1>0 DEF Ask
  <2>2. \A id \in DOMAIN slots : id \in Nat
    BY DEF Types, ReplyTypes, SlotTables
  <2>3. \A id \in DOMAIN slots' : id # 0 /\ id < nextId'
    BY <2>1, <2>2, <1>0, <1>a DEF SlotOrReply
  <2>4. ASSUME NEW u \in Threads
        PROVE  /\ Len(inbox'[u]) <= 1
               /\ asking'[u] # 0 =>
                    IF asking'[u] \in DOMAIN slots'
                    THEN slots'[asking'[u]] = u /\ inbox'[u] = <<>>
                    ELSE inbox'[u] = <<asking'[u]>>
    <3>1. CASE u = t
      BY <3>1, <2>1
    <3>2. CASE u # t
      <4>1. asking[u] # nextId /\ asking'[u] = asking[u] /\ inbox'[u] = inbox[u]
        BY <3>2, <2>1, <1>0, <1>a DEF AskingBusy
      <4>2. /\ asking[u] \in DOMAIN slots' <=> asking[u] \in DOMAIN slots
            /\ asking[u] \in DOMAIN slots => slots'[asking[u]] = slots[asking[u]]
        BY <4>1, <2>1
      <4> QED
        BY <4>1, <4>2, <1>a DEF SlotOrReply
    <3> QED
      BY <3>1, <3>2
  <2> QED
    BY <2>3, <2>4 DEF SlotOrReply
<1>3. ASSUME NEW t \in Threads, Poke(t)
      PROVE  G
  <2>1. /\ UNCHANGED <<inbox, slots, nextId>>
        /\ \A u \in Threads : asking'[u] = asking[u] \/ asking'[u] = 0
    BY <1>3, <1>0 DEF Poke
  <2> QED
    BY <2>1, <1>a DEF SlotOrReply
<1>4. ASSUME NEW t \in Threads, Leave(t)
      PROVE  G
  <2>1. /\ UNCHANGED <<slots, nextId>> /\ asking'[t] = 0 /\ inbox'[t] = <<>>
        /\ \A u \in Threads : u # t => asking'[u] = asking[u] /\ inbox'[u] = inbox[u]
    BY <1>4, <1>0 DEF Leave
  <2> QED
    BY <2>1, <1>a DEF SlotOrReply
<1>5. ASSUME PaintStep
      PROVE  G
  <2>1. SlotOrReply(inbox', slots')
    BY <1>5, <1>a, StepKinds DEF PaintReplies
  <2>2. UNCHANGED <<asking, nextId>>
    BY <1>5, <1>a, StepKinds DEF threadVars
  <2> QED
    BY <2>1, <2>2 DEF SlotOrReply
<1>6. ASSUME NEW t \in Threads, NEW p \in Panes, OpenChild(t, p) \/ Begin(t, p)
      PROVE  G
  BY <1>1, <1>6 DEF OpenChild, Begin, threadVars
<1>7. ASSUME NEW t \in Threads, NEW op \in {"fill", "push", "pop"}, Push(t, op)
      PROVE  G
  BY <1>1, <1>7 DEF Push
<1>8. ASSUME NEW t \in Threads, Submit(t) \/ Store(t)
      PROVE  G
  BY <1>1, <1>8 DEF Submit, Store
<1>9. ASSUME NEW p \in Panes, Resize(p) \/ Uncover(p) \/ CloseChild(p)
      PROVE  G
  BY <1>1, <1>9 DEF Resize, Uncover, CloseChild, threadVars
<1>10. UNCHANGED vars => G
  BY <1>1 DEF vars, threadVars
<1> HIDE DEF G
<1>11. G
  BY <1>2, <1>3, <1>4, <1>5, <1>6, <1>7, <1>8, <1>9, <1>10, Actions
<1> QED
  BY <1>11 DEF G

LEMMA PicturedKept ==
  ASSUME Types, Serial, SlotOrReply(inbox, slots), Pictured, [Next]_vars
  PROVE  Pictured'
<1> DEFINE G == Pictured'
<1>0. /\ staged \in [Threads -> {None} \cup Batches]
      /\ pc \in [Threads -> {"free", "store", "poke", "waiting"}]
      /\ paneStates \in [Panes -> {None} \cup Batches]
      /\ window \in [Panes -> {"unborn", "open", "closed"}]
      /\ sized \in [Panes -> BOOLEAN] /\ invalid \in [Panes -> BOOLEAN]
      /\ shown \in [Panes -> Pictures]
  BY DEF Types, ThreadTypes, PaneTypes
<1>p. paint # None => paint.pane \in Panes
  BY Numbers
<1>1. ASSUME UNCHANGED <<window, sized, invalid, shown, paneStates, paint>>,
             \A t \in Threads : pc[t] = "poke" =>
               pc'[t] = "poke" /\ staged'[t] = staged[t]
      PROVE  G
  <2>1. \A q \in Panes : Latest(q)' = Latest(q)
    BY <1>1 DEF Latest
  <2>2. \A q \in Panes : Waits(q) => Waits(q)'
    BY <2>1, <1>1 DEF Waits
  <2> QED
    BY <2>1, <2>2, <1>1, <1>p DEF Pictured
<1>2. ASSUME UNCHANGED <<staged, pc, paint>>,
             NEW p \in Panes,
             \A q \in Panes : q # p =>
               /\ window'[q] = window[q] /\ sized'[q] = sized[q]
               /\ invalid'[q] = invalid[q] /\ shown'[q] = shown[q]
               /\ paneStates'[q] = paneStates[q],
             window'[p] # "open" \/ ~sized'[p] \/ invalid'[p],
             paint = None \/ invalid'[p]
      PROVE  G
  <2>1. \A q \in Panes : q # p => Latest(q)' = Latest(q)
    BY <1>2 DEF Latest
  <2>2. \A q \in Panes : q # p /\ Waits(q) => Waits(q)'
    BY <2>1, <1>2 DEF Waits
  <2> QED
    BY <2>1, <2>2, <1>2, <1>p DEF Pictured
<1>3. ASSUME NEW t \in Threads, NEW p \in Panes, OpenChild(t, p)
      PROVE  G
  <2>1. /\ UNCHANGED <<staged, pc, paneStates, shown, paint>> /\ invalid'[p]
        /\ \A q \in Panes : q # p =>
             window'[q] = window[q] /\ sized'[q] = sized[q] /\ invalid'[q] = invalid[q]
    BY <1>3, <1>0 DEF OpenChild, threadVars
  <2> HIDE DEF G
  <2> QED
    BY <2>1, <1>2
<1>4. ASSUME NEW p \in Panes, Resize(p) \/ Uncover(p)
      PROVE  G
  <2>1. /\ UNCHANGED <<staged, pc, paneStates, shown, window, paint>>
        /\ ~sized'[p] \/ invalid'[p]
        /\ paint = None \/ invalid'[p]
        /\ \A q \in Panes : q # p => sized'[q] = sized[q] /\ invalid'[q] = invalid[q]
    <3>1. CASE Resize(p)
      BY <3>1, <1>0 DEF Resize, threadVars
    <3>2. CASE Uncover(p)
      BY <3>2, <1>0 DEF Uncover, threadVars
    <3> QED
      BY <1>4, <3>1, <3>2
  <2> HIDE DEF G
  <2> QED
    BY <2>1, <1>2
<1>5. ASSUME NEW p \in Panes, CloseChild(p)
      PROVE  G
  <2>1. /\ UNCHANGED <<staged, pc, paint>> /\ window'[p] # "open" /\ paint = None
        /\ \A q \in Panes : q # p =>
             /\ window'[q] = window[q] /\ sized'[q] = sized[q]
             /\ invalid'[q] = invalid[q] /\ shown'[q] = shown[q]
             /\ paneStates'[q] = paneStates[q]
    BY <1>5, <1>0 DEF CloseChild, threadVars
  <2> HIDE DEF G
  <2> QED
    BY <2>1, <1>2
<1>6. ASSUME PaintStep
      PROVE  G
  <2>1. UNCHANGED <<staged, pc, paneStates, window, sized>>
    BY <1>6, StepKinds DEF threadVars
  <2>2. \A q \in Panes : Latest(q)' = Latest(q) /\ (Waits(q) => Waits(q)')
    BY <2>1 DEF Latest, Waits
  <2>3. ASSUME NEW p \in Panes, Opens(p)
        PROVE  G
    <3>1. \A q \in Panes : q # p => invalid'[q] = invalid[q] /\ shown'[q] = shown[q]
      BY <2>3 DEF Opens
    <3> QED
      BY <2>1, <2>2, <2>3, <3>1 DEF Opens, Pictured
  <2>4. CASE GoesOn
    <3>1. /\ paint # None /\ paint' # None /\ paint'.pane = paint.pane
          /\ UNCHANGED <<shown, invalid>>
          /\ IF paint.via = "begun" THEN paint'.seq = Latest(paint.pane)
                                    ELSE paint'.seq = paint.seq
      BY <2>4 DEF GoesOn
    <3> QED
      BY <2>1, <2>2, <3>1, <1>p DEF Pictured
  <2>5. CASE Closes
    <3>1. /\ paint # None /\ paint' = None /\ UNCHANGED invalid /\ paint.pane \in Panes
      BY <2>5, <1>p DEF Closes
    <3>2. ASSUME NEW q \in Panes, window'[q] = "open", sized'[q], ~invalid'[q],
                 shown'[q].via # "nothing", shown'[q].seq # Latest(q)'
          PROVE  Waits(q)'
      <4>1. CASE q # paint.pane
        <5>1. shown'[q] = shown[q]
          BY <2>5, <4>1 DEF Closes
        <5> QED
          BY <5>1, <4>1, <3>1, <3>2, <2>1, <2>2 DEF Pictured
      <4>2. CASE q = paint.pane
        <5>1. paint.via # "begun" /\ shown'[q].seq = paint.seq
          BY <2>5, <4>2, <3>2, <2>1 DEF Closes
        <5> QED
          BY <5>1, <4>2, <3>1, <3>2, <2>2 DEF Pictured
      <4> QED
        BY <4>1, <4>2
    <3> QED
      BY <3>1, <3>2 DEF Pictured
  <2> QED
    BY <1>6, <2>3, <2>4, <2>5, StepKinds
<1>7. ASSUME NEW t \in Threads, NEW p \in Panes, Begin(t, p)
      PROVE  G
  BY <1>7, <1>1 DEF Begin, guiVars
<1>8. ASSUME NEW t \in Threads, NEW p \in Panes, Ask(t, p)
      PROVE  G
  <2>1. /\ UNCHANGED <<window, sized, invalid, shown, paneStates, paint>> /\ pc[t] = "free"
        /\ \A u \in Threads : u # t => pc'[u] = pc[u] /\ staged'[u] = staged[u]
    BY <1>8, <1>0 DEF Ask, guiVars
  <2> HIDE DEF G
  <2> QED
    BY <2>1, <1>1
<1>9. ASSUME NEW t \in Threads, NEW op \in {"fill", "push", "pop"}, Push(t, op)
      PROVE  G
  BY <1>9, <1>1 DEF Push, guiVars
<1>10. ASSUME NEW t \in Threads, Submit(t) \/ (pc[t] = "waiting" /\ Leave(t))
       PROVE  G
  <2>1. /\ UNCHANGED <<window, sized, invalid, shown, paneStates, paint>> /\ pc[t] # "poke"
        /\ \A u \in Threads : u # t => pc'[u] = pc[u] /\ staged'[u] = staged[u]
    <3>1. CASE Submit(t)
      BY <3>1, <1>0 DEF Submit, guiVars
    <3>2. CASE pc[t] = "waiting" /\ Leave(t)
      BY <3>2, <1>0 DEF Leave, guiVars
    <3> QED
      BY <1>10, <3>1, <3>2
  <2> HIDE DEF G
  <2> QED
    BY <2>1, <1>1
<1>11. ASSUME NEW t \in Threads, Store(t)
       PROVE  G
  <2>0. staged[t] # None
    BY <1>11 DEF Store, Serial, HandedApart, Busy
  <2>1. PICK p \in Panes : p = staged[t].pane
    BY <2>0, Numbers
  <2>2. /\ UNCHANGED <<staged, window, sized, invalid, shown, paint>>
        /\ pc[t] = "store" /\ pc'[t] = "poke" /\ paneStates'[p] = staged[t]
        /\ \A q \in Panes : q # p => paneStates'[q] = paneStates[q]
        /\ \A u \in Threads : u # t => pc'[u] = pc[u]
    BY <1>11, <1>0, <2>1 DEF Store, guiVars
  <2>3. /\ Latest(p)' = staged[t].seq
        /\ \A q \in Panes : q # p => Latest(q)' = Latest(q)
    BY <2>0, <2>2 DEF Latest
  <2>4. Waits(p)'
    BY <2>1, <2>2, <2>3 DEF Waits
  <2>5. \A q \in Panes : q # p /\ Waits(q) => Waits(q)'
    BY <2>2, <2>3 DEF Waits
  <2> QED
    BY <2>2, <2>3, <2>4, <2>5, <1>p DEF Pictured
<1>12. ASSUME NEW t \in Threads, Poke(t)
       PROVE  G
  <2>0. staged[t] # None
    BY <1>12 DEF Poke, Serial, HandedApart, Busy
  <2>1. PICK p \in Panes : p = staged[t].pane
    BY <2>0, Numbers
  <2>2. /\ UNCHANGED <<window, sized, shown, paneStates, paint>>
        /\ window[p] = "open" => invalid'[p]
        /\ \A q \in Panes : q # p => invalid'[q] = invalid[q]
        /\ \A u \in Threads : u # t => pc'[u] = pc[u] /\ staged'[u] = staged[u]
    BY <1>12, <1>0, <2>1 DEF Poke
  <2>3. \A q \in Panes : Latest(q)' = Latest(q)
    BY <2>2 DEF Latest
  <2>4. \A q \in Panes : q # p /\ Waits(q) => Waits(q)'
    <3> SUFFICES ASSUME NEW q \in Panes, q # p, Waits(q)
                 PROVE  Waits(q)'
      OBVIOUS
    <3>1. PICK u \in Threads :
            pc[u] = "poke" /\ staged[u].pane = q /\ staged[u].seq = Latest(q)
      BY DEF Waits
    <3>2. u # t
      BY <3>1, <2>1
    <3> QED
      BY <3>1, <3>2, <2>2, <2>3 DEF Waits
  <2>6. paint # None => window[paint.pane] = "open"
    BY DEF Types, PaintTypes
  <2> QED
    BY <2>2, <2>3, <2>4, <2>6, <1>p DEF Pictured
<1>13. UNCHANGED vars => G
  BY <1>1 DEF vars, threadVars, guiVars
<1> HIDE DEF G
<1>14. G
  BY <1>3, <1>4, <1>5, <1>6, <1>7, <1>8, <1>9, <1>10, <1>11, <1>12, <1>13, Actions
<1> QED
  BY <1>14 DEF G

(* A paint puts on the screen, or is done with, only what it has executed: *)
(* the query of a thread, when it is a query's batch.                      *)
LEMMA StepPainted ==
  ASSUME Types, Serial, AskingBusy, SlotOrReply(inbox, slots), PaintedAnswered, PaintStep
  PROVE  PaintedAnswered'
<1>1. /\ UNCHANGED <<asking, staged>>
      /\ \A t \in Threads : inbox[t] # <<>> => inbox'[t] # <<>>
      /\ GoesOn \/ Closes \/ \E p \in Panes : Opens(p)
  BY StepKinds DEF threadVars, PaintReplies
<1>2. ASSUME NEW t \in Threads, asking[t] # 0
      PROVE  /\ staged[t] # None /\ Busy(t) /\ staged[t].cmds = <<Query(asking[t])>>
             /\ \A p \in Panes : Latest(p) = staged[t].seq => paneStates[p] = staged[t]
  BY <1>2 DEF AskingBusy, Serial, HandedApart
<1>3. ASSUME NEW t \in Threads, asking[t] # 0, NEW q \in Panes,
             shown'[q].seq = staged[t].seq
      PROVE  inbox'[t] # <<>>
  <2>1. CASE shown'[q].seq = shown[q].seq
    BY <1>1, <1>3, <2>1 DEF PaintedAnswered
  <2>2. CASE shown'[q].seq # shown[q].seq
    <3>1. Closes /\ q = paint.pane /\ paint # None
      BY <1>1, <2>2 DEF Opens, GoesOn, Closes
    <3>2. paint.via # "begun" /\ Done /\ shown'[q].seq = paint.seq
      BY <2>2, <3>1 DEF Closes
    <3> QED
      BY <3>1, <3>2, <1>1, <1>3 DEF PaintedAnswered
  <2> QED
    BY <2>1, <2>2
<1>4. ASSUME NEW t \in Threads, asking[t] # 0, paint' # None, paint'.via # "begun", Done',
             paint'.seq = staged[t].seq
      PROVE  inbox'[t] # <<>>
  <2> DEFINE q == <<Query(asking[t])>>
  <2>0. Len(q) = 1 /\ q[1].op = "query" /\ q[1].id = asking[t]
    BY DEF Query
  <2>1. GoesOn /\ paint # None /\ paint \in Paints
    <3>1. GoesOn
      BY <1>1, <1>4 DEF Opens, Closes
    <3> QED
      BY <3>1 DEF GoesOn, Types, PaintTypes
  <2>2. paint.via # "begun" /\ paint.seq = staged[t].seq => paint.cmds = q
    BY <1>2, <1>4, <2>1 DEF Serial, SnapshotExact
  <2> HIDE DEF q
  <2>3. ~Snapshot
    <3> SUFFICES ASSUME Snapshot
                 PROVE  FALSE
      OBVIOUS
    <3>1. paint.via = "begun" /\ paint.pane \in Panes /\ paint.done = 0
      BY <2>1 DEF Snapshot, Painting, Paints, Types, PaintTypes
    <3>2. paint'.seq = Latest(paint.pane) /\ paint'.cmds = Kept(paint.pane)
      BY <2>1, <3>1 DEF GoesOn
    <3>3. paint'.cmds = q
      BY <1>2, <1>4, <3>1, <3>2 DEF Kept, q
    <3>4. paint'.done = 0
      BY <2>1, <3>1 DEF Snapshot, Paints
    <3> QED
      BY <1>4, <2>0, <3>3, <3>4 DEF Done
  <2>4. ~StartOver
    <3> SUFFICES ASSUME StartOver
                 PROVE  FALSE
      OBVIOUS
    <3>1. paint.via = "d2d"
      BY DEF StartOver, Painting
    <3>2. paint'.cmds = q
      BY <1>4, <2>1, <2>2, <3>1 DEF GoesOn
    <3>3. paint'.done = 0
      BY <2>1 DEF StartOver, Paints
    <3> QED
      BY <1>4, <2>0, <3>2, <3>3 DEF Done
  <2>5. ExecuteNext
    BY <2>1, <2>3, <2>4 DEF PaintStep, GoesOn, BeginPaint, PaintEmpty, NoTarget, GdiFails,
       EndPaint, OnScreen
  <2>6. /\ NextCommand.op = "query" => Replied(Executed, NextCommand.id)
        /\ paint.via \in {"d2d", "gdi"} /\ paint.done + 1 \in 1 .. Len(paint.cmds)
    BY <2>5, NextExecuted
  <2>7. paint.cmds = q
    BY <1>4, <2>1, <2>2, <2>6 DEF GoesOn
  <2>8. paint.done + 1 = 1
    <3>1. paint.done \in 0 .. Len(paint.cmds)
      BY <2>1 DEF Types, PaintTypes
    <3>2. Len(paint.cmds) = 1
      BY <2>0, <2>7
    <3> QED
      BY <2>6, <3>1, <3>2
  <2>9. NextCommand = q[1]
    BY <2>7, <2>8 DEF NextCommand
  <2>10. Replied(Executed, asking[t])
    BY <2>0, <2>6, <2>9
  <2>11. inbox' = Executed.inbox
    BY <2>5 DEF ExecuteNext, Executed, NextCommand, Becomes
  <2> QED
    BY <2>10, <2>11, <1>4 DEF Replied
<1> QED
  BY <1>1, <1>3, <1>4 DEF PaintedAnswered

LEMMA PaintedKept ==
  ASSUME Types, Serial, Replies, PaintedAnswered, [Next]_vars
  PROVE  PaintedAnswered'
<1> DEFINE G == PaintedAnswered'
<1>0. /\ asking \in [Threads -> Nat] /\ inbox \in [Threads -> Seq(Nat)]
      /\ staged \in [Threads -> {None} \cup Batches]
      /\ shown \in [Panes -> Pictures] /\ nextSeq \in Nat
      /\ paneStates \in [Panes -> {None} \cup Batches]
  BY DEF Types, ThreadTypes, ReplyTypes, PaneTypes
<1>a. AskingBusy /\ SlotOrReply(inbox, slots)
  BY DEF Replies
<1>1. ASSUME UNCHANGED <<shown, paint>>,
             \A t \in Threads : asking'[t] # 0 =>
               asking'[t] = asking[t] /\ staged'[t] = staged[t] /\ inbox'[t] = inbox[t]
      PROVE  G
  BY <1>1 DEF PaintedAnswered, Done
<1>2. ASSUME NEW t \in Threads, NEW p \in Panes, Ask(t, p)
      PROVE  G
  <2>1. /\ UNCHANGED <<shown, paint>> /\ staged'[t].seq = nextSeq
        /\ \A u \in Threads : u # t =>
             asking'[u] = asking[u] /\ staged'[u] = staged[u] /\ inbox'[u] = inbox[u]
    BY <1>2, <1>0 DEF Ask, guiVars, Batch
  <2>2. /\ \A q \in Panes : shown[q].seq # nextSeq
        /\ paint # None => paint.seq # nextSeq
    BY <1>0, Numbers DEF Serial, KeptBelow
  <2> QED
    BY <2>1, <2>2 DEF PaintedAnswered, Done
<1>3. ASSUME NEW t \in Threads, Submit(t)
      PROVE  G
  <2>1. /\ UNCHANGED <<shown, paint, asking, inbox>> /\ asking[t] = 0
        /\ \A u \in Threads : u # t => staged'[u] = staged[u]
    BY <1>3, <1>0, <1>a DEF Submit, guiVars, AskingBusy
  <2> HIDE DEF G
  <2> QED
    BY <2>1, <1>1
<1>4. ASSUME NEW t \in Threads, Store(t) \/ Poke(t) \/ Leave(t)
      PROVE  G
  <2>1. /\ UNCHANGED <<shown, paint>>
        /\ \A u \in Threads : asking'[u] # 0 =>
             asking'[u] = asking[u] /\ staged'[u] = staged[u] /\ inbox'[u] = inbox[u]
    <3>1. CASE Store(t)
      BY <3>1 DEF Store, guiVars
    <3>2. CASE Poke(t)
      BY <3>2, <1>0 DEF Poke
    <3>3. CASE Leave(t)
      BY <3>3, <1>0 DEF Leave, guiVars
    <3> QED
      BY <1>4, <3>1, <3>2, <3>3
  <2> HIDE DEF G
  <2> QED
    BY <2>1, <1>1
<1>5. ASSUME NEW p \in Panes, CloseChild(p)
      PROVE  G
  <2>1. /\ UNCHANGED <<asking, staged, inbox, paint>> /\ shown'[p].seq = 0
        /\ \A q \in Panes : q # p => shown'[q] = shown[q]
    BY <1>5, <1>0 DEF CloseChild, threadVars, Blank
  <2>2. \A t \in Threads : asking[t] # 0 => staged[t].seq # 0
    BY <1>a, Numbers DEF AskingBusy, Serial, HandedApart
  <2> QED
    BY <2>1, <2>2 DEF PaintedAnswered, Done
<1>6. PaintStep => G
  BY <1>a, StepPainted
<1>7. ASSUME NEW t \in Threads, NEW p \in Panes, OpenChild(t, p) \/ Begin(t, p)
      PROVE  G
  BY <1>1, <1>7 DEF OpenChild, Begin, threadVars, guiVars
<1>8. ASSUME NEW t \in Threads, NEW op \in {"fill", "push", "pop"}, Push(t, op)
      PROVE  G
  BY <1>1, <1>8 DEF Push, guiVars
<1>9. ASSUME NEW p \in Panes, Resize(p) \/ Uncover(p)
      PROVE  G
  BY <1>1, <1>9 DEF Resize, Uncover, threadVars
<1>10. UNCHANGED vars => G
  BY <1>1 DEF vars, threadVars, guiVars
<1> HIDE DEF G
<1>11. G
  BY <1>2, <1>3, <1>4, <1>5, <1>6, <1>7, <1>8, <1>9, <1>10, Actions
<1> QED
  BY <1>11 DEF G

-----------------------------------------------------------------------------
-----------------------------------------------------------------------------
(* Figures at their offsets.                                               *)

(* One more command counts once, under its own name.                       *)
LEMMA CountSteps ==
  ASSUME NEW cmds \in Seq(Commands), NEW op
  PROVE  /\ Count(cmds, op, 0) = 0
         /\ \A k \in 0 .. Len(cmds) : Count(cmds, op, k) \in Nat
         /\ \A k \in 1 .. Len(cmds) :
              Count(cmds, op, k) =
                IF cmds[k].op = op THEN Count(cmds, op, k - 1) + 1
                                   ELSE Count(cmds, op, k - 1)
         /\ \A i, k \in 0 .. Len(cmds) :
              i <= k => Count(cmds, op, i) <= Count(cmds, op, k)
<1> DEFINE At(k) == {j \in 1 .. k : cmds[j].op = op}
<1>0. Len(cmds) \in Nat
  BY ElementsOf
<1>1. ASSUME NEW k \in 0 .. Len(cmds)
      PROVE  IsFiniteSet(At(k)) /\ Cardinality(At(k)) \in Nat
  <2>1. IsFiniteSet(1 .. k)
    BY <1>0, FirstNumbers
  <2>2. At(k) \in SUBSET (1 .. k)
    OBVIOUS
  <2> HIDE DEF At
  <2>3. IsFiniteSet(At(k))
    BY <2>1, <2>2, FS_Subset
  <2> QED
    BY <2>3, FS_CardinalityType
<1>2. Cardinality(At(0)) = 0
  <2>1. At(0) = {}
    OBVIOUS
  <2> HIDE DEF At
  <2> QED
    BY <2>1, FS_EmptySet
<1>3. ASSUME NEW k \in 1 .. Len(cmds)
      PROVE  Cardinality(At(k)) = IF cmds[k].op = op THEN Cardinality(At(k - 1)) + 1
                                                     ELSE Cardinality(At(k - 1))
  <2>1. k - 1 \in 0 .. Len(cmds) /\ \A j \in 1 .. k : j \in 1 .. k - 1 \/ j = k
    BY <1>0
  <2>2. k \notin At(k - 1) /\ 1 .. k - 1 \subseteq 1 .. k /\ k \in 1 .. k
    OBVIOUS
  <2>3. CASE cmds[k].op = op
    <3>1. At(k) = At(k - 1) \cup {k}
      BY <2>1, <2>2, <2>3
    <3>2. IsFiniteSet(At(k - 1)) /\ k \notin At(k - 1)
      BY <2>1, <2>2, <1>1
    <3> HIDE DEF At
    <3> QED
      BY <3>1, <3>2, <2>3, FS_AddElement
  <2>4. CASE cmds[k].op # op
    <3>1. At(k) = At(k - 1)
      BY <2>1, <2>2, <2>4
    <3> QED
      BY <3>1, <2>4
  <2> QED
    BY <2>3, <2>4
<1>4. ASSUME NEW i \in 0 .. Len(cmds), NEW k \in 0 .. Len(cmds), i <= k
      PROVE  Cardinality(At(i)) <= Cardinality(At(k))
  <2>1. At(i) \in SUBSET At(k)
    BY <1>4, <1>0
  <2> HIDE DEF At
  <2> QED
    BY <2>1, <1>1, FS_Subset
<1>5. \A k : Count(cmds, op, k) = Cardinality(At(k))
  BY DEF Count
<1> HIDE DEF At
<1> QED
  BY <1>1, <1>2, <1>3, <1>4, <1>5

(* In a balanced batch the depth is never below zero, and zero at the end. *)
LEMMA DepthSteps ==
  ASSUME NEW cmds \in Seq(Commands), Balanced(cmds)
  PROVE  /\ Depth(cmds, 0) = 0 /\ Depth(cmds, Len(cmds)) = 0
         /\ \A k \in 0 .. Len(cmds) : Depth(cmds, k) \in Nat
         /\ \A k \in 1 .. Len(cmds) :
              Depth(cmds, k) = CASE cmds[k].op = "push" -> Depth(cmds, k - 1) + 1
                                 [] cmds[k].op = "pop" -> Depth(cmds, k - 1) - 1
                                 [] OTHER -> Depth(cmds, k - 1)
<1> DEFINE up(k) == Count(cmds, "push", k)
           down(k) == Count(cmds, "pop", k)
           n == Len(cmds)
<1>0. n \in Nat
  BY ElementsOf
<1>1. /\ up(0) = 0 /\ \A k \in 0 .. n : up(k) \in Nat
      /\ \A k \in 1 .. n :
           up(k) = IF cmds[k].op = "push" THEN up(k - 1) + 1 ELSE up(k - 1)
  BY CountSteps
<1>2. /\ down(0) = 0 /\ \A k \in 0 .. n : down(k) \in Nat
      /\ \A k \in 1 .. n :
           down(k) = IF cmds[k].op = "pop" THEN down(k - 1) + 1 ELSE down(k - 1)
  BY CountSteps
<1>3. /\ \A k \in 1 .. n : down(k) <= up(k)
      /\ down(n) = up(n)
      /\ \A k : Depth(cmds, k) = up(k) - down(k)
  BY DEF Balanced, Depth
<1> HIDE DEF up, down
<1>4. ASSUME NEW k \in 0 .. n
      PROVE  up(k) - down(k) \in Nat
  <2>1. CASE k = 0
    BY <2>1, <1>1, <1>2
  <2>2. CASE k # 0
    BY <2>2, <1>0, <1>1, <1>2, <1>3
  <2> QED
    BY <2>1, <2>2
<1>5. ASSUME NEW k \in 1 .. n
      PROVE  Depth(cmds, k) = CASE cmds[k].op = "push" -> Depth(cmds, k - 1) + 1
                                [] cmds[k].op = "pop" -> Depth(cmds, k - 1) - 1
                                [] OTHER -> Depth(cmds, k - 1)
  <2>1. /\ k - 1 \in 0 .. n /\ up(k - 1) \in Nat /\ down(k - 1) \in Nat
        /\ Depth(cmds, k) = up(k) - down(k)
        /\ Depth(cmds, k - 1) = up(k - 1) - down(k - 1)
    BY <1>0, <1>1, <1>2, <1>3
  <2>2. CASE cmds[k].op = "push"
    <3>1. up(k) = up(k - 1) + 1 /\ down(k) = down(k - 1)
      BY <2>2, <1>1, <1>2
    <3>2. Depth(cmds, k) = Depth(cmds, k - 1) + 1
      BY <2>1, <3>1
    <3> QED
      BY <2>2, <3>2
  <2>3. CASE cmds[k].op = "pop"
    <3>1. up(k) = up(k - 1) /\ down(k) = down(k - 1) + 1
      BY <2>3, <1>1, <1>2
    <3>2. Depth(cmds, k) = Depth(cmds, k - 1) - 1
      BY <2>1, <3>1
    <3> QED
      BY <2>3, <3>2
  <2>4. CASE cmds[k].op # "push" /\ cmds[k].op # "pop"
    BY <2>1, <2>4, <1>1, <1>2
  <2> QED
    BY <2>2, <2>3, <2>4
<1>6. up(0) - down(0) = 0 /\ up(n) - down(n) = 0
  BY <1>0, <1>1, <1>2, <1>3
<1> QED
  BY <1>3, <1>4, <1>5, <1>6

(* Where a frame of Direct2D is after k commands of a batch it began at     *)
(* offset zero: it pushed on what was there, and drew where it had to.     *)
InStep(d, base, cmds, k) ==
  /\ d.transform = Depth(cmds, k)
  /\ Len(d.stack) = base + Depth(cmds, k)
  /\ \A j \in 1 .. Depth(cmds, k) : d.stack[base + j] = j - 1
  /\ Len(d.at) = Count(cmds, "fill", k)
  /\ \A i \in 1 .. k :
       cmds[i].op = "fill" => d.at[Count(cmds, "fill", i)] = Depth(cmds, i)

LEMMA DeliverElsewhere ==
  ASSUME NEW m \in Machine, NEW id
  PROVE  LET d == Deliver(m, id)
         IN d.stack = m.stack /\ d.at = m.at /\ d.transform = m.transform
  BY DEF Deliver, Machine

LEMMA DrawStep ==
  ASSUME NEW cmds \in Seq(Commands), Balanced(cmds), NEW base \in Nat, NEW m \in Machine,
         NEW k \in 1 .. Len(cmds), InStep(m, base, cmds, k - 1)
  PROVE  InStep(Execute("d2d", m, cmds[k]), base, cmds, k)
<1> DEFINE d == Execute("d2d", m, cmds[k])
           cmd == cmds[k]
           deep == Depth(cmds, k - 1)
           fills(i) == Count(cmds, "fill", i)
<1>0. /\ Len(cmds) \in Nat /\ k - 1 \in 0 .. Len(cmds) /\ k \in 0 .. Len(cmds)
      /\ cmd.op \in {"fill", "push", "pop", "query"}
      /\ m.stack \in Seq(Nat) /\ m.at \in Seq(Nat)
  <2>1. Len(cmds) \in Nat /\ cmds[k] \in Commands
    BY ElementsOf
  <2>2. k - 1 \in 0 .. Len(cmds) /\ k \in 0 .. Len(cmds)
    BY <2>1
  <2>3. m.stack \in Seq(Nat) /\ m.at \in Seq(Nat)
    BY DEF Machine
  <2>4. cmd.op \in {"fill", "push", "pop", "query"}
    BY <2>1 DEF Commands
  <2> QED
    BY <2>1, <2>2, <2>3, <2>4
<1>1. /\ deep \in Nat /\ Depth(cmds, k) \in Nat
      /\ Depth(cmds, k) = CASE cmd.op = "push" -> deep + 1
                            [] cmd.op = "pop" -> deep - 1
                            [] OTHER -> deep
  BY <1>0, DepthSteps
<1>2. /\ fills(k - 1) \in Nat
      /\ fills(k) = IF cmd.op = "fill" THEN fills(k - 1) + 1 ELSE fills(k - 1)
      /\ \A i \in 1 .. k - 1 : fills(i) \in Nat /\ fills(i) <= fills(k - 1)
      /\ \A i \in 1 .. k - 1 : cmds[i].op = "fill" => fills(i) # 0
  <2> HIDE DEF fills
  <2>1. /\ \A i \in 0 .. Len(cmds) : fills(i) \in Nat
        /\ \A i \in 1 .. Len(cmds) :
             fills(i) = IF cmds[i].op = "fill" THEN fills(i - 1) + 1 ELSE fills(i - 1)
        /\ \A i, j \in 0 .. Len(cmds) : i <= j => fills(i) <= fills(j)
    BY CountSteps DEF fills
  <2>2. fills(k) = IF cmd.op = "fill" THEN fills(k - 1) + 1 ELSE fills(k - 1)
    BY <2>1
  <2>3. ASSUME NEW i \in 1 .. k - 1
        PROVE  /\ fills(i) \in Nat /\ fills(i) <= fills(k - 1)
               /\ cmds[i].op = "fill" => fills(i) # 0
    <3>1. /\ i \in 1 .. Len(cmds) /\ i \in 0 .. Len(cmds)
          /\ i - 1 \in 0 .. Len(cmds) /\ i <= k - 1
      BY <1>0
    <3>2. fills(i) \in Nat /\ fills(i - 1) \in Nat /\ fills(i) <= fills(k - 1)
      BY <3>1, <2>1, <1>0
    <3>3. cmds[i].op = "fill" => fills(i) = fills(i - 1) + 1
      BY <3>1, <2>1
    <3> QED
      BY <3>2, <3>3
  <2> QED
    BY <2>1, <2>2, <2>3, <1>0
<1>3. /\ m.transform = deep /\ Len(m.stack) = base + deep
      /\ \A j \in 1 .. deep : m.stack[base + j] = j - 1
      /\ Len(m.at) = fills(k - 1)
      /\ \A i \in 1 .. k - 1 :
           cmds[i].op = "fill" => m.at[fills(i)] = Depth(cmds, i)
  BY DEF InStep
<1> HIDE DEF deep, fills, cmd
<1>4. \A i \in 1 .. k : i \in 1 .. k - 1 \/ i = k
  BY <1>0
<1>5. CASE cmd.op = "fill"
  <2>1. d = [m EXCEPT !.at = Append(@, m.transform)]
    BY <1>5 DEF Execute, ExecuteD2d, cmd
  <2>2. /\ d.at = Append(m.at, deep) /\ d.stack = m.stack /\ d.transform = m.transform
    BY <2>1, <1>3 DEF Machine
  <2>3. /\ Len(d.at) = fills(k) /\ d.at[fills(k)] = deep
        /\ \A i \in 1 .. Len(m.at) : d.at[i] = m.at[i]
    BY <2>2, <1>0, <1>1, <1>2, <1>3, <1>5, Appended
  <2>4. \A i \in 1 .. k : cmds[i].op = "fill" => d.at[fills(i)] = Depth(cmds, i)
    <3> TAKE i \in 1 .. k
    <3>1. CASE i = k
      BY <3>1, <2>3, <1>1, <1>5
    <3>2. CASE i \in 1 .. k - 1 /\ cmds[i].op = "fill"
      <4>1. fills(i) \in 1 .. Len(m.at)
        BY <3>2, <1>2, <1>3
      <4> QED
        BY <4>1, <3>2, <2>3, <1>3
    <3> QED
      BY <3>1, <3>2, <1>4
  <2>5. Depth(cmds, k) = deep
    BY <1>1, <1>5
  <2> HIDE DEF d
  <2>6. InStep(d, base, cmds, k)
    BY <2>2, <2>3, <2>4, <2>5, <1>3 DEF InStep, fills
  <2> QED
    BY <2>6 DEF d
<1>6. ASSUME cmd.op # "fill", d.at = m.at,
             d.transform = Depth(cmds, k), Len(d.stack) = base + Depth(cmds, k),
             \A j \in 1 .. Depth(cmds, k) : d.stack[base + j] = j - 1
      PROVE  InStep(d, base, cmds, k)
  <2> HIDE DEF d
  <2>1. \A i \in 1 .. k : cmds[i].op = "fill" => d.at[fills(i)] = Depth(cmds, i)
    BY <1>3, <1>4, <1>6 DEF cmd
  <2>2. Len(d.at) = fills(k)
    BY <1>2, <1>3, <1>6
  <2> QED
    BY <1>6, <2>1, <2>2 DEF InStep, fills
<1>7. CASE cmd.op = "push"
  <2>1. d = [m EXCEPT !.stack = Append(@, m.transform), !.transform = @ + 1]
    BY <1>7 DEF Execute, ExecuteD2d, PushOffset, cmd
  <2>2. d.at = m.at /\ d.stack = Append(m.stack, deep) /\ d.transform = deep + 1
    BY <2>1, <1>3 DEF Machine
  <2> HIDE DEF d
  <2>3. /\ Len(d.stack) = Len(m.stack) + 1 /\ d.stack[Len(m.stack) + 1] = deep
        /\ \A i \in 1 .. Len(m.stack) : d.stack[i] = m.stack[i]
    BY <2>2, <1>0, <1>1, Appended
  <2>4. Depth(cmds, k) = deep + 1
    BY <1>1, <1>7
  <2>5. \A j \in 1 .. Depth(cmds, k) : d.stack[base + j] = j - 1
    <3> TAKE j \in 1 .. Depth(cmds, k)
    <3>1. CASE j = deep + 1
      <4>1. base + j = Len(m.stack) + 1 /\ j - 1 = deep
        BY <3>1, <1>1, <1>3, SMTT(30)
      <4> QED
        BY <4>1, <2>3
    <3>2. CASE j # deep + 1
      <4>1. j \in 1 .. deep /\ base + j \in 1 .. Len(m.stack)
        BY <3>2, <2>4, <1>1, <1>3, SMTT(30)
      <4> QED
        BY <4>1, <2>3, <1>3
    <3> QED
      BY <3>1, <3>2
  <2>6. Len(d.stack) = base + Depth(cmds, k) /\ d.transform = Depth(cmds, k)
    BY <2>2, <2>3, <2>4, <1>1, <1>3
  <2>7. InStep(d, base, cmds, k)
    BY <2>2, <2>5, <2>6, <1>6, <1>7
  <2> QED
    BY <2>7 DEF d
<1>8. CASE cmd.op = "pop"
  <2>1. Depth(cmds, k) = deep - 1 /\ deep \in 1 .. deep
    BY <1>1, <1>8
  <2>2. Len(m.stack) \in Nat \ {0} /\ m.stack # <<>> /\ m.stack[Len(m.stack)] = deep - 1
    <3>1. Len(m.stack) = base + deep /\ m.stack[base + deep] = deep - 1
      BY <2>1, <1>3
    <3>2. Len(m.stack) \in Nat \ {0}
      BY <3>1, <2>1, <1>1
    <3> QED
      BY <3>1, <3>2, EmptySeq
  <2>3. d = [m EXCEPT !.transform = Last(m.stack), !.stack = Front(@)]
    BY <1>8, <2>2 DEF Execute, ExecuteD2d, PopOffset, cmd
  <2>4. /\ d.at = m.at /\ d.transform = m.stack[Len(m.stack)]
        /\ d.stack = SubSeq(m.stack, 1, Len(m.stack) - 1)
    BY <2>3 DEF Machine, Front, Last
  <2> HIDE DEF d
  <2>5. /\ Len(d.stack) = Len(m.stack) - 1
        /\ \A i \in 1 .. Len(m.stack) - 1 : d.stack[i] = m.stack[i]
    <3> DEFINE l == Len(m.stack) - 1
               r == SubSeq(m.stack, 1, l)
    <3>1. \A i \in 1 .. Len(m.stack) : m.stack[i] \in Nat
      BY <1>0, ElementsOf
    <3>2. l \in Nat /\ 1 \in Int /\ l \in Int /\ \A i \in 1 .. l : m.stack[i] \in Nat
      BY <2>2, <3>1
    <3> HIDE DEF l
    <3>3. /\ r \in Seq(Nat)
          /\ Len(r) = IF 1 <= l THEN l - 1 + 1 ELSE 0
          /\ \A i \in 1 .. l - 1 + 1 : r[i] = m.stack[1 + i - 1]
      BY <3>2, <1>0, SubSeqProperties
    <3>4. d.stack = r
      BY <2>4 DEF l
    <3> HIDE DEF r
    <3>5. Len(r) = l /\ \A i \in 1 .. l : r[i] = m.stack[i]
      BY <3>2, <3>3
    <3> QED
      BY <3>4, <3>5 DEF l
  <2>6. \A j \in 1 .. Depth(cmds, k) : d.stack[base + j] = j - 1
    <3> TAKE j \in 1 .. Depth(cmds, k)
    <3>1. j \in 1 .. deep /\ base + j \in 1 .. Len(m.stack) - 1
      BY <2>1, <1>1, <1>3
    <3> QED
      BY <3>1, <2>5, <1>3
  <2>7. Len(d.stack) = base + Depth(cmds, k) /\ d.transform = Depth(cmds, k)
    <3>1. Depth(cmds, k) = deep - 1 /\ deep \in Nat /\ Len(m.stack) = base + deep
      BY <2>1, <1>1, <1>3
    <3> QED
      BY <3>1, <2>2, <2>4, <2>5
  <2>8. InStep(d, base, cmds, k)
    BY <2>4, <2>6, <2>7, <1>6, <1>8
  <2> QED
    BY <2>8 DEF d
<1>9. CASE cmd.op = "query"
  <2>1. d = Deliver(m, cmd.id)
    BY <1>9 DEF Execute, ExecuteD2d, cmd
  <2>2. d.at = m.at /\ d.stack = m.stack /\ d.transform = m.transform
    BY <2>1, DeliverElsewhere
  <2> HIDE DEF d
  <2>3. Depth(cmds, k) = deep
    BY <1>1, <1>9
  <2>4. InStep(d, base, cmds, k)
    BY <2>2, <2>3, <1>3, <1>6, <1>9
  <2> QED
    BY <2>4 DEF d
<1> QED
  BY <1>0, <1>5, <1>7, <1>8, <1>9 DEF cmd

(* Neither does an empty batch, nor a text query, move an offset.          *)
LEMMA EmptyBalanced == <<>> \in Seq(Commands) /\ Balanced(<<>>)
<1> DEFINE none == <<>>
<1>1. none \in Seq(Commands) /\ Len(none) = 0
  OBVIOUS
<1> HIDE DEF none
<1>2. Count(none, "pop", 0) = 0 /\ Count(none, "push", 0) = 0
  BY <1>1, CountSteps
<1>3. Balanced(none)
  BY <1>1, <1>2 DEF Balanced
<1> QED
  BY <1>1, <1>3 DEF none

LEMMA QueryBalanced ==
  ASSUME NEW id \in Nat
  PROVE  Balanced(<<Query(id)>>)
<1> DEFINE q == <<Query(id)>>
<1>1. q \in Seq(Commands) /\ Len(q) = 1 /\ q[1].op = "query"
  BY DEF Query, Commands
<1> HIDE DEF q
<1>2. /\ Count(q, "pop", 0) = 0 /\ Count(q, "push", 0) = 0
      /\ Count(q, "pop", 1) = Count(q, "pop", 1 - 1)
      /\ Count(q, "push", 1) = Count(q, "push", 1 - 1)
  BY <1>1, CountSteps, SMTT(30)
<1>3. Count(q, "pop", 1) = 0 /\ Count(q, "push", 1) = 0
  BY <1>2
<1> QED
  BY <1>1, <1>3 DEF Balanced, q

(* The GDI does not touch the target.                                      *)
LEMMA GdiKeepsTarget ==
  ASSUME NEW d \in Machine, NEW cmd
  PROVE  Execute("gdi", d, cmd).transform = d.transform
<1>1. CASE cmd.op = "fill"
  <2>1. Execute("gdi", d, cmd) = [d EXCEPT !.at = Append(@, 0)]
    BY <1>1 DEF Execute, ExecuteGdi
  <2> QED
    BY <2>1 DEF Machine
<1>2. CASE cmd.op = "query"
  <2>1. Execute("gdi", d, cmd) = Deliver(d, cmd.id)
    BY <1>2 DEF Execute, ExecuteGdi
  <2> QED
    BY <2>1, DeliverElsewhere
<1>3. CASE cmd.op # "fill" /\ cmd.op # "query"
  BY <1>3 DEF Execute, ExecuteGdi
<1> QED
  BY <1>1, <1>2, <1>3

(* Every batch on its way to a pane is balanced, and the one being painted. *)
BatchesBalanced ==
  /\ \A t \in Threads : staged[t] # None => Balanced(staged[t].cmds)
  /\ \A p \in Panes : paneStates[p] # None => Balanced(paneStates[p].cmds)
  /\ paint # None /\ paint.via # "begun" => Balanced(paint.cmds)

(* A frame of Direct2D is in step with its batch, above what it found on   *)
(* the stack.                                                              *)
FrameInPlace ==
  paint # None /\ paint.via = "d2d" =>
    \E base \in Nat : InStep(Frame, base, paint.cmds, paint.done)

(* Every other target is at offset zero.                                   *)
Targets ==
  \A p \in Panes : \/ transform[p] = None
                   \/ transform[p] = 0
                   \/ paint # None /\ paint.via = "d2d" /\ paint.pane = p

(* A pane that is not open has no picture.                                 *)
Unshown == \A p \in Panes : window[p] # "open" => shown[p].seq = 0

Places == FrameInPlace /\ Targets /\ Unshown /\ DrawnInPlace

InPlace == BatchesBalanced /\ Places

(* Where a frame is, in the variables it is made of.                       *)
LEMMA FrameFields ==
  /\ Frame.transform = transform[paint.pane] /\ Frame.stack = offsetStack
  /\ Frame.at = paint.at
  BY DEF Frame

(* A step of a paint keeps the frame in step and the other targets alone.  *)
LEMMA FrameSteps ==
  ASSUME Types, SlotOrReply(inbox, slots), BatchesBalanced, FrameInPlace, Targets,
         PaintStep
  PROVE  FrameInPlace' /\ Targets'
<1> DEFINE G == FrameInPlace' /\ Targets'
<1>0. /\ paint \in {None} \cup Paints
      /\ transform \in [Panes -> {None} \cup Nat] /\ offsetStack \in Seq(Nat)
      /\ paint # None => paint.pane \in Panes
      /\ paint # None /\ paint.via = "begun" => paint.at = <<>> /\ paint.done = 0
  BY DEF Types, PaneTypes, PaintTypes, Paints
<1>1. ASSUME NEW p \in Panes, BeginPaint(p)
      PROVE  G
  <2>1. paint = None /\ paint'.via = "begun" /\ UNCHANGED transform
    BY <1>1 DEF BeginPaint
  <2> QED
    BY <2>1 DEF FrameInPlace, Targets
<1>2. ASSUME PaintEmpty \/ NoTarget \/ GdiFails
      PROVE  G
  <2>1. paint.via # "d2d" /\ paint' = None /\ UNCHANGED transform
    BY <1>2 DEF PaintEmpty, NoTarget, GdiFails, Painting, OnScreen
  <2> QED
    BY <2>1 DEF FrameInPlace, Targets
<1>3. ASSUME EndPaint
      PROVE  G
  <2>1. /\ paint # None /\ paint.via \in {"d2d", "gdi"} /\ Done /\ paint' = None
        /\ UNCHANGED transform
    BY <1>3 DEF EndPaint, Painting, OnScreen
  <2>2. paint.via = "d2d" => transform[paint.pane] = 0
    <3> SUFFICES ASSUME paint.via = "d2d"
                 PROVE  transform[paint.pane] = 0
      OBVIOUS
    <3>1. Frame.transform = Depth(paint.cmds, Len(paint.cmds))
      BY <2>1 DEF FrameInPlace, InStep, Done
    <3>2. Balanced(paint.cmds) /\ paint.cmds \in Seq(Commands)
      BY <2>1, <1>0 DEF BatchesBalanced, Paints
    <3> QED
      BY <3>1, <3>2, FrameFields, DepthSteps
  <2> QED
    BY <2>1, <2>2 DEF FrameInPlace, Targets
<1>4. ASSUME Snapshot
      PROVE  G
  <2>1. /\ paint # None /\ paint.via = "begun" /\ paint.pane \in Panes /\ paint \in Paints
        /\ UNCHANGED offsetStack
    BY <1>0, <1>4 DEF Snapshot, Painting
  <2>2. /\ paint'.pane = paint.pane /\ paint'.via = "d2d" /\ paint'.cmds = Kept(paint.pane)
        /\ paint'.at = <<>> /\ paint'.done = 0
    BY <2>1, <1>0, <1>4 DEF Snapshot, Paints, Kept
  <2>3. /\ transform'[paint.pane] = 0
        /\ \A q \in Panes : q # paint.pane => transform'[q] = transform[q]
    BY <2>1, <1>0, <1>4 DEF Snapshot, Targets
  <2>4. Targets'
    BY <2>2, <2>3 DEF Targets
  <2> DEFINE cmds == Kept(paint.pane)
             base == Len(offsetStack)
             none == <<>>
  <2>5. cmds \in Seq(Commands) /\ Balanced(cmds)
    <3>1. CASE paneStates[paint.pane] = None
      BY <3>1, EmptyBalanced DEF Kept
    <3>2. CASE paneStates[paint.pane] # None
      BY <3>2, <2>1 DEF Kept, BatchesBalanced, Types, PaneTypes, Batches
    <3> QED
      BY <3>1, <3>2
  <2>6. base \in Nat /\ Len(none) = 0
    BY <1>0, ElementsOf
  <2>7. Depth(cmds, 0) = 0 /\ Count(cmds, "fill", 0) = 0
    <3> HIDE DEF cmds
    <3> QED
      BY <2>5, DepthSteps, CountSteps
  <2>8. /\ Frame'.transform = 0 /\ Frame'.stack = offsetStack /\ Frame'.at = none
    BY <2>1, <2>2, <2>3 DEF Frame
  <2>9. InStep(Frame', base, cmds, 0)
    <3> DEFINE d == Frame'
    <3>1. d.transform = 0 /\ d.stack = offsetStack /\ d.at = none
      BY <2>8
    <3> HIDE DEF d, cmds, none
    <3>2. InStep(d, base, cmds, 0)
      BY <2>6, <2>7, <3>1 DEF InStep
    <3> QED
      BY <3>2 DEF d
  <2>10. InStep(Frame', base, paint'.cmds, paint'.done)
    BY <2>2, <2>9
  <2>11. FrameInPlace'
    <3>1. PICK b \in Nat : b = base
      BY <2>6
    <3>2. InStep(Frame', b, paint'.cmds, paint'.done)
      BY <3>1, <2>10
    <3> QED
      BY <3>2 DEF FrameInPlace
  <2> QED
    BY <2>4, <2>11
<1>5. ASSUME StartOver
      PROVE  G
  <2>1. /\ paint # None /\ paint.via = "d2d" /\ paint.pane \in Panes /\ paint \in Paints
    BY <1>0, <1>5 DEF StartOver, Painting
  <2>2. Fallback(Frame).transform = None
    BY DEF Fallback, Frame
  <2>3. /\ paint'.via = "gdi" /\ transform'[paint.pane] = None
        /\ \A q \in Panes : q # paint.pane => transform'[q] = transform[q]
    BY <2>1, <2>2, <1>0, <1>5 DEF StartOver, Becomes, Paints
  <2> QED
    BY <2>1, <2>3 DEF FrameInPlace, Targets
<1>6. ASSUME ExecuteNext
      PROVE  G
  <2>1. /\ Fit(paint.via, Executed)
        /\ paint # None /\ paint.via \in {"d2d", "gdi"}
        /\ paint.done + 1 \in 1 .. Len(paint.cmds)
    BY <1>6, NextExecuted
  <2>2. paint \in Paints /\ paint.pane \in Panes /\ Executed \in Machine
    BY <2>1, <1>0 DEF Fit
  <2> DEFINE d == Executed
             k == paint.done + 1
  <2>3. d.at \in Seq(Nat) /\ d.transform \in {None} \cup Nat
    BY <2>2 DEF Machine
  <2>4. /\ paint' = [paint EXCEPT !.done = k, !.at = d.at]
        /\ transform' = [transform EXCEPT ![paint.pane] = d.transform]
        /\ offsetStack' = d.stack
    BY <1>6 DEF ExecuteNext, Becomes, Executed, NextCommand
  <2> HIDE DEF d, k
  <2>5. /\ paint'.pane = paint.pane /\ paint'.via = paint.via /\ paint'.cmds = paint.cmds
        /\ paint'.done = k /\ paint'.at = d.at
        /\ transform'[paint.pane] = d.transform
        /\ \A q \in Panes : q # paint.pane => transform'[q] = transform[q]
    BY <2>2, <2>4, <1>0 DEF Paints
  <2>6. CASE paint.via = "d2d"
    <3>1. PICK base \in Nat : InStep(Frame, base, paint.cmds, paint.done)
      BY <2>1, <2>6 DEF FrameInPlace
    <3>2. Balanced(paint.cmds) /\ paint.cmds \in Seq(Commands) /\ paint.done \in Nat
      <4>1. paint.done \in 0 .. Len(paint.cmds) /\ paint.cmds \in Seq(Commands)
        BY <2>1, <2>2 DEF Types, PaintTypes, Paints
      <4>2. Len(paint.cmds) \in Nat
        BY <4>1, ElementsOf
      <4> QED
        BY <2>1, <4>1, <4>2 DEF BatchesBalanced
    <3> DEFINE m == Frame
               cmds == paint.cmds
    <3>3. m \in Machine
      BY <2>1, FrameFits DEF Fit
    <3>4. k \in 1 .. Len(cmds) /\ InStep(m, base, cmds, k - 1)
      <4>1. k - 1 = paint.done
        BY <3>2 DEF k
      <4> QED
        BY <2>1, <3>1, <4>1 DEF k
    <3>5. d = Execute("d2d", m, cmds[k])
      BY <2>6 DEF d, Executed, NextCommand, k
    <3> HIDE DEF m, cmds
    <3>6. InStep(d, base, cmds, k)
      BY <3>2, <3>3, <3>4, <3>5, DrawStep DEF cmds
    <3> DEFINE e == Frame'
    <3>7. e.transform = d.transform /\ e.stack = d.stack /\ e.at = d.at
      BY <2>4, <2>5 DEF Frame
    <3> HIDE DEF e
    <3>8. InStep(e, base, cmds, k)
      BY <3>6, <3>7 DEF InStep
    <3>9. InStep(Frame', base, paint'.cmds, paint'.done)
      BY <3>8, <2>5 DEF e, cmds
    <3>10. FrameInPlace'
      BY <3>9 DEF FrameInPlace
    <3>11. Targets'
      <4>1. paint' \in Paints
        <5>1. k \in Nat
          BY <3>2 DEF k
        <5> QED
          BY <5>1, <2>2, <2>3, <2>4 DEF Paints
      <4> QED
        BY <4>1, <2>5, <2>6, BridgeAssumption DEF Targets
    <3> QED
      BY <3>10, <3>11
  <2>7. CASE paint.via = "gdi"
    <3>1. Frame \in Machine /\ Frame.transform = transform[paint.pane]
      BY <2>1, FrameFits DEF Fit
    <3>2. d = Execute("gdi", Frame, NextCommand)
      BY <2>7 DEF d, Executed
    <3>3. d.transform = transform[paint.pane]
      BY <3>1, <3>2, GdiKeepsTarget
    <3>4. \A q \in Panes : transform'[q] = transform[q]
      BY <3>3, <2>5
    <3> QED
      BY <3>4, <2>5, <2>7 DEF FrameInPlace, Targets
  <2> QED
    BY <2>1, <2>6, <2>7
<1> HIDE DEF G
<1>7. G
  BY <1>1, <1>2, <1>3, <1>4, <1>5, <1>6 DEF PaintStep
<1> QED
  BY <1>7 DEF G

LEMMA BalancedKept ==
  ASSUME \A d \in Drawings : Balanced(d), Types, Serial,
         SlotOrReply(inbox, slots), BatchesBalanced, [Next]_vars
  PROVE  BatchesBalanced'
<1> DEFINE G == BatchesBalanced'
<1>0. /\ current \in [Threads -> {None} \cup Batches] /\ nextId \in Nat
      /\ staged \in [Threads -> {None} \cup Batches]
      /\ paneStates \in [Panes -> {None} \cup Batches]
  BY DEF Types, ThreadTypes, PaneTypes
<1>1. ASSUME \A t \in Threads : staged'[t] = staged[t] \/ staged'[t] = None
                                \/ Balanced(staged'[t].cmds),
             UNCHANGED <<paneStates, paint>>
      PROVE  G
  BY <1>1 DEF BatchesBalanced
<1>2. ASSUME NEW t \in Threads, NEW p \in Panes, OpenChild(t, p) \/ Begin(t, p) \/ Ask(t, p)
      PROVE  G
  <2>1. CASE OpenChild(t, p) \/ Begin(t, p)
    BY <2>1, <1>1 DEF OpenChild, Begin, threadVars, guiVars
  <2>2. CASE Ask(t, p)
    <3>1. /\ staged'[t].cmds = <<Query(nextId)>> /\ UNCHANGED <<paneStates, paint>>
          /\ \A u \in Threads : u # t => staged'[u] = staged[u]
      BY <2>2, <1>0 DEF Ask, Batch, guiVars
    <3>2. Balanced(<<Query(nextId)>>)
      BY <1>0, QueryBalanced
    <3>3. Balanced(staged'[t].cmds)
      BY <3>1, <3>2
    <3> HIDE DEF G
    <3> QED
      BY <3>1, <3>3, <1>1
  <2> QED
    BY <1>2, <2>1, <2>2
<1>3. ASSUME NEW t \in Threads, NEW op \in {"fill", "push", "pop"}, Push(t, op)
      PROVE  G
  BY <1>3, <1>1 DEF Push, guiVars
<1>4. ASSUME NEW t \in Threads, Submit(t) \/ Store(t) \/ Poke(t)
      PROVE  G
  <2>1. CASE Submit(t)
    <3>1. /\ UNCHANGED <<paneStates, paint>> /\ staged'[t] = current[t]
          /\ current[t] # None => current[t].cmds \in Drawings
          /\ \A u \in Threads : u # t => staged'[u] = staged[u]
      BY <2>1, <1>0 DEF Submit, guiVars
    <3>2. staged'[t] = None \/ Balanced(staged'[t].cmds)
      BY <3>1
    <3> HIDE DEF G
    <3> QED
      BY <3>1, <3>2, <1>1
  <2>2. CASE Store(t)
    <3>0. staged[t] # None
      BY <2>2 DEF Store, Serial, HandedApart, Busy
    <3>1. PICK p \in Panes : p = staged[t].pane
      BY <3>0, Numbers
    <3>2. /\ UNCHANGED <<staged, paint>> /\ paneStates'[p] = staged[t]
          /\ \A q \in Panes : q # p => paneStates'[q] = paneStates[q]
      BY <2>2, <3>1, <1>0 DEF Store, guiVars
    <3> QED
      BY <3>0, <3>2 DEF BatchesBalanced
  <2>3. CASE Poke(t)
    <3>1. /\ UNCHANGED <<paneStates, paint>>
          /\ \A u \in Threads : staged'[u] = staged[u] \/ staged'[u] = None
      BY <2>3, <1>0 DEF Poke
    <3> HIDE DEF G
    <3> QED
      BY <3>1, <1>1
  <2> QED
    BY <1>4, <2>1, <2>2, <2>3
<1>5. ASSUME NEW t \in Threads, Leave(t)
      PROVE  G
  <2>1. /\ UNCHANGED <<paneStates, paint>>
        /\ \A u \in Threads : staged'[u] = staged[u] \/ staged'[u] = None
    BY <1>5, <1>0 DEF Leave, guiVars
  <2> HIDE DEF G
  <2> QED
    BY <2>1, <1>1
<1>6. ASSUME NEW p \in Panes, Resize(p) \/ Uncover(p) \/ CloseChild(p)
      PROVE  G
  <2>1. CASE CloseChild(p)
    <3>1. /\ UNCHANGED <<staged, paint>> /\ paneStates'[p] = None
          /\ \A q \in Panes : q # p => paneStates'[q] = paneStates[q]
      BY <2>1, <1>0 DEF CloseChild, threadVars
    <3> QED
      BY <3>1 DEF BatchesBalanced
  <2>2. CASE Resize(p) \/ Uncover(p)
    BY <2>2, <1>1 DEF Resize, Uncover, threadVars
  <2> QED
    BY <1>6, <2>1, <2>2
<1>7. UNCHANGED vars => G
  BY <1>1 DEF vars, threadVars, guiVars
<1>9. PaintStep => G
  <2> SUFFICES ASSUME PaintStep
               PROVE  G
    OBVIOUS
  <2>1. /\ UNCHANGED <<staged, paneStates>>
        /\ GoesOn \/ Closes \/ \E p \in Panes : Opens(p)
    BY StepKinds DEF threadVars
  <2>2. CASE GoesOn
    <3>1. CASE paint.via = "begun"
      <4>1. paint # None /\ paint.pane \in Panes /\ paint'.cmds = Kept(paint.pane)
        BY <2>2, <3>1, Numbers DEF GoesOn
      <4>2. Balanced(Kept(paint.pane))
        BY <4>1, EmptyBalanced DEF Kept, BatchesBalanced
      <4> QED
        BY <4>1, <4>2, <2>1 DEF BatchesBalanced
    <3>2. CASE paint.via # "begun"
      BY <3>2, <2>1, <2>2 DEF GoesOn, BatchesBalanced
    <3> QED
      BY <3>1, <3>2
  <2>3. CASE Closes \/ \E p \in Panes : Opens(p)
    BY <2>1, <2>3 DEF Closes, Opens, BatchesBalanced
  <2> QED
    BY <2>1, <2>2, <2>3
<1> HIDE DEF G
<1>8. G
  BY <1>2, <1>3, <1>4, <1>5, <1>6, <1>7, <1>9, Actions
<1> QED
  BY <1>8 DEF G

LEMMA PlacesKept ==
  ASSUME Types, Serial, SlotOrReply(inbox, slots), InPlace, [Next]_vars
  PROVE  Places'
<1> DEFINE G == Places'
<1>0. /\ transform \in [Panes -> {None} \cup Nat] /\ shown \in [Panes -> Pictures]
      /\ paneStates \in [Panes -> {None} \cup Batches]
      /\ window \in [Panes -> {"unborn", "open", "closed"}]
  BY DEF Types, PaneTypes
<1>a. BatchesBalanced /\ FrameInPlace /\ Targets /\ Unshown /\ DrawnInPlace
  BY DEF InPlace, Places
<1>b. ASSUME UNCHANGED <<transform, paint, offsetStack>>
      PROVE  FrameInPlace' /\ Targets'
  BY <1>a, <1>b DEF FrameInPlace, InStep, Frame, Targets
<1>1. UNCHANGED <<transform, shown, paneStates, window, paint, offsetStack>> => G
  BY <1>a, <1>b DEF Places, Unshown, DrawnInPlace, Latest
<1>2. ASSUME NEW t \in Threads, NEW p \in Panes, OpenChild(t, p)
      PROVE  G
  <2>1. /\ UNCHANGED <<transform, paint, offsetStack, shown, paneStates>>
        /\ window[p] = "unborn"
        /\ \A q \in Panes : q # p => window'[q] = window[q]
        /\ window'[p] = "open"
    BY <1>2, <1>0 DEF OpenChild
  <2>2. \A q \in Panes : Latest(q)' = Latest(q)
    BY <2>1 DEF Latest
  <2>3. paneStates[p] = None \/ shown[p].seq # Latest(p)
    BY <2>1, <1>0, <1>a, LatestIs DEF Unshown
  <2>4. Unshown'
    BY <2>1, <1>a DEF Unshown
  <2>5. DrawnInPlace'
    BY <2>1, <2>2, <2>3, <1>a DEF DrawnInPlace
  <2> QED
    BY <2>1, <2>4, <2>5, <1>b DEF Places
<1>3. ASSUME NEW t \in Threads, Store(t)
      PROVE  G
  <2>0. staged[t] # None /\ Unseen(staged[t].seq)
    BY <1>3 DEF Store, Serial, HandedApart, Busy
  <2>1. PICK p \in Panes : p = staged[t].pane
    BY <2>0, Numbers
  <2>2. /\ UNCHANGED <<transform, paint, offsetStack, shown, window>>
        /\ paneStates'[p] = staged[t]
        /\ \A q \in Panes : q # p => paneStates'[q] = paneStates[q]
    BY <1>3, <2>1, <1>0 DEF Store, guiVars
  <2>3. /\ Latest(p)' = staged[t].seq
        /\ \A q \in Panes : q # p => Latest(q)' = Latest(q)
    BY <2>0, <2>2 DEF Latest
  <2>4. shown'[p].seq # Latest(p)'
    BY <2>0, <2>2, <2>3 DEF Unseen
  <2> QED
    BY <2>2, <2>3, <2>4, <1>a, <1>b DEF Places, Unshown, DrawnInPlace
<1>4. ASSUME NEW p \in Panes, CloseChild(p)
      PROVE  G
  <2>1. /\ paint = None /\ paint' = None
        /\ window'[p] = "closed" /\ transform'[p] = None /\ shown'[p].seq = 0
        /\ \A q \in Panes : q # p =>
             /\ window'[q] = window[q] /\ transform'[q] = transform[q]
             /\ shown'[q] = shown[q] /\ paneStates'[q] = paneStates[q]
    BY <1>4, <1>0 DEF CloseChild, Blank
  <2>2. \A q \in Panes : q # p => Latest(q)' = Latest(q)
    BY <2>1 DEF Latest
  <2> QED
    BY <2>1, <2>2, <1>a DEF Places, FrameInPlace, Targets, Unshown, DrawnInPlace
<1>5. PaintStep => G
  <2> SUFFICES ASSUME PaintStep
               PROVE  G
    OBVIOUS
  <2>1. /\ UNCHANGED <<window, paneStates>>
        /\ GoesOn \/ Closes \/ \E p \in Panes : Opens(p)
    BY StepKinds
  <2>2. \A q \in Panes : Latest(q)' = Latest(q)
    BY <2>1 DEF Latest
  <2>3. FrameInPlace' /\ Targets'
    BY <1>a, FrameSteps
  <2>4. CASE UNCHANGED shown
    BY <2>1, <2>2, <2>3, <2>4, <1>a DEF Places, Unshown, DrawnInPlace
  <2>5. CASE Closes /\ shown' # shown
    <3>1. /\ paint # None /\ paint.pane \in Panes /\ window[paint.pane] = "open"
          /\ \A q \in Panes : q # paint.pane => shown'[q] = shown[q]
      BY <2>5, Numbers DEF Closes, Types, PaintTypes
    <3>2. Unshown'
      BY <3>1, <2>1, <1>a DEF Unshown
    <3>3. ASSUME shown'[paint.pane].via = "d2d", paneStates[paint.pane] # None,
                 shown'[paint.pane].seq = Latest(paint.pane)
          PROVE  Placed(shown'[paint.pane].at, paneStates[paint.pane].cmds)
      <4>1. /\ paint.via = "d2d" /\ Done /\ paint.seq = Latest(paint.pane)
            /\ shown'[paint.pane].at = paint.at
        BY <2>5, <3>3 DEF Closes
      <4>2. paint.cmds = paneStates[paint.pane].cmds
        BY <3>1, <3>3, <4>1 DEF Serial, SnapshotExact, Kept
      <4>3. PICK base \in Nat : InStep(Frame, base, paint.cmds, paint.done)
        BY <3>1, <4>1, <1>a DEF FrameInPlace
      <4>4. Placed(Frame.at, paint.cmds)
        BY <4>1, <4>3 DEF InStep, Placed, Done
      <4> QED
        BY <4>1, <4>2, <4>4, FrameFields
    <3>4. DrawnInPlace'
      BY <3>1, <3>3, <2>1, <2>2, <1>a DEF DrawnInPlace
    <3> QED
      BY <3>2, <3>4, <2>3 DEF Places
  <2> QED
    BY <2>1, <2>4, <2>5 DEF GoesOn, Opens
<1>6. ASSUME NEW t \in Threads, NEW p \in Panes, Begin(t, p) \/ Ask(t, p)
      PROVE  G
  BY <1>6, <1>1 DEF Begin, Ask, guiVars
<1>7. ASSUME NEW t \in Threads, NEW op \in {"fill", "push", "pop"}, Push(t, op)
      PROVE  G
  BY <1>7, <1>1 DEF Push, guiVars
<1>8. ASSUME NEW t \in Threads, Submit(t) \/ Poke(t) \/ Leave(t)
      PROVE  G
  BY <1>8, <1>1 DEF Submit, Poke, Leave, guiVars
<1>9. ASSUME NEW p \in Panes, Resize(p) \/ Uncover(p)
      PROVE  G
  BY <1>9, <1>1 DEF Resize, Uncover
<1>10. UNCHANGED vars => G
  BY <1>1 DEF vars, guiVars
<1> HIDE DEF G
<1>11. G
  BY <1>2, <1>3, <1>4, <1>5, <1>6, <1>7, <1>8, <1>9, <1>10, Actions
<1> QED
  BY <1>11 DEF G

-----------------------------------------------------------------------------
(* The invariant, and what it says of the program.                         *)

LEMMA Initially == Init => IInv
<1> SUFFICES ASSUME Init
             PROVE  IInv
  OBVIOUS
<1>1. Types
  <2>1. ThreadTypes
    BY DEF Init, ThreadTypes
  <2>2. ReplyTypes
    <3>1. inbox \in [Threads -> Seq(Nat)]
      BY DEF Init
    <3>2. slots \in [{} -> Threads] /\ {} \in SUBSET Nat
      BY DEF Init
    <3> QED
      BY <3>1, <3>2 DEF ReplyTypes, SlotTables
  <2>3. PaneTypes
    <3>1. Blank \in Pictures
      BY DEF Blank, Pictures
    <3> QED
      BY <3>1 DEF Init, PaneTypes
  <2>4. PaintTypes
    BY DEF Init, PaintTypes
  <2> QED
    BY <2>1, <2>2, <2>3, <2>4 DEF Init, Types
<1>2. Serial
  <2>1. \A p \in Panes : Latest(p) = 0 /\ shown[p].seq = 0
    BY DEF Init, Latest, Blank
  <2> QED
    BY <2>1 DEF Init, Serial, DraftsApart, HandedApart, KeptBelow, SnapshotExact, Busy
<1>3. Replies
  <2>1. AskingBusy
    BY DEF Init, AskingBusy
  <2>2. SlotOrReply(inbox, slots)
    BY DEF Init, SlotOrReply
  <2> QED
    BY <2>1, <2>2 DEF Replies
<1>4. Pictured /\ PaintedAnswered
  BY DEF Init, Pictured, PaintedAnswered
<1> QED
  BY <1>1, <1>2, <1>3, <1>4 DEF IInv

LEMMA Inductive == IInv /\ [Next]_vars => IInv'
<1> SUFFICES ASSUME IInv, [Next]_vars
             PROVE  IInv'
  OBVIOUS
<1>1. /\ Types /\ Serial /\ Replies /\ Pictured /\ PaintedAnswered
      /\ AskingBusy /\ SlotOrReply(inbox, slots)
  BY DEF IInv, Replies
<1>2. Types' /\ Serial'
  BY <1>1, TypesKept, SerialKept
<1>3. AskingBusy' /\ SlotOrReply(inbox, slots)'
  BY <1>1, AskingKept, SlotsKept
<1>4. Pictured' /\ PaintedAnswered'
  BY <1>1, PicturedKept, PaintedKept
<1>5. Replies'
  BY <1>3 DEF Replies
<1> QED
  BY <1>2, <1>4, <1>5 DEF IInv

(* The invariant holds in every state the program reaches: the numbers of  *)
(* batches tell apart those that are built, handed over and kept, a query  *)
(* has its slot or its reply, and what was painted was answered.           *)
THEOREM BridgeInvariant == Spec => []IInv
  BY Initially, Inductive, PTL DEF Spec

(* However submissions, paints, resizes and closes interleave, an open     *)
(* pane at rest does not show an older batch than the latest submitted.    *)
THEOREM PanesAreCurrent == Spec => []ScreenCurrent
<1>1. IInv => ScreenCurrent
  <2> SUFFICES ASSUME IInv, NEW p \in Panes, window[p] = "open", sized[p], ~invalid[p],
                      ~\E t \in Threads : pc[t] = "poke" /\ staged[t].pane = p,
                      paint = None \/ paint.pane # p,
                      shown[p].via # "nothing"
               PROVE  shown[p].seq = Latest(p)
    BY DEF ScreenCurrent
  <2> QED
    BY DEF IInv, Pictured, Waits
<1> QED
  BY <1>1, BridgeInvariant, PTL

(* Every reply goes to the thread that asked for it, at most one per       *)
(* question, and a thread that waits for one still has the slot it comes   *)
(* through.                                                                *)
THEOREM RepliesReachTheirCaller == Spec => []RepliesExact
<1>1. IInv => RepliesExact
  <2> SUFFICES ASSUME IInv, NEW t \in Threads
               PROVE  /\ Len(inbox[t]) <= 1
                      /\ \A i \in DOMAIN inbox[t] : asking[t] # 0 => inbox[t][i] = asking[t]
                      /\ pc[t] = "waiting" /\ inbox[t] = <<>> =>
                            asking[t] \in DOMAIN slots /\ slots[asking[t]] = t
    BY DEF RepliesExact
  <2>1. /\ Len(inbox[t]) <= 1
        /\ asking[t] # 0 =>
             IF asking[t] \in DOMAIN slots THEN slots[asking[t]] = t /\ inbox[t] = <<>>
                                           ELSE inbox[t] = <<asking[t]>>
        /\ pc[t] = "waiting" => asking[t] # 0
    BY DEF IInv, Replies, AskingBusy, SlotOrReply
  <2>2. inbox[t] = <<asking[t]>> =>
          inbox[t] # <<>> /\ \A i \in DOMAIN inbox[t] : inbox[t][i] = asking[t]
    OBVIOUS
  <2>3. inbox[t] = <<>> => \A i \in DOMAIN inbox[t] : inbox[t][i] = asking[t]
    OBVIOUS
  <2> QED
    BY <2>1, <2>2, <2>3
<1> QED
  BY <1>1, BridgeInvariant, PTL

(* A query on an open pane with an area is given up only while its paint   *)
(* is due or under way and has not come to the query, after a later batch  *)
(* replaced it, or when the pane could not be painted: a query that was    *)
(* painted has its reply.                                                  *)
THEOREM GivenUpForACause == Spec => GivenUpWithCause
<1> DEFINE Caused ==
      \A t \in Threads :
        LET p == staged[t].pane
        IN pc[t] = "waiting" /\ pc'[t] = "free" /\ inbox[t] = <<>> =>
             \/ window[p] # "open" \/ ~sized[p] \/ invalid[p]
             \/ UnderWay(p, staged[t].seq)
             \/ Latest(p) # staged[t].seq
             \/ shown[p].via = "nothing"
<1>1. IInv => Caused
  <2> SUFFICES ASSUME IInv, NEW t \in Threads, pc[t] = "waiting", inbox[t] = <<>>,
                      NEW p, p = staged[t].pane, window[p] = "open", sized[p],
                      ~invalid[p], ~UnderWay(p, staged[t].seq),
                      Latest(p) = staged[t].seq, shown[p].via # "nothing"
               PROVE  FALSE
    OBVIOUS
  <2>1. asking[t] # 0 /\ Busy(t)
    BY DEF IInv, Replies, AskingBusy, Busy
  <2>2. staged[t] # None /\ \A u \in Threads : Busy(u) /\ staged[u].seq = staged[t].seq => u = t
    BY <2>1 DEF IInv, Serial, HandedApart
  <2>3. p \in Panes
    BY <2>2, Numbers DEF IInv
  <2>4. shown[p].seq # staged[t].seq
    BY <2>1, <2>3 DEF IInv, PaintedAnswered
  <2>5. ~Waits(p)
    BY <2>2 DEF Waits, Busy
  <2>6. paint # None /\ paint.pane = p
    BY <2>3, <2>4, <2>5 DEF IInv, Pictured
  <2>7. paint.via # "begun" /\ paint.seq = staged[t].seq
    BY <2>5, <2>6 DEF IInv, Pictured, UnderWay
  <2>8. Done
    BY <2>6, <2>7 DEF UnderWay
  <2> QED
    BY <2>1, <2>6, <2>7, <2>8 DEF IInv, PaintedAnswered
<1>2. IInv /\ [Next]_vars => [Caused]_vars
  BY <1>1
<1> HIDE DEF Caused
<1>3. Spec => [][Caused]_vars
  BY <1>2, BridgeInvariant, PTL DEF Spec
<1> QED
  BY <1>3 DEF GivenUpWithCause, Caused

(* However Direct2D fails, whoever repaints and whichever panes share the  *)
(* stack of offsets: a frame of Direct2D has every figure where its batch  *)
(* nests it, in a program whose batches are balanced.                      *)
THEOREM FiguresAreInPlace ==
  ASSUME \A d \in Drawings : Balanced(d)
  PROVE  Spec => []DrawnInPlace
<1>1. Init => InPlace
  BY DEF Init, InPlace, BatchesBalanced, Places, FrameInPlace, Targets, Unshown, Blank,
     DrawnInPlace
<1>2. IInv /\ InPlace /\ [Next]_vars => InPlace'
  <2> SUFFICES ASSUME IInv, InPlace, [Next]_vars
               PROVE  InPlace'
    OBVIOUS
  <2>1. Types /\ Serial /\ SlotOrReply(inbox, slots) /\ BatchesBalanced
    BY DEF IInv, Replies, InPlace
  <2>2. BatchesBalanced'
    BY <2>1, BalancedKept
  <2>3. Places'
    BY <2>1, PlacesKept
  <2> QED
    BY <2>2, <2>3 DEF InPlace
<1>3. InPlace => DrawnInPlace
  BY DEF InPlace, Places
<1> QED
  BY <1>1, <1>2, <1>3, BridgeInvariant, PTL DEF Spec

=============================================================================
