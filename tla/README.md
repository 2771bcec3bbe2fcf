# NewBCPL in TLA+

NewBCPL is a BCPL compiler and runtime in Rust: a front end lowers source to
an IR, LLVM compiles the IR in the process, and a runtime gives the compiled
program a garbage-collected heap, lists, a graphical front end and sound. This
directory specifies the parts of it whose correctness hangs on the order in
which things happen: the collector, the event mailbox, the drawing panes, the
editor; and the translation itself, from tokens to what a program writes. TLC
checks them on small instances, and the central one, the collector's
stop-the-world handshake, is proved for any number of threads and blocks.

Paths below are relative to the repository; `gc.rs` is
`src/newbcpl-runtime/src/gc.rs`, `lower.rs` is `src/newbcpl-ir/src/lower.rs`,
`channels.rs`, `bedit.rs`, `batch.rs` and the like are in
`src/newbcpl-runtime/src/igui/`, `emit.rs` is `src/newbcpl-llvm/src/emit.rs`,
`parser.rs` is `src/newbcpl-parser/src/parser.rs`, `layout.rs` is in
`src/newbcpl-sema/src/`, and the guide is `docs/user_guide.md`.

- [Inventory](#inventory)
- [Modules and the code they stand for](#modules-and-the-code-they-stand-for)
- [Runs](#runs)
- [Fairness](#fairness)
- [Proofs](#proofs)
- [Where code and documentation disagree](#where-code-and-documentation-disagree)
- [What is not modelled](#what-is-not-modelled)
- [Plan](#plan)

## Inventory

Columns: the state a part keeps, what can be done to it, what makes it hard,
what makes it correct.

| Part | State | Operations | Hard | Correct when |
|---|---|---|---|---|
| **Safepoint handshake** (`gc.rs`) | `MUTATORS`, `Mutator::{state, parked_sp, stack_top, spill}`, `SAFEPOINT_REQUESTED`, mutex and condition variable | register, unregister, thread exit, poll, park, `collect_stw` | every thread interleaves with the collector; a wait with a time limit; two wake-ups, one of them without the mutex | no block in use is swept, the world stands still during a cycle, parked threads run again |
| **Heap** (`gc.rs`) | clusters: bump pointer, free list, `block_starts`, headers, mark bits; `block_count` per type | allocate, mark, sweep and coalesce, resolve a stack word | long sequences of split, coalesce and reuse; leftovers too small for a block; stale marks | headers tile the cluster, free list and bitmap agree with them, what is reachable survives |
| **Event mailbox, GUI worker** (`channels.rs`, driver `main.rs`) | bounded channel, `EVENT_STASH`, `EVENT_FILTER`, whether a program runs | push, `next_event`, `next_event_for`, set filters, discard, run a program | two threads; a full mailbox; events parked for later; deadlines | no event lost or doubled, order within a window, one run does not see another's events, the close of the frame is seen |
| **USING cleanup** (`lower.rs`) | `using_cleanups`, `frames`, `valofs`, `scopes` | every statement that opens or leaves a scope | every way out of every nest of statements | RELEASE exactly once for each USING left, innermost first |
| **IR lowering** (`lower.rs`) | blocks, values, slots, scopes, frames | lowering of each statement and expression | values that meet from several paths, FOREACH over lists, packed lanes, method resolution | the code does what the guide says, reads nothing undefined, polls in every round |
| **Parser** (`newbcpl-parser`) | position among the tokens | recursive descent, one function per construct | what ends a statement, `AND` as operator and as separator, ladders of precedence | the tree is the one the guide's ladder gives |
| Lexer (`newbcpl-lexer`) | position in the text | tokens | - | - |
| **Semantic analysis, layout** (`newbcpl-sema`) | scopes, classes, hints, field offsets, vtable slots | declare, resolve, infer, lay out | hints that are refined after their first use, layout along a chain of classes | hints choose the right instruction; an inherited field or slot keeps its place |
| **Code generation** (`newbcpl-llvm`) | LLVM module, sections, symbol table | emit, `GET` expansion, link, run | words, doubles and pointers in one slot, virtual tables filled after linking | each instruction does what the IR says; polls, field accesses and descriptors are what the collector expects |
| **Runtime builtins, lists** (`builtins.rs`) | list headers and atoms, interned descriptors | `HD`, `TL`, append, concat, I/O | atoms shared between lists | length and links agree |
| **Surface bridge** (`batch.rs`, `replies.rs`, `cp_exports.rs`) | current batch of each thread, latest batch of each pane, reply slots | begin, push, submit, query, wait, deliver | language threads and the GUI thread; the latest batch wins; five-second waits | the screen shows the latest batch; a query gets its own reply or is given up for a cause |
| **Windows** (`window.rs`, `child.rs`, `registry.rs`, `menu.rs`) | frame, children, render targets, offset stack | create, paint, fall back to GDI, resize, close | a frame that fails half way; state shared by all panes | figures stand where their batch puts them |
| Text panes, log (`igui/text_view.rs`, `log_view.rs`) | grid, queue of operations, ring of lines | write, scroll, flush, append | coalesced refreshes | the screen catches up with the queue |
| **Rope** (`rope_buffer.rs`) | a balanced tree of leaves with cached counts | insert, delete, replace, look up | leaf boundaries, rotations, counts that are carried along; texts that start out without balance | it is the text, and edits do not unbalance it |
| **Editor** (`bedit.rs`) | text, cursor, selection, undo and redo, prompt, diagnostics | keys, clipboard, find and replace, check, save, load | long sequences of keys; entries that coalesce or fall off the stack | undo and redo go through what the user saw; marks and diagnostics fit the text |
| Audio (`audio.rs`) | slots for sounds and music, mixer | store, play, free | slot numbers, rebinding | a freed slot is silent |
| BRK (`brk.rs`) | none of its own | dump registers and frames | - | - |
| Direct2D, DirectWrite (`bcpl-wingui`, `igui/dwrite.rs`) | operating-system objects | wrappers | - | - |
| Driver commands, loader, test matrix, tests | none | dispatch | - | - |

How the parts meet. Compiled code calls `__newbcpl_safepoint` at every function
entry (`emit.rs:739-779`) and loop back-edge (`lower.rs:2379-2391`), and
`__newbcpl_new_rec` to allocate; the handshake stops the other threads, and the
heap is then marked and swept under `HEAP_CELL`. The lowering decides where a
`RELEASE` is called. In the graphical mode there are two threads: the window
procedures push events, and the language thread alternates between the worker
loop of the driver and a running program, which takes events and submits
batches; the GUI thread paints them and answers queries. The editor is another
pane of the GUI thread, and its check runs the front end over its text.

## Modules and the code they stand for

| Module | Content |
|---|---|
| `AbstractHeap` | the collector's contract, without threads or marks: only garbage is reclaimed |
| `GcSafepoint` | the handshake, thread by thread, step by step; implements `AbstractHeap` |
| `GcSafepointProofs` | the proofs about `GcSafepoint` |
| `ObjectHeap` | the heap a program is promised: typed, disjoint objects with one reference field, born null, and a collection that keeps exactly the reachable ones |
| `GcHeap` | clusters, allocator, marker and sweep; implements `ObjectHeap` |
| `GcHeapProofs`, `ObjectHeapProofs` | the proofs about `GcHeap`: one cluster, the heap and its books; references and `ObjectHeap` |
| `EventMailbox` | mailbox, stash, filter, worker loop and program |
| `EventMailboxProofs` | the proofs about `EventMailbox` |
| `UsingCleanup` | the cleanups one activation of a routine executes |
| `UsingCleanupProofs` | the proofs about `UsingCleanup` |
| `SurfaceBridge` | batches, queries and reply slots of the language threads, paints of the GUI thread |
| `SurfaceBridgeProofs` | the proofs about `SurfaceBridge` |
| `TextLines` | what a text with lines is: a sequence, its lines, positions and edits |
| `RopeBuffer` | the rope; its edits and lookups against `TextLines` |
| `Editor` | the editor window, key by key, over `TextLines` |
| `EditorProofs` | the proofs about `TextLines` and `Editor` |
| `Parser` | the recursive descent over tokens |
| `Grammar` | trees and the tokens the guide's ladder writes for them |
| `Typing`, `Layout` | semantic analysis; class layouts |
| `Lowering` | from typed trees to blocks of IR |
| `Machine` | what the code emitted for the IR does, one instruction a step |
| `Meaning` | what a program means: an interpreter of trees written from the guide, with one exception |
| `Compile` | a program through `Typing`, `Layout`, `Lowering` and `Machine`, next to its `Meaning` |
| `Folding` | a fold over a sequence that may call recursive operators |
| `SequenceFacts` | lemmas the proofs share: positions and elements of sequences, least and greatest numbers, induction over sets of numbers |
| `MC...` | model values, programs and symmetry for TLC |

Operators whose comment begins with *Fault* or *Variant of* are not part of a
specification.
Each is a mutation of the definition that follows it: a way the code could
have been wrong. Substituted for that definition it must make TLC report the
property it is paired with in `PROJECT.json`.

Four modules carry *history* variables (`disturbed`; `astray`; `astray` and `torn`; `shadowed`
and `skipped`). Where the code does something its own promises do not survive,
the model does it too, and the history notes that it has happened; no guard reads
it. The properties and theorems then say what holds *until* the event, with no
restriction on the programs or users before it, and a further configuration
shows, for each kind of event, that the promise is broken after it.

### GcSafepoint

One mutator of the model is one `Arc<Mutator>`. `pc[t]` is the point in
`gc.rs` where the thread is; every access to shared state that another thread
can observe is a step of its own.

| Code | Actions |
|---|---|
| `__newbcpl_register_thread`, `ensure_mutator_for_current_thread` | `Register` |
| `__newbcpl_unregister_thread`; drop of `MutatorTls` | `Unregister`; `ThreadExit` (says PARKED), `ExitRemove`, `ExitNotify` |
| compiled code between polls | `Load`, `Store`, `Clear`, `Drop` |
| `__newbcpl_safepoint` | `SafepointPoll` |
| `park_self_for_safepoint` | `ParkSelf` (publishes stack and registers, says PARKED), `LockAndTest`, `CondWait`, `Leave` (says RUNNING) |
| `__newbcpl_new_rec`, `alloc_under_lock` | `NewRec`, `Alloc`, `WriteTag`; the tag is written after the heap lock is released |
| `collect_stw` | `BeginCollect` (snapshot), `ParkInitiator`, `Request`, `AllParked` or `ParkTimeout`, then the cycle or `AbortClear`, `AbortNotify` |
| `run_collect_cycle` | `EnterCycle`, `MarkStacks`, `MarkRoots`, `Sweep` |
| the end of `collect_stw` | `ReleaseFlag`, `ResumeInitiator`, `NotifyLocked` |

`held[t]` is what the frames of `t` refer to; `visible[t]` is what a scan
between `parked_sp` and `stack_top` would find, which is `held[t]` as of the
last park. That difference is what the handshake is about. Blocks have no
fields in this module: tracing is `GcHeap`'s business, and a block that is kept
through another block behaves here like one that is kept through a root.

`collect_stw` counts on things the code does not see to. They all happen in the
model, and `disturbed` keeps which of them have:

| In `disturbed` | What happened | What can follow |
|---|---|---|
| `"overlap"` | a thread entered `collect_stw` while another was in it | each takes the other, parked for its own collection, as parked for its own; the first to finish clears the flag, and mutators walk off under the second one's sweep |
| `"unsettled"` | one entered it while a mutator was half way into or out of an earlier park | a mutator on its way out still says PARKED and is scanned with old frames |
| `"late"` | a thread registered during a collection | the newcomer is not in the snapshot, runs during the sweep, and loads from a root after it was scanned |
| `"unscanned"` | a scan passed over a stack without a `stack_top` (a mutator outside `ScannedStacks`) whose owner held a block | the block is swept under its owner |

`HeldBlocksSurvive` and the refinement hold until one of the four has happened;
`WorldStopped`, `ScanIsCurrent`, `FlagOutlivesCycle` and the liveness properties
do not mind the last (`Orderly`). `GcSafepoint_disturbed` shows each of the
four alone taking a block that is in use. A program with a single language
thread, which is what the driver runs today, meets none of the first three; all
of them meet the fourth (see [below](#where-code-and-documentation-disagree)).

### GcHeap

A unit is 16 bytes, `BLOCK_ALIGN` and the size of a header. A pointer is
`<<cluster, unit>>` to a payload. A type is named by its size in units and has
one field. `Walk` is the linear walk over headers every phase uses, with the
conditions under which the code gives up; `TryAlloc`, `TakeFree` and `CutTail`
are `Cluster::try_alloc` with the header write of `__newbcpl_new_rec`;
`Resolve` is `Cluster::resolve`; `Collected` composes `ClearMarks`, `SetMarks`
and `Sweep` as `run_collect_cycle` does. `NewRec` is the whole of
`alloc_under_lock`: try, collect, try again, grow. `Advance` leaves an interior
pointer as the only reference to a block, which a conservative scan must honour.
A collection is one step because `GcSafepoint` shows that the world stands still.

Two things break what the heap is for, and both happen in the model. `astray`
keeps which: `"sliver"`, an allocation that leaves one unit of a free block over
(`LeavesSliver`, `gc.rs:388`), which the next header cuts off; `"unlisted"`, a
reference stored in a field that the `TypeDesc` of its object does not list
(`Traced` is the set of types whose descriptor does). What a linear walk needs
holds until there is a sliver; what a program needs, until either.
`GcHeap_astray` shows a use after free behind each alone.

### EventMailbox

Events are numbered as the window procedures produce them, and `taken`, `lost`
and `discarded` record what became of them. `Push` is `channels::push` with
`try_send`: a full mailbox drops the event. `Ask` is the part of `next_event`
and `next_event_for` before the first receive: the walk over the stash, and the
deadline. `Receive` is one turn of the receive loop, `TimeOut` its end.
`HandOut` includes what the worker does with the event (`gui_language_worker`,
`gui_run_program` with its reset, the return on `FrameClose`). A call in
progress is `call`; only the GUI thread's pushes come in between, as in the code,
where stash and filter are used by the language thread alone.

### UsingCleanup

The lowering keeps `using_cleanups`, `frames`, `valofs` and `scopes` by
recursion over the statements, so the context of a program point is given by
the statements open there: an entry of `nest` notes the kind of statement, how
many cleanups there were before it (`at`, the `cleanups_at_entry` of a frame) and the
scopes it was found in. `using_cleanups` grows with a USING and is cut back to
`at` by every transfer. The model walks every path through every
nest and executes the calls the lowering emits at each transfer. `Lookup` is
the search of `scopes` that `emit_release_call` makes for the receiver: it is
by name, at the place of the transfer. `EmitFrom` is
`emit_using_cleanups_from`. Names may be taken again, and RESULTIS and GOTO may
leave a USING; two histories keep track:

| History | What it notes | What the code then does |
|---|---|---|
| `shadowed` | a LET or USING has taken the name of an open USING | `USING f ... LET f = ...` looks up the wrong object and releases that; the first is never released |
| `skipped` | the objects of the USINGs that a RESULTIS inside its VALOF (`lower.rs:657`) or a GOTO has left (`Skip`) | nothing: no call is emitted; `README.md:46` lists the GOTO as a known gap |

`ReleasedExactlyOnce` says that what has been released is exactly what USINGs
bound, without those still open and those in `skipped`, once each, until something is
shadowed. `UsingCleanup_promises` shows that the guide (701-704) promises more:
`NothingSkipped` and `ShadowingHarmless` fail.

### SurfaceBridge

`pc[t]` is where a language thread stands between two things the GUI thread can
observe: it builds (`free`), has staged a batch (`store`), has stored it but not
yet asked for a paint (`poke`), or waits for a reply (`waiting`).

| Code | Actions |
|---|---|
| `batch::begin`, `push`, `submit` | `Begin`, `Push`, `Submit` (the batch leaves `CURRENT`), `Store` (the insert into `PANE_STATES`), `Poke` (`InvalidateRect`) |
| `wait_for_reply`, the text queries of `cp_exports.rs` | `Ask` (slot, batch, submit), `Answered`, `GiveUp` |
| `child.rs`: `WM_CREATE`, `WM_SIZE`, an uncovered window, `WM_DESTROY` | `OpenChild`, `Resize`, `Uncover`, `CloseChild` |
| `WM_PAINT`, in steps: `BeginPaint` clears the update region | `BeginPaint`, `PaintEmpty`, `NoTarget` |
| `batch::snapshot` | `Snapshot` |
| the loops of `execute_d2d_batch` and `execute_gdi_batch`, one command a step | `ExecuteNext`, with `ExecuteD2d`, `ExecuteGdi` and, for `replies::deliver`, `Deliver` |
| Direct2D fails, GDI fails, the frame is done | `StartOver` (with `Fallback`), `GdiFails`, `EndPaint` |

`paint` is the WM_PAINT under way: its pane, the batch it has taken, how many of
its commands are done, and by which of the two ways. Language threads go on between
any two of its steps. The five seconds of a wait may pass at any time: `GiveUp` asks
only that no answer has arrived, so it may fall between `BeginPaint`, when the
pane asks for no paint any more, and the command that answers. `GivenUpWithCause`
therefore has a cause `UnderWay`: the paint of that pane has begun and is yet to
reach the query. `at` is the place of each filled figure, which is what the
offset stack that all panes share could get wrong. `Careful` keeps a program
from asking for a measurement while it is building a batch: the query begins a
batch of its own and the draft is lost (configuration `SurfaceBridge_draft`).

### TextLines, RopeBuffer

`TextLines` is the interface: a text is a sequence, a position a row and a
column. `RopeBuffer` is the tree, with the cached fields of the Rust nodes.
`Build`, `Join`, `Split`, `Balance`, the rotations, `Collect`, `NthNewline`
and the rest are the functions of those names; `Insert`, `Delete`, `Replace`
and `Load` are the public edits. Nothing but the leaf size is smaller than in
the code, and all its cases hang on being under, at or over that size. `EditsExact`
compares one more edit, of every kind and at every place, with the operator of
`TextLines`, and `LookupsAgree` every lookup. `Files` are the texts that may be
loaded, `MaxPasted` the length up to which one of them is also pasted:
`build_rope_from_slice` merges neighbours, so a text of five leaves has subtrees of
height 2 and 0, and the module's own header (`rope_buffer.rs:6`, "AVL invariant") is
false of it. `TreeSound` therefore claims exact caches in every tree, and
balance where there is balance to keep: an edit of a balanced tree, with a balanced
piece, leaves it balanced. `RopeBuffer_balance` shows `AlwaysBalanced` failing.

### Editor

The text is `RopeBuffer`'s, as a sequence, because `RopeBuffer` shows that it
may be. `ed` is the editor record: text, cursor, anchor of the selection, undo and redo
stacks, modified mark, whether the diagnostics are stale. One action is one
key, mouse click, menu command or message: `TypeChar`, `TabKey`,
`BackspaceKey`, `DeleteKey`, `Paste`, `CutKey`, `UndoKey`, `RedoKey`,
`ArrowKeys`, `PointAt`, `SelectAll`, `FindKey`, `EnterKey` (Enter as a newline,
and in the prompt as find, replace or go to a line), `ReplaceAllKey`,
`CheckKey`, `Save`, `Load`. `Characters` is the alphabet; a clipboard holds
any of them, `Unix` is what is done to its line ends and `Decoded` what the
rope makes of the returns that are left. `ReplaceEach` is replace-all, a function
of its rounds: there are no more of them than characters. An undo entry remembers, besides what the code
keeps, the texts before and after it (`was`, `now`): that is history, which
`HistoryExact` reads and no action does.

Two more histories note what the code cannot take. `astray` has `"redo"` once a
deletion has been redone (`bedit.rs:1383`), `"replace"` once hits were replaced by
nothing while there was something to redo (888), and `"return"` once a return was
pasted that no newline follows (789); loading a file clears it.
`CursorInText` and `HistoryExact` hold until then. `torn` is set when a write
fails while the text counts as unmodified: `fs::write` (2597) empties the file before
it can fail, so `Save` leaves any part of the text in it (`Remains`), and the
mark is off although the file differs. `Editor_astray` shows the harm of
each of the four: `RedoExact`, `HarmlessReplace`, `HarmlessReturn` and
`UnmarkedIsSaved` fail.

### Parser, Grammar

`Parser` is one operator per function of `parser.rs`, on a sequence of tokens;
an AND chain's left-over declarations, the depth of `.|...|` brackets and the
first error are part of the parser's record. `Grammar` goes the other way: it
writes a tree with as few brackets as the ladder in section 2.2 of the guide
allows, and `ReadAsMeant` says that the parser makes the same tree of it. The
two share nothing but the trees. The guide's postfix row has one level and does
not say which of two neighbours comes first; a subscript that stands on either side of
a subscript is written in brackets, and so are a call and a member on its right.
What is written keeps clear of the other places where
the parser is known to read something else (see
[below](#where-code-and-documentation-disagree)): every statement ends with a semicolon,
so that two separated by a newline only are not covered.

### Typing, Layout, Lowering, Machine, Meaning, Compile

The translation is a chain of operators, and a run of the machine.

- `Typing` is `newbcpl-sema`: the scopes, the classes, the hint of each
  expression, which decides the instruction it becomes; `Layout` is
  `layout.rs`: field offsets, virtual tables, traced offsets along the chain of
  classes.
- `Lowering` is `lower.rs`, with one operator for each `lower_` function. A
  builder holds blocks, scopes, frames, labels, VALOFs and cleanups as the
  code does, and a lowered program is a set of functions of blocks of instructions.
- `Machine` executes them, one instruction a step, as `emit.rs` and the
  runtime do: a value carries the LLVM type it has there (word, double,
  pointer), and is turned into another as `as_int_word` and its relatives turn
  it; memory is words, objects have a virtual table, lists a header and atoms.
  Reading a slot nobody wrote gives `Undef`, and so does anything computed from it.
- `Meaning` is the reference, written from `docs/user_guide.md`: an
  interpreter of trees, to which hints, slots, blocks and tables are unknown. In
  one thing it follows the code against the guide: `VEC k` has k items, where guide
  line 331 has indices 0..k. No program of `MCCompile` touches index k.
- `Compile` composes them. `RunsAsMeant` says that the output is a prefix of
  what is meant and, at the end, all of it; `ProgramsEnd`, that there is an end.

`MCCompile` holds the programs: words, doubles, loops, switches, VALOF, calls
and recursion, vectors, lists and pairs, lanes and bit ranges, classes, members,
USING, bytes, and two families that are combinations: classes three deep with every choice
of what is overridden and of who calls SUPER, and loops, switches and
conditionals inside one another with the jumps that are legal there. Labels
stand at the outermost level of a routine, with GOTOs forward and back,
out of loops as well.

A frame's `trail` is the list of the blocks it has entered since the last poll.
`PollsEveryRound` says that one that occurs twice in it was led back to by a LOOP
or a GOTO, which the lowering marks in the branch it makes of them (`JumpTo`):
LOOP in WHILE, UNTIL and REPEAT goes straight to the next round, and nothing polls on
the way. In FOR, FOREACH, REPEATWHILE and REPEATUNTIL it goes on to a step or a test
that polls, and the property holds the lowering to that. `Compile_poll` shows
that "every loop back-edge" (`lower.rs:2379`) is more: `EveryBackEdgePolls` fails.

## Runs

| Run | Instance | Distinct states | Shows |
|---|---|---|---|
| `safepoint_safe` | 2 mutators, one without a known stack, 2 blocks, time-outs, both ways to leave | 1 141 429 | `IInv` and its consequences; the handshake implements `AbstractHeap`; each until it is disturbed |
| `safepoint_live` | 2 mutators, 1 block, thread exit | 33 479 | a parked thread runs again, a collection ends |
| `safepoint_lost_wakeup` | with time-outs, fair | violation | `ParkedResumes` fails |
| `heap_safe` | 1 cluster of 6 units, types of 2 and 3 units, the first with its field listed, 2 stack words, 1 root | 25 546 | headers, free list, marks, counts and stack words agree until there is a sliver; the clusters implement `ObjectHeap` until something goes astray |
| `mailbox_safe` | 2 windows, capacity 2, 5 events | 706 758 | events accounted for, ordered, isolated; the close of the frame is seen |
| `using_safe` | 2 names, 3 objects, 4 nested statements, names taken again, RESULTIS and GOTO out of USINGs | 1 865 579 | released exactly once, innermost first, except what a RESULTIS or GOTO skips |
| `rope_safe` | leaves of 2, texts up to 6, insertions up to 3, newlines and letters; files of 7 and 9 characters loaded, pasted twice at most and cut down | 9 896 | the rope is the text: edits, counts, heights, lookups; edits keep the balance there is |
| `editor_safe` | files of a brace and a newline, and of a letter, texts up to 4, 2 edits after a load, 2 undo entries, lone returns on the clipboard, replacing by nothing, writes that fail | 568 620 | undo and redo are exact and the cursor is in the text until the history goes astray; mark and diagnostics fit the text |
| `surface_safe` | 2 threads, 2 panes, 3 batches or 2 and a failing frame, 2 queries, paints in steps | 2 884 635 | the latest batch is shown in its place; replies reach who asked, or there is a cause |
| `grammar_read` | 28 612 writings: expressions two deep, statements in statements, every declaration, with and without AND chains | 85 836 | the parser reads the tree that was written |
| `compile_run` | 1 688 programs, words of 16 bits | 78 686 | they write what the guide says, end, read nothing undefined, poll in every round but those LOOP or GOTO leads straight back into, keep their ancestors' slots |
| `compile_swap` | the guide's `a, b := b, a` | violation | `RunsAsMeant` fails |

Further configurations fail for the reasons given
[below](#where-code-and-documentation-disagree), each with the property named.
TLC stops at the first it meets and names one per state: to see another, leave it
alone in the `INVARIANTS` of the configuration.

| Configuration | Violated |
|---|---|
| `GcSafepoint_disturbed` | `HarmlessOverlap`, `HarmlessUnsettled`, `HarmlessLate`, `HarmlessUnscanned` |
| `GcHeap_astray` | `HarmlessSliver`, `HarmlessUnlisted` |
| `EventMailbox_poll` | `FrameCloseSeen` |
| `UsingCleanup_promises` | `NothingSkipped`, `ShadowingHarmless` |
| `RopeBuffer_balance` | `AlwaysBalanced` |
| `Editor_astray` | `RedoExact`, `HarmlessReplace`, `HarmlessReturn`, `UnmarkedIsSaved` |
| `SurfaceBridge_draft` | `DraftKept` |
| `Compile_poll` | `EveryBackEdgePolls` |

They are for use with the `MC` module of the same name:
`tlc -config Editor_astray.cfg MCEditor`.

Bounds, and why they are enough to see the interesting cases:

- Two mutators are a collector and a mutator in every role, the smallest
  instance with a race; what one mutator does never depends on which of the
  others has parked, only on whether all have. The theorems remove the bound.
  `UntilDisturbed` ends an exploration, in the runs of the handshake, once two
  collections overlap, one is unsettled or late: no property says anything of what
  comes after, since `disturbed` only grows, and the liveness properties
  count such a state as reached.
  `Blocks` bounds the heap; where the code would grow it, `AllocBeyondBound`
  goes on without a block.
- Six units hold three small blocks, or one large and one small: enough to
  split, to coalesce two and three neighbours, to reuse the front and the tail
  of a split, and to chain two references. Sizes 2 and 3 leave tails of one
  unit and of two.
  `MaxClusters = 1` ends an exploration where the code would add a cluster.
  Invariants range over any number of clusters.
- `CAPACITY` is 1024 in the code and 2 here: with five events the mailbox
  overflows, and refills after it was drained. Two windows are one that is
  waited for and one that is not. `MaxEvents` bounds the events produced.
- Four nested statements hold a USING in a SWITCHON in a USING in a loop, and a
  VALOF around or between any of these. `MaxObjects` and `MaxDepth` are the bounds.
- `LEAF_MAX` is 2048 in the code. Six characters in leaves of two make trees of height
  three, on which single and double rotations of both hands happen;
  `MaxLength` bounds the text. Nine characters are five leaves, the shortest text
  that is built without balance; `MaxPasted` bounds the text before a paste.
- Two undo entries are one to coalesce with and one to drop at the cap, which the next
  edit overflows: replacing a selection makes two entries at once. Four
  characters hold two lines with something on each. `MaxEdits` bounds the edits since
  the last load; undo, redo, moves, finds, checks and saves are not bounded.
  `UntilAstray` ends an exploration once the history is astray: the two
  properties about it claim nothing from there to the next load, and the two about
  marks concern handlers that do not look at the history.
- Two threads that both draw on two panes: either can replace what the other
  has stored and not yet shown. Three batches are one in `CURRENT`, one in
  `PANE_STATES` and one on the screen. Two queries on one pane replace each
  other, and one that is given up may be answered while the next one waits.
  `MaxBatches`, `MaxQueries`, `MaxFailures` are bounds; with the steps of a
  paint, `MCBudget` lets a frame fail at the price of the third batch.
- Two levels of operators are every pair of operators on either side of each
  other. Three statements deep is a statement that ends with a statement that
  ends with an expression, which is where one that goes on too long is noticed.
- Sixteen bits keep numbers small for TLC; the machine's `Wrap` is that of any
  width. The bits of a double are far from small integers, so that one
  that is read as a word is noticed.

Deadlock is not checked where the system may really stop: every thread has
left, the worker has returned and the last event was pushed, the routine has
returned, all panes are closed, the tree has been read. The heap, the rope, the
editor and the compiled programs never stop in a bad way: their runs check it.

## Fairness

- *Handshake.* Weak fairness of the steps of a park, of a collection and of an
  allocation once begun, thread by thread: the operating system schedules every
  thread, and compiled code reaches a poll, because the compiler emits one at
  every function entry and loop back-edge (a round ended by LOOP
  or GOTO is the exception, see [below](#where-code-and-documentation-disagree)).
  Starting a collection, leaving, storing and time-outs are not fair. `SafepointPoll` is fair only as part of
  `Park(t)`: it is enabled while the flag is up, and code that runs will poll.
  A thread that blocks in the runtime without parking is not covered; the
  two-second limit is the code's answer to it, and a collection that gives up
  is what `safepoint_lost_wakeup` is about.
- *Mailbox.* The language thread is scheduled, and a program that runs keeps
  asking for events. `Receive` is strongly fair: the deadline of a call is
  tested before every receive, so a single call may end without one, but not
  every call with a positive time-out is over before its first. Nothing is
  assumed of the user, of the program's filters, or of its ever returning.
- *Compiled programs.* Weak fairness of `Run`, the next instruction: nothing
  holds up a thread that can go on. `ProgramsEnd` rests on it. All programs of
  `MCCompile` end according to the guide, so the property asks it of all of them.
- The other specifications promise no progress and assume no fairness. A
  paint Windows never asks for and a query nobody answers are allowed: the
  five seconds are the answer to the second.

## Proofs

Every theorem holds for every value of the constants: any number of mutators,
blocks, clusters, windows, names, any capacity and any bound. None restricts what
programs and users do: where the code stops keeping a promise after some
event, the theorem is about the behaviour up to it, and the event is in the model
(the histories [above](#modules-and-the-code-they-stand-for)). One
theorem, `FiguresAreInPlace`, is about some programs only, and says which. Beyond that
the theorems rest on the modules' own `ASSUME`s.
TLC evaluated every inductive invariant on the run of its module before
it was proved.

### The handshake

`GcSafepointProofs` holds, for every set of mutators and blocks:

| Theorem | States | Holds |
|---|---|---|
| `TypeCorrect` | `Spec => []TypeOK` | always |
| `IInvCorrect` | `Spec => []IInv` | each layer for as long as it says |
| `NoLiveBlockSwept` | `Spec => []HeldBlocksSurvive` | until something disturbs a collection |
| `WorldIsStopped` | `Spec => []WorldStopped` | while collections are `Orderly` |
| `ScannedFramesAreCurrent` | `Spec => []ScanIsCurrent` | while collections are `Orderly` |
| `FlagIsUpInCycle` | `Spec => []FlagOutlivesCycle` | while collections are `Orderly` |
| `HandshakeImplementsContract` | `Spec => ContractSpec` | until something disturbs a collection |

`Orderly` allows stacks that are not scanned: that the world stands still does not
depend on them. `HeldBlocksSurvive` is not inductive: nothing in it says why a sweep
may take what is not marked. `IInv` adds what is missing, in three layers.

1. `TypeInv`, always: `TypeOK`, and a mutator about to write a tag has a block.
2. `ControlInv` and `ParkedIsVisible`, while `Orderly`. `ControlInv` is about threads
   and the flag only: `SoleCollector`;
   `StateMatchesPc` (who says PARKED stands still, collects, or is dead);
   `FlagMatchesPc` (the flag is up exactly while a collection wants it);
   `NoStalePark` (nobody is leaving a park while others wait for it);
   `RegistryMatchesPc` (the snapshot covers the registry); `Stopped`.
   `ParkedIsVisible`: who stands still has published its frames.
3. `DataInv`, about blocks, while `disturbed` is empty: `ParkedIsVisible`;
   `TagsMatch` (an untagged block belongs to an allocation in
   progress, so the sweep meets none); `MarksCover` (the marks cover what has
   been scanned so far); `HeldBlocksAllocated`.

Each layer is inductive given the ones before it (`TypeInvNext`, `ControlNext`,
`VisibleNext`, `DataNext`). `DisturbedGrows` is what makes "until" work: a step
that ends undisturbed began so, and `QuietRegister` and `QuietBegin` read off what such
a step tells about the threads: nobody else was collecting, or half way through a
park. `IInv` is also an invariant of `safepoint_safe`. The
refinement maps `allocated`, `held` and `globals` to themselves; every step but
the sweep maps to an abstract step of the mutators or to a stutter, and
`SweepIsCollect` shows from `MarksCover` that the sweep maps to `AbsCollect`.

### The heap

`GcHeapProofs` is about one cluster and then about all of them and their books,
`ObjectHeapProofs` about references.

| Theorem | States | Holds |
|---|---|---|
| `HeapTypesHold` | `Spec => [](Unslivered => TypeOK)` | until a sliver |
| `HeapIsTiled` | `Spec => []HeapWalks` | until a sliver |
| `BooksAreExact` | `Spec => []BooksExact` | until a sliver |
| `ResolveIsExact` | `Spec => []ResolveExact` | until a sliver |
| `NothingDangles` | `Spec => []NoDangling` | until something goes astray |
| `ObjectsImplemented` | `Spec => ImplementsObjects` | until something goes astray |

They hold for types of any sizes, whichever of them have their field listed. A
sliver and a reference in an unlisted field are steps of the model like any other; the
theorems say that a heap is sound for as long as neither has happened, and
`GcHeap_astray` that it need not be after one (items 4 and 5
[below](#where-code-and-documentation-disagree)). Until then a field that is not listed
is null, which is why the marker may pass it over.

The invariant is `HeapInv`: every cluster is `Sound`, every count of live blocks is
the number of blocks of that type, and every pointer leads into a cluster.
`Sound` is what an allocation and a sweep rely on in each other:

- `Tiled`: the blocks at `starts` lie end to end from 0 to the bump pointer.
  It makes the linear walk find just these blocks (`WalkOfTiled`). The walk is a
  recursive function; `WalkExists` shows that there is a function that satisfies its
  equation, which the prover does not take for granted.
- `Listed`: the free list has each block without a tag once, no two neighbours.
- `Fresh`, `Within`, `Solid`: beyond the bump pointer nothing is written, an old header
  never reaches over the end, and no header lies inside a block in use: this is
  what makes the search backwards of `Cluster::resolve` stop at the right one.
- `Unblemished`: no marks between collections.

`TryAllocSound` and `SweepSound` say that the two operations keep `Sound`, the
first as long as what it leaves over is nothing or a block, and which
blocks they add and take (`Gains`, `RunsApart` for the coalescing of the sweep).

For `NoDangling` the invariant `RefsValid` is added: what a slot or a field
holds leads to a block in use, the fields and globals to the beginning of one, the
words of the stack anywhere into it. The marker works through a work list and
the contract speaks of the least set that contains the roots and is closed under
fields; `MarkerReaches` and `ChainIsReach` show that they find the same
blocks, by induction over the length of a path (`SetInduction`, an induction
theorem with the property as a set, because the library's are out of the
provers' reach). `StepMaps` maps each step to a step of `ObjectHeap`: an
allocation, which may collect first, to the birth of an object after or without a
reclamation, the collection to one that takes exactly what cannot be reached.

### The mailbox

`EventMailboxProofs` assumes nothing.

| Theorem | States |
|---|---|
| `TypesHold` | `Spec => []TypeOK` |
| `NothingLostOrDoubled` | `Spec => []EventsAccountedFor` |
| `WindowsInOrder` | `Spec => []WindowOrder` |
| `ProgramsStartClean` | `Spec => []RunIsolated` |

`WindowOrder` alone is not inductive: an event may be taken from the stash or
from the channel, and nothing says which is older. `IInv` adds `Queued` (channel and
stash are in order, and the channel is younger than both the stash and all that
was taken), `StashBehind` (what waits in the stash for a window is younger than
what was taken for it), `StashSearched` (a call that waits has been through
the stash, so nothing there matches it) and `OnlyWindows` (only events of windows
are ever stashed). `Places` and `TakenOnce` say where each event is; counting
them gives `EventsAccountedFor`.

### The cleanups

| Theorem of `UsingCleanupProofs` | States | Holds |
|---|---|---|
| `ContextTyped` | `Spec => []TypeOK` | always |
| `ReleasedInnermostFirst` | `Spec => InnermostFirst` | until something is `shadowed` |
| `EveryObjectReleasedOnce` | `Spec => []ReleasedExactlyOnce` | until something is `shadowed` |

Any names may be taken, and RESULTIS and GOTO may leave any USING; what they
leave is in `skipped`, which the second theorem counts out and the first does not need to
know of. `IInv` is `PathInv` always and `NameInv` until something is `shadowed`.
A transfer goes back to the context of a statement further out and calls what was
noted there and here, so the invariant relates all contexts along the path of open
statements. `Counting`: cleanups are counted as the USINGs on the way.
`Scoped` and `Growing`: there is one scope for each block, and what is declared
stays declared further in. `Found`: the names of a point's cleanups are
declared at it. Until something is shadowed they are also
`Named`: `Agreeing` (nothing further in changes what
those names mean) and `Resolved` (they mean the objects they were bound to);
this is what lets a receiver that is looked up by name, at the place of the transfer,
be the object of the USING. `ContextBack` and `ContextOpen` show that
leaving and opening statements keep all this, for every transfer at once;
`EmissionReleases` and `EmissionFalls` show what the calls made on the way out do,
`GotoKeeps`, `ResultisKeeps` and `SkippingReleases` what is left when none are made.
`ReleaseInv` says that the released objects are `Live \ Held`, where `Live` is
`owned \ skipped`.

### The drawing panes

Of threads, panes and bounds `SurfaceBridgeProofs` assumes nothing but that `None`
is neither a batch nor a paint.

| Theorem | States | Assumes |
|---|---|---|
| `BridgeInvariant` | `Spec => []IInv`, types included | nothing |
| `PanesAreCurrent` | `Spec => []ScreenCurrent` | nothing |
| `RepliesReachTheirCaller` | `Spec => []RepliesExact` | nothing |
| `GivenUpForACause` | `Spec => GivenUpWithCause` | nothing |
| `FiguresAreInPlace` | `Spec => []DrawnInPlace` | every drawing is `Balanced` |

`Pictured` makes `ScreenCurrent` inductive: a pane at rest that does not show
its latest batch is being painted, or has a thread between `Store` and `Poke` with
this very batch; so has one that is painted from a snapshot that is no longer the latest.
`Replies` does so for `RepliesExact`: a thread that asks has its slot and no
reply, or its reply and no slot, and what it hands over is its query.
`GivenUpWithCause` connects the two by the number of a batch, so the invariant adds
`Serial`: numbers tell apart the batches that are built, handed over, kept, painted and
shown, and a pane that keeps the number of a batch a thread is handing over
keeps that batch. `SnapshotExact` is the same of the paint under way: what it
works through is the batch that has its number. Then `PaintedAnswered` is inductive: a
query whose batch is shown, or all executed by the paint under way, has its answer.
A query that waits on a pane with no paint due and nothing newer stored is
therefore answered, still to be reached by the paint under way, or on a pane that
could not be painted.

The paint is followed step by step, with the other threads' steps in between:
`StepKinds` sorts its steps into those that open one, go on with it and close
it; `ExecuteKeeps`, and `Delivered` for a query, say what one command does;
`StepPainted` that a paint puts on the screen only what it has executed. The proof of
each part has a step for each action of `Next`.

A batch that pushes an offset it does not pop leaves it in the pane's target for
the next frame, and one that pops too much takes what an abandoned frame left, so
`FiguresAreInPlace` is about programs whose batches are balanced: `iGui.EmitPushOffset` and
`iGui.EmitPopOffset` are the program's to pair, and nothing in the code pairs them. `InStep`
follows such a batch: after k commands the stack is what it was with the offsets
0, 1, ... of the open pushes on top, the target is at the depth of the batch, and
every figure so far is where it belongs (`DrawStep`). `FrameInPlace` claims that of
the frame under way, and `FrameSteps` shows that its steps keep it. At the end the
target is at offset zero again, which `Targets` keeps of every target no frame is
drawing on; an abandoned frame drops its target, and the GDI has none (`GdiKeepsTarget`).

### The editor

| Theorem of `EditorProofs` | States | Holds |
|---|---|---|
| `CleanAlways` | `Spec => []Clean`, types included | always |
| `CleanMeansSavedHolds` | `Spec => []CleanMeansSaved` | unless `torn` |
| `DiagnosticsCurrentHolds` | `Spec => []DiagnosticsCurrent` | always |
| `StraightAlways` | `Spec => []Straight`, that is `astray = {} => Exact(ed)` | until astray |
| `CursorInTextHolds` | `Spec => []CursorInText` | until astray |
| `HistoryExactHolds` | `Spec => []HistoryExact` | until astray |

They hold for any alphabet, files, clipboards, patterns and replacements, for
stacks and texts of any size, and for a user who does anything the keys allow,
including what leads astray: the redo of a deletion, a replacement by nothing, a
return alone on the clipboard (items 9, 10 and 12
[below](#where-code-and-documentation-disagree)). A load brings the history back. A
redo stack that a replacement by nothing has left behind is cleared by the next
ordinary edit, and a return that was pasted may be undone; the theorems claim nothing
of what that repairs.

`Clean` is types and the two properties, and every operation is followed for what it
does to the marks: one that changes the text sets both (`Marked`, `MarkedTwice`
for operations that are made of others, `MarkedReplaceEach` by induction
over the rounds of replace-all).

`HistoryExact` compares texts and is not inductive: an entry that merges ten
keystrokes is right only because each of them was next to the one before, and
that an undo brings back a text says nothing about the cursor it restores.
`Exact` asks of every entry on both stacks that it is `Sound`: there are
a part before and a part behind such that the two joined are one of its texts, and
with the entry's own text between them the other one; start and end are the positions
at the seams, and the two cursors are positions of the two texts. That is what
typing and backspaces extend (`SoundTyping`, `SoundBackspace`), and from it
undo and redo compute the very text (`SoundUndone`, `SoundRedone`).
`Undoes` and `Redoes` chain the entries to the text on the screen; pushing, growing,
popping and dropping the oldest keep the chain (`UndoesPushed`, `UndoesGrown`,
`UndoesLast`, `RedoesAppended`).

Returns that stand before a newline on a clipboard are dropped by the paste, and until
one is pasted alone the text consists of `Plain` characters. Below that are facts
about texts, by which rows and columns become
something to calculate with: `Nth` counts (`Rank`), `PosOf` and `OffsetOf` are
inverse on every text (`OffsetOfPos`), a position does not depend on what
stands behind it (`PosBehind`), the end that is counted is the position the text gives
(`EndOfIs`), and a text without returns is decoded to itself (`UnixSame`, `DecodedIs`).

### Only model-checked

- the liveness properties: fairness and ENABLED are not supported by the prover;
- `RopeBuffer`, `Parser` and `Grammar`, `Typing` to `Compile`: algorithms
  over trees, written with RECURSIVE operators, which the prover does
  not accept. What they compute is checked on every input within the bounds. That
  the editor may take the rope for its text, in particular, is what `rope_safe`
  checks and no theorem states.

## Where code and documentation disagree

The first eighteen are counterexamples of TLC, in a run or in one of the further
configurations.

1. `gc.rs:943`, `GcSafepoint_disturbed`, `HarmlessUnsettled`. The state says PARKED
   until after the wake-up; a collection requested in between counts the mutator as
   parked.
2. `gc.rs:1162`, `GcSafepoint_disturbed`, `HarmlessUnscanned`. `stack_top` stays 0 in
   every process that runs a compiled program, because only `gc.rs`'s own tests call
   `__newbcpl_init_gc` or `__newbcpl_register_thread`; stack and registers are
   then not scanned, against `gc.rs:18` and `docs/test_matrix.md:199`.
3. `gc.rs:1057`, run `safepoint_lost_wakeup`. The abort path notifies without
   the mutex that the normal path takes.
4. `gc.rs:858`, `GcHeap_astray`, `HarmlessSliver`. A block that was handed out with a
   16-byte leftover gets a header without it; walks end at the hole.
5. `emit.rs:287`, `GcHeap_astray`, `HarmlessUnlisted`. The descriptors list no pointer
   fields.
6. `channels.rs:284`, `EventMailbox_poll`. A time-out of 0 never looks at the
   channel.
7. `lower.rs:657`, `UsingCleanup_promises`, `NothingSkipped`. RESULTIS inside a VALOF
   skips the cleanups that the guide (701-704) promises.
8. `lower.rs:1702`, run `compile_swap`. A multiple assignment stores each value before
   it evaluates the next; the guide (438) swaps two variables with one.
9. `bedit.rs:1383`, `Editor_astray`, `RedoExact`. The redo of a deletion splices the
   text in once more.
10. `bedit.rs:888`, `Editor_astray`, `HarmlessReplace`. A replacement by nothing keeps
    the redo stack of the text before it.
11. `cp_exports.rs:952`, `SurfaceBridge_draft`. A measurement begins a batch of its
    own and drops the one being built; `batch::restore_current`, meant for
    this, is called by nobody.
12. `bedit.rs:789`, `Editor_astray`, `HarmlessReturn`. `splice_in` counts the end of an
    insertion from its newlines, and a comment there calls that equivalent to the
    position the rope gives; a return without a newline is a newline to the rope only
    (`rope_buffer.rs:781`), and the cursor ends where no text is.
13. `gc.rs:1016`, `GcSafepoint_disturbed`, `HarmlessOverlap`. Nothing keeps a second
    thread out of `collect_stw`, though a comment there (1026) speaks of a concurrent
    collector; each takes the other for parked.
14. `gc.rs:1024`, `GcSafepoint_disturbed`, `HarmlessLate`. The collector works through
    the mutators it found at its beginning; one that registers later runs on under it.
15. `lower.rs:871`, `UsingCleanup_promises`, `ShadowingHarmless`. The receiver of the
    cleanup's RELEASE is looked up by name where the USING is left; a name bound again
    inside gets the call, and the object is not released.
16. `bedit.rs:2597`, `Editor_astray`, `UnmarkedIsSaved`. The file is emptied before a
    write can fail, and the title goes on saying that nothing is modified.
17. `rope_buffer.rs:6`, `RopeBuffer_balance`. The header names the AVL invariant; a text of
    five leaves is built without it (`build_rope_from_slice`, 432).
18. `lower.rs:2379`, `Compile_poll`. The comment has a poll at every loop back-edge; a LOOP
    in WHILE, UNTIL and REPEAT, and a GOTO backwards, lead to the next round past it.

The following were met while the code was translated. The models do what the
code does and the inputs stay clear of these, unless said otherwise.

*Collector and mailbox.* A thread that registers twice; a thread that exits after the snapshot and is still
scanned; GLOBAL variables, which no caller registers as roots; the free-list link
the sweep writes before a finalizer reads the payload (`gc.rs:1388`); the
unbounded stash; a program that takes `FrameClose` and leaves the worker waiting.

*Surface bridge.* Batches for closed or unknown panes stay in `PANE_STATES`
(`batch.rs:310`); slots of requests that were given up stay in `SLOTS`
(`replies.rs:83`); the slots for saved rectangles are shared by all panes
(`child.rs:698`); a pane without area never answers. All but the rectangles are
in the model.

*Editor.* Enter, Tab and Backspace in the prompt also reach the text through
`WM_CHAR`, against the comment at `bedit.rs:2830` (in the model); `find_next`
goes on from the middle of a character of several bytes (1170);
`find_bracket_match` passes offsets in characters where bytes are expected
(1070); redo pushes past `UNDO_CAP` (in the model).

*Parser.* `v!i!j` is read as `v!(i!j)` (`parser.rs:2353`; the guide's grammar has one
level for all postfix operators, and `Grammar` writes the brackets); `|` in parentheses
inside a lane ends the lane (2380); a name after AND and before a
parenthesis starts a declaration (124); what an AND chain in a block or class leaves over
surfaces at the top level (1018); of several DEFAULTs the last wins (1957);
TEST takes no DO; a literal above the range of 64 bits is refused (2752). The
guide has FUNCTION and ROUTINE at the top level, which `parse_decl` refuses (202).

*Translation.* FOR evaluates its end in every round (`lower.rs:1094`) and, with a
negative step that is not a literal, still counts up (1083); one that runs to the
largest word never passes it. AND and OR
evaluate both sides. BREAK in a SWITCHON leaves the SWITCHON. A VALOF without
RESULTIS reads a slot nobody wrote. `VEC k` has k items (`emit.rs:1607`), where the guide (331)
has indices 0..k and `ast.rs:571` k+1 elements (in `Meaning` as in the code). A
LET in a loop takes new
stack in every round. FINISH returns from one function only. STATIC is not
lowered; GLOBAL takes integer literals only. A LET, RETAIN or USING that is a
whole body leaks its name. Two PAIRs added are added as words. A field of
FLET initialised with an integer holds the integer's bits; words and doubles
that meet are mixed bit by bit. The CREATE the compiler makes skips its
parent's. A class that extends itself through others recurses for ever. REST
called as a unary operator has the wrong number of arguments; a FOREACH over
`TL l` takes the list for a word; `VEC [7]` is a size; SUPER finds no
method that only a grandparent defines.

## What is not modelled

- *Allocation policy.* `alloc_bytes_since_collect` and its threshold only decide
  when a collection happens; the models let it happen at any allocation.
- *Finalizers.* They are queued by the sweep and run after it; no descriptor in
  the repository has one.
- *The three phases at machine level.* `MarkStacks`, `MarkRoots` and `Sweep` are
  three steps under the heap lock; the words of a stack are a set of blocks.
- *The collector in compiled programs.* `Machine` never collects; polls are
  recorded, and `GcSafepoint` says what they are for.
- *FQUAD and FOCT lanes, AS annotations, warnings, strings as characters,
  assembler procedures, input and files.* Left out of the chain from `Typing` to
  `Machine`.
- *Lexer.* A function from characters to tokens without state between tokens; its
  classes of characters are what the models abstract away.
- *LLVM, GET expansion, linked modules, sections, BRK, the loader.* Text and
  bookkeeping around calls into LLVM and the operating system.
- *Window procedures and drawing.* What they push is the input of
  `EventMailbox`, what they paint a place on a pane. Menus, dialogs,
  scrolling, highlighting and fonts are left out.
- *Text panes and log view, audio.* Queues, rings and slot tables; in the plan.

## Plan

Done: the handshake with its contract and proofs, the heap with its contract,
the mailbox, the cleanups, the drawing panes and the editor with their proofs, the rope, the parser
against the guide's grammar, the translation against the guide's meaning. Next:

1. Theorems about `RopeBuffer`, once its descents are functions of the height of a
   tree instead of RECURSIVE operators: `Join` keeps a tree balanced, and every edit
   is that of `TextLines`.
2. `TextPane`, `LogRing`, `AudioSlots`: queues, rings and slot tables at their limits.
3. `GetExpansion`, `JitSections`: cycles of GET, lifetime of sections.
4. Composition: `EventMailbox` with `SurfaceBridge` as the two threads of the
   graphical mode; `Machine` with `GcHeap`, so that compiled programs are collected.
