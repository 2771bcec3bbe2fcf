------------------------------ MODULE Compile ------------------------------
(***************************************************************************)
(* A program from its tree to its output: analysed (Typing, Layout),       *)
(* lowered (Lowering) and run (Machine), next to what it means (Meaning).  *)
(***************************************************************************)
EXTENDS Machine

CONSTANT Programs   \* what Build makes of some sources, each with a routine START

VARIABLES source, meant

vars == <<source, meant, machine>>

Guide == INSTANCE Meaning

\* build_ir: a source with its code, and next to them what it should write.
Build(tree) == [source |-> tree, code |-> Lower(Analyze(tree)), meant |-> Guide!Written(tree)]

ASSUME ProgramsAssumption == Programs = {Build(p.source) : p \in Programs}

\* run_program_ir up to the call of START.
CallStart(program) ==
    /\ source = program.source /\ meant = program.meant /\ code = program.code
    /\ globals = [g \in DOMAIN code.globals |-> <<"i", code.globals[g]>>]
    /\ stack = <<[fn |-> "START", block |-> 1, at |-> 1, dst |-> 0, hint |-> "direct",
                  trail |-> <<1>>, vals |-> NoBinding, slots |-> NoBinding]>>
    /\ memory = <<>> /\ output = <<>>

Init == \E program \in Programs : CallStart(program)

Run == Step /\ UNCHANGED <<source, meant>>

Halted == stack = <<>>
Rest == Halted /\ UNCHANGED vars

Next == Run \/ Rest

\* Nothing holds up compiled code that can go on.
Spec == Init /\ [][Next]_vars /\ WF_vars(Run)

(***************************************************************************)
(* Properties.                                                             *)
(***************************************************************************)

\* A program writes what the user guide says it writes, in that order, and
\* when START has returned it has written all of it: typing, layout, lowering
\* and code generation together keep the meaning of the source.
RunsAsMeant ==
    /\ IsPrefix(output, meant)
    /\ Halted => output = meant

\* A program that ends according to the guide ends: no loop goes round for
\* ever, whichever of its ways into the next round it takes, and no jump
\* leads in a circle.
ProgramsEnd == <>Halted

\* No instruction reads a value that no instruction on its path has defined,
\* or a slot, field or element that nothing has been stored into: what
\* lower.rs emits on one path does not dangle on another.
OperandsDefined ==
    Running => \A op \in IF AtEndOfBlock THEN TermUses(Term) ELSE Uses(Ins) :
                   Operand(op) # Undef

\* The m-th block of a trail was entered before, and by a LOOP or a GOTO now.
JumpsBack(blocks, trail, m) ==
    /\ \E l \in 1 .. m - 1 : trail[l] = trail[m]
    /\ blocks[trail[m - 1]].term = JumpTo(trail[m])

\* Between two polls of the collector a frame enters a block again only by a
\* LOOP or a GOTO that leads straight back: a round that ends in any other
\* way polls, whatever path its body takes, and so does every LOOP that goes
\* on with a step or a test (FOR, FOREACH, REPEATWHILE, REPEATUNTIL).
PollsEveryRound ==
    \A i \in DOMAIN stack :
        LET trail == stack[i].trail
            blocks == code.functions[stack[i].fn].blocks
        IN \A j, k \in DOMAIN trail :
              (j < k /\ trail[j] = trail[k]) => \E m \in j + 1 .. k : JumpsBack(blocks, trail, m)

\* "Inserted at every loop back-edge" (emit_safepoint), of which LOOP in a
\* WHILE, an UNTIL or a REPEAT is one: no frame enters a block twice between
\* two polls.
EveryBackEdgePolls == \A i \in DOMAIN stack : IsInjective(stack[i].trail)

\* A method has one slot, the same in a class and in all its ancestors, and
\* a field keeps its offset: a call or an access compiled against an ancestor
\* is right for every object it can meet.
OverridesKeepSlots ==
    \A class \in DOMAIN code.layouts :
        LET own == code.layouts[class]
            above == IF own.parent = NoName THEN Root ELSE code.layouts[own.parent]
        IN /\ \A i, j \in DOMAIN own.vtable :
                 own.vtable[i].method = own.vtable[j].method => i = j
           /\ \A i \in DOMAIN above.vtable :
                 /\ i \in DOMAIN own.vtable
                 /\ own.vtable[i].method = above.vtable[i].method
           /\ IsPrefix(above.fields, own.fields)
           /\ above.size + 8 * (Len(own.fields) - Len(above.fields)) = own.size

=============================================================================
