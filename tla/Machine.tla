------------------------------ MODULE Machine ------------------------------
(***************************************************************************)
(* What the blocks of Lowering do once newbcpl-llvm/src/emit.rs has turned *)
(* them into machine code and the runtime is linked in.  A value carries   *)
(* the type LLVM gave it: <<"i", n>> a word, <<"f", x>> a double, <<"p", a>>*)
(* an address.  Memory is a sequence of words; the word at byte address a  *)
(* is memory[a \div 8], and address 0 is null.  A stack frame is one call. *)
(***************************************************************************)
EXTENDS Lowering, Bitwise

VARIABLES
    code,      \* what Lower made of the program
    stack,     \* the frames, the running one last
    memory,    \* slots of frames, objects, vectors and lists
    globals,   \* the value of every GLOBAL
    output     \* what the program has written

machine == <<code, stack, memory, globals, output>>

(***************************************************************************)
(* Values.                                                                 *)
(***************************************************************************)

Undef == <<"undef">>
Wrap(n) == ((n + 2 ^ (WordBits - 1)) % 2 ^ WordBits) - 2 ^ (WordBits - 1)
Unsigned(n) == n % 2 ^ WordBits

\* The bits of a double: all zero for 0.0, far from small integers otherwise.
FloatBits(x) == IF x = 0 THEN 0 ELSE 2 ^ (WordBits - 2) + x
FloatOf(n) == IF n = 0 THEN 0 ELSE n - 2 ^ (WordBits - 2)

\* basic_type_for; the FQUAD and FOCT vectors are left out.
TypeFor(hint) ==
    CASE hint = "Float" -> "f"
      [] hint \in Pointers \cup {"Function", "Null"} -> "p"
      [] OTHER -> "i"

\* The same bits seen as another type: a bitcast, ptrtoint or inttoptr.
Bits(v) == IF v[1] = "f" THEN FloatBits(v[2]) ELSE v[2]
As(type, v) ==
    IF v[1] \notin {"i", "f", "p"} THEN Undef
    ELSE IF v[1] = type THEN v
    ELSE <<type, IF type = "f" THEN FloatOf(Bits(v)) ELSE Bits(v)>>
\* as_int_word and as_float_value
AsWord(v) == As("i", v)
AsFloat(v) == CASE v[1] = "f" -> v [] v[1] = "i" -> <<"f", v[2]>> [] OTHER -> <<"f", 0>>
\* coerce_to_hint: a store into a slot converts between words and doubles.
Coerced(v, hint) ==
    CASE v[1] = "i" /\ hint = "Float" -> <<"f", v[2]>>
      [] v[1] = "f" /\ hint \in {"Int", "Word"} -> <<"i", v[2]>>
      [] OTHER -> v

Truth(b) == <<"i", IF b THEN 1 ELSE 0>>
True(v) == v[2] # 0

\* Division towards zero.
Quotient(a, b) ==
    LET q == (IF a < 0 THEN -a ELSE a) \div (IF b < 0 THEN -b ELSE b)
    IN IF (a < 0) = (b < 0) THEN q ELSE -q
ShiftLeft(a, n) == Wrap((Unsigned(a) % 2 ^ (WordBits - n)) * 2 ^ n)
ShiftRight(a, n) == a \div 2 ^ n

Compare(op, a, b) ==
    CASE op = "=" -> a = b [] op = "~=" -> a # b [] op = "<" -> a < b
      [] op = "<=" -> a <= b [] op = ">" -> a > b [] op = ">=" -> a >= b
WordOp(op, a, b) ==
    CASE op = "+" -> Wrap(a + b)
      [] op = "-" -> Wrap(a - b)
      [] op = "*" -> Wrap(a * b)
      [] op = "/" -> Wrap(Quotient(a, b))
      [] op = "REM" -> a - b * Quotient(a, b)
      [] op = "BAND" -> Wrap(Unsigned(a) & Unsigned(b))
      [] op = "BOR" -> Wrap(Unsigned(a) | Unsigned(b))
      [] op = "BXOR" -> Wrap(Unsigned(a) ^^ Unsigned(b))
      [] op = "<<" -> ShiftLeft(a, b)
      [] op = ">>" -> ShiftRight(a, b)
FloatOp(op, a, b) ==
    CASE op = "f+" -> a + b [] op = "f-" -> a - b [] op = "f*" -> a * b
      [] op = "f/" -> Quotient(a, b)

\* lower_binop: words for the integer family, doubles for the other.
Comparisons == {"=", "~=", "<", "<=", ">", ">="}
FloatComparison == [op \in {"f" \o c : c \in Comparisons} |->
                       CHOOSE c \in Comparisons : op = "f" \o c]
Binop(op, l, r) ==
    LET a == AsWord(l)[2]
        b == AsWord(r)[2]
        x == AsFloat(l)[2]
        y == AsFloat(r)[2]
    IN CASE op \in Comparisons -> Truth(Compare(op, a, b))
         [] op \in DOMAIN FloatComparison -> Truth(Compare(FloatComparison[op], x, y))
         [] op \in {"f+", "f-", "f*", "f/"} -> <<"f", FloatOp(op, x, y)>>
         [] OTHER -> <<"i", WordOp(op, a, b)>>
Unop(op, v) ==
    CASE op = "-" -> <<"i", Wrap(-v[2])>>
      [] op = "f-" -> <<"f", -AsFloat(v)[2]>>
      [] op = "BNOT" -> <<"i", -v[2] - 1>>

(***************************************************************************)
(* Packed lanes.                                                           *)
(***************************************************************************)

LaneCount == [PAIR |-> 2, FPAIR |-> 2, QUAD |-> 4, OCT |-> 8]
\* A lane of FPAIR is a short double.
LaneFloatBits(x) == IF x = 0 THEN 0 ELSE 2 ^ (WordBits \div 2 - 2) + x
LaneFloatOf(n) == IF n = 0 THEN 0 ELSE n - 2 ^ (WordBits \div 2 - 2)

LaneWord(kind, v) == IF kind = "FPAIR" THEN LaneFloatBits(v[2]) ELSE AsWord(v)[2]
SetLane(kind, packed, lane, v) ==
    LET bits == LaneBits(LaneCount[kind])
        mask == ShiftLeft(2 ^ bits - 1, bits * lane)
        payload == Unsigned(LaneWord(kind, v)) & (2 ^ bits - 1)
    IN Wrap((Unsigned(packed) & Unsigned(-mask - 1))
            | Unsigned(ShiftLeft(payload, bits * lane)))
GetLane(kind, packed, lane) ==
    LET bits == LaneBits(LaneCount[kind])
        n == ShiftRight(ShiftLeft(packed, WordBits - bits - bits * lane), WordBits - bits)
    IN IF kind = "FPAIR" THEN <<"f", LaneFloatOf(n)>> ELSE <<"i", n>>
\* build_packed_word
Packed(kind, vs) ==
    <<"i", InOrder(LAMBDA acc, i: SetLane(kind, acc, i - 1, vs[i]), 0,
                   [i \in DOMAIN vs |-> i])>>

(***************************************************************************)
(* Memory and the runtime's lists and vectors.                             *)
(***************************************************************************)

Zero == <<"i", 0>>
Zeros(n) == [i \in 1 .. n |-> Zero]
At(mem, a) == IF a % 8 = 0 /\ a \div 8 \in DOMAIN mem THEN mem[a \div 8] ELSE Undef
Put(mem, a, v) == [mem EXCEPT ![a \div 8] = v]
\* The address of the next block.
Brk(mem) == 8 * (Len(mem) + 1)
Block(mem, cells) == [mem |-> mem \o cells, v |-> <<"p", Brk(mem)>>]

ByteBits == WordBits \div 8
GetByte(mem, a) ==
    (Unsigned(mem[a \div 8][2]) \div 2 ^ (ByteBits * (a % 8))) % 2 ^ ByteBits
PutByte(mem, a, n) ==
    LET low == 2 ^ (ByteBits * (a % 8))
        rest == Unsigned(mem[a \div 8][2]) - GetByte(mem, a) * low
    IN [mem EXCEPT ![a \div 8] = <<"i", Wrap(rest + (n % 2 ^ ByteBits) * low)>>]

\* VEC: the length, then the elements; the pointer is past the length.
NewVec(mem, cells) ==
    LET block == Block(mem, <<<<"i", Len(cells)>>>> \o cells)
    IN [mem |-> block.mem, v |-> <<"p", block.v[2] + 8>>]
\* One constant integer is a size, anything else the elements.
VecConstruct(mem, operands, vs, float) ==
    IF Len(vs) = 1 /\ operands[1][1] = "int" THEN NewVec(mem, Zeros(vs[1][2]))
    ELSE NewVec(mem, [i \in DOMAIN vs |-> IF float THEN AsFloat(vs[i]) ELSE vs[i]])

\* A list header: tag, length, first and last atom.
NewList(mem) == Block(mem, Zeros(4))
Field3(mem, a, k) == At(mem, a + 8 * k)[2]
\* append_atom: tag, value and next of a new atom, linked behind the last one.
AppendAtom(list, v) ==
    LET hdr == list.v[2]
        atom == Block(list.mem, <<Zero, AsWord(v), Zero>>)
        link == IF Field3(list.mem, hdr, 2) = 0 THEN Put(atom.mem, hdr + 16, atom.v)
                ELSE Put(atom.mem, Field3(list.mem, hdr, 3) + 16, atom.v)
    IN [mem |-> Put(Put(link, hdr + 24, atom.v), hdr + 8,
                    <<"i", Field3(list.mem, hdr, 1) + 1>>), v |-> list.v]
ListConstruct(mem, vs) == InOrder(AppendAtom, NewList(mem), vs)

RECURSIVE Atoms(_, _)
Atoms(mem, atom) ==
    IF atom = 0 THEN <<>> ELSE <<At(mem, atom + 8)>> \o Atoms(mem, Field3(mem, atom, 2))

ListHd(mem, hdr) ==
    IF hdr = 0 \/ Field3(mem, hdr, 2) = 0 THEN Zero
    ELSE At(mem, Field3(mem, hdr, 2) + 8)
\* A new header on the same atoms.
ListTl(mem, hdr) ==
    LET head == Field3(mem, hdr, 2)
        next == At(mem, head + 16)
        cells == <<Zero, <<"i", Field3(mem, hdr, 1) - 1>>, next, At(mem, hdr + 24)>>
    IN IF hdr = 0 \/ head = 0 THEN [mem |-> mem, v |-> Zero]
       ELSE IF next[2] = 0 THEN NewList(mem) ELSE Block(mem, cells)
Concat(mem, a, b) ==
    LET all(hdr) == IF hdr = 0 THEN <<>> ELSE Atoms(mem, Field3(mem, hdr, 2))
    IN ListConstruct(mem, all(a) \o all(b))

(***************************************************************************)
(* Frames.                                                                 *)
(***************************************************************************)

Running == stack # <<>>
Top == stack[Len(stack)]
BlockOf(frame) == code.functions[frame.fn].blocks[frame.block]
AtEndOfBlock == Top.at > Len(BlockOf(Top).code)
Ins == BlockOf(Top).code[Top.at]
Term == BlockOf(Top).term
Is(op) == Running /\ ~AtEndOfBlock /\ Ins[1] = op
Ends(term) == Running /\ AtEndOfBlock /\ Term[1] = term

\* lower_value
Operand(op) ==
    CASE op[1] = "int" -> <<"i", Wrap(op[2])>>
      [] op[1] = "float" -> <<"f", op[2]>>
      [] op[1] \in {"null", "unit"} -> Zero
      [] op[1] = "local" -> IF op[2] \in DOMAIN Top.vals THEN Top.vals[op[2]] ELSE Undef
      [] op[1] = "fn" -> <<"fn", op[2]>>
Operands(ops) == [i \in DOMAIN ops |-> Operand(ops[i])]
Address(op) == As("p", Operand(op))[2]

\* The operands an instruction reads.
Uses(ins) ==
    CASE ins[1] \in {"load", "un", "fieldload", "iload"} ->
           {ins[IF ins[1] = "un" THEN 4 ELSE 3]}
      [] ins[1] \in {"store", "istore", "gep", "lane"} -> {ins[3], ins[4]}
      [] ins[1] = "bin" -> {ins[4], ins[5]}
      [] ins[1] = "setlane" -> {ins[3], ins[4], ins[5]}
      [] ins[1] = "fieldstore" -> {ins[3], ins[5]}
      [] ins[1] = "gstore" -> {ins[4]}
      [] ins[1] \in {"call", "make", "new"} -> Range(ins[4])
      [] ins[1] = "method" -> {ins[3]} \cup Range(ins[6])
      [] ins[1] = "lookup" -> {ins[3]} \cup Range(ins[5])
      [] OTHER -> {}
TermUses(term) == IF term[1] \in {"ret", "if", "switch"} THEN {term[2]} ELSE {}

\* The frame after its instruction, with a value for what it defines.
With(v) == [Top EXCEPT !.at = @ + 1, !.vals = IF Ins[2] = 0 THEN @ ELSE Bound(@, Ins[2], v)]
Advanced(frame) == stack' = [stack EXCEPT ![Len(stack)] = frame]
Yields(v) == Advanced(With(v))
\* A poll of the collector ends the trail of blocks of every frame.
Polled(frames) == [i \in DOMAIN frames |-> [frames[i] EXCEPT !.trail = <<>>]]

\* A call: parameters are words; every function polls when it is entered.
Frame(fn, args, dst, hint) ==
    LET params == code.functions[fn].params
    IN [fn |-> fn, block |-> 1, at |-> 1, dst |-> dst, hint |-> hint, trail |-> <<1>>,
        vals |-> [id \in Range(params) |->
                     LET i == CHOOSE j \in DOMAIN params : params[j] = id
                     IN IF i \in DOMAIN args THEN AsWord(args[i]) ELSE Undef],
        slots |-> NoBinding]
Push(caller, fn, args, dst, hint) ==
    stack' = Append(Polled([stack EXCEPT ![Len(stack)] = caller]), Frame(fn, args, dst, hint))
Skipped == [Top EXCEPT !.at = @ + 1]

(***************************************************************************)
(* Instructions on memory and values.                                      *)
(***************************************************************************)

ExecAlloca ==
    /\ Is("alloca")
    /\ memory' = Append(memory, Undef)
    /\ Advanced([With(<<"p", Brk(memory)>>) EXCEPT !.slots = Bound(@, Ins[2], Ins[3])])
    /\ UNCHANGED <<code, globals, output>>

ExecLoad ==
    /\ Is("load")
    /\ Yields(As(TypeFor(Ins[4]), At(memory, Address(Ins[3]))))
    /\ UNCHANGED <<code, memory, globals, output>>

\* Variant of ExecStore: without the conversion to the type of the slot.
ExecStoreRaw ==
    /\ Is("store")
    /\ memory' = Put(memory, Address(Ins[3]), Operand(Ins[4]))
    /\ Advanced(Skipped)
    /\ UNCHANGED <<code, globals, output>>

ExecStore ==
    /\ Is("store")
    /\ memory' = Put(memory, Address(Ins[3]), Coerced(Operand(Ins[4]), Top.slots[Ins[3][2]]))
    /\ Advanced(Skipped)
    /\ UNCHANGED <<code, globals, output>>

ExecBinary ==
    /\ Is("bin")
    /\ Yields(Binop(Ins[3], Operand(Ins[4]), Operand(Ins[5])))
    /\ UNCHANGED <<code, memory, globals, output>>

ExecUnary ==
    /\ Is("un")
    /\ Yields(Unop(Ins[3], Operand(Ins[4])))
    /\ UNCHANGED <<code, memory, globals, output>>

ExecGep ==
    /\ Is("gep")
    /\ Yields(<<"p", Address(Ins[3]) + Operand(Ins[4])[2] * Ins[5]>>)
    /\ UNCHANGED <<code, memory, globals, output>>

ExecIndirectLoad ==
    /\ Is("iload")
    /\ LET a == Address(Ins[3])
       IN Yields(IF Ins[5] = 1 THEN <<"i", GetByte(memory, a)>>
                 ELSE As(TypeFor(Ins[4]), At(memory, a)))
    /\ UNCHANGED <<code, memory, globals, output>>

ExecIndirectStore ==
    /\ Is("istore")
    /\ LET a == Address(Ins[3])
           v == Operand(Ins[4])
       IN memory' = IF Ins[5] = 1 THEN PutByte(memory, a, AsWord(v)[2]) ELSE Put(memory, a, v)
    /\ Advanced(Skipped)
    /\ UNCHANGED <<code, globals, output>>

ExecFieldLoad ==
    /\ Is("fieldload")
    /\ Yields(As(TypeFor(Ins[5]), At(memory, Address(Ins[3]) + Ins[4])))
    /\ UNCHANGED <<code, memory, globals, output>>

ExecFieldStore ==
    /\ Is("fieldstore")
    /\ memory' = Put(memory, Address(Ins[3]) + Ins[4], Operand(Ins[5]))
    /\ Advanced(Skipped)
    /\ UNCHANGED <<code, globals, output>>

ExecGlobalLoad ==
    /\ Is("gload")
    /\ Yields(As(TypeFor(Ins[4]), globals[Ins[3]]))
    /\ UNCHANGED <<code, memory, globals, output>>

ExecGlobalStore ==
    /\ Is("gstore")
    /\ globals' = [globals EXCEPT ![Ins[3]] = Operand(Ins[4])]
    /\ Advanced(Skipped)
    /\ UNCHANGED <<code, memory, output>>

ExecLaneExtract ==
    /\ Is("lane")
    /\ Yields(GetLane(Ins[5], AsWord(Operand(Ins[3]))[2], AsWord(Operand(Ins[4]))[2]))
    /\ UNCHANGED <<code, memory, globals, output>>

ExecLaneInsert ==
    /\ Is("setlane")
    /\ Yields(<<"i", SetLane(Ins[6], AsWord(Operand(Ins[3]))[2],
                             AsWord(Operand(Ins[4]))[2], Operand(Ins[5]))>>)
    /\ UNCHANGED <<code, memory, globals, output>>

\* emit_typed_construct; an allocation on the collector's heap polls.
ExecTypedConstruct ==
    /\ Is("make")
    /\ LET kind == Ins[3]
           vs == Operands(Ins[4])
           made == IF kind \in {"LIST", "MANIFESTLIST"} THEN ListConstruct(memory, vs)
                   ELSE VecConstruct(memory, Ins[4], vs, kind \in {"FVEC", "FTABLE"})
       IN IF kind \in DOMAIN LaneCount
          THEN Yields(Packed(kind, vs)) /\ UNCHANGED memory
          ELSE Yields(made.v) /\ memory' = made.mem
    /\ UNCHANGED <<code, globals, output>>

(***************************************************************************)
(* Calls.                                                                  *)
(***************************************************************************)

Callee == Ins[3]
InCode(name) == name \in DOMAIN code.functions

ExecCall ==
    /\ Is("call") /\ InCode(Callee[2])
    /\ Push(Skipped, Callee[2], Operands(Ins[4]), Ins[2], "direct")
    /\ UNCHANGED <<code, memory, globals, output>>

ExecSafepoint ==
    /\ Is("call") /\ Callee[2] = "safepoint"
    /\ stack' = Polled([stack EXCEPT ![Len(stack)] = Skipped])
    /\ UNCHANGED <<code, memory, globals, output>>

\* A builtin: what it returns and what it leaves in memory.
Runtime(name, args) ==
    LET W(i) == AsWord(args[i])[2]
        Gives(v) == [mem |-> memory, v |-> v]
    IN CASE name = "FLOAT" -> Gives(<<"f", W(1)>>)
         [] name = "FIX" -> Gives(<<"i", As("f", args[1])[2]>>)
         [] name = "MIN" -> Gives(<<"i", Min({W(1), W(2)})>>)
         [] name = "MAX" -> Gives(<<"i", Max({W(1), W(2)})>>)
         [] name = "ABS" -> Gives(<<"i", Max({W(1), -W(1)})>>)
         [] name = "len" -> Gives(IF W(1) = 0 THEN Zero ELSE At(memory, W(1) - 8))
         [] name = "list_len" -> Gives(IF W(1) = 0 THEN Zero ELSE At(memory, W(1) + 8))
         [] name = "list_hd" -> Gives(ListHd(memory, W(1)))
         [] name = "list_tl" -> ListTl(memory, W(1))
         [] name = "CONCAT" -> Concat(memory, W(1), W(2))
         [] name = "APND" ->
              [mem |-> AppendAtom([mem |-> memory, v |-> args[1]], args[2]).mem, v |-> Zero]
         [] name = "GETVEC" -> NewVec(memory, Zeros(W(1)))
         [] OTHER -> Gives(Zero)
Writes(name, args) ==
    CASE name = "WRITEN" -> <<AsWord(args[1])>>
      [] name = "FWRITE" -> <<As("f", args[1])>>
      [] OTHER -> <<>>

ExecRuntime ==
    /\ Is("call") /\ ~InCode(Callee[2]) /\ Callee[2] # "safepoint"
    /\ \E args \in {Operands(Ins[4])} : \E r \in {Runtime(Callee[2], args)} :
          /\ memory' = r.mem
          /\ output' = output \o Writes(Callee[2], args)
          /\ Yields(IF r.v[1] = "f" THEN r.v ELSE AsWord(r.v))
    /\ UNCHANGED <<code, globals>>

ClassAt(a) == At(memory, a)[2]
\* The body behind a slot; a slot nobody defines holds a stub that returns 0.
Invoke(entry, recv, args, hint) ==
    LET name == Mangle(entry.owner, entry.method)
        words == [i \in DOMAIN args |-> AsWord(args[i])]
    IN IF entry.owner # NoName THEN Push(Skipped, name, <<recv>> \o words, Ins[2], hint)
       ELSE Yields(As(TypeFor(hint), Zero))

ExecMethod ==
    /\ Is("method")
    /\ LET recv == As("p", Operand(Ins[3]))
       IN Invoke(code.layouts[ClassAt(recv[2])].vtable[Ins[5] + 1], recv,
                 Operands(Ins[6]), Ins[7])
    /\ UNCHANGED <<code, memory, globals, output>>

\* __newbcpl_lookup_method: the slot of that name in the object's own class.
ExecLookup ==
    /\ Is("lookup")
    /\ LET recv == As("p", Operand(Ins[3]))
           vtable == code.layouts[ClassAt(recv[2])].vtable
       IN Invoke(vtable[SlotOf(vtable, Ins[4]) + 1], recv, Operands(Ins[5]), Ins[6])
    /\ UNCHANGED <<code, memory, globals, output>>

\* NEW: a zeroed instance with its vtable, then the CREATE of its class.
ExecNew ==
    /\ Is("new")
    /\ LET class == Ins[3]
           layout == code.layouts[class]
           obj == Block(memory, <<<<"vtable", class>>>> \o Zeros(layout.size \div 8 - 1))
           create == layout.vtable[SlotOf(layout.vtable, "CREATE") + 1].owner
       IN /\ memory' = obj.mem
          /\ IF create = NoName THEN stack' = Polled([stack EXCEPT ![Len(stack)] = With(obj.v)])
             ELSE Push(With(obj.v), Mangle(create, "CREATE"), <<obj.v>> \o Operands(Ins[4]),
                       0, "direct")
    /\ UNCHANGED <<code, globals, output>>

(***************************************************************************)
(* The ends of blocks.                                                     *)
(***************************************************************************)

\* A double and a word come back in different registers.
Returned(v, type) == IF (v[1] = "f") # (type = "f") THEN Undef ELSE As(type, v)

ExecReturn ==
    /\ Ends("ret")
    /\ LET v == Returned(Operand(Term[2]), TypeFor(code.functions[Top.fn].hint))
           seen == IF Top.hint = "direct" THEN v ELSE Returned(v, TypeFor(Top.hint))
           caller == stack[Len(stack) - 1]
       IN stack' = IF Len(stack) = 1 THEN <<>>
                   ELSE Append(SubSeq(stack, 1, Len(stack) - 2),
                               [caller EXCEPT !.vals = IF Top.dst = 0 THEN @
                                                       ELSE Bound(@, Top.dst, seen)])
    /\ UNCHANGED <<code, memory, globals, output>>

Goes(id) ==
    Advanced([Top EXCEPT !.block = id, !.at = 1, !.trail = Append(@, id)])

ExecBranch ==
    /\ Ends("br")
    /\ Goes(Term[2])
    /\ UNCHANGED <<code, memory, globals, output>>

ExecCondBranch ==
    /\ Ends("if")
    /\ Goes(IF True(Operand(Term[2])) THEN Term[3] ELSE Term[4])
    /\ UNCHANGED <<code, memory, globals, output>>

ExecSwitch ==
    /\ Ends("switch")
    /\ LET arms == {i \in DOMAIN Term[3] :
                       AsWord(Operand(Term[3][i][1])) = AsWord(Operand(Term[2]))}
       IN Goes(IF arms = {} THEN Term[4] ELSE Term[3][Min(arms)][2])
    /\ UNCHANGED <<code, memory, globals, output>>

Step ==
    \/ ExecAlloca \/ ExecLoad \/ ExecStore \/ ExecBinary \/ ExecUnary \/ ExecGep
    \/ ExecIndirectLoad \/ ExecIndirectStore \/ ExecFieldLoad \/ ExecFieldStore
    \/ ExecGlobalLoad \/ ExecGlobalStore \/ ExecLaneExtract \/ ExecLaneInsert
    \/ ExecTypedConstruct \/ ExecCall \/ ExecSafepoint \/ ExecRuntime
    \/ ExecMethod \/ ExecLookup \/ ExecNew
    \/ ExecReturn \/ ExecBranch \/ ExecCondBranch \/ ExecSwitch
=============================================================================
