------------------------------ MODULE Lowering ------------------------------
(***************************************************************************)
(* The lowering of typed trees to blocks of instructions                   *)
(* (newbcpl-ir/src/lower.rs).  A builder holds the function being made:    *)
(* its blocks, the block that receives instructions, the next value, and   *)
(* the stacks that tell where a name, BREAK, LOOP, RESULTIS or GOTO leads. *)
(* An instruction is a tuple: its name, the value it defines (0 for none)  *)
(* and its operands.  Operands are <<"int", n>>, <<"float", n>>,           *)
(* <<"null">>, <<"local", value>>, <<"fn", name>> or <<"unit">>.           *)
(***************************************************************************)
EXTENDS Layout

CONSTANT WordBits   \* the width of a word: 64, or a smaller one with all widths in scale

(***************************************************************************)
(* The builder.                                                            *)
(***************************************************************************)

Open == <<"open">>
EmptyBlock == [code |-> <<>>, term |-> Open]
Builder(env, name, hint, class) ==
    [env |-> env, name |-> name, hint |-> hint, class |-> class,
     blocks |-> <<EmptyBlock>>, cur |-> 1, next |-> 1, scopes |-> <<NoBinding>>,
     frames |-> <<>>, labels |-> NoBinding, valofs |-> <<>>, cleanups |-> <<>>]

Word(n) == <<"int", n>>
Local(id) == <<"local", id>>
Made(b, v) == [b |-> b, v |-> v]

Emit(b, instr) == [b EXCEPT !.blocks[b.cur].code = Append(@, instr)]
\* An instruction that defines the next value.
Give(b, op, operands) ==
    Made([Emit(b, <<op, b.next>> \o operands) EXCEPT !.next = @ + 1], Local(b.next))
Alloca(b, hint) == Give(b, "alloca", <<hint>>)
Load(b, slot, hint) == Give(b, "load", <<slot, hint>>)
Store(b, slot, v) == Emit(b, <<"store", 0, slot, v>>)
Binary(b, op, l, r) == Give(b, "bin", <<op, l, r>>)
Call(b, name, args, hint) == Give(b, "call", <<<<"fn", name>>, args, hint>>)

Terminate(b, term) == [b EXCEPT !.blocks[b.cur].term = term]
CurrentOpen(b) == b.blocks[b.cur].term = Open
Seal(b, term) == IF CurrentOpen(b) THEN Terminate(b, term) ELSE b
SwitchTo(b, id) == [b EXCEPT !.cur = id]
Blocks(b, n) == [b EXCEPT !.blocks = @ \o [i \in 1 .. n |-> EmptyBlock]]
Fresh(b) == Len(b.blocks) + 1
\* A jump; what follows it goes to a block nothing leads to.
Leave(b, term) == SwitchTo(Blocks(Terminate(b, term), 1), Fresh(b))
Branch(id) == <<"br", id>>
\* A branch that LOOP or GOTO asks for, marked as such.
JumpTo(id) == <<"br", id, "jump">>

Enter(b) == [b EXCEPT !.scopes = Append(@, NoBinding)]
Exit(b) == [b EXCEPT !.scopes = IF Len(@) = 1 THEN <<NoBinding>> ELSE Front(@)]
DeclareLocal(b, name, slot, class) ==
    [b EXCEPT !.scopes[Len(b.scopes)] = Bound(@, name, [slot |-> slot, class |-> class])]
IsLocal(b, name) == Scope(b.scopes, name) # {}
LocalOf(b, name) == b.scopes[Max(Scope(b.scopes, name))][name]
\* A local with its first value.
Bind(b, name, v, hint, class) ==
    LET slot == Alloca(b, hint)
    IN DeclareLocal(Store(slot.b, slot.v, v), name, slot.v, class)

\* label_block: the first mention of a label makes its block.
LabelBlock(b, name) ==
    IF name \in DOMAIN b.labels THEN Made(b, b.labels[name])
    ELSE Made([Blocks(b, 1) EXCEPT !.labels = Bound(@, name, Fresh(b))], Fresh(b))

NoBlock == 0
PushFrame(b, break, continue) ==
    [b EXCEPT !.frames = Append(@, [break |-> break, continue |-> continue,
                                    cleanups |-> Len(b.cleanups)])]
PopFrame(b) == [b EXCEPT !.frames = Front(@)]
LoopFrames(b) == {i \in DOMAIN b.frames : b.frames[i].continue # NoBlock}

(***************************************************************************)
(* What lowering knows of classes.                                         *)
(***************************************************************************)

FieldOffset(b, class, field) ==
    IF class \notin DOMAIN b.env.layouts \/ field \notin NamesOf(b.env.layouts[class].fields)
    THEN {} ELSE {Named(b.env.layouts[class].fields, field).offset}
HasMethod(b, class, method) ==
    class \in DOMAIN b.env.layouts /\ method \in Methods(b.env.layouts[class].vtable)
ParentOf(b, class) ==
    IF class \in DOMAIN b.env.layouts THEN b.env.layouts[class].parent ELSE NoName
MethodSlot(b, class, method) == SlotOf(b.env.layouts[class].vtable, method)

RECURSIVE ClassNameOf(_, _)
ClassNameOf(b, e) ==
    CASE e[1] = "new" -> e[2]
      [] e[1] = "id" ->
           IF e[2] = "SELF" /\ b.class # NoName THEN b.class
           ELSE IF e[2] = "SUPER" THEN ParentOf(b, b.class)
           ELSE IF IsLocal(b, e[2]) THEN LocalOf(b, e[2]).class ELSE NoName
      [] e[1] = "bin" /\ e[2] = "." ->
           LET class == ClassNameOf(b, e[3])
           IN IF FieldOffset(b, class, e[4][2]) = {} THEN NoName
              ELSE Named(b.env.layouts[class].fields, e[4][2]).class
      [] e[1] = "call" /\ e[2][1] = "bin" /\ e[2][2] = "." ->
           LET class == ClassNameOf(b, e[2][3])
           IN IF ~HasMethod(b, class, e[2][4][2]) THEN NoName
              ELSE b.env.layouts[class].vtable[MethodSlot(b, class, e[2][4][2]) + 1].class
      [] OTHER -> NoName

LoadSelf(b) == Load(b, LocalOf(b, "SELF").slot, "Object")
FieldLoad(b, base, offset, hint) == Give(b, "fieldload", <<base, offset, hint>>)
FieldStore(b, base, offset, v) == Emit(b, <<"fieldstore", 0, base, offset, v>>)
\* A store to a field of SELF, when the class has it.
StoreOwnField(b, name, v) ==
    LET offset == FieldOffset(b, b.class, name)
        self == LoadSelf(b)
    IN IF offset = {} THEN b ELSE FieldStore(self.b, self.v, Min(offset), v)

(***************************************************************************)
(* Expressions.                                                            *)
(***************************************************************************)

RECURSIVE LowerExpr(_, _), LowerStmt(_, _)

LowerAll(b, exprs) ==
    InOrder(LAMBDA acc, e: LET x == LowerExpr(acc.b, e)
                            IN [b |-> x.b, vs |-> Append(acc.vs, x.v)],
             [b |-> b, vs |-> <<>>], exprs)

LowerIdent(b, e) ==
    LET name == e[2]
        offset == FieldOffset(b, b.class, name)
        self == LoadSelf(b)
    IN IF IsLocal(b, name) THEN Load(b, LocalOf(b, name).slot, Hint(e))
       ELSE IF name \in DOMAIN b.env.manifests THEN Made(b, Word(b.env.manifests[name]))
       ELSE IF name \in DOMAIN b.env.globals THEN Give(b, "gload", <<name, Hint(e)>>)
       ELSE IF offset # {} THEN FieldLoad(self.b, self.v, Min(offset), Hint(e))
       ELSE Made(b, <<"fn", name>>)

Floating == [x \in {"+", "-", "*", "/", "=", "~=", "<", "<=", ">", ">="} |-> "f" \o x]
Renamed == "NEQV" :> "BXOR" @@ "EQV" :> "="
BinopToIr(op, l, r) ==
    IF l \in FloatFamily /\ r \in FloatFamily /\ op \in DOMAIN Floating THEN Floating[op]
    ELSE IF op \in DOMAIN Renamed THEN Renamed[op] ELSE op

Stride == [x \in {"!", ".%"} |-> 8] @@ [x \in {"%"} |-> 1]
LoadHint == "!" :> "Word" @@ "%" :> "Int" @@ ".%" :> "Float"
SubscriptAddress(b, base, index, stride) ==
    LET both == LowerAll(b, <<base, index>>) IN Give(both.b, "gep", both.vs \o <<stride>>)

SimdKinds == [Pair |-> "PAIR", FPair |-> "FPAIR", Quad |-> "QUAD", FQuad |-> "FQUAD",
              Oct |-> "OCT", FOct |-> "FOCT"]
SimdKind(hint) == IF hint \in DOMAIN SimdKinds THEN SimdKinds[hint] ELSE "PAIR"

\* v %% (start, width); without a width the field is one bit.
BitfieldSplit(e) ==
    IF e[1] = "bin" /\ e[2] = "%%" THEN [start |-> e[3], width |-> <<e[4]>>]
    ELSE [start |-> e, width |-> <<>>]
BitfieldMask(b, width) ==
    IF width = <<>> THEN Made(b, Word(1))
    ELSE IF width[1][1] = "int"
    THEN Made(b, Word(2 ^ Max({0, Min({width[1][2], WordBits - 1})}) - 1))
    ELSE LET w == LowerExpr(b, width[1])
             one == Binary(w.b, "<<", Word(1), w.v)
         IN Binary(one.b, "-", one.v, Word(1))
BitfieldRead(b, value, field) ==
    LET f == BitfieldSplit(field)
        both == LowerAll(b, <<value, f.start>>)
        mask == BitfieldMask(both.b, f.width)
        shifted == Binary(mask.b, ">>", both.vs[1], both.vs[2])
    IN Binary(shifted.b, "BAND", shifted.v, mask.v)

\* AND, OR and XOR evaluate both sides and combine their truth.
LowerLogical(b, op, l, r) ==
    LET lhs == Binary(b, "~=", l, Word(0))
        rhs == Binary(lhs.b, "~=", r, Word(0))
    IN Binary(rhs.b, "B" \o op, lhs.v, rhs.v)

LowerMember(b, e) ==
    LET offset == FieldOffset(b, ClassNameOf(b, e[3]), e[4][2])
        base == LowerExpr(b, e[3])
    IN IF ClassNameOf(b, e[3]) = NoName THEN Made(b, <<"null">>)
       ELSE IF offset = {} THEN Made(base.b, <<"null">>)
       ELSE FieldLoad(base.b, base.v, Min(offset), Hint(e))

LowerBinary(b, e) ==
    LET op == e[2]
        both == LowerAll(b, <<e[3], e[4]>>)
        address == SubscriptAddress(b, e[3], e[4], Stride[op])
    IN CASE op = "%%" -> BitfieldRead(b, e[3], e[4])
         [] op = ".|" -> Give(both.b, "lane", both.vs \o <<SimdKind(Hint(e[3])), Hint(e)>>)
         [] op \in DOMAIN Stride ->
              Give(address.b, "iload", <<address.v, LoadHint[op], Stride[op]>>)
         [] op \in {".", "OF"} -> LowerMember(b, e)
         [] op \in {"AND", "OR", "XOR"} -> LowerLogical(both.b, op, both.vs[1], both.vs[2])
         [] OTHER -> Binary(both.b, BinopToIr(op, Hint(e[3]), Hint(e[4])),
                            both.vs[1], both.vs[2])

RuntimeHelper == "HD" :> "list_hd" @@ "TL" :> "list_tl" @@ "REST" :> "list_rest"
                 @@ "LEN" :> "len" @@ "FREEVEC" :> "freevec" @@ "FREELIST" :> "freelist"
LowerUnary(b, e) ==
    LET op == e[2]
        a == LowerExpr(b, e[3])
        helper == IF op = "LEN" /\ Hint(e[3]) = "List" THEN "list_len" ELSE RuntimeHelper[op]
    IN CASE op \in {"FREEVEC", "FREELIST"} ->
              Made(Emit(a.b, <<"call", 0, <<"fn", helper>>, <<a.v>>, Hint(e)>>), <<"unit">>)
         [] op \in {"HD", "TL", "REST", "LEN"} -> Call(a.b, helper, <<a.v>>, Hint(e))
         [] op = "!" -> Give(a.b, "iload", <<a.v, "Word", 8>>)
         [] op = "%" -> Give(a.b, "iload", <<a.v, "Int", 1>>)
         [] op = "@" -> Made(b, IF e[3][1] = "id" /\ IsLocal(b, e[3][2])
                                THEN LocalOf(b, e[3][2]).slot ELSE <<"null">>)
         [] op = "NOT" -> Binary(a.b, "=", a.v, Word(0))
         [] op = "-" -> Give(a.b, "un", <<IF Hint(e[3]) \in FloatFamily THEN "f-" ELSE "-", a.v>>)
         [] op = "BNOT" -> Give(a.b, "un", <<"BNOT", a.v>>)

Mangle(class, method) == class \o "_" \o method

\* SUPER.method calls the parent's body, obj.method goes through the slot of
\* its static class, or by name when that class is unknown or has no such slot.
LowerMethodCall(b, e) ==
    LET obj == e[2][3]
        method == e[2][4][2]
        parent == ParentOf(b, b.class)
        class == ClassNameOf(b, obj)
        self == LoadSelf(b)
        above == LowerAll(self.b, e[3])
        all == LowerAll(b, <<obj>> \o e[3])
    IN IF obj[1] = "id" /\ obj[2] = "SUPER" /\ parent # NoName
       THEN Call(above.b, Mangle(parent, method), <<self.v>> \o above.vs, Hint(e))
       ELSE IF HasMethod(b, class, method)
       THEN Give(all.b, "method", <<all.vs[1], class, MethodSlot(b, class, method),
                                    Tail(all.vs), Hint(e)>>)
       ELSE Give(all.b, "lookup", <<all.vs[1], method, Tail(all.vs), Hint(e)>>)

LowerCall(b, e) ==
    LET all == LowerAll(b, <<e[2]>> \o e[3])
    IN IF e[2][1] = "bin" /\ e[2][2] = "." THEN LowerMethodCall(b, e)
       ELSE IF e[2][1] = "id" /\ e[2][2] \in {"AS_INT", "AS_FLOAT"} THEN LowerExpr(b, e[3][1])
       ELSE Give(all.b, "call", <<all.vs[1], Tail(all.vs), Hint(e)>>)

\* Both arms store into one slot and go on in one block.
LowerArms(b, e) ==
    LET slot == Alloca(b, Hint(e))
        cond == LowerExpr(slot.b, e[2])
        then == Fresh(cond.b)
        split == Terminate(Blocks(cond.b, 3), <<"if", cond.v, then, then + 1>>)
        a == LowerExpr(SwitchTo(split, then), e[3])
        c == LowerExpr(SwitchTo(Terminate(Store(a.b, slot.v, a.v), Branch(then + 2)), then + 1),
                       e[4])
    IN [b |-> SwitchTo(Terminate(Store(c.b, slot.v, c.v), Branch(then + 2)), then + 2),
        slot |-> slot.v, last |-> c.v]

\* Variant of LowerConditional: the value of the arm lowered last.
LowerConditionalLast(b, e) == LET arms == LowerArms(b, e) IN Made(arms.b, arms.last)

LowerConditional(b, e) == LET arms == LowerArms(b, e) IN Load(arms.b, arms.slot, Hint(e))

\* RESULTIS stores into the slot and branches to the exit.
LowerValof(b, e) ==
    LET slot == Alloca(b, Hint(e))
        exit == Fresh(slot.b)
        inside == [Blocks(slot.b, 1) EXCEPT
                      !.valofs = Append(@, [slot |-> slot.v, exit |-> exit])]
        body == Seal(LowerStmt(inside, e[2]), Branch(exit))
    IN Load(SwitchTo([body EXCEPT !.valofs = Front(@)], exit), slot.v, Hint(e))

LowerExpr(b, e) ==
    CASE e[1] \in {"int", "bool"} -> Made(b, Word(e[2]))
      [] e[1] = "float" -> Made(b, <<"float", e[2]>>)
      [] e[1] = "null" -> Made(b, <<"null">>)
      [] e[1] = "id" -> LowerIdent(b, e)
      [] e[1] = "bin" -> LowerBinary(b, e)
      [] e[1] = "un" -> LowerUnary(b, e)
      [] e[1] = "call" -> LowerCall(b, e)
      [] e[1] = "cond" -> LowerConditional(b, e)
      [] e[1] = "valof" -> LowerValof(b, e)
      [] e[1] \in {"make", "new"} ->
           LET all == LowerAll(b, e[3]) IN Give(all.b, e[1], <<e[2], all.vs>>)

(***************************************************************************)
(* Statements.                                                             *)
(***************************************************************************)

Safepoint(b) == Emit(b, <<"call", 0, <<"fn", "safepoint">>, <<>>, "Word">>)

\* RELEASE for every USING opened since, innermost first.
Release(b, c) ==
    LET obj == Load(b, LocalOf(b, c.name).slot, "Object")
    IN IF ~IsLocal(b, c.name) THEN b
       ELSE IF ~HasMethod(b, c.class, "RELEASE") THEN obj.b
       ELSE Give(obj.b, "method", <<obj.v, c.class, MethodSlot(b, c.class, "RELEASE"),
                                    <<>>, "Word">>).b
CleanupsFrom(b, depth) ==
    InOrder(Release, b, Reverse(SubSeq(b.cleanups, depth + 1, Len(b.cleanups))))

LowerUsing(b, st) ==
    LET class == ClassNameOf(b, st[3])
        v == LowerExpr(b, st[3])
        bound == Bind(v.b, st[2], v.v, Hint(st[3]), class)
        c == [name |-> st[2], class |-> class]
        body == LowerStmt([bound EXCEPT !.cleanups = Append(@, c)], st[4])
        popped == [body EXCEPT !.cleanups = Front(@)]
    IN IF class = NoName THEN LowerStmt(bound, st[4])
       ELSE IF CurrentOpen(popped) THEN Release(popped, c) ELSE popped

If(cond, then, else, invert) ==
    IF invert THEN <<"if", cond, else, then>> ELSE <<"if", cond, then, else>>

\* A loop body, in a frame of its own.
LowerBody(b, body, break, continue) ==
    PopFrame(LowerStmt(PushFrame(b, break, continue), body))

LowerWhile(b, cond, body, invert) ==
    LET header == Fresh(b)
        exit == header + 2
        at == SwitchTo(Terminate(Blocks(b, 3), Branch(header)), header)
        c == LowerExpr(at, cond)
        split == Terminate(c.b, If(c.v, header + 1, exit, invert))
        done == LowerBody(SwitchTo(split, header + 1), body, exit, header)
    IN SwitchTo(IF CurrentOpen(done) THEN Terminate(Safepoint(done), Branch(header)) ELSE done,
                exit)

LowerRepeat(b, body) ==
    LET start == Fresh(b)
        at == SwitchTo(Terminate(Blocks(b, 2), Branch(start)), start)
        done == LowerBody(at, body, start + 1, start)
    IN SwitchTo(IF CurrentOpen(done) THEN Terminate(Safepoint(done), Branch(start)) ELSE done,
                start + 1)

\* LOOP goes to the test, where every round polls.
LowerRepeatCond(b, body, cond, invert) ==
    LET start == Fresh(b)
        test == start + 1
        at == SwitchTo(Terminate(Blocks(b, 3), Branch(start)), start)
        done == Seal(LowerBody(at, body, start + 2, test), Branch(test))
        c == LowerExpr(SwitchTo(done, test), cond)
    IN SwitchTo(Terminate(Safepoint(c.b), If(c.v, start, start + 2, invert)), start + 2)

NegativeLiteral(step) ==
    CASE step = <<>> -> FALSE
      [] step # <<>> /\ step[1] = "int" -> step[2] < 0
      [] step # <<>> /\ step[1] = "un" -> step[2] = "-" /\ step[3][1] = "int" /\ step[3][2] > 0
      [] OTHER -> FALSE

\* Variant of Advance: no poll.
AdvanceUnpolled(b, slot, step, header) ==
    LET i == Load(b, slot, "Int")
        by == IF step = <<>> THEN Made(i.b, Word(1)) ELSE LowerExpr(i.b, step)
        next == Binary(by.b, "+", i.v, by.v)
    IN Terminate(Store(next.b, slot, next.v), Branch(header))

\* The slot plus a step, the poll and the jump back.
Advance(b, slot, step, header) ==
    LET i == Load(b, slot, "Int")
        by == IF step = <<>> THEN Made(i.b, Word(1)) ELSE LowerExpr(i.b, step)
        next == Binary(by.b, "+", i.v, by.v)
    IN Terminate(Safepoint(Store(next.b, slot, next.v)), Branch(header))

\* Variant of ForBody: LOOP polls in a block of its own, which leads back to itself.
ForBodyStuck(b, body, header) ==
    LET poll == Fresh(b)
        done == LowerBody(Blocks(b, 1), body, header + 3, poll)
        back == SwitchTo(Seal(done, Branch(header + 2)), poll)
    IN SwitchTo(Terminate(Safepoint(back), Branch(poll)), header + 2)

\* The body; its end and LOOP both go on to the step.
ForBody(b, body, header) ==
    LET done == LowerBody(b, body, header + 3, header + 2)
    IN SwitchTo(Seal(done, Branch(header + 2)), header + 2)

\* The end and the step are evaluated again in every round.
LowerFor(b, st) ==
    LET start == LowerExpr(b, st[3])
        slot == Alloca(start.b, "Int")
        inside == DeclareLocal(Enter(Store(slot.b, slot.v, start.v)), st[2], slot.v, NoName)
        header == Fresh(inside)
        at == SwitchTo(Terminate(Blocks(inside, 4), Branch(header)), header)
        i == Load(at, slot.v, "Int")
        end == LowerExpr(i.b, st[4])
        more == Binary(end.b, IF NegativeLiteral(st[5]) THEN ">=" ELSE "<=", i.v, end.v)
        split == Terminate(more.b, <<"if", more.v, header + 1, header + 3>>)
        incr == ForBody(SwitchTo(split, header + 1), st[6], header)
    IN Exit(SwitchTo(Advance(incr, slot.v, st[5], header), header + 3))

\* Lane i of a packed word, moved up and back down with its sign.
LaneBits(n) == WordBits \div n
UnpackLane(b, names, i, elem) ==
    LET bits == LaneBits(Len(names))
        top == WordBits - bits * i
        up == Binary(b, "<<", elem, Word(top))
        raised == IF top > 0 THEN up ELSE Made(b, elem)
        down == Binary(raised.b, ">>", raised.v, Word(WordBits - bits))
    IN Bind(down.b, names[i], down.v, "Word", NoName)
UnpackLanes(b, names, elem) ==
    InOrder(LAMBDA c, i: UnpackLane(c, names, i, elem), b, [i \in DOMAIN names |-> i])
BindElement(b, names, elem) ==
    IF Len(names) = 1 THEN Bind(b, names[1], elem, "Word", NoName)
    ELSE UnpackLanes(b, names, elem)

LoadAt(b, slot, index, stride, hint) ==
    LET base == Load(b, slot, "Vec")
        i == IF index[1] = "slot" THEN Load(base.b, index[2], "Int") ELSE Made(base.b, index)
        addr == Give(i.b, "gep", <<base.v, i.v, stride>>)
    IN Give(addr.b, "iload", <<addr.v, hint, 8>>)

\* The rounds of a FOREACH: four blocks from header on, cond already there.
LowerRounds(split, header, names, elem(_), body, step(_)) ==
    LET e == elem(Enter(SwitchTo(split, header + 1)))
        bound == BindElement(e.b, names, e.v)
        done == LowerBody(bound, body, header + 3, header + 2)
        incr == SwitchTo(Exit(Seal(done, Branch(header + 2))), header + 2)
    IN SwitchTo(step(incr), header + 3)

LowerForEachVec(b, st) ==
    LET v == LowerExpr(b, st[3])
        iter == Alloca(v.b, "Vec")
        again == Load(Store(iter.b, iter.v, v.v), iter.v, "Vec")
        len == Call(again.b, "len", <<again.v>>, "Int")
        index == Alloca(len.b, "Int")
        ready == Store(index.b, index.v, Word(0))
        header == Fresh(ready)
        at == SwitchTo(Terminate(Blocks(ready, 4), Branch(header)), header)
        i == Load(at, index.v, "Int")
        more == Binary(i.b, "<", i.v, len.v)
        split == Terminate(more.b, <<"if", more.v, header + 1, header + 3>>)
    IN LowerRounds(split, header, st[2],
                   LAMBDA c: LoadAt(c, iter.v, <<"slot", index.v>>, 8, "Word"), st[4],
                   LAMBDA c: Advance(c, index.v, <<>>, header))

AtomValue == 8
AtomNext == 16
HeaderHead == 16
LowerForEachList(b, st) ==
    LET v == LowerExpr(b, st[3])
        list == Alloca(v.b, "List")
        first == LoadAt(Store(list.b, list.v, v.v), list.v, Word(HeaderHead), 1, "List")
        cursor == Alloca(first.b, "List")
        ready == Store(cursor.b, cursor.v, first.v)
        header == Fresh(ready)
        at == SwitchTo(Terminate(Blocks(ready, 4), Branch(header)), header)
        c == Load(at, cursor.v, "List")
        more == Binary(c.b, "~=", c.v, Word(0))
        split == Terminate(more.b, <<"if", more.v, header + 1, header + 3>>)
        Step(d) == LET next == LoadAt(d, cursor.v, Word(AtomNext), 1, "List")
                   IN Terminate(Safepoint(Store(next.b, cursor.v, next.v)), Branch(header))
    IN LowerRounds(split, header, st[2],
                   LAMBDA d: LoadAt(d, cursor.v, Word(AtomValue), 1, "Word"), st[4], Step)

LowerForEach(b, st) ==
    IF Len(st[2]) = 0 THEN b
    ELSE IF Hint(st[3]) = "List" THEN LowerForEachList(b, st) ELSE LowerForEachVec(b, st)

LowerStmts(b, stmts) == InOrder(LowerStmt, b, stmts)

\* One block per arm; an arm that ends falls into the next one.
LowerSwitchon(b, st) ==
    LET value == LowerExpr(b, st[2])
        n == Len(st[3])
        first == Fresh(value.b)
        labels == LowerAll(Blocks(value.b, n + 2), [i \in 1 .. n |-> st[3][i][1]])
        table == [i \in 1 .. n |-> <<labels.vs[i], first + i - 1>>]
        default == first + n
        entered == PushFrame(Terminate(labels.b, <<"switch", value.v, table, default>>),
                             default + 1, NoBlock)
        Arm(c, i) == Seal(LowerStmts(SwitchTo(c, first + i - 1), st[3][i][2]),
                          Branch(first + i))
        arms == InOrder(Arm, entered, [i \in 1 .. n |-> i])
        others == LowerStmts(SwitchTo(arms, default), IF st[4] = <<>> THEN <<>> ELSE st[4][1])
    IN SwitchTo(PopFrame(Seal(others, Branch(default + 1))), default + 1)

LowerLet(b, l) ==
    LET names == l[2]
        One(c, i) ==
            LET class == ClassNameOf(c, l[3][i])
                v == LowerExpr(c, l[3][i])
            IN Bind(v.b, names[i], v.v, LetHint(l[1], Hint(l[3][i])), class)
        packed == LowerExpr(b, l[3][1])
    IN IF Len(names) > Len(l[3]) THEN UnpackLanes(packed.b, names, packed.v)
       ELSE InOrder(One, b, [i \in DOMAIN names |-> i])

\* A store through obj.field, evaluated again for the store.
StoreMember(b, target, v) ==
    LET offset == FieldOffset(b, ClassNameOf(b, target[3]), target[4][2])
        base == LowerExpr(b, target[3])
    IN IF ClassNameOf(b, target[3]) = NoName THEN b
       ELSE IF offset = {} THEN base.b
       ELSE FieldStore(base.b, base.v, Min(offset), v)

\* write_back_simd_lvalue: a packed value goes back to where it was.
WriteBack(b, target, v) ==
    CASE target[1] = "id" /\ IsLocal(b, target[2]) -> Store(b, LocalOf(b, target[2]).slot, v)
      [] target[1] = "id" /\ ~IsLocal(b, target[2]) -> StoreOwnField(b, target[2], v)
      [] target[1] = "bin" /\ target[2] = "." -> StoreMember(b, target, v)
      [] OTHER -> b

\* (old BAND BNOT (mask << start)) BOR ((payload BAND mask) << start)
BitfieldWrite(b, target, field, payload) ==
    LET f == BitfieldSplit(field)
        both == LowerAll(b, <<target, f.start>>)
        mask == BitfieldMask(both.b, f.width)
        hole == Binary(mask.b, "<<", mask.v, both.vs[2])
        keep == Binary(hole.b, "BXOR", hole.v, Word(-1))
        cleared == Binary(keep.b, "BAND", both.vs[1], keep.v)
        part == Binary(cleared.b, "BAND", payload, mask.v)
        placed == Binary(part.b, "<<", part.v, both.vs[2])
        merged == Binary(placed.b, "BOR", cleared.v, placed.v)
    IN WriteBack(merged.b, target, merged.v)

LowerTarget(b, target, v) ==
    LET name == target[2]
        addr == SubscriptAddress(b, target[3], target[4], Stride[target[2]])
        ptr == LowerExpr(b, target[3])
        both == LowerAll(b, <<target[3], target[4]>>)
        pack == Give(both.b, "setlane", both.vs \o <<v, SimdKind(Hint(target[3]))>>)
    IN CASE target[1] = "id" ->
              IF IsLocal(b, name) THEN Store(b, LocalOf(b, name).slot, v)
              ELSE IF name \in DOMAIN b.env.globals THEN Emit(b, <<"gstore", 0, name, v>>)
              ELSE StoreOwnField(b, name, v)
         [] target[1] = "bin" /\ target[2] = "." -> StoreMember(b, target, v)
         [] target[1] = "bin" /\ target[2] \in DOMAIN Stride ->
              Emit(addr.b, <<"istore", 0, addr.v, v, Stride[target[2]]>>)
         [] target[1] = "un" /\ target[2] \in {"!", "%"} ->
              Emit(ptr.b, <<"istore", 0, ptr.v, v, IF target[2] = "!" THEN 8 ELSE 1>>)
         [] target[1] = "bin" /\ target[2] = "%%" -> BitfieldWrite(b, target[3], target[4], v)
         [] target[1] = "bin" /\ target[2] = ".|" -> WriteBack(pack.b, target[3], pack.v)
         [] OTHER -> b

\* Each pair is evaluated and stored before the next one.
LowerAssign(b, st) ==
    InOrder(LAMBDA c, i: LET v == LowerExpr(c, st[3][i]) IN LowerTarget(v.b, st[2][i], v.v),
             b, [i \in DOMAIN st[2] |-> i])

LowerIf(b, st) ==
    LET cond == LowerExpr(b, st[2])
        then == Fresh(cond.b)
        split == Terminate(Blocks(cond.b, 3), <<"if", cond.v, then, then + 1>>)
        a == Seal(LowerStmt(SwitchTo(split, then), st[3]), Branch(then + 2))
        c == SwitchTo(a, then + 1)
    IN SwitchTo(Seal(IF st[4] = <<>> THEN c ELSE LowerStmt(c, st[4]), Branch(then + 2)), then + 2)

\* Variant of LowerUnless: the condition negated bit by bit.
LowerUnlessByBits(b, st) ==
    LowerIf(b, <<"if", <<"un", "BNOT", st[2], "Int">>, st[3], <<>>>>)

\* UNLESS swaps the arms of the branch.
LowerUnless(b, st) ==
    LET cond == LowerExpr(b, st[2])
        body == Fresh(cond.b)
        split == Terminate(Blocks(cond.b, 2), <<"if", cond.v, body + 1, body>>)
    IN SwitchTo(Seal(LowerStmt(SwitchTo(split, body), st[3]), Branch(body + 1)), body + 1)

LowerJump(b, word) ==
    LET brk == b.frames[Len(b.frames)]
        cont == b.frames[Max(LoopFrames(b))]
        ret == IF word = "RETURN" /\ b.hint # "Word" THEN Word(0) ELSE <<"unit">>
    IN CASE word \in {"RETURN", "FINISH"} -> Leave(CleanupsFrom(b, 0), <<"ret", ret>>)
         [] word \in {"BREAK", "ENDCASE"} /\ b.frames # <<>> ->
              Leave(CleanupsFrom(b, brk.cleanups), Branch(brk.break))
         [] word = "LOOP" /\ LoopFrames(b) # {} ->
              Leave(CleanupsFrom(b, cont.cleanups), JumpTo(cont.continue))
         [] OTHER -> b

\* Inside VALOF no cleanup runs; outside, RESULTIS leaves the function.
LowerResultis(b, st) ==
    LET v == LowerExpr(b, st[2])
        frame == v.b.valofs[Len(v.b.valofs)]
    IN IF v.b.valofs # <<>> THEN Leave(Store(v.b, frame.slot, v.v), Branch(frame.exit))
       ELSE Leave(CleanupsFrom(v.b, 0), <<"ret", v.v>>)

LowerGoto(b, st) == LET l == LabelBlock(b, st[2]) IN Leave(l.b, JumpTo(l.v))
LowerLabel(b, st) == LET l == LabelBlock(b, st[2]) IN SwitchTo(Seal(l.b, Branch(l.v)), l.v)

LowerRetain(b, st) ==
    LET v == LowerExpr(b, st[3])
    IN IF st[3] = <<>> THEN b
       ELSE Bind(v.b, st[2], v.v, Hint(st[3]), ClassNameOf(b, st[3]))

LowerStmt(b, st) ==
    CASE st[1] = "block" -> Exit(LowerStmts(Enter(b), st[2]))
      [] st[1] = "decl" -> LowerLet(b, st[2])
      [] st[1] = "do" -> LowerExpr(b, st[2]).b
      [] st[1] = "assign" -> LowerAssign(b, st)
      [] st[1] = "if" -> LowerIf(b, st)
      [] st[1] = "UNLESS" -> LowerUnless(b, st)
      [] st[1] = "WHILE" -> LowerWhile(b, st[2], st[3], FALSE)
      [] st[1] = "UNTIL" -> LowerWhile(b, st[2], st[3], TRUE)
      [] st[1] = "REPEAT" -> LowerRepeat(b, st[2])
      [] st[1] = "REPEATWHILE" -> LowerRepeatCond(b, st[2], st[3], FALSE)
      [] st[1] = "REPEATUNTIL" -> LowerRepeatCond(b, st[2], st[3], TRUE)
      [] st[1] = "for" -> LowerFor(b, st)
      [] st[1] = "foreach" -> LowerForEach(b, st)
      [] st[1] = "switchon" -> LowerSwitchon(b, st)
      [] st[1] = "jump" -> LowerJump(b, st[2])
      [] st[1] = "resultis" -> LowerResultis(b, st)
      [] st[1] = "goto" -> LowerGoto(b, st)
      [] st[1] = "label" -> LowerLabel(b, st)
      [] st[1] = "using" -> LowerUsing(b, st)
      [] st[1] = "retain" -> LowerRetain(b, st)

(***************************************************************************)
(* Functions, methods and the module.                                      *)
(***************************************************************************)

\* start_function: every parameter is stored into a slot of its own.
StartFunction(env, name, params, hint, class) ==
    LET Param(b, p) ==
            LET in == Local(b.next)
            IN Bind([b EXCEPT !.next = @ + 1], p, in, "Word",
                    IF p = "SELF" THEN class ELSE NoName)
    IN InOrder(Param, Builder(env, name, hint, class), params)
\* The values a call gives its parameters: every second one.
Finished(b, params) ==
    [name |-> b.name, blocks |-> b.blocks, hint |-> b.hint,
     params |-> [i \in DOMAIN params |-> 2 * i - 1]]

LowerFunctionBody(b, f) ==
    LET v == LowerExpr(b, f[4])
    IN IF f[1] = "routine" THEN Seal(LowerStmt(b, f[4]), <<"ret", <<"unit">>>>)
       ELSE Terminate(v.b, <<"ret", v.v>>)
ReturnHint(f) == IF f[1] = "routine" THEN "Word" ELSE Hint(f[4])
LowerFunction(env, f) ==
    Finished(LowerFunctionBody(StartFunction(env, f[2], f[3], ReturnHint(f), NoName), f), f[3])

\* LET and FLET members with a value, as pairs of name and expression.
Initialisers(c) ==
    LET Of(m) == CASE m[1] = "member" -> [i \in DOMAIN m[3][2] |-> <<m[3][2][i], m[3][3][i]>>]
                   [] m[1] = "flet" /\ Len(m[3]) = 2 -> <<m[3]>>
                   [] OTHER -> <<>>
    IN Gather(Of, c[5])
EmitInitialisers(b, inits) ==
    InOrder(LAMBDA d, init: LET v == LowerExpr(d, init[2])
                             IN StoreOwnField(v.b, init[1], v.v), b, inits)

\* CREATE runs the initialisers first.
LowerMethod(env, c, f) ==
    LET params == <<"SELF">> \o f[3]
        b == StartFunction(env, Mangle(c[2], f[2]), params, ReturnHint(f), c[2])
        ready == IF f[2] = "CREATE" THEN EmitInitialisers(b, Initialisers(c)) ELSE b
    IN Finished(LowerFunctionBody(ready, f), params)
SyntheticCreate(c) == <<"routine", "CREATE", <<>>, <<"block", <<>>>>>>
LowerClass(env, c) ==
    LET own == FlattenSeq([i \in DOMAIN c[5] |->
                              IF c[5][i][1] = "method" THEN <<c[5][i][4]>> ELSE <<>>])
        create == \E i \in DOMAIN own : own[i][2] = "CREATE"
        all == IF ~create /\ Initialisers(c) # <<>> THEN Append(own, SyntheticCreate(c)) ELSE own
    IN [i \in DOMAIN all |-> LowerMethod(env, c, all[i])]

\* The analysed program as functions by name, with layouts and globals.
Lower(analysed) ==
    LET env == [layouts |-> Layouts(analysed.s.classes),
                manifests |-> analysed.s.manifests, globals |-> analysed.s.globals]
        Of(d) == CASE d[1] \in {"function", "routine"} -> <<LowerFunction(env, d)>>
                   [] d[1] = "class" -> LowerClass(env, d)
                   [] OTHER -> <<>>
        all == Gather(Of, analysed.ns)
    IN [functions |-> [f \in NamesOf(all) |-> Named(all, f)],
        layouts |-> env.layouts, globals |-> env.globals]
=============================================================================
