------------------------------ MODULE Meaning ------------------------------
(***************************************************************************)
(* What a program means, from docs/user_guide.md: an interpreter of the    *)
(* trees of Parser that knows nothing of hints, slots, blocks or vtables.  *)
(* A value is <<"i", n>>, <<"f", x>>, <<"ref", object>>, <<"var", cell>> for *)
(* the address of a variable, or <<"pack", lanes>>.  A statement completes *)
(* with what it asks of the statements around it: "on" to go on, a jump, a *)
(* result or a label.                                                      *)
(*                                                                         *)
(* In one thing it follows the code against the guide: VEC k has k items,  *)
(* as LEN and FOREACH count them and emit.rs makes them (line 1607); guide *)
(* line 331 has indices 0..k, and ast.rs:571 k+1 elements.                 *)
(***************************************************************************)
EXTENDS Integers, Sequences, SequencesExt, FiniteSetsExt, Functions, TLC, Folding

CONSTANT WordBits

Num(n) == <<"i", ((n + 2 ^ (WordBits - 1)) % 2 ^ WordBits) - 2 ^ (WordBits - 1)>>
Bool(b) == Num(IF b THEN 1 ELSE 0)
IsTrue(v) == v[2] # 0
Ref(k) == <<"ref", k>>

\* cells hold the variables, objs the vectors, lists and instances.
Blank(globals) == [cells |-> <<>>, objs |-> <<>>, globals |-> globals, out |-> <<>>]
Ok(st, v) == [st |-> st, v |-> v]
Bind(f, x, y) == (x :> y) @@ f

\* A scope: the program, the class of SELF and the cell of every variable.
NewVar(env, st, name, v) ==
    [env |-> [env EXCEPT !.vars = Bind(@, name, Len(st.cells) + 1)],
     st |-> [st EXCEPT !.cells = Append(@, v)]]
NewVars(env, st, names, vs) ==
    InOrder(LAMBDA acc, i: NewVar(acc.env, acc.st, names[i], vs[i]),
             [env |-> env, st |-> st], [i \in DOMAIN names |-> i])
New(st, obj) == Ok([st EXCEPT !.objs = Append(@, obj)], Ref(Len(st.objs) + 1))

(***************************************************************************)
(* Declarations.                                                           *)
(***************************************************************************)

Decls(prog, kind) == SelectSeq(prog, LAMBDA d: d[1] = kind)
Constants(prog, kind) ==
    LET all == FlattenSeq([i \in DOMAIN Decls(prog, kind) |-> Decls(prog, kind)[i][2]])
    IN [name \in {all[i][1] : i \in DOMAIN all} |->
           Num(all[CHOOSE i \in DOMAIN all : all[i][1] = name][2][2])]
Proper(prog) == SelectSeq(prog, LAMBDA d: d[1] \in {"function", "routine"})
HasProper(prog, name) == \E i \in DOMAIN Proper(prog) : Proper(prog)[i][2] = name
ProperOf(prog, name) ==
    Proper(prog)[CHOOSE i \in DOMAIN Proper(prog) : Proper(prog)[i][2] = name]
ClassDecl(prog, name) ==
    Decls(prog, "class")[CHOOSE i \in DOMAIN Decls(prog, "class") :
                             Decls(prog, "class")[i][2] = name]

\* A class and those it extends, nearest first.
RECURSIVE Line(_, _)
Line(prog, name) ==
    IF name = "" THEN <<>> ELSE <<name>> \o Line(prog, ClassDecl(prog, name)[3])
MethodIn(prog, class, method) ==
    {i \in DOMAIN ClassDecl(prog, class)[5] :
        /\ ClassDecl(prog, class)[5][i][1] = "method"
        /\ ClassDecl(prog, class)[5][i][4][2] = method}
\* The nearest class with a method of that name, or none.
Provider(prog, class, method) ==
    LET line == Line(prog, class)
        has == {i \in DOMAIN line : MethodIn(prog, line[i], method) # {}}
    IN IF has = {} THEN "" ELSE line[Min(has)]
MethodOf(prog, class, method) ==
    ClassDecl(prog, class)[5][Min(MethodIn(prog, class, method))][4]

MemberNames(m) ==
    CASE m[1] = "fields" -> ToSet(m[3])
      [] m[1] = "member" -> ToSet(m[3][2])
      [] m[1] = "flet" -> {m[3][1]}
      [] OTHER -> {}
FieldsOf(prog, class) ==
    UNION {UNION {MemberNames(ClassDecl(prog, c)[5][i]) : i \in DOMAIN ClassDecl(prog, c)[5]} :
               c \in ToSet(Line(prog, class))}
\* The members of a class with a value, as pairs.
Values(prog, class) ==
    FlattenSeq([i \in DOMAIN ClassDecl(prog, class)[5] |->
        LET m == ClassDecl(prog, class)[5][i]
        IN CASE m[1] = "member" -> [k \in DOMAIN m[3][2] |-> <<m[3][2][k], m[3][3][k]>>]
             [] m[1] = "flet" -> IF Len(m[3]) = 2 THEN <<m[3]>> ELSE <<>>
             [] OTHER -> <<>>])

(***************************************************************************)
(* Operators.                                                              *)
(***************************************************************************)

Halves(a, b) ==
    LET q == (IF a < 0 THEN -a ELSE a) \div (IF b < 0 THEN -b ELSE b)
    IN IF (a < 0) = (b < 0) THEN q ELSE -q
Bit(n, k) == ((n % 2 ^ WordBits) \div 2 ^ k) % 2
Bitwise(F(_, _), a, b) ==
    InOrder(LAMBDA acc, k: acc + 2 ^ (k - 1) * F(Bit(a, k - 1), Bit(b, k - 1)), 0,
             [k \in 1 .. WordBits |-> k])
Both(a, b) == a * b
Either(a, b) == IF a + b > 0 THEN 1 ELSE 0
OneOf(a, b) == IF a # b THEN 1 ELSE 0

Field(n, start, width) == ((n % 2 ^ WordBits) \div 2 ^ start) % 2 ^ width
\* Byte k of the words of a vector, and the words with another byte there.
ByteBits == WordBits \div 8
ByteOf(items, k) == Field(items[k \div 8 + 1][2], ByteBits * (k % 8), ByteBits)
WithByte(items, k, n) ==
    LET old == items[k \div 8 + 1][2]
        part == Field(n, 0, ByteBits) - ByteOf(items, k)
    IN [items EXCEPT ![k \div 8 + 1] = Num(old + part * 2 ^ (ByteBits * (k % 8)))]

Operate(op, l, r) ==
    LET a == l[2]
        b == r[2]
        N(n) == IF l[1] = "f" THEN <<"f", n>> ELSE Num(n)
    IN CASE op = "+" -> N(a + b) [] op = "-" -> N(a - b) [] op = "*" -> N(a * b)
         [] op = "/" -> N(Halves(a, b)) [] op = "REM" -> Num(a - b * Halves(a, b))
         [] op = "=" -> Bool(a = b) [] op = "~=" -> Bool(a # b)
         [] op = "<" -> Bool(a < b) [] op = "<=" -> Bool(a <= b)
         [] op = ">" -> Bool(a > b) [] op = ">=" -> Bool(a >= b)
         [] op = "AND" -> Bool(IsTrue(l) /\ IsTrue(r))
         [] op = "OR" -> Bool(IsTrue(l) \/ IsTrue(r))
         [] op = "XOR" -> Bool(IsTrue(l) # IsTrue(r))
         [] op = "BAND" -> Num(Bitwise(Both, a, b))
         [] op = "BOR" -> Num(Bitwise(Either, a, b))
         [] op \in {"BXOR", "NEQV"} -> Num(Bitwise(OneOf, a, b))
         [] op = "EQV" -> Bool(a = b)
         [] op = "<<" -> Num(Field(a, 0, WordBits - b) * 2 ^ b)
         [] op = ">>" -> Num(a \div 2 ^ b)
         [] op = "%%" -> Num(Field(a, b, 1))

Builtin(name, vs) ==
    CASE name = "FLOAT" -> <<"f", vs[1][2]>>
      [] name = "FIX" -> Num(vs[1][2])
      [] name = "MIN" -> Num(Min({vs[1][2], vs[2][2]}))
      [] name = "MAX" -> Num(Max({vs[1][2], vs[2][2]}))
      [] name = "ABS" -> Num(Max({vs[1][2], -vs[1][2]}))
      [] name \in {"AS_INT", "AS_FLOAT"} -> vs[1]
      [] OTHER -> Num(0)

(***************************************************************************)
(* Expressions.                                                            *)
(***************************************************************************)

RECURSIVE Eval(_, _, _), Exec(_, _, _)

EvalAll(env, st, es) ==
    InOrder(LAMBDA acc, e: LET x == Eval(env, acc.st, e)
                            IN [st |-> x.st, vs |-> Append(acc.vs, x.v)],
             [st |-> st, vs |-> <<>>], es)

\* A body with its parameters, and SELF in a method.
Invoke(env, st, f, class, names, vs) ==
    LET inner == NewVars([env EXCEPT !.vars = [x \in {} |-> 0], !.class = class], st, names, vs)
    IN IF f[1] = "function" THEN Eval(inner.env, inner.st, f[4])
       ELSE Ok(Exec(inner.env, inner.st, f[4]).st, Num(0))

\* CREATE sets the members that have a value before it runs.
SetValues(env, st, self, class) ==
    InOrder(LAMBDA t, m: LET x == Eval(env, t, m[2])
                          IN [x.st EXCEPT !.objs[self[2]].fields[m[1]] = x.v],
             st, Values(env.prog, class))
InvokeMethod(env, st, self, class, method, vs) ==
    LET owner == Provider(env.prog, class, method)
        ready == IF method = "CREATE" THEN SetValues(env, st, self, owner) ELSE st
        f == MethodOf(env.prog, owner, method)
    IN IF owner = "" THEN Ok(st, Num(0))
       ELSE Invoke(env, ready, f, owner, <<"SELF">> \o f[3], <<self>> \o vs)

EvalNew(env, st, e) ==
    LET args == EvalAll(env, st, e[3])
        fields == [x \in FieldsOf(env.prog, e[2]) |-> Num(0)]
        obj == New(args.st, [class |-> e[2], fields |-> fields])
        made == IF Provider(env.prog, e[2], "CREATE") = ""
                THEN SetValues(env, obj.st, obj.v, e[2])
                ELSE InvokeMethod(env, obj.st, obj.v, e[2], "CREATE", args.vs).st
    IN Ok(made, obj.v)

\* SUPER.method starts the search above the class of the running method.
EvalMethodCall(env, st, e) ==
    LET super == e[2][3] = <<"id", "SUPER">>
        obj == Eval(env, st, IF super THEN <<"id", "SELF">> ELSE e[2][3])
        args == EvalAll(env, obj.st, e[3])
        class == IF super THEN ClassDecl(env.prog, env.class)[3]
                 ELSE args.st.objs[obj.v[2]].class
    IN InvokeMethod(env, args.st, obj.v, class, e[2][4][2], args.vs)

EvalCall(env, st, e) ==
    LET args == EvalAll(env, st, e[3])
        name == e[2][2]
        f == ProperOf(env.prog, name)
    IN IF e[2][1] = "bin" THEN EvalMethodCall(env, st, e)
       ELSE IF HasProper(env.prog, name) THEN Invoke(env, args.st, f, "", f[3], args.vs)
       ELSE IF name \in {"WRITEN", "FWRITE"}
       THEN Ok([args.st EXCEPT !.out = Append(@, args.vs[1])], Num(0))
       ELSE IF name = "APND"
       THEN Ok([args.st EXCEPT !.objs[args.vs[1][2]].items = Append(@, args.vs[2])], Num(0))
       ELSE IF name = "CONCAT"
       THEN New(args.st, [items |-> args.st.objs[args.vs[1][2]].items
                                    \o args.st.objs[args.vs[2][2]].items])
       ELSE IF name = "GETVEC"
       THEN New(args.st, [items |-> [i \in 1 .. args.vs[1][2] |-> Num(0)]])
       ELSE Ok(args.st, Builtin(name, args.vs))

\* A name: a variable, a constant, a global or a field of SELF.
EvalName(env, st, name) ==
    CASE name \in DOMAIN env.vars -> st.cells[env.vars[name]]
      [] name \notin DOMAIN env.vars /\ name \in DOMAIN env.manifests -> env.manifests[name]
      [] name \notin DOMAIN env.vars /\ name \in DOMAIN st.globals -> st.globals[name]
      [] OTHER -> st.objs[st.cells[env.vars["SELF"]][2]].fields[name]

EvalUnary(env, st, op, e) ==
    LET x == Eval(env, st, e)
        items == x.st.objs[x.v[2]].items
    IN CASE op = "-" -> Ok(x.st, IF x.v[1] = "f" THEN <<"f", -x.v[2]>> ELSE Num(-x.v[2]))
         [] op = "NOT" -> Ok(x.st, Bool(~IsTrue(x.v)))
         [] op = "BNOT" -> Ok(x.st, Num(-x.v[2] - 1))
         [] op = "HD" -> Ok(x.st, IF items = <<>> THEN Num(0) ELSE items[1])
         [] op = "TL" -> New(x.st, [items |-> Tail(items)])
         [] op = "LEN" -> Ok(x.st, Num(Len(items)))
         [] op = "@" -> Ok(st, <<"var", env.vars[e[2]]>>)
         [] op = "!" -> Ok(x.st, IF x.v[1] = "var" THEN x.st.cells[x.v[2]] ELSE items[1])
         [] op = "%" -> Ok(x.st, Num(ByteOf(items, 0)))
         [] op \in {"FREEVEC", "FREELIST"} -> Ok(x.st, Num(0))

EvalBinary(env, st, op, l, r) ==
    LET x == Eval(env, st, l)
        y == Eval(env, x.st, r)
        range == EvalAll(env, x.st, <<r[3], r[4]>>)
    IN CASE op \in {".", "OF"} -> Ok(x.st, x.st.objs[x.v[2]].fields[r[2]])
         [] op = "%" -> Ok(y.st, Num(ByteOf(y.st.objs[x.v[2]].items, y.v[2])))
         [] op \in {"!", ".%"} -> Ok(y.st, y.st.objs[x.v[2]].items[y.v[2] + 1])
         [] op = ".|" -> Ok(y.st, x.v[2][y.v[2] + 1])
         [] op = "%%" /\ r[1] = "bin" ->
              Ok(range.st, Num(Field(x.v[2], range.vs[1][2], range.vs[2][2])))
         [] OTHER -> Ok(y.st, Operate(op, x.v, y.v))

\* VEC k and FVEC k have k items, as in the code.
EvalMake(env, st, e) ==
    LET args == EvalAll(env, st, e[3])
        Elem(v) == IF e[2] \in {"FVEC", "FTABLE"} THEN <<"f", v[2]>> ELSE v
    IN CASE e[2] \in {"PAIR", "FPAIR", "QUAD", "OCT"} -> Ok(args.st, <<"pack", args.vs>>)
         [] e[2] \in {"VEC", "FVEC"} /\ Len(e[3]) = 1 ->
              New(args.st, [items |-> [i \in 1 .. args.vs[1][2] |-> Num(0)]])
         [] OTHER -> New(args.st, [items |-> [i \in DOMAIN args.vs |-> Elem(args.vs[i])]])

Eval(env, st, e) ==
    CASE e[1] \in {"int", "bool"} -> Ok(st, Num(e[2]))
      [] e[1] = "float" -> Ok(st, <<"f", e[2]>>)
      [] e[1] = "null" -> Ok(st, Num(0))
      [] e[1] = "id" -> Ok(st, EvalName(env, st, e[2]))
      [] e[1] = "un" -> EvalUnary(env, st, e[2], e[3])
      [] e[1] = "bin" -> EvalBinary(env, st, e[2], e[3], e[4])
      [] e[1] = "call" -> EvalCall(env, st, e)
      [] e[1] = "cond" -> LET c == Eval(env, st, e[2])
                          IN Eval(env, c.st, IF IsTrue(c.v) THEN e[3] ELSE e[4])
      [] e[1] = "valof" -> LET r == Exec(env, st, e[2]) IN Ok(r.st, r.how[2])
      [] e[1] = "make" -> EvalMake(env, st, e)
      [] e[1] = "new" -> EvalNew(env, st, e)

(***************************************************************************)
(* Statements.                                                             *)
(***************************************************************************)

On == <<"on">>
Done(env, st, how) == [env |-> env, st |-> st, how |-> how]

\* A variable keeps its kind: FLOAT <- INT and INT <- FLOAT convert.
Kept(old, v) == IF {old[1], v[1]} = {"i", "f"} THEN <<old[1], v[2]>> ELSE v

\* What := and the bitfields and lanes under it store into.
RECURSIVE SetTarget(_, _, _, _)
SetTarget(env, st, t, v) ==
    LET x == Eval(env, st, t[3])
        y == Eval(env, x.st, t[4])
        at == EvalAll(env, x.st, <<t[4][3], t[4][4]>>)
        start == at.vs[1][2]
        width == at.vs[2][2]
        old == Field(x.v[2], start, width)
    IN CASE t[1] = "id" /\ t[2] \in DOMAIN env.vars ->
              [st EXCEPT !.cells[env.vars[t[2]]] = Kept(@, v)]
         [] t[1] = "id" /\ t[2] \notin DOMAIN env.vars /\ t[2] \in DOMAIN st.globals ->
              [st EXCEPT !.globals[t[2]] = v]
         [] t[1] = "id" /\ t[2] \notin DOMAIN env.vars \cup DOMAIN st.globals ->
              [st EXCEPT !.objs[st.cells[env.vars["SELF"]][2]].fields[t[2]] = v]
         [] t[1] = "bin" /\ t[2] = "." -> [x.st EXCEPT !.objs[x.v[2]].fields[t[4][2]] = v]
         [] t[1] = "bin" /\ t[2] \in {"!", ".%"} ->
              [y.st EXCEPT !.objs[x.v[2]].items[y.v[2] + 1] = v]
         [] t[1] = "bin" /\ t[2] = ".|" ->
              SetTarget(env, y.st, t[3], <<"pack", [x.v[2] EXCEPT ![y.v[2] + 1] = v]>>)
         [] t[1] = "bin" /\ t[2] = "%%" ->
              SetTarget(env, at.st, t[3],
                        Num(x.v[2] + (Field(v[2], 0, width) - old) * 2 ^ start))
         [] t[1] = "bin" /\ t[2] = "%" ->
              [y.st EXCEPT !.objs[x.v[2]].items = WithByte(@, y.v[2], v[2])]
         [] t[1] = "un" /\ t[2] = "%" ->
              [x.st EXCEPT !.objs[x.v[2]].items = WithByte(@, 0, v[2])]
         [] t[1] = "un" /\ t[2] = "!" -> [x.st EXCEPT !.cells[x.v[2]] = v]

\* All the values first, then the stores.
ExecAssign(env, st, ts, es) ==
    LET all == EvalAll(env, st, es)
    IN Done(env, InOrder(LAMBDA t, i: SetTarget(env, t, ts[i], all.vs[i]), all.st,
                          [i \in DOMAIN ts |-> i]), On)

\* One packed value for several names gives each name a lane.
ExecLet(env, st, kind, names, es) ==
    LET all == EvalAll(env, st, es)
        Converted(v) == IF kind = "flet" THEN <<"f", v[2]>> ELSE v
        vs == IF Len(names) > Len(es) THEN all.vs[1][2]
              ELSE [i \in DOMAIN all.vs |-> Converted(all.vs[i])]
        bound == NewVars(env, all.st, names, vs)
    IN Done(bound.env, bound.st, On)

\* Statements from the i-th on; a label among them is where GOTO goes.
RECURSIVE RunFrom(_, _, _, _)
RunFrom(env, st, ss, i) ==
    LET r == Exec(env, st, ss[i])
        label == {k \in DOMAIN ss : ss[k] = <<"label", r.how[2]>>}
    IN IF i > Len(ss) THEN Done(env, st, On)
       ELSE IF r.how = On THEN RunFrom(r.env, r.st, ss, i + 1)
       ELSE IF r.how[1] = "goto" /\ label # {} THEN RunFrom(r.env, r.st, ss, Min(label))
       ELSE r

\* After a round of a loop: BREAK ends it, LOOP and the end of the body go on.
Round(env, r, Again(_)) ==
    CASE r.how \in {On, <<"LOOP">>} -> Again(r.st)
      [] r.how = <<"BREAK">> -> Done(env, r.st, On)
      [] OTHER -> Done(env, r.st, r.how)

RECURSIVE While(_, _, _, _, _), Repeat(_, _, _), For(_, _, _, _, _, _), ForEach(_, _, _, _, _)
While(env, st, cond, want, body) ==
    LET c == Eval(env, st, cond)
    IN IF IsTrue(c.v) # want THEN Done(env, c.st, On)
       ELSE Round(env, Exec(env, c.st, body), LAMBDA t: While(env, t, cond, want, body))
Repeat(env, st, s) ==
    Round(env, Exec(env, st, s[2]),
          LAMBDA t: IF s[1] = "REPEAT" THEN Repeat(env, t, s)
                    ELSE LET c == Eval(env, t, s[3])
                         IN IF IsTrue(c.v) = (s[1] = "REPEATWHILE") THEN Repeat(env, c.st, s)
                            ELSE Done(env, c.st, On))
For(env, st, name, to, by, body) ==
    LET i == st.cells[env.vars[name]][2]
        Next(t) == LET k == t.cells[env.vars[name]][2]
                   IN For(env, [t EXCEPT !.cells[env.vars[name]] = Num(k + by)],
                          name, to, by, body)
    IN IF (by >= 0 /\ i > to) \/ (by < 0 /\ i < to) THEN Done(env, st, On)
       ELSE Round(env, Exec(env, st, body), Next)
ForEach(env, st, names, items, body) ==
    LET vs == IF Len(names) = 1 THEN <<items[1]>> ELSE items[1][2]
        bound == NewVars(env, st, names, vs)
    IN IF items = <<>> THEN Done(env, st, On)
       ELSE Round(env, Exec(bound.env, bound.st, body),
                  LAMBDA t: ForEach(env, t, names, Tail(items), body))

ExecFor(env, st, s) ==
    LET all == EvalAll(env, st, <<s[3], s[4]>> \o IF s[5] = <<>> THEN <<>> ELSE <<s[5]>>)
        bound == NewVar(env, all.st, s[2], all.vs[1])
        r == For(bound.env, bound.st, s[2], all.vs[2][2],
                 IF s[5] = <<>> THEN 1 ELSE all.vs[3][2], s[6])
    IN Done(env, r.st, r.how)

\* The arm with the value, and those after it until ENDCASE.
ExecSwitchon(env, st, s) ==
    LET x == Eval(env, st, s[2])
        hit == {i \in DOMAIN s[3] : Eval(env, x.st, s[3][i][1]).v = x.v}
        arms == [i \in DOMAIN s[3] |-> s[3][i][2]] \o s[4]
        first == IF hit = {} THEN Len(s[3]) + 1 ELSE Min(hit)
        r == RunFrom(env, x.st, FlattenSeq(SubSeq(arms, first, Len(arms))), 1)
    IN Done(env, r.st, IF r.how = <<"ENDCASE">> THEN On ELSE r.how)

\* USING releases its object however the body ends.
ExecUsing(env, st, s) ==
    LET x == Eval(env, st, s[3])
        bound == NewVar(env, x.st, s[2], x.v)
        r == Exec(bound.env, bound.st, s[4])
        released == InvokeMethod(env, r.st, x.v, r.st.objs[x.v[2]].class, "RELEASE", <<>>)
    IN Done(env, released.st, r.how)

Exec(env, st, s) ==
    LET c == Eval(env, st, s[2])
        body == RunFrom(env, st, s[2], 1)
    IN CASE s[1] = "block" -> Done(env, body.st, body.how)
         [] s[1] = "decl" -> ExecLet(env, st, s[2][1], s[2][2], s[2][3])
         [] s[1] = "do" -> Done(env, c.st, On)
         [] s[1] = "assign" -> ExecAssign(env, st, s[2], s[3])
         [] s[1] = "if" -> IF IsTrue(c.v) THEN Exec(env, c.st, s[3])
                           ELSE IF s[4] = <<>> THEN Done(env, c.st, On)
                           ELSE Exec(env, c.st, s[4])
         [] s[1] = "UNLESS" -> IF IsTrue(c.v) THEN Done(env, c.st, On)
                               ELSE Exec(env, c.st, s[3])
         [] s[1] = "WHILE" -> While(env, st, s[2], TRUE, s[3])
         [] s[1] = "UNTIL" -> While(env, st, s[2], FALSE, s[3])
         [] s[1] \in {"REPEAT", "REPEATWHILE", "REPEATUNTIL"} -> Repeat(env, st, s)
         [] s[1] = "for" -> ExecFor(env, st, s)
         [] s[1] = "foreach" -> LET items == Eval(env, st, s[3])
                                IN ForEach(env, items.st, s[2],
                                           items.st.objs[items.v[2]].items, s[4])
         [] s[1] = "switchon" -> ExecSwitchon(env, st, s)
         [] s[1] = "jump" -> Done(env, st, <<s[2]>>)
         [] s[1] = "resultis" -> Done(env, c.st, <<"resultis", c.v>>)
         [] s[1] = "goto" -> Done(env, st, <<"goto", s[2]>>)
         [] s[1] = "label" -> Done(env, st, On)
         [] s[1] = "using" -> ExecUsing(env, st, s)
         [] s[1] = "retain" -> ExecLet(env, st, "let", <<s[2]>>, <<s[3]>>)

\* What START writes.
Written(prog) ==
    LET env == [prog |-> prog, vars |-> [x \in {} |-> 0], class |-> "",
                manifests |-> Constants(prog, "MANIFEST")]
    IN Exec(env, Blank(Constants(prog, "GLOBAL")), ProperOf(prog, "START")[4]).st.out
=============================================================================
