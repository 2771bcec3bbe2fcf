------------------------------- MODULE Typing -------------------------------
(***************************************************************************)
(* Semantic analysis (newbcpl-sema): the pass that gives every expression  *)
(* a type hint and every class a layout.  Trees are those of Parser, with  *)
(* the literals <<"int", n>>, <<"float", n>>, <<"bool", n>> and <<"null">>.*)
(* The analysis returns the tree with the hint of each expression as its   *)
(* last element.  AS annotations and warnings are left out.                *)
(***************************************************************************)
EXTENDS Integers, Sequences, SequencesExt, FiniteSetsExt, Functions, TLC, Folding

NoName == ""
NoBinding == [x \in {} |-> x]
Hint(e) == e[Len(e)]
Typed(s, n, hint) == [s |-> s, n |-> Append(n, hint), h |-> hint]

FloatFamily == {"Float", "FPair", "FQuad", "FOct", "FVec"}
Pointers == {"String", "List", "Vec", "FVec", "Object"}

Sema == [scopes |-> <<NoBinding>>, classes |-> NoBinding, functions |-> NoBinding,
         valofs |-> <<>>, manifests |-> NoBinding, globals |-> NoBinding,
         class |-> NoName, errors |-> {}]

PushScope(s) == [s EXCEPT !.scopes = Append(@, NoBinding)]
PopScope(s) ==
    [s EXCEPT !.scopes = IF Len(@) = 1 THEN <<NoBinding>> ELSE Front(@)]
Bound(f, x, y) == (x :> y) @@ f
Declare(s, name, hint, class) ==
    [s EXCEPT !.scopes[Len(s.scopes)] = Bound(@, name, [hint |-> hint, class |-> class])]
DeclareAll(s, names, hint) ==
    InOrder(LAMBDA t, name: Declare(t, name, hint, NoName), s, names)

\* The innermost binding of a name, or none.
Scope(scopes, name) == {i \in DOMAIN scopes : name \in DOMAIN scopes[i]}
Lookup(s, name) ==
    IF Scope(s.scopes, name) = {} THEN [hint |-> "Unknown", class |-> NoName]
    ELSE s.scopes[Max(Scope(s.scopes, name))][name]

(***************************************************************************)
(* Classes: their records, inheritance and visibility.                     *)
(***************************************************************************)

MakerHint == [VEC |-> "Vec", TABLE |-> "Vec", FVEC |-> "FVec", FTABLE |-> "FVec",
              PAIR |-> "Pair", FPAIR |-> "FPair", QUAD |-> "Quad", FQUAD |-> "FQuad",
              OCT |-> "Oct", FOCT |-> "FOct", LIST |-> "List", MANIFESTLIST |-> "List"]

LiteralHint(e) ==
    CASE e[1] \in {"int", "bool"} -> "Int"
      [] e[1] = "float" -> "Float"
      [] e[1] = "null" -> "Null"
      [] e[1] = "make" -> MakerHint[e[2]]
      [] e[1] = "new" -> "Object"
      [] OTHER -> "Word"

Field(name, hint, class, vis) == [name |-> name, hint |-> hint, class |-> class, vis |-> vis]
FletHint(h) == IF h \in {"Word", "Int"} THEN "Float" ELSE h
MemberFields(m) ==
    CASE m[1] = "fields" -> [i \in DOMAIN m[3] |-> Field(m[3][i], "Word", NoName, m[2])]
      [] m[1] = "member" ->
           [i \in DOMAIN m[3][2] |->
               LET e == m[3][3][i]
               IN Field(m[3][2][i], LiteralHint(e),
                        IF e[1] = "new" THEN e[2] ELSE NoName, m[2])]
      [] m[1] = "flet" ->
           <<Field(m[3][1], IF Len(m[3]) = 1 THEN "Float" ELSE FletHint(LiteralHint(m[3][2])),
                   NoName, m[2])>>
      [] OTHER -> <<>>
Method(name, kind, final, vis) ==
    [name |-> name, kind |-> kind, final |-> final, vis |-> vis,
     result |-> IF kind = "routine" THEN "Word" ELSE "Unknown", class |-> NoName]
MemberMethods(m) ==
    IF m[1] # "method" THEN <<>>
    ELSE <<Method(m[4][2], m[4][1], "FINAL" \in m[3], m[2])>>
Gather(F(_), members) == FlattenSeq([i \in DOMAIN members |-> F(members[i])])
NamesOf(seq) == {seq[i].name : i \in DOMAIN seq}
Named(seq, name) == seq[Min({i \in DOMAIN seq : seq[i].name = name})]

Initialised(members) ==
    \E i \in DOMAIN members :
        \/ members[i][1] = "member"
        \/ members[i][1] = "flet" /\ Len(members[i][3]) = 2

\* A class with initialisers and no CREATE of its own gets one.
RegisterClass(s, c) ==
    LET own == Gather(MemberMethods, c[5])
        made == IF Initialised(c[5]) /\ "CREATE" \notin NamesOf(own)
                THEN <<Method("CREATE", "routine", FALSE, "PUBLIC")>> ELSE <<>>
    IN [s EXCEPT !.classes = Bound(@, c[2], [extends |-> c[3],
            fields |-> Gather(MemberFields, c[5]), methods |-> own \o made])]

\* A class and its ancestors, nearest first.
RECURSIVE Ancestry(_, _)
Ancestry(s, class) ==
    IF class \notin DOMAIN s.classes THEN <<>>
    ELSE <<class>> \o Ancestry(s, s.classes[class].extends)

\* lookup_field_owner and lookup_method_owner: the nearest class that has it.
Owner(s, class, part, name) ==
    LET line == Ancestry(s, class)
        has == {i \in DOMAIN line : name \in NamesOf(s.classes[line[i]][part])}
    IN IF has = {} THEN NoName ELSE line[Min(has)]
Member(s, class, part, name) == Named(s.classes[Owner(s, class, part, name)][part], name)

FinalOverridden(s, c) ==
    \E i \in DOMAIN c[5] :
        /\ c[5][i][1] = "method"
        /\ LET above == Owner(s, c[3], "methods", c[5][i][4][2])
           IN above # NoName /\ Named(s.classes[above].methods, c[5][i][4][2]).final

CheckVisible(s, owner, vis) ==
    LET allowed == CASE vis = "PUBLIC" -> TRUE
                     [] vis = "PRIVATE" -> s.class = owner
                     [] vis = "PROTECTED" -> Contains(Ancestry(s, s.class), owner)
    IN IF allowed THEN s ELSE [s EXCEPT !.errors = @ \cup {"visibility"}]

\* class_of_expr
RECURSIVE ClassOf(_, _)
ClassOf(s, e) ==
    CASE e[1] = "id" -> Lookup(s, e[2]).class
      [] e[1] = "new" -> e[2]
      [] e[1] = "bin" /\ e[2] \in {".", "OF"} ->
           LET class == ClassOf(s, e[3])
           IN IF Owner(s, class, "fields", e[4][2]) = NoName THEN NoName
              ELSE Member(s, class, "fields", e[4][2]).class
      [] e[1] = "call" /\ e[2][1] = "bin" /\ e[2][2] = "." ->
           LET class == ClassOf(s, e[2][3])
           IN IF Owner(s, class, "methods", e[2][4][2]) = NoName THEN NoName
              ELSE Member(s, class, "methods", e[2][4][2]).class
      [] e[1] = "call" /\ e[2][1] = "id" ->
           IF e[2][2] \in DOMAIN s.functions THEN s.functions[e[2][2]].class ELSE NoName
      [] OTHER -> NoName

(***************************************************************************)
(* Hints of expressions.                                                   *)
(***************************************************************************)

Arithmetic == {"+", "-", "*", "/", "REM"}
BinaryHint(op, l, r) ==
    CASE op \in Arithmetic -> IF l = r /\ l \in FloatFamily THEN l ELSE "Int"
      [] op = ".%" -> "Float"
      [] op = "!" -> "Word"
      [] op = ".|" -> IF l \in {"FPair", "FQuad", "FOct"} THEN "Float" ELSE "Int"
      [] OTHER -> "Int"

UnaryHint(op, h) ==
    CASE op = "-" -> h
      [] op \in {"!", "@", "FREEVEC", "FREELIST"} -> "Word"
      [] op \in {"HD", "TL", "REST"} -> IF h = "FVec" THEN "Float" ELSE "Word"
      [] OTHER -> "Int"

BuiltinHint ==
    [f \in {"FLOAT"} |-> "Float"] @@ [f \in {"TRUNC"} |-> "Int"]
    @@ [f \in {"CONCAT", "REST", "TL"} |-> "List"] @@ [f \in {"GETVEC"} |-> "Vec"]

\* merge_hints: what the RESULTIS of a VALOF agree on.
Merged(hints) ==
    LET known == hints \ {"Unknown"}
    IN IF Cardinality(known) = 1 THEN CHOOSE h \in known : TRUE ELSE "Word"

RECURSIVE TypeOf(_, _), AnalyzeStmt(_, _)

TypeAll(s, exprs) ==
    InOrder(LAMBDA acc, e: LET t == TypeOf(acc.s, e)
                            IN [s |-> t.s, ns |-> Append(acc.ns, t.n)],
             [s |-> s, ns |-> <<>>], exprs)
AnalyzeAll(s, stmts) ==
    InOrder(LAMBDA acc, st: LET t == AnalyzeStmt(acc.s, st)
                             IN [s |-> t.s, ns |-> Append(acc.ns, t.n)],
             [s |-> s, ns |-> <<>>], stmts)

\* obj.name: a field, else a method taken as a value.
TypeMember(s, e) ==
    LET obj == TypeOf(s, e[3])
        class == ClassOf(obj.s, e[3])
        owner == Owner(obj.s, class, "fields", e[4][2])
        node == <<"bin", e[2], obj.n, e[4]>>
    IN IF owner # NoName
       THEN LET f == Member(obj.s, class, "fields", e[4][2])
            IN Typed(CheckVisible(obj.s, owner, f.vis), node, f.hint)
       ELSE Typed(obj.s, node,
                  IF Owner(obj.s, class, "methods", e[4][2]) # NoName THEN "Function"
                  ELSE "Word")

TypeCall(s, e) ==
    LET args == TypeAll(s, e[3])
        callee == TypeOf(args.s, e[2])
        t == callee.s
        node == <<"call", callee.n, args.ns>>
        class == ClassOf(t, e[2][3])
        owner == Owner(t, class, "methods", e[2][4][2])
        m == Member(t, class, "methods", e[2][4][2])
    IN CASE e[2][1] = "id" /\ e[2][2] \in DOMAIN BuiltinHint ->
              Typed(t, node, BuiltinHint[e[2][2]])
         [] e[2][1] = "id" /\ e[2][2] \in DOMAIN t.functions \ DOMAIN BuiltinHint ->
              Typed(t, node, t.functions[e[2][2]].result)
         [] e[2][1] = "bin" /\ e[2][2] = "." ->
              IF owner = NoName THEN Typed(t, node, "Word")
              ELSE Typed(CheckVisible(t, owner, m.vis), node, m.result)
         [] OTHER -> Typed(t, node, "Word")

TypeValof(s, e) ==
    LET body == AnalyzeStmt([s EXCEPT !.valofs = Append(@, {})], e[2])
    IN Typed([body.s EXCEPT !.valofs = Front(@)], <<"valof", body.n>>,
             Merged(body.s.valofs[Len(body.s.valofs)]))

Agreed(a, b) ==
    CASE a = b -> a [] a # b /\ a = "Unknown" -> b [] a # b /\ b = "Unknown" -> a
      [] OTHER -> "Word"

\* The parts of a node, in the order compute_type_of visits them.
TypeOf(s, e) ==
    CASE e[1] \in {"int", "float", "bool", "null"} -> Typed(s, e, LiteralHint(e))
      [] e[1] = "id" -> Typed(s, e, Lookup(s, e[2]).hint)
      [] e[1] = "call" -> TypeCall(s, e)
      [] e[1] = "valof" -> TypeValof(s, e)
      [] e[1] = "un" ->
           LET a == TypeOf(s, e[3]) IN Typed(a.s, <<"un", e[2], a.n>>, UnaryHint(e[2], a.h))
      [] e[1] = "bin" /\ e[2] \in {".", "OF"} -> TypeMember(s, e)
      [] e[1] = "bin" /\ e[2] \notin {".", "OF"} ->
           LET l == TypeOf(s, e[3])
               r == TypeOf(l.s, e[4])
           IN Typed(r.s, <<"bin", e[2], l.n, r.n>>, BinaryHint(e[2], l.h, r.h))
      [] e[1] = "cond" ->
           LET all == TypeAll(s, <<e[2], e[3], e[4]>>)
           IN Typed(all.s, <<"cond">> \o all.ns, Agreed(Hint(all.ns[2]), Hint(all.ns[3])))
      [] e[1] = "make" ->
           LET all == TypeAll(s, e[3])
           IN Typed(all.s, <<"make", e[2], all.ns>>, MakerHint[e[2]])
      [] e[1] = "new" ->
           LET all == TypeAll(s, e[3]) IN Typed(all.s, <<"new", e[2], all.ns>>, "Object")

(***************************************************************************)
(* Statements and declarations.                                            *)
(***************************************************************************)

Out(s, n) == [s |-> s, n |-> n]

\* LET and FLET; one value for several names is unpacked into all of them.
Spread(exprs, n) == [i \in 1 .. n |-> exprs[IF i \in DOMAIN exprs THEN i ELSE 1]]
LetHint(kind, h) == IF kind = "flet" /\ h \in {"Int", "Word", "Unknown"} THEN "Float" ELSE h
AnalyzeLet(s, l) ==
    LET exprs == Spread(l[3], Len(l[2]))
        all == InOrder(
            LAMBDA acc, i:
                LET t == TypeOf(acc.s, exprs[i])
                IN [s |-> Declare(t.s, l[2][i], LetHint(l[1], t.h), ClassOf(t.s, exprs[i])),
                    ns |-> Append(acc.ns, t.n)],
            [s |-> s, ns |-> <<>>], [i \in DOMAIN exprs |-> i])
    IN Out(all.s, <<"decl", <<l[1], l[2], SubSeq(all.ns, 1, Len(l[3]))>>>>)

\* SELF.field := value teaches the field its class; the first one stays.
BackFill(s, target, value) ==
    LET class == ClassOf(s, target[3])
        fields == s.classes[class].fields
        at == Min({i \in DOMAIN fields : fields[i].name = target[4][2]})
    IN IF /\ target[1] = "bin" /\ target[2] = "." /\ target[3][1] = "id"
          /\ target[3][2] = "SELF" /\ class \in DOMAIN s.classes
          /\ target[4][2] \in NamesOf(fields) /\ fields[at].class = NoName
       THEN [s EXCEPT !.classes[class].fields[at].class = ClassOf(s, value)]
       ELSE s
AnalyzeAssign(s, st) ==
    LET all == InOrder(
            LAMBDA acc, i:
                LET t == TypeOf(acc.s, st[2][i])
                    v == TypeOf(t.s, st[3][i])
                IN [s |-> BackFill(v.s, st[2][i], st[3][i]),
                    ts |-> Append(acc.ts, t.n), vs |-> Append(acc.vs, v.n)],
            [s |-> s, ts |-> <<>>, vs |-> <<>>], [i \in DOMAIN st[2] |-> i])
    IN Out(all.s, <<"assign", all.ts, all.vs>>)

AnalyzeFor(s, st) ==
    LET from == TypeOf(s, st[3])
        to == TypeOf(from.s, st[4])
        by == IF st[5] = <<>> THEN [s |-> to.s, n |-> <<>>] ELSE TypeOf(to.s, st[5])
        hint == IF from.h = "Float" THEN "Float" ELSE "Int"
        body == AnalyzeStmt(Declare(PushScope(by.s), st[2], hint, NoName), st[6])
    IN Out(PopScope(body.s), <<"for", st[2], from.n, to.n, by.n, body.n>>)

AnalyzeForEach(s, st) ==
    LET iter == TypeOf(s, st[3])
        hint == IF iter.h = "FVec" THEN "Float" ELSE "Word"
        body == AnalyzeStmt(DeclareAll(PushScope(iter.s), st[2], hint), st[4])
    IN Out(PopScope(body.s), <<"foreach", st[2], iter.n, body.n>>)

AnalyzeSwitchon(s, st) ==
    LET value == TypeOf(s, st[2])
        arms == InOrder(
            LAMBDA acc, arm:
                LET v == TypeOf(acc.s, arm[1])
                    body == AnalyzeAll(v.s, arm[2])
                IN [s |-> body.s, ns |-> Append(acc.ns, <<v.n, body.ns>>)],
            [s |-> value.s, ns |-> <<>>], st[3])
        default == IF st[4] = <<>> THEN [s |-> arms.s, ns |-> <<>>]
                   ELSE AnalyzeAll(arms.s, st[4][1])
    IN Out(default.s, <<"switchon", value.n, arms.ns,
                        IF st[4] = <<>> THEN <<>> ELSE <<default.ns>>>>)

\* IF, UNLESS, the loops with a condition and TEST.
AnalyzeGuarded(s, st) ==
    LET cond == TypeOf(s, st[2])
        then == AnalyzeStmt(cond.s, st[3])
        else == AnalyzeStmt(then.s, st[4])
    IN IF st[1] # "if" THEN Out(then.s, <<st[1], cond.n, then.n>>)
       ELSE IF st[4] = <<>> THEN Out(then.s, <<"if", cond.n, then.n, <<>>>>)
       ELSE Out(else.s, <<"if", cond.n, then.n, else.n>>)

\* RETAIN stays in its scope, USING has one of its own.
AnalyzeHeld(s, st) ==
    LET v == TypeOf(s, st[3])
        inner == IF st[1] = "using" THEN PushScope(v.s) ELSE v.s
        t == Declare(inner, st[2], v.h, ClassOf(v.s, st[3]))
        body == AnalyzeStmt(t, st[4])
    IN IF st[1] = "retain" THEN Out(t, <<"retain", st[2], v.n>>)
       ELSE Out(PopScope(body.s), <<"using", st[2], v.n, body.n>>)

AnalyzeResultis(s, st) ==
    LET e == TypeOf(s, st[2])
        open == Len(e.s.valofs)
    IN Out(IF open = 0 THEN e.s ELSE [e.s EXCEPT !.valofs[open] = @ \cup {e.h}],
           <<"resultis", e.n>>)

AnalyzeStmt(s, st) ==
    CASE st[1] = "block" ->
           LET all == AnalyzeAll(PushScope(s), st[2]) IN Out(PopScope(all.s), <<"block", all.ns>>)
      [] st[1] = "decl" -> AnalyzeLet(s, st[2])
      [] st[1] = "do" -> LET e == TypeOf(s, st[2]) IN Out(e.s, <<"do", e.n>>)
      [] st[1] = "assign" -> AnalyzeAssign(s, st)
      [] st[1] \in {"if", "UNLESS", "WHILE", "UNTIL"} -> AnalyzeGuarded(s, st)
      [] st[1] = "REPEAT" ->
           LET body == AnalyzeStmt(s, st[2]) IN Out(body.s, <<"REPEAT", body.n>>)
      [] st[1] \in {"REPEATWHILE", "REPEATUNTIL"} ->
           LET body == AnalyzeStmt(s, st[2])
               cond == TypeOf(body.s, st[3])
           IN Out(cond.s, <<st[1], body.n, cond.n>>)
      [] st[1] = "for" -> AnalyzeFor(s, st)
      [] st[1] = "foreach" -> AnalyzeForEach(s, st)
      [] st[1] = "switchon" -> AnalyzeSwitchon(s, st)
      [] st[1] = "resultis" -> AnalyzeResultis(s, st)
      [] st[1] \in {"retain", "using"} ->
           IF st[3] = <<>> THEN Out(s, st) ELSE AnalyzeHeld(s, st)
      [] OTHER -> Out(s, st)

\* A function or routine, in a scope with its parameters.
AnalyzeBody(s, f) ==
    LET inner == DeclareAll(s, f[3], "Word")
        body == IF f[1] = "function" THEN TypeOf(inner, f[4])
                ELSE AnalyzeStmt(inner, f[4])
    IN [s |-> body.s, n |-> <<f[1], f[2], f[3], body.n>>,
        result |-> IF f[1] = "function" THEN Hint(body.n) ELSE "Word",
        class |-> IF f[1] = "function" THEN ClassOf(body.s, f[4]) ELSE NoName]

FunctionInfo(result, class) == [result |-> result, class |-> class]
AnalyzeFunction(s, f) ==
    LET t == Declare(s, f[2], "Function", NoName)
        body == AnalyzeBody(PushScope(t), f)
    IN Out([PopScope(body.s) EXCEPT
                !.functions = Bound(@, f[2], FunctionInfo(body.result, body.class))],
           body.n)

\* A method sees SELF and, as its parent's view, SUPER.
AnalyzeMethod(s, class, m) ==
    LET self == Declare(PushScope(s), "SELF", "Object", class)
        both == Declare(self, "SUPER", "Object", s.classes[class].extends)
        body == AnalyzeBody([both EXCEPT !.class = class], m[4])
        t == [PopScope(body.s) EXCEPT !.class = s.class]
        at == Min({i \in DOMAIN t.classes[class].methods :
                     t.classes[class].methods[i].name = m[4][2]})
    IN Out([t EXCEPT !.classes[class].methods[at].result = body.result,
                     !.classes[class].methods[at].class = body.class],
           <<"method", m[2], m[3], body.n>>)

\* Member initialisers are not analysed: no part of them has a hint.
RECURSIVE Unseen(_)
Unseen(e) ==
    LET parts == CASE e[1] \in {"make", "new"} ->
                        [e EXCEPT ![3] = [i \in DOMAIN e[3] |-> Unseen(e[3][i])]]
                   [] e[1] = "bin" -> [e EXCEPT ![3] = Unseen(@), ![4] = Unseen(@)]
                   [] OTHER -> e
    IN Append(parts, "Unknown")
AnalyzeMember(s, class, m) ==
    CASE m[1] = "method" -> AnalyzeMethod(s, class, m)
      [] m[1] = "member" ->
           Out(s, <<"member", m[2], <<m[3][1], m[3][2], [i \in DOMAIN m[3][3] |-> Unseen(m[3][3][i])]>>>>)
      [] m[1] = "flet" /\ Len(m[3]) = 2 ->
           Out(s, <<"flet", m[2], <<m[3][1], Unseen(m[3][2])>>>>)
      [] OTHER -> Out(s, m)
AnalyzeClass(s, c) ==
    LET all == InOrder(LAMBDA acc, m: LET t == AnalyzeMember(acc.s, c[2], m)
                                       IN [s |-> t.s, ns |-> Append(acc.ns, t.n)],
                        [s |-> s, ns |-> <<>>], c[5])
    IN Out(all.s, <<"class", c[2], c[3], c[4], all.ns>>)

\* fold_int_literal
RECURSIVE Folded(_)
Folded(e) ==
    CASE e[1] \in {"int", "bool"} -> <<e[2]>>
      [] e[1] = "un" /\ e[2] = "-" -> [i \in DOMAIN Folded(e[3]) |-> -Folded(e[3])[i]]
      [] OTHER -> <<>>

AnalyzeManifest(s, name, e) ==
    LET t == TypeOf(s, e)
        u == Declare(t.s, name, t.h, NoName)
    IN IF Folded(e) = <<>> THEN u ELSE [u EXCEPT !.manifests = Bound(@, name, Folded(e)[1])]
AnalyzeGlobal(s, name, e) ==
    LET t == TypeOf(s, e)
    IN [Declare(t.s, name, t.h, NoName) EXCEPT
            !.globals = Bound(@, name, IF e[1] = "int" THEN e[2] ELSE 0)]
AnalyzeBindings(s, d) ==
    InOrder(LAMBDA t, b: IF d[1] = "GLOBAL" THEN AnalyzeGlobal(t, b[1], b[2])
                          ELSE AnalyzeManifest(t, b[1], b[2]), s, d[2])

AnalyzeDecl(s, d) ==
    CASE d[1] \in {"function", "routine"} -> AnalyzeFunction(s, d)
      [] d[1] = "class" -> AnalyzeClass(s, d)
      [] d[1] \in {"GLOBAL", "MANIFEST"} -> Out(AnalyzeBindings(s, d), d)
      [] OTHER -> Out(s, d)

Preregister(s, d) ==
    IF d[1] \notin {"function", "routine"} THEN s
    ELSE [s EXCEPT !.functions = Bound(@, d[2],
              FunctionInfo(IF d[1] = "function" THEN "Unknown" ELSE "Word", NoName))]

\* analyze_program: classes, FINAL, functions, then every declaration.
Analyze(program) ==
    LET classes == SelectSeq(program, LAMBDA d: d[1] = "class")
        known == InOrder(RegisterClass, Sema, classes)
        final == {"final" : i \in {j \in DOMAIN classes : FinalOverridden(known, classes[j])}}
        ready == InOrder(Preregister, [known EXCEPT !.errors = final], program)
    IN InOrder(LAMBDA acc, d: LET t == AnalyzeDecl(acc.s, d)
                               IN [s |-> t.s, ns |-> Append(acc.ns, t.n)],
                [s |-> ready, ns |-> <<>>], program)
=============================================================================
