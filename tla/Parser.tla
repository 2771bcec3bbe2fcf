------------------------------- MODULE Parser -------------------------------
(***************************************************************************)
(* The recursive-descent parser (newbcpl-parser/src/parser.rs) as          *)
(* operators on token sequences.  A parser is a record: the tokens, the    *)
(* position of the next one, the depth of open .|...| brackets and the     *)
(* declarations an AND chain has left over.  An operator returns the       *)
(* parser after it and the node it built.  The first error moves the       *)
(* parser to the end of the tokens, where nothing is accepted any more.    *)
(* Spans, hints and AS annotations are left out of the nodes.              *)
(***************************************************************************)
EXTENDS Naturals, Sequences, SequencesExt, Functions

CONSTANTS
    Identifiers,   \* tokens of kind Identifier
    Literals       \* tokens of kind Integer, Real, String, Character

Eof == "eof"

Parser(tokens) == [tokens |-> tokens, pos |-> 1, lane |-> 0, pending |-> <<>>,
                   bad |-> FALSE]
TokenAt(p, i) == IF i \in 1 .. Len(p.tokens) THEN p.tokens[i] ELSE Eof
Peek(p) == TokenAt(p, p.pos)
AtEnd(p) == p.pos > Len(p.tokens)
Eat(p) == [p EXCEPT !.pos = IF AtEnd(p) THEN @ ELSE @ + 1]
Fail(p) == [p EXCEPT !.pos = Len(p.tokens) + 1, !.bad = TRUE]
Expect(p, sym) == IF Peek(p) = sym THEN Eat(p) ELSE Fail(p)
Accept(p, syms) == IF Peek(p) \in syms THEN Eat(p) ELSE p
Node(p, n) == [p |-> p, n |-> n]
EatIdentifier(p) ==
    IF Peek(p) \in Identifiers THEN Node(Eat(p), Peek(p)) ELSE Node(Fail(p), "")

RECURSIVE ParseExpr(_), ParseStmt(_), ParseUnary(_), ParseType(_)

(***************************************************************************)
(* Lists.                                                                  *)
(***************************************************************************)

RECURSIVE MoreNames(_, _), MoreExprs(_, _, _), SkipSeparators(_)

TypeWords == {"INTEGER", "FLOAT", "WORD", "STRING", "LIST", "PAIR"}

\* consume_type_annotation: pointer marks, a base name, OF and its element.
ParseType(p) ==
    IF Peek(p) = "^" THEN ParseType(Eat(p))
    ELSE IF Peek(p) = "POINTER" THEN ParseType(Accept(Eat(p), {"TO"}))
    ELSE IF Peek(p) \notin Identifiers \cup TypeWords THEN p
    ELSE LET base == Eat(p) IN IF Peek(base) = "OF" THEN ParseType(Eat(base)) ELSE base
OptionalAs(p) == IF Peek(p) = "AS" THEN ParseType(Eat(p)) ELSE p

\* name [AS type] {, name [AS type]}
MoreNames(p, names) ==
    LET name == EatIdentifier(p)
        q == OptionalAs(name.p)
        all == Append(names, name.n)
    IN IF Peek(q) = "," THEN MoreNames(Eat(q), all) ELSE Node(q, all)

\* The parameter list after its opening parenthesis.
ParseParams(p) ==
    LET names == IF Peek(p) = ")" THEN Node(p, <<>>) ELSE MoreNames(p, <<>>)
    IN Node(Expect(names.p, ")"), names.n)

\* expr {, expr}; some lists may end in a comma before their closing token.
MoreExprs(p, exprs, close) ==
    LET e == ParseExpr(p)
        all == Append(exprs, e.n)
    IN IF Peek(e.p) # "," THEN Node(e.p, all)
       ELSE IF Peek(Eat(e.p)) = close THEN Node(Eat(e.p), all)
       ELSE MoreExprs(Eat(e.p), all, close)
NoTrailing == "no trailing comma"
ParseArgs(p, close, trailing) ==
    LET args == IF Peek(p) = close THEN Node(p, <<>>)
                ELSE MoreExprs(p, <<>>, IF trailing THEN close ELSE NoTrailing)
    IN Node(Expect(args.p, close), args.n)

SkipSeparators(p) == IF Peek(p) = ";" THEN SkipSeparators(Eat(p)) ELSE p

(***************************************************************************)
(* Expressions.                                                            *)
(***************************************************************************)

Level(op, prec) == [op |-> op, prec |-> prec]
Operators ==
    [x \in {"*", "/", "REM"} |-> Level(x, 7)] @@ [x \in {"+", "-"} |-> Level(x, 6)]
    @@ [x \in {"<<", ">>"} |-> Level(x, 5)]
    @@ [x \in {"=", "~=", "<", "<=", ">", ">="} |-> Level(x, 4)]
    @@ [x \in {"&", "BAND"} |-> Level("BAND", 3)] @@ [x \in {"AND"} |-> Level("AND", 3)]
    @@ [x \in {"|", "BOR"} |-> Level("BOR", 2)]
    @@ [x \in {"BXOR", "OR", "XOR", "EQV", "NEQV"} |-> Level(x, 2)]

\* AND <identifier> ( begins the next declaration of a chain.
LooksLikeDeclTailAnd(p) ==
    /\ Peek(p) = "AND"
    /\ TokenAt(p, p.pos + 1) \in Identifiers
    /\ TokenAt(p, p.pos + 2) = "("

\* peek_binary_op: not the AND of a chain, not the | that closes a lane.
BinaryOpHere(p, minPrec) ==
    /\ Peek(p) \in DOMAIN Operators
    /\ Operators[Peek(p)].prec >= minPrec
    /\ ~LooksLikeDeclTailAnd(p)
    /\ Peek(p) = "|" => p.lane = 0

UnaryOperators ==
    [x \in {"-", "NOT", "HD", "TL", "REST", "LEN", "FREEVEC", "FREELIST", "!", "@", "%"}
        |-> x]
    @@ [x \in {"~", "BNOT"} |-> "BNOT"]

Makers == {"PAIR", "FPAIR", "QUAD", "FQUAD", "OCT", "FOCT", "TABLE", "FTABLE",
           "LIST", "MANIFESTLIST"}
KeywordNames == {"FLOAT", "TRUNC", "FIX", "FSQRT", "ENTIER", "TYPE", "TYPEOF",
                 "SELF", "SUPER"}

\* VEC [e, ...], VEC(e, ...) or VEC size.
ParseVec(p) ==
    LET kind == Peek(p)
        q == Eat(p)
        args == CASE Peek(q) = "[" -> ParseArgs(Eat(q), "]", TRUE)
                  [] Peek(q) = "(" -> ParseArgs(Eat(q), ")", TRUE)
                  [] OTHER -> LET size == ParseUnary(q) IN Node(size.p, <<size.n>>)
    IN Node(args.p, <<"make", kind, args.n>>)

ParseMaker(p) ==
    LET args == ParseArgs(Expect(Eat(p), "("), ")", TRUE)
    IN Node(args.p, <<"make", Peek(p), args.n>>)

ParseNew(p) ==
    LET class == EatIdentifier(Eat(p))
        args == IF Peek(class.p) = "(" THEN ParseArgs(Eat(class.p), ")", TRUE)
                ELSE Node(class.p, <<>>)
    IN Node(args.p, <<"new", class.n, args.n>>)

ParseValof(p) ==
    LET body == ParseStmt(OptionalAs(Eat(p))) IN Node(body.p, <<"valof", body.n>>)

ParseParenthesised(p) ==
    LET inner == ParseExpr(Eat(p)) IN Node(Expect(inner.p, ")"), inner.n)

ParseAtom(p) ==
    LET tok == Peek(p)
    IN CASE tok \in Identifiers \cup KeywordNames -> Node(Eat(p), <<"id", tok>>)
         [] tok \in Literals \cup {"TRUE", "FALSE", "?"} -> Node(Eat(p), <<"lit", tok>>)
         [] tok \in {"VALOF", "FVALOF"} -> ParseValof(p)
         [] tok \in {"VEC", "FVEC"} -> ParseVec(p)
         [] tok \in Makers -> ParseMaker(p)
         [] tok = "NEW" -> ParseNew(p)
         [] tok = "(" -> ParseParenthesised(p)
         [] OTHER -> Node(Fail(p), <<"none">>)

RECURSIVE PostfixLoop(_, _), BinaryLoop(_, _, _), ParseBinary(_, _)

\* e %% (start, width) nests the width under the start.
ParseBitfield(p, e) ==
    LET start == ParseExpr(Expect(Eat(p), "("))
        width == IF Peek(start.p) = "," THEN ParseExpr(Eat(start.p)) ELSE start
        field == IF Peek(start.p) = "," THEN <<"bin", "%%", start.n, width.n>> ELSE start.n
    IN Node(Expect(width.p, ")"), <<"bin", "%%", e, field>>)

\* e.|lane|: while the index is read, | is not an operator.
ParseLane(p, e) ==
    LET index == ParseExpr([Eat(p) EXCEPT !.lane = @ + 1])
    IN Node(Expect([index.p EXCEPT !.lane = @ - 1], "|"), <<"bin", ".|", e, index.n>>)

ParseMember(p, e, op) ==
    LET field == EatIdentifier(p) IN Node(field.p, <<"bin", op, e, <<"id", field.n>>>>)

PostfixLoop(p, e) ==
    LET next == Eat(p)
        Go(r) == PostfixLoop(r.p, r.n)
    IN CASE Peek(p) = "(" ->
              LET args == ParseArgs(next, ")", FALSE)
              IN PostfixLoop(args.p, <<"call", e, args.n>>)
         [] Peek(p) = "%%" -> Go(ParseBitfield(p, e))
         [] Peek(p) \in {"!", "%", ".%"} ->
              LET rhs == ParseUnary(next)
              IN PostfixLoop(rhs.p, <<"bin", Peek(p), e, rhs.n>>)
         [] Peek(p) = "." /\ Peek(next) = "|" -> Go(ParseLane(next, e))
         [] Peek(p) = "OF" \/ (Peek(p) = "." /\ Peek(next) # "|") -> Go(ParseMember(next, e, Peek(p)))
         [] OTHER -> Node(p, e)

ParsePostfix(p) == LET atom == ParseAtom(p) IN PostfixLoop(atom.p, atom.n)

ParseUnary(p) ==
    IF Peek(p) \in DOMAIN UnaryOperators
    THEN LET operand == ParseUnary(Eat(p))
         IN Node(operand.p, <<"un", UnaryOperators[Peek(p)], operand.n>>)
    ELSE ParsePostfix(p)

\* Variant of BinaryLoop: the right operand takes operators of its own level.
BinaryLoopRight(p, lhs, minPrec) ==
    IF ~BinaryOpHere(p, minPrec) THEN Node(p, lhs)
    ELSE LET op == Operators[Peek(p)]
             rhs == ParseBinary(Eat(p), op.prec)
         IN BinaryLoop(rhs.p, <<"bin", op.op, lhs, rhs.n>>, minPrec)

\* Precedence climbing; every operator is left-associative.
BinaryLoop(p, lhs, minPrec) ==
    IF ~BinaryOpHere(p, minPrec) THEN Node(p, lhs)
    ELSE LET op == Operators[Peek(p)]
             rhs == ParseBinary(Eat(p), op.prec + 1)
         IN BinaryLoop(rhs.p, <<"bin", op.op, lhs, rhs.n>>, minPrec)
ParseBinary(p, minPrec) ==
    LET lhs == ParseUnary(p) IN BinaryLoop(lhs.p, lhs.n, minPrec)

\* cond -> then, else at the bottom of the ladder, right-associative.
ParseExpr(p) ==
    LET cond == ParseBinary(p, 0)
    IN IF Peek(cond.p) # "->" THEN cond
       ELSE LET then == ParseExpr(Eat(cond.p))
                else == ParseExpr(Expect(then.p, ","))
            IN Node(else.p, <<"cond", cond.n, then.n, else.n>>)

(***************************************************************************)
(* Declarations.                                                           *)
(***************************************************************************)

Openers == {"$(", "{"}
CloserOf(open) == IF open = "{" THEN "}" ELSE "$)"
ExpectOpener(p) == IF Peek(p) \in Openers THEN Eat(p) ELSE Fail(p)

RECURSIVE SkipAsm(_, _), MoreBindings(_, _, _, _, _), MoreMembers(_, _, _, _), Chain(_)

\* scan_asm_body: up to the brace that closes the first one.
SkipAsm(p, depth) ==
    IF AtEnd(p) THEN Fail(p)
    ELSE LET inner == depth + (IF Peek(p) = "{" THEN 1 ELSE 0)
                            - (IF Peek(p) = "}" THEN 1 ELSE 0)
         IN IF inner = 0 THEN Eat(p) ELSE SkipAsm(Eat(p), inner)

\* What follows a parameter list: = ASM, = expr, BE ASM or BE stmt.
ParseTail(p, name, params) ==
    LET q == Eat(p)
        asm == Node(SkipAsm(Expect(Eat(q), "{"), 1), <<"asm", name, params>>)
    IN CASE Peek(p) \in {"=", "BE"} /\ Peek(q) = "ASM" -> asm
         [] Peek(p) = "=" /\ Peek(q) # "ASM" ->
              LET e == ParseExpr(q) IN Node(e.p, <<"function", name, params, e.n>>)
         [] Peek(p) = "BE" /\ Peek(q) # "ASM" ->
              LET s == ParseStmt(q) IN Node(s.p, <<"routine", name, params, s.n>>)
         [] OTHER -> Node(Fail(p), <<"none">>)

\* consume_mutual_recursion_chain: the siblings wait in pending.
Chain(p) ==
    IF ~LooksLikeDeclTailAnd(p) THEN p
    ELSE LET name == EatIdentifier(Eat(p))
             params == ParseParams(Expect(name.p, "("))
             tail == ParseTail(OptionalAs(params.p), name.n, params.n)
         IN Chain([tail.p EXCEPT !.pending = Append(@, tail.n)])

\* LET a, b = e unpacks one value into several names.
ParseLetBindings(p) ==
    LET names == MoreNames(p, <<>>)
        exprs == MoreExprs(Expect(names.p, "="), <<>>, NoTrailing)
        fits == Len(names.n) = Len(exprs.n) \/ Len(exprs.n) = 1
    IN Node(IF fits THEN exprs.p ELSE Fail(exprs.p), <<"let", names.n, exprs.n>>)

ParseLet(p) ==
    LET name == EatIdentifier(Eat(p))
        params == ParseParams(Eat(name.p))
        tail == ParseTail(OptionalAs(params.p), name.n, params.n)
    IN IF Peek(name.p) # "(" THEN ParseLetBindings(Eat(p))
       ELSE IF tail.n[1] = "asm" THEN tail
       ELSE Node(Chain(tail.p), tail.n)

\* A block of name = expr, name : expr or a bare name.
MoreBindings(p, bindings, close, initRequired, allowColon) ==
    LET q == SkipSeparators(p)
        name == EatIdentifier(Accept(q, {"LET", "FLET"}))
        value == ParseExpr(Eat(name.p))
    IN IF AtEnd(q) THEN Node(Fail(q), bindings)
       ELSE IF Peek(q) = close THEN Node(Eat(q), bindings)
       ELSE IF Peek(name.p) \in {"=", IF allowColon THEN ":" ELSE "="}
       THEN MoreBindings(value.p, Append(bindings, <<name.n, value.n>>), close,
                         initRequired, allowColon)
       ELSE IF initRequired \/ Peek(name.p) = ":" THEN Node(Fail(q), bindings)
       ELSE MoreBindings(name.p, Append(bindings, <<name.n>>), close,
                         initRequired, allowColon)
ParseBindings(p, initRequired, allowColon) ==
    MoreBindings(ExpectOpener(p), <<>>, CloserOf(Peek(p)), initRequired, allowColon)

ParseGet(p) ==
    IF Peek(Eat(p)) \in Literals THEN Node(Eat(Eat(p)), <<"get", Peek(Eat(p))>>)
    ELSE Node(Fail(p), <<"none">>)

ParseManifest(p) ==
    LET b == ParseBindings(Eat(p), TRUE, TRUE) IN Node(b.p, <<"MANIFEST", b.n>>)

ParseStatic(p) ==
    LET name == EatIdentifier(Eat(p))
        b == IF Peek(Eat(p)) \in Openers THEN ParseBindings(Eat(p), FALSE, TRUE)
             ELSE Node(name.p, <<<<name.n>>>>)
    IN Node(b.p, <<"STATIC", b.n>>)

\* GLOBAL name = expr or a block; GLOBALS is refused.
ParseGlobal(p) ==
    LET name == EatIdentifier(Eat(p))
        value == ParseExpr(Expect(name.p, "="))
        b == IF Peek(Eat(p)) \in Openers THEN ParseBindings(Eat(p), TRUE, FALSE)
             ELSE Node(value.p, <<<<name.n, value.n>>>>)
    IN IF Peek(p) = "GLOBALS" THEN Node(Fail(p), <<"none">>)
       ELSE Node(b.p, <<"GLOBAL", b.n>>)

(***************************************************************************)
(* Classes.                                                                *)
(***************************************************************************)

Visibilities == {"PUBLIC", "PRIVATE", "PROTECTED"}

\* lookahead_is_field_let: LET name {, name} with none of =, (, AS after it.
RECURSIVE FieldLetFrom(_, _)
FieldLetFrom(p, i) ==
    /\ TokenAt(p, i) \in Identifiers
    /\ IF TokenAt(p, i + 1) = "," THEN FieldLetFrom(p, i + 2)
       ELSE TokenAt(p, i + 1) \notin {"=", "(", "AS"}

ParseFields(p, vis) ==
    LET names == MoreNames(Eat(p), <<>>) IN Node(names.p, <<"fields", vis, names.n>>)

\* LET in a class body: fields, an initialised member or a method.
ParseClassLet(p, vis) ==
    LET d == ParseLet(p)
    IN IF FieldLetFrom(p, p.pos + 1) THEN ParseFields(p, vis)
       ELSE IF d.n[1] \in {"function", "routine"}
       THEN Node(d.p, <<"method", vis, {}, d.n>>)
       ELSE Node(IF d.n[1] = "let" THEN d.p ELSE Fail(d.p), <<"member", vis, d.n>>)

ParseClassFlet(p, vis) ==
    LET name == EatIdentifier(Eat(p))
        value == ParseExpr(Eat(name.p))
    IN IF Peek(name.p) = "=" THEN Node(value.p, <<"flet", vis, <<name.n, value.n>>>>)
       ELSE Node(name.p, <<"flet", vis, <<name.n>>>>)

\* ROUTINE or FUNCTION with either body form, but not ASM.
ParseClassMethod(p, vis, marks) ==
    LET name == EatIdentifier(Eat(p))
        params == ParseParams(Expect(name.p, "("))
        tail == ParseTail(params.p, name.n, params.n)
    IN IF Peek(Eat(params.p)) = "ASM" THEN Node(Fail(p), <<"none">>)
       ELSE Node(tail.p, <<"method", vis, marks, tail.n>>)

\* Each of VIRTUAL and FINAL may stand once before a method.
RECURSIVE EatMarks(_, _)
EatMarks(p, marks) ==
    IF Peek(p) \in {"VIRTUAL", "FINAL"} \ marks
    THEN EatMarks(Eat(p), marks \cup {Peek(p)}) ELSE Node(p, marks)

ParseClassMember(p, vis) ==
    LET marks == EatMarks(p, {})
    IN CASE Peek(marks.p) \in {"ROUTINE", "FUNCTION"} ->
              ParseClassMethod(marks.p, vis, marks.n)
         [] marks.n = {} /\ Peek(p) = "DECL" -> ParseFields(p, vis)
         [] marks.n = {} /\ Peek(p) = "LET" -> ParseClassLet(p, vis)
         [] marks.n = {} /\ Peek(p) = "FLET" -> ParseClassFlet(p, vis)
         [] OTHER -> Node(Fail(p), <<"none">>)

MoreMembers(p, members, vis, close) ==
    LET q == SkipSeparators(p)
        m == ParseClassMember(q, vis)
    IN IF AtEnd(q) THEN Node(Fail(q), members)
       ELSE IF Peek(q) = close THEN Node(Eat(q), members)
       ELSE IF Peek(q) \in Visibilities /\ TokenAt(q, q.pos + 1) = ":"
       THEN MoreMembers(Eat(Eat(q)), members, Peek(q), close)
       ELSE MoreMembers(m.p, Append(members, m.n), vis, close)

\* EXTENDS and MANAGED in either order, each once.
RECURSIVE ClassHeader(_, _, _)
ClassHeader(p, extends, managed) ==
    IF Peek(p) = "EXTENDS" /\ extends = ""
    THEN LET base == EatIdentifier(Eat(p)) IN ClassHeader(base.p, base.n, managed)
    ELSE IF Peek(p) = "MANAGED" /\ ~managed THEN ClassHeader(Eat(p), extends, TRUE)
    ELSE [p |-> p, extends |-> extends, managed |-> managed]

ParseClass(p) ==
    LET name == EatIdentifier(Eat(p))
        head == ClassHeader(name.p, "", FALSE)
        q == Accept(head.p, {"BE"})
        body == MoreMembers(ExpectOpener(q), <<>>, "PUBLIC", CloserOf(Peek(q)))
    IN Node(body.p, <<"class", name.n, head.extends, head.managed, body.n>>)

ParseDecl(p) ==
    LET tok == Peek(p)
    IN CASE tok \in {"LET", "FLET"} -> ParseLet(p)
         [] tok = "GET" -> ParseGet(p)
         [] tok = "MANIFEST" -> ParseManifest(p)
         [] tok = "STATIC" -> ParseStatic(p)
         [] tok \in {"GLOBAL", "GLOBALS"} -> ParseGlobal(p)
         [] tok = "CLASS" -> ParseClass(p)
         [] OTHER -> Node(Fail(p), <<"none">>)

(***************************************************************************)
(* Statements.                                                             *)
(***************************************************************************)

RECURSIVE MoreStmts(_, _, _), MoreCases(_, _, _, _)

\* The statements up to one of the closing tokens.
MoreStmts(p, stmts, closers) ==
    LET s == ParseStmt(p)
    IN CASE AtEnd(p) \/ Peek(p) \in closers -> Node(p, stmts)
         [] Peek(p) = ";" -> MoreStmts(Eat(p), stmts, closers)
         [] OTHER -> MoreStmts(s.p, Append(stmts, s.n), closers)

ParseBlock(p) ==
    LET close == CloserOf(Peek(p))
        body == MoreStmts(Eat(p), <<>>, {close})
    IN Node(Expect(body.p, close), <<"block", body.n>>)

\* Variant of ParseIf: an ELSE is left for an enclosing statement.
ParseIfAlone(p) ==
    LET cond == ParseExpr(Eat(p))
        then == ParseStmt(Accept(cond.p, {"THEN", "DO"}))
    IN Node(then.p, <<"if", cond.n, then.n, <<>>>>)

\* IF takes the nearest ELSE.
ParseIf(p) ==
    LET cond == ParseExpr(Eat(p))
        then == ParseStmt(Accept(cond.p, {"THEN", "DO"}))
        else == ParseStmt(Eat(then.p))
    IN IF Peek(then.p) = "ELSE" THEN Node(else.p, <<"if", cond.n, then.n, else.n>>)
       ELSE Node(then.p, <<"if", cond.n, then.n, <<>>>>)

ParseTest(p) ==
    LET cond == ParseExpr(Eat(p))
        then == ParseStmt(Accept(cond.p, {"THEN"}))
        else == ParseStmt(Expect(then.p, "ELSE"))
    IN Node(else.p, <<"if", cond.n, then.n, else.n>>)

\* UNLESS, WHILE and UNTIL: the word before the body is optional.
ParseGuarded(p, words) ==
    LET cond == ParseExpr(Eat(p))
        body == ParseStmt(Accept(cond.p, words))
    IN Node(body.p, <<Peek(p), cond.n, body.n>>)

ParseFor(p) ==
    LET name == EatIdentifier(Eat(p))
        start == ParseExpr(Expect(name.p, "="))
        end == ParseExpr(Expect(start.p, "TO"))
        step == IF Peek(end.p) = "BY" THEN ParseExpr(Eat(end.p)) ELSE Node(end.p, <<>>)
        body == ParseStmt(Accept(step.p, {"DO"}))
    IN Node(body.p, <<"for", name.n, start.n, end.n, step.n, body.n>>)

RECURSIVE ForEachNames(_, _)
ForEachNames(p, names) ==
    LET name == EatIdentifier(p)
        all == Append(names, name.n)
    IN IF Peek(name.p) = "," THEN ForEachNames(Eat(name.p), all) ELSE Node(name.p, all)

\* FOREACH (a, b) unpacks each element; without parentheses at most two names.
ParseForEach(p) ==
    LET q == Eat(p)
        unpack == Peek(q) = "("
        names == IF ~unpack THEN ForEachNames(q, <<>>)
                 ELSE IF Peek(Eat(q)) = ")" THEN Node(Eat(q), <<>>)
                 ELSE ForEachNames(Eat(q), <<>>)
        closed == IF unpack THEN Expect(names.p, ")")
                  ELSE IF Len(names.n) > 2 THEN Fail(names.p) ELSE names.p
        typed == IF Peek(closed) = "AS" THEN EatIdentifier(Eat(closed)).p ELSE closed
        iter == ParseExpr(Expect(typed, "IN"))
        body == ParseStmt(Accept(iter.p, {"DO"}))
    IN Node(body.p, <<"foreach", names.n, iter.n, body.n>>)

\* CASE and DEFAULT arms; of several DEFAULTs the last one stays.
MoreCases(p, cases, default, close) ==
    LET q == SkipSeparators(p)
        ends == {"CASE", "DEFAULT", close}
        value == ParseExpr(Eat(q))
        arm == MoreStmts(Expect(value.p, ":"), <<>>, ends)
        others == MoreStmts(Expect(Eat(q), ":"), <<>>, ends)
    IN CASE Peek(q) = close -> [p |-> Eat(q), cases |-> cases, default |-> default]
         [] Peek(q) = "CASE" ->
              MoreCases(arm.p, Append(cases, <<value.n, arm.n>>), default, close)
         [] Peek(q) = "DEFAULT" -> MoreCases(others.p, cases, <<others.n>>, close)
         [] OTHER -> [p |-> Fail(q), cases |-> cases, default |-> default]

ParseSwitchon(p) ==
    LET value == ParseExpr(Eat(p))
        q == Accept(value.p, {"INTO"})
        body == MoreCases(ExpectOpener(q), <<>>, <<>>, CloserOf(Peek(q)))
    IN Node(body.p, <<"switchon", value.n, body.cases, body.default>>)

ParseResultis(p) == LET e == ParseExpr(Eat(p)) IN Node(e.p, <<"resultis", e.n>>)
ParseGoto(p) == LET label == EatIdentifier(Eat(p)) IN Node(label.p, <<"goto", label.n>>)

ParseRetain(p) ==
    LET name == EatIdentifier(Eat(p))
        value == IF Peek(name.p) = "=" THEN ParseExpr(Eat(name.p)) ELSE Node(name.p, <<>>)
    IN Node(value.p, <<"retain", name.n, value.n>>)

ParseUsing(p) ==
    LET name == EatIdentifier(Eat(p))
        value == ParseExpr(Expect(name.p, "="))
        body == ParseStmt(Accept(value.p, {"DO", "THEN"}))
    IN Node(body.p, <<"using", name.n, value.n, body.n>>)

\* e, e := e, e or a lone expression.
ParseAssignOrExpr(p) ==
    LET targets == MoreExprs(p, <<>>, NoTrailing)
        values == MoreExprs(Eat(targets.p), <<>>, NoTrailing)
        single == ParseExpr(Eat(targets.p))
    IN CASE Peek(targets.p) = ":=" /\ Len(targets.n) = 1 ->
              Node(single.p, <<"assign", targets.n, <<single.n>>>>)
         [] Peek(targets.p) = ":=" /\ Len(targets.n) > 1 ->
              Node(IF Len(values.n) = Len(targets.n) THEN values.p ELSE Fail(values.p),
                   <<"assign", targets.n, values.n>>)
         [] Peek(targets.p) # ":=" /\ Len(targets.n) = 1 ->
              Node(targets.p, <<"do", targets.n[1]>>)
         [] OTHER -> Node(Fail(p), <<"none">>)

Jumps == {"RETURN", "FINISH", "BREAK", "LOOP", "ENDCASE", "BRK"}
DeclWords == {"LET", "FLET", "GET", "MANIFEST", "STATIC", "GLOBAL", "GLOBALS"}

ParseBasicStmt(p) ==
    LET tok == Peek(p)
    IN CASE tok \in Identifiers /\ TokenAt(p, p.pos + 1) = ":" ->
              Node(Eat(Eat(p)), <<"label", tok>>)
         [] tok \in Openers -> ParseBlock(p)
         [] tok \in DeclWords -> LET d == ParseDecl(p) IN Node(d.p, <<"decl", d.n>>)
         [] tok = "IF" -> ParseIf(p)
         [] tok = "TEST" -> ParseTest(p)
         [] tok = "UNLESS" -> ParseGuarded(p, {"THEN", "DO"})
         [] tok \in {"WHILE", "UNTIL"} -> ParseGuarded(p, {"DO"})
         [] tok = "FOR" -> ParseFor(p)
         [] tok = "FOREACH" -> ParseForEach(p)
         [] tok = "SWITCHON" -> ParseSwitchon(p)
         [] tok = "RESULTIS" -> ParseResultis(p)
         [] tok \in Jumps -> Node(Eat(p), <<"jump", tok>>)
         [] tok = "GOTO" -> ParseGoto(p)
         [] tok = "RETAIN" -> ParseRetain(p)
         [] tok = "USING" -> ParseUsing(p)
         [] OTHER -> ParseAssignOrExpr(p)

\* One postfix loop may follow any statement.
ParseStmt(p) ==
    LET s == ParseBasicStmt(p)
        until == ParseExpr(Eat(s.p))
    IN CASE Peek(s.p) = "REPEAT" -> Node(Eat(s.p), <<"REPEAT", s.n>>)
         [] Peek(s.p) \in {"REPEATWHILE", "REPEATUNTIL"} ->
              Node(until.p, <<Peek(s.p), s.n, until.n>>)
         [] OTHER -> s

\* The declarations of a program, each followed by what its chain left.
RECURSIVE MoreItems(_, _)
MoreItems(p, items) ==
    LET all == items \o p.pending
        q == [p EXCEPT !.pending = <<>>]
        d == ParseDecl(q)
    IN IF AtEnd(p) THEN Node(q, all)
       ELSE IF Peek(q) = ";" THEN MoreItems(Eat(q), all)
       ELSE MoreItems(d.p, Append(all, d.n))
ParseProgram(p) == MoreItems(p, <<>>)
=============================================================================
