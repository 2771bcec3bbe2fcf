------------------------------ MODULE Grammar ------------------------------
(***************************************************************************)
(* What the parser has to read.  A tree is written down with as few        *)
(* brackets as the ladder of docs/user_guide.md (section 2.2) allows, and  *)
(* a parser reads the tokens back.                                         *)
(***************************************************************************)
EXTENDS Naturals, Sequences, SequencesExt

CONSTANTS
    Names,         \* the tokens that are identifiers
    Programs,      \* sequences of declaration trees
    Reading(_),    \* the parser: whether it failed, and the tree it made of the tokens
    Chained        \* the ways to write neighbouring functions: TRUE with AND

VARIABLES program, chained, tokens, reading

vars == <<program, chained, tokens, reading>>

(***************************************************************************)
(* Expressions: the level of the guide's ladder an expression stands on,   *)
(* 10 for what is bracketed in itself.                                     *)
(***************************************************************************)

Ladder ==
    [x \in {"*", "/", "REM"} |-> 7] @@ [x \in {"+", "-"} |-> 6]
    @@ [x \in {"<<", ">>"} |-> 5] @@ [x \in {"=", "~=", "<", ">"} |-> 4]
    @@ [x \in {"BAND", "AND"} |-> 3] @@ [x \in {"BOR", "OR", "EQV", "NEQV"} |-> 2]
    @@ [x \in {"!", "%", ".%"} |-> 8] @@ [x \in {".", "OF", ".|", "%%"} |-> 9]

LevelOf(e) ==
    CASE e[1] = "cond" -> 0
      [] e[1] = "bin" -> Ladder[e[2]]
      [] e[1] = "un" -> 8
      [] e[1] = "call" -> 9
      [] OTHER -> IF e[1] = "make" /\ e[2] = "VEC" THEN 8 ELSE 10

RECURSIVE Expr(_, _), Stmt(_)

Commas(parts) ==
    FoldLeft(LAMBDA all, t : IF all = <<>> THEN t ELSE all \o <<",">> \o t, <<>>, parts)
ExprList(es) == Commas([i \in DOMAIN es |-> Expr(es[i], 0)])
NameList(names) == Commas([i \in DOMAIN names |-> <<names[i]>>])
Round(t) == <<"(">> \o t \o <<")">>

\* What stands right of a subscript has brackets unless closed in itself: the guide's
\* postfix row does not say which of two neighbours comes first.
SubscriptText(e) == Expr(e, 10)

\* After AND, a name and a parenthesis would begin a declaration.
AfterAnd(t) ==
    IF Len(t) > 1 /\ t[1] \in Names /\ t[2] = "(" THEN Round(t) ELSE t

BinaryText(op, l, r) ==
    CASE op \in {"!", "%", ".%"} -> Expr(l, 9) \o <<op>> \o SubscriptText(r)
      [] op \in {".", "OF"} -> Expr(l, 9) \o <<op, r[2]>>
      [] op = ".|" -> Expr(l, 9) \o <<".", "|">> \o Expr(r, 0) \o <<"|">>
      [] op = "%%" -> Expr(l, 9) \o <<"%%">>
                        \o Round(Expr(r[3], 0) \o <<",">> \o Expr(r[4], 0))
      [] op = "AND" -> Expr(l, 3) \o <<"AND">> \o AfterAnd(Expr(r, 4))
      [] OTHER -> Expr(l, Ladder[op]) \o <<op>> \o Expr(r, Ladder[op] + 1)

BareText(e) ==
    CASE e[1] \in {"id", "lit"} -> <<e[2]>>
      [] e[1] = "un" -> <<e[2]>> \o Expr(e[3], 8)
      [] e[1] = "bin" -> BinaryText(e[2], e[3], e[4])
      [] e[1] = "call" -> Expr(e[2], 9) \o Round(ExprList(e[3]))
      [] e[1] = "cond" -> Expr(e[2], 2) \o <<"->">> \o Expr(e[3], 0) \o <<",">>
                            \o Expr(e[4], 0)
      [] e[1] = "valof" -> <<"VALOF">> \o Stmt(e[2])
      [] e[1] = "make" -> IF e[2] = "VEC" THEN <<"VEC">> \o Expr(e[3][1], 8)
                          ELSE <<e[2]>> \o Round(ExprList(e[3]))
      [] e[1] = "new" -> <<"NEW", e[2]>> \o Round(ExprList(e[3]))

\* VEC (e) would list the elements of a vector, so its size has no brackets.
Expr(e, level) == IF LevelOf(e) < level THEN Round(BareText(e)) ELSE BareText(e)

(***************************************************************************)
(* Statements and declarations.                                            *)
(***************************************************************************)

Block(ss) ==
    <<"$(">> \o FoldLeft(LAMBDA t, s : t \o Stmt(s) \o <<";">>, <<>>, ss) \o <<"$)">>

BindingText(b) == IF Len(b) = 1 THEN <<b[1]>> ELSE <<b[1], "=">> \o Expr(b[2], 0)
BindingsText(bs) ==
    <<"$(">> \o FoldLeft(LAMBDA t, b : t \o BindingText(b) \o <<";">>, <<>>, bs) \o <<"$)">>

\* A function or routine after LET, AND, FUNCTION or ROUTINE.
TailText(d) ==
    <<d[2]>> \o Round(NameList(d[3]))
    \o CASE d[1] = "function" -> <<"=">> \o Expr(d[4], 0)
         [] d[1] = "routine" -> <<"BE">> \o Stmt(d[4])
         [] d[1] = "asm" -> <<"=", "ASM", "{", "ret", "}">>

MemberText(m) ==
    <<m[2], ":">> \o
    CASE m[1] = "fields" -> <<"DECL">> \o NameList(m[3])
      [] m[1] = "flet" -> <<"FLET">> \o BindingText(m[3])
      [] m[1] = "method" -> SetToSeq(m[3]) \o <<"FUNCTION">> \o TailText(m[4])

ClassText(name, extends, managed, members) ==
    <<"CLASS", name>> \o (IF extends = "" THEN <<>> ELSE <<"EXTENDS", extends>>)
    \o (IF managed THEN <<"MANAGED">> ELSE <<>>)
    \o <<"$(">> \o FoldLeft(LAMBDA t, m : t \o MemberText(m), <<>>, members) \o <<"$)">>

DeclText(d) ==
    CASE d[1] \in {"function", "routine", "asm"} -> <<"LET">> \o TailText(d)
      [] d[1] = "let" -> <<"LET">> \o NameList(d[2]) \o <<"=">> \o ExprList(d[3])
      [] d[1] = "get" -> <<"GET", d[2]>>
      [] d[1] \in {"MANIFEST", "STATIC", "GLOBAL"} -> <<d[1]>> \o BindingsText(d[2])
      [] d[1] = "class" -> ClassText(d[2], d[3], d[4], d[5])

CaseText(c) ==
    <<"CASE">> \o Expr(c[1], 0) \o <<":">>
    \o FoldLeft(LAMBDA t, s : t \o Stmt(s) \o <<";">>, <<>>, c[2])

Stmt(s) ==
    CASE s[1] = "do" -> Expr(s[2], 0)
      [] s[1] = "assign" -> ExprList(s[2]) \o <<":=">> \o ExprList(s[3])
      [] s[1] = "block" -> Block(s[2])
      [] s[1] = "decl" -> DeclText(s[2])
      [] s[1] = "label" -> <<s[2], ":">>
      [] s[1] = "if" -> <<"IF">> \o Expr(s[2], 0) \o <<"THEN">> \o Stmt(s[3])
                          \o (IF s[4] = <<>> THEN <<>> ELSE <<"ELSE">> \o Stmt(s[4]))
      [] s[1] \in {"UNLESS", "WHILE", "UNTIL"} ->
           <<s[1]>> \o Expr(s[2], 0) \o <<"DO">> \o Stmt(s[3])
      [] s[1] = "for" -> <<"FOR", s[2], "=">> \o Expr(s[3], 0) \o <<"TO">> \o Expr(s[4], 0)
                           \o (IF s[5] = <<>> THEN <<>> ELSE <<"BY">> \o Expr(s[5], 0))
                           \o <<"DO">> \o Stmt(s[6])
      [] s[1] = "foreach" -> <<"FOREACH">> \o Round(NameList(s[2])) \o <<"IN">>
                               \o Expr(s[3], 0) \o <<"DO">> \o Stmt(s[4])
      [] s[1] = "switchon" ->
           <<"SWITCHON">> \o Expr(s[2], 0) \o <<"INTO", "$(">>
           \o FoldLeft(LAMBDA t, c : t \o CaseText(c), <<>>, s[3])
           \o (IF s[4] = <<>> THEN <<>>
               ELSE <<"DEFAULT", ":">>
                    \o FoldLeft(LAMBDA t, x : t \o Stmt(x) \o <<";">>, <<>>, s[4][1]))
           \o <<"$)">>
      [] s[1] = "resultis" -> <<"RESULTIS">> \o Expr(s[2], 0)
      [] s[1] = "jump" -> <<s[2]>>
      [] s[1] = "goto" -> <<"GOTO", s[2]>>
      [] s[1] = "retain" -> <<"RETAIN", s[2]>>
                              \o (IF s[3] = <<>> THEN <<>> ELSE <<"=">> \o Expr(s[3], 0))
      [] s[1] = "using" -> <<"USING", s[2], "=">> \o Expr(s[3], 0) \o <<"DO">> \o Stmt(s[4])
      [] s[1] = "REPEAT" -> Stmt(s[2]) \o <<"REPEAT">>
      [] s[1] \in {"REPEATWHILE", "REPEATUNTIL"} -> Stmt(s[2]) \o <<s[1]>> \o Expr(s[3], 0)

\* Neighbouring functions may be written as one chain.
ProgramText(ds, chain) ==
    LET proper == {"function", "routine"}
        After(i) == i > 1 /\ chain /\ ds[i][1] \in proper /\ ds[i - 1][1] \in proper
    IN FoldLeft(LAMBDA t, i : t \o IF After(i) THEN <<"AND">> \o TailText(ds[i])
                                   ELSE DeclText(ds[i]),
                <<>>, [i \in DOMAIN ds |-> i])

(***************************************************************************)
(* A program is written, then read.                                        *)
(***************************************************************************)

Init ==
    /\ program \in Programs /\ chained \in Chained
    /\ tokens = <<>> /\ reading = <<>>

Write ==
    /\ tokens = <<>>
    /\ tokens' = ProgramText(program, chained)
    /\ UNCHANGED <<program, chained, reading>>

Read ==
    /\ tokens # <<>> /\ reading = <<>>
    /\ reading' = Reading(tokens)
    /\ UNCHANGED <<program, chained, tokens>>

Next == Write \/ Read

Spec == Init /\ [][Next]_vars

\* The parser reads every program as it was meant: operators at their level of
\* the ladder and to the left, subscripts, calls and members on the operand they
\* follow, ELSE with the nearest IF, loops around the statement before them, the
\* members of a class under their own heading, and the declarations of an AND
\* chain one by one, in the order in which they stand in the source.
ReadAsMeant == reading # <<>> => reading = <<FALSE, program>>

=============================================================================
