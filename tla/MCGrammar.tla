----------------------------- MODULE MCGrammar -----------------------------
EXTENDS Grammar, Parser

MCReading(t) == LET r == ParseProgram(Parser(t)) IN <<r.p.bad, r.n>>

A == <<"id", "a">>
One == <<"lit", "1">>
Yield == <<"resultis", A>>

\* One expression of each shape over given operands.
Shapes(X, Y) ==
    {<<"bin", op, x, y>> : op \in {"*", "+", "<<", "=", "AND", "BOR", "!"},
                           x \in X, y \in Y}
    \cup {<<"bin", op, x, <<"id", "b">>>> : op \in {".", "OF"}, x \in X}
    \cup {<<"bin", ".|", x, y>> : x \in {A}, y \in Y}
    \cup {<<"bin", "%%", x, <<"bin", "%%", y, One>>>> : x \in X, y \in {One}}
    \cup {<<"un", op, x>> : op \in {"-", "NOT", "HD", "@"}, x \in X}
    \cup {<<"call", x, <<>>>> : x \in X} \cup {<<"call", x, <<y, One>>>> : x \in X, y \in Y}
    \cup {<<"cond", x, y, A>> : x \in X, y \in Y} \cup {<<"cond", A, One, y>> : y \in Y}
    \cup {<<"valof", <<"block", <<<<"resultis", x>>>>>>>> : x \in X}
    \cup {<<"make", "LIST", <<x>>>> : x \in X} \cup {<<"make", "VEC", <<One>>>>}
    \cup {<<"new", "b", <<x>>>> : x \in X}

E0 == {A, One}
E1 == E0 \cup Shapes({A}, {One})
E2 == Shapes(E1, E1)

\* Statements that a word after them cannot extend, and the others.
Simple == {<<"assign", <<A>>, <<One>>>>, <<"assign", <<A, A>>, <<One, A>>>>,
           <<"do", <<"call", A, <<>>>>>>, <<"jump", "BREAK">>, <<"goto", "a">>,
           <<"block", <<Yield, Yield>>>>, <<"label", "a">>, <<"retain", "a", <<>>>>,
           <<"retain", "a", One>>, Yield}
Bodies == Simple \cup {<<"REPEAT", s>> : s \in Simple}
                 \cup {<<"REPEATWHILE", s, A>> : s \in Simple}
Compound(S) ==
    {<<"if", A, s, t>> : s \in Simple, t \in S} \cup {<<"if", A, s, <<>>>> : s \in S}
    \cup {<<w, A, s>> : w \in {"WHILE", "UNLESS", "UNTIL"}, s \in S}
    \cup {<<"for", "a", One, A, step, s>> : step \in {<<>>, One}, s \in S}
    \cup {<<"foreach", <<"a", "b">>, A, s>> : s \in S}
    \cup {<<"using", "a", One, s>> : s \in S} \cup {<<"block", <<s, Yield>>>> : s \in S}
    \cup {<<"switchon", A, <<<<One, <<s>>>>, <<A, <<>>>>>>, <<<<s>>>>>> : s \in S}
    \cup {<<"decl", <<"let", <<"a", "b">>, <<One>>>>>>}
S2 == Compound(Bodies)
S3 == Bodies \cup S2 \cup Compound({s \in S2 : s[1] # "if"})

Functions1 == {<<"function", "f", <<"a", "b">>, e>> : e \in E1}
Routines1 == {<<"routine", "b", <<>>, s>> : s \in S2}
Values1 == {<<"GLOBAL", <<<<"a", One>>, <<"b", One>>>>>>, <<"STATIC", <<<<"a">>, <<"b", One>>>>>>,
            <<"MANIFEST", <<<<"a", One>>>>>>, <<"asm", "f", <<"a">>>>, <<"get", "1">>,
            <<"let", <<"a">>, <<One>>>>}
Classes1 ==
    {<<"class", "f", base, managed, <<<<"fields", "PUBLIC", <<"a", "b">>>>,
        <<"method", vis, marks, <<"function", "f", <<"a">>, e>>>>,
        <<"flet", "PUBLIC", <<"b", One>>>>>>>> :
        base \in {"", "b"}, managed \in BOOLEAN, vis \in {"PRIVATE", "PROTECTED"},
        marks \in {{}, {"VIRTUAL"}}, e \in {One, <<"cond", A, One, A>>}}

MCPrograms ==
    {<<<<"function", "f", <<"a">>, e>>>> : e \in E2}
    \cup {<<<<"routine", "f", <<>>, s>>>> : s \in S3}
    \cup {<<x, y>> : x \in Functions1, y \in Functions1 \cup Values1}
    \cup {<<x, y>> : x \in Routines1, y \in {<<"function", "f", <<>>, One>>}}
    \cup {<<x, y, <<"function", "a", <<>>, One>>>> : x \in Values1, y \in Functions1}
    \cup {<<x, y>> : x \in Classes1, y \in Functions1}
=============================================================================
