----------------------------- MODULE MCCompile -----------------------------
(***************************************************************************)
(* Programs for Compile: one family per part of the language, each over    *)
(* the operands that take it down its different paths.                     *)
(***************************************************************************)
EXTENDS Compile

\* Trees.
N(n) == <<"int", n>>
F(x) == <<"float", x>>
V(x) == <<"id", x>>
Bin(op, l, r) == <<"bin", op, l, r>>
Un(op, e) == <<"un", op, e>>
Apply(f, args) == <<"call", V(f), args>>
Make(kind, args) == <<"make", kind, args>>
New(class, args) == <<"new", class, args>>
Dot(obj, name) == Bin(".", obj, V(name))
Send(obj, method, args) == <<"call", Dot(obj, method), args>>

Let(x, e) == <<"decl", <<"let", <<x>>, <<e>>>>>>
FLet(x, e) == <<"decl", <<"flet", <<x>>, <<e>>>>>>
Set(x, e) == <<"assign", <<x>>, <<e>>>>
Do(e) == <<"do", e>>
Say(e) == Do(Apply("WRITEN", <<e>>))
SayF(e) == Do(Apply("FWRITE", <<e>>))
Group(ss) == <<"block", ss>>
Jump(word) == <<"jump", word>>
Inc(x) == Set(V(x), Bin("+", V(x), N(1)))
Valof(ss) == <<"valof", Group(ss)>>
Result(e) == <<"resultis", e>>

Start(ss) == <<"routine", "START", <<>>, Group(ss)>>
Only(ss) == <<Start(ss)>>

\* Expressions over words and over doubles.
Words ==
    {Only(<<Let("a", N(x)), Let("b", N(y)), Say(Bin(op, V("a"), V("b")))>>) :
        op \in {"+", "*", "/", "REM", "<", ">=", "AND", "OR", "XOR", "BAND", "BOR", "BXOR",
                "EQV", "NEQV"},
        x \in {0, 5, -3}, y \in {-2, 7}}
    \cup {Only(<<Let("a", N(x)), Say(Bin(op, V("a"), N(k)))>>) :
             op \in {"<<", ">>"}, x \in {5, -3}, k \in {0, 3}}
    \cup {Only(<<Let("a", N(x)), Say(Un(op, V("a")))>>) :
             op \in {"-", "NOT", "BNOT"}, x \in {0, 6}}
    \cup {Only(<<Let("a", N(x)), Say(Apply(f, <<V("a"), N(4)>>))>>) :
             f \in {"MIN", "MAX", "ABS"}, x \in {-5, 9}}
    \cup {Only(<<Let("a", N(x)),
                 Say(<<"cond", Bin(">", V("a"), N(1)), Bin("*", V("a"), N(2)), N(9)>>)>>) :
             x \in {1, 2}}
Doubles ==
    {Only(<<FLet("x", a), FLet("y", F(2)), SayF(Bin(op, V("x"), V("y"))),
            Say(Bin("<", V("x"), V("y")))>>) :
        op \in {"+", "-", "*", "/"}, a \in {F(6), N(4)}}
    \cup {Only(<<Let("n", N(x)), FLet("x", Apply("FLOAT", <<V("n")>>)), SayF(Un("-", V("x"))),
                 Let("m", Apply("FIX", <<V("x")>>)), Say(V("m")), Set(V("x"), F(3)),
                 SayF(V("x")), Set(V("n"), V("x")), Say(V("n"))>>) : x \in {0, 7}}

\* Loops: what leaves them, and how often they run.
Guards == {<<"if", Bin("=", V("i"), N(2)), Jump("BREAK"), <<>>>>, <<"UNLESS", V("i"), Say(N(8))>>}
Body(s) == Group(<<Say(V("i")), s, Inc("i")>>)
Loops ==
    {Only(<<Let("i", N(from)), <<w, c, Body(s)>>, Say(V("i"))>>) :
        from \in {0, 3}, s \in Guards,
        w \in {"WHILE"}, c \in {Bin("<", V("i"), N(3))}}
    \cup {Only(<<Let("i", N(from)), <<"UNTIL", Bin(">=", V("i"), N(2)), Body(s)>>>>) :
             from \in {0, 3}, s \in Guards}
    \cup {Only(<<Let("i", N(1)), <<"REPEAT", Group(<<Inc("i"), Say(V("i")),
                 <<"if", Bin(">", V("i"), N(3)), Jump("BREAK"), <<>>>>>>)>>, Say(N(7))>>)}
    \cup {Only(<<Let("i", N(from)), <<w, Group(<<Inc("i"), <<"if", Bin("=", V("i"), N(2)),
                 Jump("LOOP"), <<>>>>, Say(V("i"))>>), Bin(op, V("i"), N(3))>>>>) :
             from \in {0, 5}, w \in {"REPEATWHILE"}, op \in {"<"}}
    \cup {Only(<<Let("i", N(0)), <<"REPEATUNTIL", Body(Say(N(6))), Bin(">", V("i"), N(1))>>>>)}
    \cup {Only(<<<<"for", "i", N(a), N(b), step,
                  Group(<<<<"if", Bin("=", V("i"), N(2)), Jump(j), Say(V("i"))>>>>)>>,
                  Say(N(5))>>) :
             a \in {1, 3}, b \in {0, 3}, step \in {<<>>, N(2), N(-1), Un("-", N(1))},
             j \in {"LOOP", "BREAK"}}
    \cup {Only(<<<<"for", "i", N(1), N(2), <<>>,
                  <<"for", "j", V("i"), N(2), <<>>, Say(Bin("+", Bin("*", V("i"), N(3)), V("j")))>>
                  >>>>)}
    \cup {Only(<<Let("i", N(0)), <<w, c, Group(<<Inc("i"), s, Say(V("i"))>>)>>, Say(N(7))>>) :
             <<w, c>> \in {<<"WHILE", Bin("<", V("i"), N(4))>>, <<"UNTIL", Bin("=", V("i"), N(4))>>},
             s \in {<<"if", Bin("<", V("i"), N(3)), Jump("LOOP"), <<>>>>, Jump("LOOP")}}
    \cup {Only(<<Let("i", N(0)), <<"REPEAT", Group(<<Inc("i"),
                 <<"if", Bin("=", V("i"), N(k)), Jump("LOOP"), <<>>>>, Say(V("i")),
                 <<"if", Bin(">", V("i"), N(2)), Jump("BREAK"), <<>>>>>>)>>, Say(N(7))>>) : k \in 1 .. 2}
    \cup {Only(<<Let("i", N(0)), <<"label", "again">>, Inc("i"), Say(V("i")), s, Say(N(9))>>) :
             s \in LET back == <<"if", Bin("<", V("i"), N(3)), <<"goto", "again">>, <<>>>>
                   IN {back,
                       <<"for", "j", N(1), N(2), <<>>, Group(<<Say(V("j")), back>>)>>,
                       <<"WHILE", Bin("<", V("i"), N(5)), Group(<<Inc("i"), back, Say(N(6))>>)>>}}
    \cup {Only(<<Let("i", N(0)), <<"label", "again">>, Inc("i"), Say(V("i")),
                 <<"if", Bin("=", V("i"), N(x)), <<"goto", "done">>, <<>>>>, Say(N(7)),
                 <<"label", "done">>, Say(N(9))>>) : x \in {1, 2}}

Arms == <<<<N(1), <<Say(N(10))>>>>, <<N(2), <<Say(N(20)), Jump("ENDCASE")>>>>, <<N(3), <<>>>>,
          <<N(4), <<Say(N(40))>>>>>>
Switches ==
    {Only(<<Let("x", N(x)), <<"switchon", V("x"), Arms, other>>, Say(N(9))>>) :
        x \in 0 .. 4, other \in {<<>>, <<<<Say(N(50))>>>>}}

Valofs ==
    {Only(<<Let("x", N(n)), Let("r", Valof(<<
         <<"for", "i", N(1), N(3), <<>>, Group(<<<<"if", Bin("=", V("i"), V("x")),
              Result(Bin("*", V("i"), N(10))), <<>>>>>>)>>,
         Result(Un("-", N(1)))>>)), Say(V("r"))>>) : n \in {2, 5}}
    \cup {Only(<<Say(Bin("+", Valof(<<Let("x", N(3)), Result(Valof(<<Result(V("x"))>>))>>), N(1)))>>)}
    \cup {Only(<<FLet("x", Valof(<<Result(F(3))>>)), SayF(V("x"))>>)}

\* Functions, routines and what every one of them can see.
Function(f, params, e) == <<"function", f, params, e>>
Routine(f, params, ss) == <<"routine", f, params, Group(ss)>>
Calls ==
    {<<Function("f", <<"n">>, <<"cond", Bin("<", V("n"), N(2)), N(1),
                                Bin("*", V("n"), Apply("f", <<Bin("-", V("n"), N(1))>>))>>),
       Start(<<Say(Apply("f", <<N(n)>>))>>)>> : n \in {1, 4}}
    \cup {<<Start(<<Do(Apply("p", <<N(2), Apply("q", <<N(n)>>)>>)), Say(N(9))>>),
            Routine("p", <<"a", "b">>, <<<<"if", Bin(">", V("b"), N(5)), Jump("RETURN"), <<>>>>,
                                         Say(Bin("-", V("a"), V("b")))>>),
            Function("q", <<"x">>, Valof(<<<<"if", V("x"), Result(Bin("+", V("x"), N(1))), <<>>>>,
                                           Result(N(8))>>))>> : n \in {0, 3, 5}}
    \cup {<<<<"GLOBAL", <<<<"g", N(3)>>, <<"h", N(0)>>>>>>, <<"MANIFEST", <<<<"m", N(40)>>>>>>,
            Routine("bump", <<>>, <<Inc("g"), Set(V("h"), Bin("+", V("m"), V("g")))>>),
            Start(<<Let("h1", V("h")), Do(Apply("bump", <<>>)), Do(Apply("bump", <<>>)),
                    Say(V("h1")), Say(V("g")), Say(V("h")), Set(V("g"), N(n)),
                    Say(Bin("+", V("g"), V("m")))>>)>> : n \in {0, 7}}
    \cup {<<Function("half", <<"n">>, Bin("/", Apply("FLOAT", <<V("n")>>), F(2))),
            Start(<<FLet("x", Apply("half", <<N(n)>>)), SayF(V("x")),
                    SayF(Bin("+", Apply("half", <<N(n)>>), F(1)))>>)>> : n \in {6, 0}}
    \cup {<<Routine("put", <<"p", "n">>, <<Set(Un("!", V("p")), V("n"))>>),
            Start(<<Let("x", N(1)), Do(Apply("put", <<Un("@", V("x")), N(n)>>)), Say(V("x")),
                    Let("q", Un("@", V("x"))), Say(Un("!", V("q")))>>)>> : n \in {4}}

\* Vectors, lists and what walks over them.
Third(v) == Bin("!", V(v), N(2))
Data ==
    {Only(<<Let("v", Make(kind, args)), Set(Bin("!", V("v"), N(k)), N(6)), Say(Third("v")),
            Say(Un("LEN", V("v"))), Say(Bin("!", V("v"), N(0))),
            <<"foreach", <<"x">>, V("v"),
              Group(<<<<"if", Bin("=", V("x"), N(6)), Jump(j), <<>>>>, Say(V("x"))>>)>>,
            Do(Un("FREEVEC", V("v")))>>) :
        kind \in {"VEC", "TABLE"},
        args \in {<<N(7), N(8), N(9)>>, <<N(7), Bin("+", N(1), N(2)), N(0), N(4)>>},
        k \in {0, 2}, j \in {"LOOP", "BREAK"}}
    \cup {Only(<<Let("n", N(n)), Let("v", IF n = 3 THEN Make("VEC", <<N(3)>>)
                                          ELSE Apply("GETVEC", <<V("n")>>)),
                 <<"for", "i", N(0), Bin("-", V("n"), N(1)), <<>>,
                   Set(Bin("!", V("v"), V("i")), Bin("*", V("i"), V("i")))>>,
                 Say(Bin("!", V("v"), N(1))), Say(Un("LEN", V("v")))>>) : n \in {2, 3}}
    \cup {Only(<<Let("v", Make("FVEC", <<F(1), x>>)), FLet("y", Bin(".%", V("v"), N(1))),
                 Set(Bin(".%", V("v"), N(0)), Bin("+", V("y"), F(2))),
                 SayF(Bin(".%", V("v"), N(0)))>>) : x \in {F(5), N(4)}}
    \cup {Only(<<Let("l", Make("LIST", [i \in 1 .. n |-> N(10 * i)])), Say(Un("LEN", V("l"))),
                 Say(Un("HD", V("l"))), Do(Apply("APND", <<V("l"), N(5)>>)),
                 <<"foreach", <<"x">>, V("l"),
                   Group(<<<<"if", Bin("=", V("x"), N(20)), Jump(j), <<>>>>, Say(V("x"))>>)>>,
                 Let("m", Apply("CONCAT", <<V("l"), V("l")>>)),
                 <<"foreach", <<"x">>, V("m"), Say(V("x"))>>>>) :
             n \in {0, 1, 3}, j \in {"LOOP", "BREAK"}}
    \cup {Only(<<Let("l", Make("LIST", <<N(1), N(2), N(3)>>)), Let("t", Un("TL", V("l"))),
                 Say(Un("HD", V("t"))), Say(Un("HD", Un("TL", V("t")))), Say(Un("HD", V("l"))),
                 Do(Un("FREELIST", V("l")))>>)}

\* Packed values, their lanes and bitfields.
Lane(x, k) == Bin(".|", V(x), N(k))
Range3(x, start, width) == Bin("%%", V(x), Bin("%%", start, width))
Packs ==
    {Only(<<Let("p", Make("PAIR", <<N(x), N(-4)>>)), Say(Lane("p", 0)), Say(Lane("p", 1)),
            Set(Lane("p", k), N(9)), Say(Lane("p", 0)), Say(Lane("p", 1)),
            <<"decl", <<"let", <<"a", "b">>, <<V("p")>>>>>>, Say(V("a")), Say(V("b"))>>) :
        x \in {3, -1}, k \in {0, 1}}
    \cup {Only(<<Let("q", Make("QUAD", <<N(1), N(-2), N(3), N(-4)>>)), Set(Lane("q", k), N(5)),
                 Say(Lane("q", 1)), Say(Lane("q", 2)),
                 <<"decl", <<"let", <<"a", "b", "c", "d">>, <<V("q")>>>>>>, Say(V("a")), Say(V("d"))>>) :
             k \in {1, 3}}
    \cup {Only(<<Let("o", Make("OCT", [i \in 1 .. 8 |-> N((i % 3) - 1)])), Let("k", N(k)),
                 Say(Bin(".|", V("o"), V("k")))>>) : k \in {0, 5, 7}}
    \cup {Only(<<Let("f", Make("FPAIR", <<F(2), F(0)>>)), Set(Lane("f", 1), F(3)),
                 SayF(Bin("+", Lane("f", 0), Lane("f", 1)))>>)}
    \cup {Only(<<Let("v", Make("LIST", <<Make("PAIR", <<N(1), N(2)>>), Make("PAIR", <<N(-3), N(4)>>)>>)),
                 <<"foreach", <<"a", "b">>, V("v"), Group(<<Say(V("a")), Say(V("b"))>>)>>>>)}
    \cup {Only(<<Let("w", N(x)), Let("n", N(width)), Say(Range3("w", N(start), N(width))),
                 Set(Range3("w", N(start), wide), N(y)), Say(V("w")),
                 Say(Bin("%%", V("w"), N(start)))>>) :
             x \in {0, 93}, start \in {0, 3}, width \in {2, 5}, wide \in {N(2), V("n")}, y \in {1, -1}}

\* Classes: what is inherited, overridden, called above and released.
Meth(name, params, body) == <<"method", "PUBLIC", {"VIRTUAL"}, Function(name, params, body)>>
Action(name, params, ss) == <<"method", "PUBLIC", {}, Routine(name, params, ss)>>
Class(name, base, members) == <<"class", name, base, FALSE, members>>
Fields(names) == <<"fields", "PUBLIC", names>>
Has(x, e) == <<"member", "PUBLIC", <<"let", <<x>>, <<e>>>>>>

Base == Class("B", "", <<Fields(<<"a">>), Action("CREATE", <<"n">>, <<Set(V("a"), V("n"))>>),
                         Meth("get", <<>>, V("a")),
                         Meth("size", <<"k">>, Bin("+", Send(V("SELF"), "get", <<>>), V("k")))>>)
Twice == Meth("get", <<>>, Bin("*", Send(V("SUPER"), "get", <<>>), N(2)))
More == Meth("more", <<>>, Bin("+", Dot(V("SELF"), "a"), V("b")))
Sub(members) == Class("S", "B", <<Fields(<<"b">>), More>> \o members)
Leaf(members) == Class("L", "S", <<Fields(<<"c">>)>> \o members)
Session(class) ==
    <<Let("o", New(class, <<N(5)>>)), Say(Send(V("o"), "get", <<>>)),
      Say(Send(V("o"), "size", <<N(1)>>)), Set(Dot(V("o"), "a"), N(7)),
      Say(Send(V("o"), "size", <<N(2)>>)), Say(Bin("OF", V("o"), V("a")))>>
Inheritance ==
    {<<Base, Sub(own), Leaf(leaf), Start(Session(class))>> :
        own \in {<<>>, <<Twice>>}, leaf \in {<<>>, <<Meth("size", <<"k">>, V("k"))>>},
        class \in {"B", "S", "L"}}
    \cup {<<Base, Sub(<<Twice, Action("init", <<"n">>, <<Set(V("b"), V("n")),
                                                     Set(Dot(V("SELF"), "a"), N(1))>>)>>),
            Start(<<Let("o", New("S", <<N(5)>>)), Do(Send(V("o"), "init", <<N(30)>>)),
                    Say(Send(V("o"), "more", <<>>))>>)>>}
    \* a receiver whose class is unknown
    \cup {<<Base, Sub(<<Twice>>), Function("ask", <<"o">>, Send(V("o"), "get", <<>>)),
            Start(<<Say(Apply("ask", <<New(class, <<N(x)>>)>>))>>)>> : class \in {"B", "S"}, x \in {0, 4}}
    \* a chain of instances: the class of a field is learnt from an assignment
    \cup {<<Class("C", "", <<Fields(<<"next", "v">>),
                Action("link", <<"n">>, <<Set(Dot(V("SELF"), "next"), New("C", <<>>)),
                                          Set(Dot(Dot(V("SELF"), "next"), "v"), V("n"))>>)>>),
            Start(<<Let("o", New("C", <<>>)), Do(Send(V("o"), "link", <<N(4)>>)),
                    Set(Dot(V("o"), "v"), N(9)), Say(Dot(Dot(V("o"), "next"), "v")),
                    Say(Dot(V("o"), "v"))>>)>>}

Members ==
    {<<Class("D", "", <<Has("p", N(6)), Has("q", Make("VEC", <<N(1), N(2)>>)), Fields(<<"r">>)>>
                      \o create),
       Start(<<Let("o", New("D", <<>>)), Say(Dot(V("o"), "p")), Say(Bin("!", Dot(V("o"), "q"), N(1))),
               Say(Dot(V("o"), "r"))>>)>> :
        create \in {<<>>, <<Action("CREATE", <<>>, <<Set(V("r"), Bin("+", V("p"), N(2)))>>)>>}}
    \cup {<<Class("E", "", <<<<"flet", "PUBLIC", <<"x", F(3)>>>>, <<"flet", "PUBLIC", <<"y">>>>>>),
            Start(<<Let("o", New("E", <<>>)), Set(Dot(V("o"), "y"), F(5)),
                    SayF(Bin("+", Dot(V("o"), "x"), Dot(V("o"), "y")))>>)>>}

\* USING, left in every way; RELEASE says who was released.
Held == Class("H", "", <<Fields(<<"id">>), Action("CREATE", <<"n">>, <<Set(V("id"), V("n"))>>),
                         Action("RELEASE", <<>>, <<Say(Dot(V("SELF"), "id"))>>)>>)
Using(x, n, ss) == <<"using", x, New("H", <<N(n)>>), Group(ss)>>
Leaving == {Jump("BREAK"), Jump("LOOP"), Say(N(8)), Jump("RETURN")}
Usings ==
    {<<Held, Routine("work", <<"k">>,
         <<<<"for", "i", N(1), N(2), <<>>,
             Using("x", 1, <<Using("y", 2, <<<<"if", Bin("=", V("i"), V("k")), s, <<>>>>, Say(V("i"))>>),
                             Say(N(7))>>)>>, Say(N(6))>>),
       Start(<<Do(Apply("work", <<N(k)>>)), Say(N(9))>>)>> : s \in Leaving, k \in {1, 2}}
    \cup {<<Held, Start(<<<<"retain", "x", New("H", <<N(3)>>)>>, Say(Dot(V("x"), "id")),
                          Using("y", 4, <<Say(N(5)), Jump("RETURN")>>)>>)>>}

\* The bytes of a word.
Bytes ==
    {Only(<<Let("v", Make("VEC", <<N(x), N(y)>>)), Say(Bin("%", V("v"), N(k))),
            Set(Bin("%", V("v"), N(k)), N(b)), Say(Bin("%", V("v"), N(k))), Say(Bin("!", V("v"), N(k \div 8))),
            Set(Un("%", V("v")), N(2)), Say(Un("%", V("v"))), Say(Un("!", V("v")))>>) :
        x \in {0, -27}, y \in {100}, k \in {0, 3, 7, 8}, b \in {3, 6}}

\* Every overriding of two methods over three levels, with and without SUPER.
Adding(super, method, k) ==
    Meth(method, <<>>, Bin("+", IF super THEN Send(V("SUPER"), method, <<>>) ELSE N(0), N(k)))
Level(name, base, field, own, supers, k) ==
    Class(name, base, <<Fields(<<field>>)>>
        \o (IF "p" \in own THEN <<Adding("p" \in supers, "p", k)>> ELSE <<>>)
        \o (IF "q" \in own THEN <<Adding("q" \in supers, "q", 2 * k)>> ELSE <<>>))
Hierarchies ==
    {<<Level("A", "", "a", {"p", "q"}, {}, 1), Level("M", "A", "m", own, supers, 10),
       Level("Z", "M", "z", leaf, supers \cap own, 100),
       Function("both", <<"o">>, Bin("-", Send(V("o"), "p", <<>>), Send(V("o"), "q", <<>>))),
       Start(<<Let("o", New(class, <<>>)), Say(Send(V("o"), "p", <<>>)),
               Say(Send(V("o"), "q", <<>>)), Say(Apply("both", <<V("o")>>))>>)>> :
        own \in SUBSET {"p", "q"}, leaf \in SUBSET {"p", "q"}, supers \in {{}, {"p", "q"}},
        class \in {"A", "M", "Z"}}

\* Nests of statements: what a jump may leave, and what it may not skip.
Plain == {Say(V("x")), Inc("x"), Jump("RETURN")}
Inside(words) == Plain \cup {Jump(w) : w \in words}
Guarded(S) ==
    {<<"if", Bin("=", V("x"), N(2)), s, t>> : s \in S, t \in {<<>>, Say(N(1))}}
    \cup {<<"UNLESS", Bin("=", V("x"), N(2)), s>> : s \in S}
    \cup {Using(h, 5, <<s, Say(N(6))>>) : s \in S, h \in {"h"}}
Switched(S) ==
    {<<"switchon", V("x"), <<<<N(1), <<s>>>>, <<N(2), <<Say(N(22)), t>>>>>>, other>> :
        s \in S, t \in {Jump("ENDCASE"), Say(N(4))}, other \in {<<>>, <<<<Inc("x")>>>>}}
Counted(S) ==
    {<<"for", "i", N(1), N(2), <<>>, Group(<<s, Say(V("x")), Inc("x")>>)>> : s \in S}
    \cup {<<"foreach", <<"i">>, Make(kind, <<N(3), N(4)>>), Group(<<s, Inc("x"), Say(V("i"))>>)>> :
             s \in S, kind \in {"VEC", "LIST"}}
    \cup {<<w, Group(<<Inc("x"), s, Say(V("x"))>>), c>> :
             s \in S, <<w, c>> \in {<<"REPEATWHILE", Bin("<", V("x"), N(3))>>,
                                    <<"REPEATUNTIL", Bin(">", V("x"), N(2))>>}}
Tested(S) ==
    {<<w, c, Group(<<Inc("x"), s, Say(V("x"))>>)>> :
        s \in S, <<w, c>> \in {<<"WHILE", Bin("<", V("x"), N(3))>>,
                               <<"UNTIL", Bin(">", V("x"), N(2))>>}}
Nested ==
    LET inLoop == Inside({"BREAK", "LOOP"})
        cases == Guarded(Inside({"ENDCASE", "LOOP"}))
        rounds == Counted(Guarded(inLoop) \cup Guarded(Guarded({Jump("BREAK"), Jump("LOOP")}))
                          \cup Switched(cases) \cup Tested(Guarded(inLoop)))
        tests == Tested(Guarded(Guarded(inLoop)) \cup Counted(Guarded({Jump("BREAK"), Jump("LOOP")})))
    IN {<<Held, Routine("nest", <<"x">>, <<s, Say(N(9))>>), Start(<<Do(Apply("nest", <<N(k)>>))>>)>> :
           s \in rounds \cup tests \cup Guarded(Guarded(Guarded(Plain))), k \in {1}}

Sources == UNION {Words, Doubles, Loops, Switches, Valofs, Calls, Data, Packs, Inheritance,
                  Members, Usings, Bytes, Hierarchies, Nested}
MCPrograms == LET all == {Build(tree) : tree \in Sources} IN all

\* The swap of section 3.2 of docs/user_guide.md.
Swap == Only(<<Let("a", N(1)), Let("b", N(2)),
               <<"assign", <<V("a"), V("b")>>, <<V("b"), V("a")>>>>, Say(V("a")), Say(V("b"))>>)
SwapProgram == LET all == {Build(Swap)} IN all
=============================================================================
