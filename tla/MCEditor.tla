------------------------------ MODULE MCEditor ------------------------------
EXTENDS Editor

MCFiles == {<<"{", "nl">>, <<"a">>}
MCClips == {<<"a", "cr", "nl">>, <<"cr">>}
MCPatterns == {<<"a">>}
MCReplacements == {<<>>, <<"{", "a">>}

(* What follows a step astray is not followed.                             *)
UntilAstray == astray = {}

=============================================================================
