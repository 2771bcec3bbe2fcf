---------------------------- MODULE MCRopeBuffer ----------------------------
(***************************************************************************)
(* Files of four leaves and of five, of two characters each.               *)
(***************************************************************************)
EXTENDS RopeBuffer

MCFiles == {<<"nl", "a", "nl", "a", "a", "a", "nl">>,
            <<"a", "nl", "a", "a", "nl", "a", "a", "nl", "a">>}

=============================================================================
