------------------------------ MODULE Folding ------------------------------
(***************************************************************************)
(* FoldLeft for steps that are large: every result is made before the next *)
(* step starts.  The value is that of FoldLeft; TLC's stack stays short.   *)
(***************************************************************************)
EXTENDS Naturals, Sequences

InOrder(Op(_, _), base, seq) ==
    LET upTo[i \in 0 .. Len(seq)] ==
            IF i = 0 THEN base
            ELSE CHOOSE r \in {Op(prev, seq[i]) : prev \in {upTo[i - 1]}} : TRUE
    IN upTo[Len(seq)]
=============================================================================
