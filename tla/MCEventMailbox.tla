--------------------------- MODULE MCEventMailbox ---------------------------
(* Two windows.  No symmetry: the runs check liveness.                     *)
EXTENDS EventMailbox

CONSTANTS w1, w2
=============================================================================
