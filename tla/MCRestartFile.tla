--------------------------- MODULE MCRestartFile ---------------------------
(* Three formats of different lengths.                                     *)
EXTENDS RestartFile, TLC

CONSTANTS r1, r2, r3

MCSize == r1 :> 2 @@ r2 :> 3 @@ r3 :> 1
=============================================================================
