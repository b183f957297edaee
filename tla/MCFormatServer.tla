--------------------------- MODULE MCFormatServer ---------------------------
(* Two handler threads, two representations and a pair a proxy pushes.     *)
EXTENDS FormatServer, TLC

CONSTANTS c1, c2, r1, r2

MCReps == {r1, r2}
MCHash1 == r1 :> 7 @@ r2 :> 9
MCHash2 == r1 :> 4 @@ r2 :> 4

\* A proxy pushes r1 under its hash, and under a version 1 ID of the proxy.
MCPushed == {[id |-> [version |-> 2, word1 |-> 7, word2 |-> 4], rep |-> r1],
             [id |-> [version |-> 1, word1 |-> 3, word2 |-> 0], rep |-> r1]}
=============================================================================
