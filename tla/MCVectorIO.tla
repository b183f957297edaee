------------------------------ MODULE MCVectorIO ------------------------------
(* Model-checking instance of VectorIO.                                    *)
EXTENDS VectorIO

\* One block and several, empty blocks at the front, in the middle and at the end.
MCShapes == {<<1>>, <<3>>, <<2, 1>>, <<1, 0, 2>>, <<0, 2>>, <<1, 0>>}
=============================================================================
