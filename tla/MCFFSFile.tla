------------------------------ MODULE MCFFSFile ------------------------------
(* Model-checking instance of FFSFile: two formats, registered in order.   *)
EXTENDS FFSFile

MCContext == <<"A", "B">>
=============================================================================
