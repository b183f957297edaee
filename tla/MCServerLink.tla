---------------------------- MODULE MCServerLink ----------------------------
(* Two formats that mean the same to the link.                             *)
EXTENDS ServerLink

CONSTANTS r1, r2
=============================================================================
