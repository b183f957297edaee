---------------------------- MODULE MCProxyServer ----------------------------
(* Model-checking instance of ProxyServer.                                 *)
EXTENDS ProxyServer

MCFormats == {"A", "B", "C"}
=============================================================================
