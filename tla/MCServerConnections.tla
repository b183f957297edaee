------------------------ MODULE MCServerConnections ------------------------
(* Two connections.  How many descriptors there are, how far the clock     *)
(* goes and which clients are slow is up to the configurations.            *)
EXTENDS ServerConnections

CONSTANTS c1, c2
=============================================================================
