------------------------------ MODULE MCPorts ------------------------------
(* Servers and traps on small instances. *)
EXTENDS Ports
=============================================================================
