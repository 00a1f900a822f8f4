------------------------------ MODULE MCCcpSync -----------------------------
(* Instances of the route synchronisation for TLC. *)
EXTENDS CcpSync

CONSTANTS child, q

\* q is reached directly, or through the listening child.
MCPaths == {{}, {child}}
=============================================================================
