------------------------------ MODULE MCParts ------------------------------
(* The sequential components on the inputs that MCInputs has for each.      *)
EXTENDS Parts, MCInputs
=============================================================================
