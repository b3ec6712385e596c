------------------------------ MODULE MCPRServ ------------------------------
(* Values for PRServ's constants.                                          *)
EXTENDS PRServ, TLC

Symmetric == Permutations(Clients)
=============================================================================
