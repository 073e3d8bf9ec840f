--------------------------- MODULE MCPlatformPanel ---------------------------
(***************************************************************************)
(* Restaurants, requests to them, and the page of the administrators.      *)
(***************************************************************************)
EXTENDS PlatformPanel, TLC

Symmetry == Permutations(Requests)
=============================================================================
