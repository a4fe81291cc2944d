---------------------------- MODULE MCPanelSync ----------------------------
(***************************************************************************)
(* PanelSync for TLC.                                                      *)
(***************************************************************************)
EXTENDS PanelSync, TLC

Symmetry == Permutations(Users) \union Permutations(Listeners \ Invalid)
=============================================================================
