------------------------- MODULE MCOnlineAddresses -------------------------
(***************************************************************************)
(* OnlineAddresses for TLC.                                                *)
(***************************************************************************)
EXTENDS OnlineAddresses, TLC

Symmetry == Permutations(Addresses) \union Permutations(Conns)
=============================================================================
