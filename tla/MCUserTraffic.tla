--------------------------- MODULE MCUserTraffic ---------------------------
(***************************************************************************)
(* UserTraffic for TLC: symmetry and a view for the run of safety.         *)
(***************************************************************************)
EXTENDS UserTraffic, TLC

Symmetry == Permutations(Users) \union Permutations(States)
              \union Permutations(Conns) \union Permutations(Chunks)

\* Objects that are free again are alike, whatever they were used for before.
View == <<[s \in States |-> IF s \in Free THEN None ELSE id[s]], canceled \ Free,
          tableVars, count, connVars, server, pull, pushVars, relayed, panelVars>>
=============================================================================
