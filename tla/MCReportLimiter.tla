-------------------------- MODULE MCReportLimiter --------------------------
(***************************************************************************)
(* ReportLimiter for TLC.                                                  *)
(***************************************************************************)
EXTENDS ReportLimiter, TLC

Symmetry == Permutations(Keys)
=============================================================================
