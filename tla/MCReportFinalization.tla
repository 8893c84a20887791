------------------------ MODULE MCReportFinalization ------------------------
(* Instances of ReportFinalization for TLC. *)
EXTENDS ReportFinalization, TLC

Symmetry == Permutations(Reports) \cup Permutations(Temps)
              \cup Permutations(Workers) \cup Permutations(Tokens)
=============================================================================
