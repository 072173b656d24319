-------------------------- MODULE MCMetricsExport --------------------------
(* Instances of MetricsExport for TLC. *)
EXTENDS MetricsExport, TLC

Symmetry == Permutations(Requests) \cup Permutations(Series)

=============================================================================
