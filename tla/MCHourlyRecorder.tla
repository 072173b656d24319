------------------------- MODULE MCHourlyRecorder -------------------------
(* Instances of HourlyRecorder for TLC. *)
EXTENDS HourlyRecorder, TLC

Symmetry == Permutations(Keys) \cup Permutations(Closers)

=============================================================================
