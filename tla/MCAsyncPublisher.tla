------------------------- MODULE MCAsyncPublisher -------------------------
(* Instances of AsyncPublisher for TLC. *)
EXTENDS AsyncPublisher, TLC

Symmetry ==
    Permutations(Batches) \cup Permutations(Workers) \cup Permutations(Closers)

=============================================================================
