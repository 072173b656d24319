------------------------ MODULE MCConsumerPipeline ------------------------
(* Instances of ConsumerPipeline for TLC. *)
EXTENDS ConsumerPipeline, TLC

\* The first record of every partition does not decode.
MCMalformed == Partitions \X {0}
MCNoMalformed == {}

\* Only for runs without a liveness property.
Symmetry == Permutations(Partitions) \cup Permutations(Workers)

=============================================================================
