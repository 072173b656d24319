---------------------------- MODULE MCConsumerGroup ----------------------------
(* Two pods, of one release or of two.                                     *)
EXTENDS ConsumerGroup, TLC

\* Records of the first partition and of the one the topic may grow by.
MCLogLen == <<2, 1>>

=============================================================================
