---------------------------- MODULE MCPodLifecycle ----------------------------
(* One request of any shape, over either protocol, against one pod.        *)
EXTENDS PodLifecycle
=============================================================================
