------------------------------- MODULE MCNode -------------------------------
(* The tree of MCChain for a node that crashes and restarts. *)
EXTENDS ChainNode, MCChain
=============================================================================
