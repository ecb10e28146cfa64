------------------------------- MODULE MCPeers ------------------------------
(* Small networks for PeerSync: a peer h on the chain of the node and a peer  *)
(* f on another chain.                                                        *)
EXTENDS PeerSync

CONSTANTS h, f

MCOrder == <<f, h>>
MCEarliest == [p \in Peers |-> IF p = f THEN 2 ELSE 1]

Scenario(ps, first, end, alien, broken, stops) ==
    [peers |-> ps, tip |-> first, last |-> end, other |-> alien,
     faults |-> broken, pauses |-> stops]

\* One peer: a fault and a pause, two faults, a fault while the chain grows, a pause
\* with a long range, a log of more than one range.  With the peer of another
\* chain: far ahead of the node, a fault, a pause.
MCScenarios == {
    Scenario({h}, 2, 2, 0, 1, 1),
    Scenario({h}, 4, 4, 0, 2, 0),
    Scenario({h}, 3, 4, 0, 1, 0),
    Scenario({h}, 4, 4, 0, 0, 1),
    Scenario({h}, 5, 5, 0, 0, 0),
    Scenario({h, f}, 3, 3, 6, 0, 0),
    Scenario({h, f}, 2, 2, 2, 1, 0),
    Scenario({h, f}, 2, 2, 2, 0, 1) }

=============================================================================
