----------------------------- MODULE FinalChain -----------------------------
(***************************************************************************)
(* What the chain database promises to everything above it: a chain of     *)
(* blocks that grows and is cut back at its end, with a final part that    *)
(* only grows and is never cut.                                            *)
(***************************************************************************)
EXTENDS Integers, Sequences

CONSTANTS Block, Root, Prev

VARIABLES
    blocks,     \* the applied blocks, from block 1 to the head
    final       \* how many of them can no longer be undone

LastOf(s) == IF s = <<>> THEN Root ELSE s[Len(s)]

Init == blocks = <<>> /\ final = 0

(* A block of the tree is applied on its parent and may settle any part of *)
(* the chain, itself included.                                             *)
Extend ==
    \E b \in Block :
        /\ Prev[b] = LastOf(blocks)
        /\ blocks' = Append(blocks, b)
        /\ final' \in final .. Len(blocks')

Retract ==
    /\ Len(blocks) > final
    /\ blocks' = SubSeq(blocks, 1, Len(blocks) - 1)
    /\ final' = final

Finalize ==
    /\ final' \in final .. Len(blocks)
    /\ blocks' = blocks

Next == Extend \/ Retract \/ Finalize

Spec == Init /\ [][Next]_<<blocks, final>>
=============================================================================
