------------------------------- MODULE MCForks ------------------------------
(* A node that is offered one of two sets of blocks: the branches of a     *)
(* majority and a minority of the validators, all valid, or those of an    *)
(* emergency, one of which is invalid.                                     *)
EXTENDS MCChain

CONSTANTS e1, e2, e3, e4, f2, f3, g2, g3

(* a1 <- a2 <- a3 <- a4 and, above a1, the shorter b2 <- b3.               *)
TwoBranches == {a1, a2, a3, a4, b2, b3}

(* e1 <- e2 <- e3 <- e4 and, above e1, f2 <- f3 and g2 <- g3.              *)
EmergencyBranches == {e1, e2, e3, e4, f2, f3, g2, g3}

ForksBlock == TwoBranches \cup EmergencyBranches

ForksPrevOf == PrevOf @@ e1 :> root @@ e2 :> e1 @@ e3 :> e2 @@ e4 :> e3
               @@ f2 :> e1 @@ f3 :> f2 @@ g2 :> e1 @@ g3 :> g2
ForksPrev == [b \in Block |-> ForksPrevOf[b]]
ForksNumOf == NumOf @@ e1 :> 1 @@ e2 :> 2 @@ e3 :> 3 @@ e4 :> 4
              @@ f2 :> 2 @@ f3 :> 3 @@ g2 :> 2 @@ g3 :> 3
ForksNum == [b \in Block \cup {root} |-> ForksNumOf[b]]
ForksRankOf == RankOf @@ e1 :> 11 @@ e2 :> 12 @@ e3 :> 14 @@ e4 :> 16
               @@ f2 :> 13 @@ f3 :> 15 @@ g2 :> 18 @@ g3 :> 19
ForksRank == [b \in Block |-> ForksRankOf[b]]

(* a is built by three of four validators and b by the fourth; only e2 and *)
(* e3 are an emergency, e4 ends it, and two validators build f and g.      *)
ForksProducerOf == MinorityOf @@ e1 :> v1 @@ e2 :> com @@ e3 :> com @@ e4 :> v1
                   @@ f2 :> v2 @@ f3 :> v1 @@ g2 :> v1 @@ g3 :> v2
ForksProducer == [b \in Block |-> ForksProducerOf[b]]
ForksVerdict == [b \in Block |-> IF b = g2 THEN "invalid" ELSE "ok"]
ForksMissed == [b \in Block |-> IF b = e2 THEN {v1, v2} ELSE {}]
ForksSched == [b \in Block |-> CASE b \in TwoBranches -> <<v1, v2, v3, v4>>
                                  [] b \in {e2, e3} -> <<com, com>>
                                  [] OTHER -> <<v1, v2>>]
ForksEmergency == {e2, e3}

(* The first block that reaches the node decides which network it is in.   *)
Taken == fork.index \cup fork.unlinked \cup {op.block} \cup {chain[i].id : i \in 1 .. Len(chain)}

Offered == CASE Taken \cap TwoBranches # {} -> TwoBranches
             [] Taken \cap EmergencyBranches # {} -> EmergencyBranches
             [] OTHER -> Block

ForksNext == (\E b \in Offered : Receive(b)) \/ Working

(* The fairness that SyncsToTip needs, of the two branches only: a call    *)
(* that has begun runs on, and a block that the node has not applied is    *)
(* offered again and again, since peers answer every sync request with it. *)
ForksSpec ==
    /\ Init /\ [][ForksNext]_vars
    /\ WF_vars(Offered = TwoBranches /\ Working)
    /\ \A b \in TwoBranches : SF_vars(b \in Offered /\ Receive(b))

(* The node ends on the longer branch, whose producers hold most votes,    *)
(* when the blocks of both branches keep arriving in any order: the        *)
(* deferral, cascade and fork switch of _push_block lose none for good.    *)
SyncsToTip == <>[](Offered = TwoBranches => HeadId = a4)
=============================================================================
