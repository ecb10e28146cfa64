------------------------------- MODULE MCChain ------------------------------
(* One tree of blocks for the runs: a1 <- a2 <- a3 <- a4 and the branch     *)
(* b2 <- b3 <- b4 above a1.  The runs differ in the blocks they take, who   *)
(* produced them, which of them are valid and what the node is subjected   *)
(* to.                                                                     *)
EXTENDS ChainDatabase, TLC

CONSTANTS a1, a2, a3, a4, b2, b3, b4, root, v1, v2, v3, v4, com

MCBlock == {a1, a2, a3, a4, b2, b3, b4}
PrevOf == a1 :> root @@ a2 :> a1 @@ a3 :> a2 @@ a4 :> a3
          @@ b2 :> a1 @@ b3 :> b2 @@ b4 :> b3
NumOf == root :> 0 @@ a1 :> 1 @@ a2 :> 2 @@ a3 :> 3 @@ a4 :> 4
         @@ b2 :> 2 @@ b3 :> 3 @@ b4 :> 4
RankOf == a1 :> 1 @@ a2 :> 2 @@ a3 :> 4 @@ a4 :> 6 @@ b2 :> 3 @@ b3 :> 5 @@ b4 :> 7

MCPrev == [b \in Block |-> PrevOf[b]]
MCNum == [b \in Block \cup {root} |-> NumOf[b]]
MCRank == [b \in Block |-> RankOf[b]]

AllOk == [b \in Block |-> "ok"]
BadA4 == [AllOk EXCEPT ![a4] = "invalid"]
OffSchedule == [AllOk EXCEPT ![a3] = "schedule", ![b4] = "invalid"]
NoneMissed == [b \in Block |-> {}]

(* Two validators take turns on both branches. *)
TurnsOf == a1 :> v1 @@ a2 :> v2 @@ a3 :> v1 @@ a4 :> v2 @@ b2 :> v1 @@ b3 :> v2 @@ b4 :> v1
Turns == [b \in Block |-> TurnsOf[b]]
TwoSlots == [b \in Block |-> <<v1, v2>>]
EqualVotes == [v \in {v1, v2, v3, v4} |-> 10] @@ com :> 0

(* Three of four validators build a, the fourth builds b alone. *)
MinorityOf == a1 :> v1 @@ a2 :> v2 @@ a3 :> v3 @@ a4 :> v1 @@ b2 :> v4 @@ b3 :> v4 @@ b4 :> v4
Minority == [b \in Block |-> MinorityOf[b]]
FourSlots == [b \in Block |-> <<v1, v2, v3, v4>>]
MinorityVotes == [v \in {v1, v2, v3} |-> 20] @@ v4 :> 10 @@ com :> 0
=============================================================================
