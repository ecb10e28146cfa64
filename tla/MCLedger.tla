------------------------------ MODULE MCLedger ------------------------------
(* The ledger from a small genesis.  A behaviour applies at most Budget    *)
(* operations, of the families its focus names, and ends with the block of *)
(* time Horizon; every block runs all its phases.                          *)
EXTENDS Ledger

CONSTANTS alice, bob, carol, null, anonymous, committee, nobody,
          Horizon,      \* the last block
          LastOps,      \* the last block operations are applied on
          Budget,       \* operations by focus
          BaseShares    \* the shares of a user at genesis

VARIABLES focus, ops

mcVars == <<ledgerVars, focus, ops>>

MCNames == {alice, bob, carol, null, anonymous, committee}
MCUsers == {alice, bob, carol}
MCValidators == {alice, bob}

\* Shares cost one token each; the users hold tokens and shares, the special
\* accounts exist and hold nothing.  Carol has an account only where chains of
\* proxies are tried; elsewhere hers is the one that can be created.  There the
\* validators share nothing, so that every change of a stake is even.
Holders(f) == IF f = "votes" THEN {alice, bob, carol} ELSE {alice, bob}

MCInit ==
    /\ focus \in DOMAIN Budget
    /\ LET holders == Holders(focus)
           created == IF focus = "votes" THEN Names ELSE Names \ {carol}
       IN  StartFrom(created,
               [a \in created |-> IF a \in holders THEN 8 ELSE 0],
               [a \in created |-> IF a \in holders THEN BaseShares ELSE 0],
               Cardinality(holders) * BaseShares, 3,
               [v \in Validators |-> IF focus = "votes" THEN 0 ELSE 2],
               <<[rshares |-> 4, expires |-> RegenTime]>>)
    /\ ops = 0

FocusedOperation ==
    \/ focus = "stake" /\ StakeOperation
    \/ focus \in {"stake", "votes"} /\ WithdrawOperation
    \/ focus \in {"votes", "awards"} /\ VotingOperation
    \/ focus = "awards" /\ AwardOperation
    \/ focus = "deposits" /\ VestingOperation
    \/ focus = "deposits" /\ InviteOperation
    \/ focus = "deposits" /\ SubaccountOperation
    \/ focus = "escrow" /\ EscrowOperation
    \/ focus = "market" /\ SaleOperation
    \/ focus = "market" /\ PurchaseOperation
    \/ focus = "market" /\ RecoveryOperation
    \/ focus = "committee" /\ CommitteeOperation
    \/ focus = "subscriptions" /\ SubscriptionOperation
    \/ focus = "proposals" /\ ProposalOperation
    \/ focus = "proposals" /\ PaymentOperation

Operation ==
    /\ phase = 0 /\ now <= LastOps
    /\ ops < Budget[focus]
    /\ FocusedOperation
    /\ ops' = ops + 1
    /\ UNCHANGED <<phase, focus>>

Block ==
    /\ now < Horizon \/ phase # 0
    /\ BlockStep
    /\ UNCHANGED <<focus, ops>>

Ended == now = Horizon /\ phase = 0 /\ UNCHANGED mcVars

MCNext == Operation \/ Block \/ Ended

MCSpec == MCInit /\ [][MCNext]_mcVars

\* For a request, and half against it.
MCOpinions == {Full, -(Full \div 2)}

MCBudget == [stake |-> 3, votes |-> 3, awards |-> 3, deposits |-> 2, escrow |-> 5,
             market |-> 4, committee |-> 4, subscriptions |-> 3,
             proposals |-> 4]
=============================================================================
