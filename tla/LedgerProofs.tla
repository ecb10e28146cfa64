---------------------------- MODULE LedgerProofs ----------------------------
(***************************************************************************)
(* What the ledger guarantees at the end of every block, for any accounts, *)
(* amounts and periods.                                                    *)
(***************************************************************************)
EXTENDS Ledger, AccountsProofs

(* Where the phases are.                                                   *)
LEMMA Places ==
    /\ Len(Phases) = 13
    /\ \A i \in 1..13 : Place(Phases[i]) = i
    /\ Place("proposals") = 1
    /\ Place("delegations") = 2
    /\ Place("closed") = 3
    /\ Place("funds") = 4
    /\ Place("epoch") = 5
    /\ Place("withdrawals") = 6
    /\ Place("recovery") = 7
    /\ Place("escrows") = 8
    /\ Place("auctions") = 9
    /\ Place("special") = 10
    /\ Place("conclusions") = 11
    /\ Place("payments") = 12
    /\ Place("subscriptions") = 13
BY DEF Place, Phases

LEMMA PlaceNames ==
    /\ Phases[1] = "proposals"
    /\ Phases[8] = "escrows"
    /\ Phases[13] = "subscriptions"
BY DEF Phases

LEMMA PendingWhat ==
    /\ Pending("proposals") <=> DueProposals # {}
    /\ Pending("escrows") <=> DueEscrows # {}
    /\ Pending("subscriptions") <=> DueSubs # {}
BY DEF Pending

(* What phases 1, 8 and 13 have done is done before a later phase works.   *)
PhaseType == phase \in 0..14 /\ now \in Nat

(* The phase comes to place k; the earlier ones had nothing left to do.    *)
Arrives(k) ==
    /\ phase \in 1..k /\ now' = now
    /\ phase' \in {k, k + 1}
    /\ \A i \in phase..(k - 1) : ~Pending(Phases[i])
    /\ Pending(Phases[k])

LEMMA Arrival ==
    ASSUME PhaseType, NEW k \in 1..13, now' = now,
           Repeats(Phases[k]) \/ Once(Phases[k])
    PROVE  Arrives(k)
BY Places DEF Repeats, Once, Reached, Arrives, PhaseType

(* The objects of a new chain.                                             *)
LEMMA InitObjects ==
    ASSUME LedgerInit
    PROVE  /\ phase = 0 /\ now = 0
           /\ VestingInit /\ EscrowInit /\ InvitesInit /\ MarketInit
           /\ CommitteeInit /\ SubscriptionInit /\ ProposalInit
<1>1. PICK created, balance, shares, fund, reward, rates, awards :
          StartFrom(created, balance, shares, fund, reward, rates, awards)
  BY Zenon DEF LedgerInit
<1> QED
  BY <1>1, Zenon DEF StartFrom

(* The operations and the steps of a block, each with what it leaves alone. *)
LEMMA Operations ==
    ASSUME LedgerOperation
    PROVE  \/ VestingOperation /\ OnlyVesting
           \/ StakeOperation /\ OnlyVesting
           \/ WithdrawOperation /\ OnlyVesting
           \/ VotingOperation /\ OnlyVesting
           \/ AwardOperation /\ OnlyAwards
           \/ EscrowOperation /\ OnlyEscrows
           \/ InviteOperation /\ OnlyInvites
           \/ SaleOperation /\ OnlyMarket
           \/ PurchaseOperation /\ OnlyMarket
           \/ SubaccountOperation /\ OnlyMarket
           \/ RecoveryOperation /\ OnlyMarket
           \/ CommitteeOperation /\ OnlyCommittee
           \/ SubscriptionOperation /\ OnlySubscriptions
           \/ ProposalOperation /\ OnlyProposals
<1>1. VestingOperation => OnlyVesting
  BY Zenon DEF VestingOperation
<1>2. StakeOperation => OnlyVesting
  BY Zenon DEF StakeOperation
<1>3. WithdrawOperation => OnlyVesting
  BY Zenon DEF WithdrawOperation
<1>4. VotingOperation => OnlyVesting
  BY Zenon DEF VotingOperation
<1>5. AwardOperation => OnlyAwards
  BY Zenon DEF AwardOperation
<1>6. EscrowOperation => OnlyEscrows
  BY Zenon DEF EscrowOperation
<1>7. InviteOperation => OnlyInvites
  BY Zenon DEF InviteOperation
<1>8. SaleOperation \/ PurchaseOperation \/ SubaccountOperation \/ RecoveryOperation
         => OnlyMarket
  BY Zenon DEF SaleOperation, PurchaseOperation, SubaccountOperation, RecoveryOperation
<1>9. CommitteeOperation => OnlyCommittee
  BY Zenon DEF CommitteeOperation
<1>10. SubscriptionOperation => OnlySubscriptions
  BY Zenon DEF SubscriptionOperation
<1>11. ProposalOperation => OnlyProposals
  BY Zenon DEF ProposalOperation
<1> QED
  BY <1>1, <1>2, <1>3, <1>4, <1>5, <1>6, <1>7, <1>8, <1>9, <1>10, <1>11, Zenon
     DEF LedgerOperation

OnlyClosed == UNCHANGED <<vestingVars, escrows, marketVars, subscriptionVars,
                          proposalVars, now>>

(* A step of a block that is not phase j itself has either not reached     *)
(* phase j, is past it, or finds nothing for it to do.                     *)
Passes(j) ==
    /\ phase # 0 /\ now' = now
    /\ phase' \in 1..j \/ phase > j \/ ~Pending(Phases[j])

LEMMA Passing ==
    ASSUME PhaseType, NEW k \in 1..13, NEW j \in 1..13, k # j, Arrives(k)
    PROVE  Passes(j)
BY DEF PhaseType, Arrives, Passes

LEMMA PassingEnd ==
    ASSUME PhaseType, NEW j \in 1..13, EndBlock
    PROVE  Passes(j)
BY Places DEF PhaseType, EndBlock, Passes

(* The steps of a block by their places.                                   *)
LEMMA BlockPlaces ==
    ASSUME PhaseType, BlockStep
    PROVE  \/ NextBlock
           \/ ClearProposals /\ OnlyProposals /\ Arrives(1)
           \/ ClearDelegations /\ OnlyVesting /\ Arrives(2)
           \/ ClearClosed /\ OnlyClosed /\ Arrives(3)
           \/ PayProducer /\ OnlyAwards /\ Arrives(4)
           \/ PayStakeholders /\ OnlyAwards /\ Arrives(5)
           \/ PayWithdrawals /\ OnlyVesting /\ Arrives(6)
           \/ ExpireRecoveries /\ OnlyMarket /\ Arrives(7)
           \/ ExpireEscrows /\ OnlyEscrows /\ Arrives(8)
           \/ EndAuctions /\ OnlyMarket /\ Arrives(9)
           \/ ClearSpecial /\ OnlyAwards /\ Arrives(10)
           \/ ConcludeRequests /\ OnlyCommittee /\ Arrives(11)
           \/ PayInstalments /\ OnlyCommittee /\ Arrives(12)
           \/ RenewSubscription /\ OnlySubscriptions /\ Arrives(13)
           \/ EndBlock
<1>0. /\ Phases[1] = "proposals" /\ Phases[2] = "delegations" /\ Phases[3] = "closed"
      /\ Phases[4] = "funds" /\ Phases[5] = "epoch" /\ Phases[6] = "withdrawals"
      /\ Phases[7] = "recovery" /\ Phases[8] = "escrows" /\ Phases[9] = "auctions"
      /\ Phases[10] = "special" /\ Phases[11] = "conclusions"
      /\ Phases[12] = "payments" /\ Phases[13] = "subscriptions"
  BY DEF Phases
<1>1. ASSUME ClearProposals PROVE OnlyProposals /\ Arrives(1)
  <2>1. OnlyProposals
    BY <1>1, Zenon DEF ClearProposals
  <2>2. now' = now
    BY <2>1 DEF OnlyProposals
  <2>3. Repeats(Phases[1])
    BY <1>0, <1>1, Zenon DEF ClearProposals
  <2> QED
    BY <2>1, <2>2, <2>3, Arrival
<1>2. ASSUME ClearDelegations PROVE OnlyVesting /\ Arrives(2)
  <2>1. OnlyVesting
    BY <1>2, Zenon DEF ClearDelegations
  <2>2. now' = now
    BY <2>1 DEF OnlyVesting
  <2>3. Repeats(Phases[2])
    BY <1>0, <1>2, Zenon DEF ClearDelegations
  <2> QED
    BY <2>1, <2>2, <2>3, Arrival
<1>3. ASSUME ClearClosed PROVE OnlyClosed /\ Arrives(3)
  <2>1. OnlyClosed
    BY <1>3, Zenon DEF ClearClosed, OnlyClosed
  <2>2. now' = now
    BY <2>1 DEF OnlyClosed
  <2>3. Once(Phases[3])
    BY <1>0, <1>3, Zenon DEF ClearClosed
  <2> QED
    BY <2>1, <2>2, <2>3, Arrival
<1>4. ASSUME PayProducer PROVE OnlyAwards /\ Arrives(4)
  <2>1. OnlyAwards
    BY <1>4, Zenon DEF PayProducer
  <2>2. now' = now
    BY <2>1 DEF OnlyAwards
  <2>3. Once(Phases[4])
    BY <1>0, <1>4, Zenon DEF PayProducer
  <2> QED
    BY <2>1, <2>2, <2>3, Arrival
<1>5. ASSUME PayStakeholders PROVE OnlyAwards /\ Arrives(5)
  <2>1. OnlyAwards
    BY <1>5, Zenon DEF PayStakeholders
  <2>2. now' = now
    BY <2>1 DEF OnlyAwards
  <2>3. Repeats(Phases[5])
    BY <1>0, <1>5, Zenon DEF PayStakeholders
  <2> QED
    BY <2>1, <2>2, <2>3, Arrival
<1>6. ASSUME PayWithdrawals PROVE OnlyVesting /\ Arrives(6)
  <2>1. OnlyVesting
    BY <1>6, Zenon DEF PayWithdrawals
  <2>2. now' = now
    BY <2>1 DEF OnlyVesting
  <2>3. Repeats(Phases[6])
    BY <1>0, <1>6, Zenon DEF PayWithdrawals
  <2> QED
    BY <2>1, <2>2, <2>3, Arrival
<1>7. ASSUME ExpireRecoveries PROVE OnlyMarket /\ Arrives(7)
  <2>1. OnlyMarket
    BY <1>7, Zenon DEF ExpireRecoveries
  <2>2. now' = now
    BY <2>1 DEF OnlyMarket
  <2>3. Once(Phases[7])
    BY <1>0, <1>7, Zenon DEF ExpireRecoveries
  <2> QED
    BY <2>1, <2>2, <2>3, Arrival
<1>8. ASSUME ExpireEscrows PROVE OnlyEscrows /\ Arrives(8)
  <2>1. OnlyEscrows
    BY <1>8, Zenon DEF ExpireEscrows
  <2>2. now' = now
    BY <2>1 DEF OnlyEscrows
  <2>3. Repeats(Phases[8])
    BY <1>0, <1>8, Zenon DEF ExpireEscrows
  <2> QED
    BY <2>1, <2>2, <2>3, Arrival
<1>9. ASSUME EndAuctions PROVE OnlyMarket /\ Arrives(9)
  <2>1. OnlyMarket
    BY <1>9, Zenon DEF EndAuctions
  <2>2. now' = now
    BY <2>1 DEF OnlyMarket
  <2>3. Repeats(Phases[9])
    BY <1>0, <1>9, Zenon DEF EndAuctions
  <2> QED
    BY <2>1, <2>2, <2>3, Arrival
<1>10. ASSUME ClearSpecial PROVE OnlyAwards /\ Arrives(10)
  <2>1. OnlyAwards
    BY <1>10, Zenon DEF ClearSpecial
  <2>2. now' = now
    BY <2>1 DEF OnlyAwards
  <2>3. Once(Phases[10])
    BY <1>0, <1>10, Zenon DEF ClearSpecial
  <2> QED
    BY <2>1, <2>2, <2>3, Arrival
<1>11. ASSUME ConcludeRequests PROVE OnlyCommittee /\ Arrives(11)
  <2>1. OnlyCommittee
    BY <1>11, Zenon DEF ConcludeRequests
  <2>2. now' = now
    BY <2>1 DEF OnlyCommittee
  <2>3. Repeats(Phases[11])
    BY <1>0, <1>11, Zenon DEF ConcludeRequests
  <2> QED
    BY <2>1, <2>2, <2>3, Arrival
<1>12. ASSUME PayInstalments PROVE OnlyCommittee /\ Arrives(12)
  <2>1. OnlyCommittee
    BY <1>12, Zenon DEF PayInstalments
  <2>2. now' = now
    BY <2>1 DEF OnlyCommittee
  <2>3. Once(Phases[12])
    BY <1>0, <1>12, Zenon DEF PayInstalments
  <2> QED
    BY <2>1, <2>2, <2>3, Arrival
<1>13. ASSUME RenewSubscription PROVE OnlySubscriptions /\ Arrives(13)
  <2>1. OnlySubscriptions
    BY <1>13, Zenon DEF RenewSubscription
  <2>2. now' = now
    BY <2>1 DEF OnlySubscriptions
  <2>3. Once(Phases[13])
    BY <1>0, <1>13, Zenon DEF RenewSubscription
  <2> QED
    BY <2>1, <2>2, <2>3, Arrival
<1> QED
  BY <1>1, <1>2, <1>3, <1>4, <1>5, <1>6, <1>7, <1>8, <1>9, <1>10, <1>11, <1>12, <1>13
     DEF BlockStep

LEMMA PhaseSteps ==
    ASSUME PhaseType, LedgerNext
    PROVE  PhaseType'
<1>1. CASE phase = 0 /\ LedgerOperation /\ UNCHANGED phase
  <2>1. now' = now
    BY <1>1, Operations DEF OnlyVesting, OnlyAwards, OnlyEscrows,
       OnlyInvites, OnlyMarket, OnlyCommittee, OnlySubscriptions, OnlyProposals
  <2> QED
    BY <1>1, <2>1 DEF PhaseType
<1>2. CASE BlockStep
  <2>1. CASE \E k \in 1..13 : Arrives(k)
    BY <2>1 DEF PhaseType, Arrives
  <2>2. CASE NextBlock \/ EndBlock
    BY <2>2 DEF PhaseType, NextBlock, EndBlock
  <2> QED
    BY <1>2, <2>1, <2>2, BlockPlaces
<1> QED
  BY <1>1, <1>2 DEF LedgerNext

(* What leaves the proposals alone.                                        *)
LEMMA ProposalFrame ==
    ASSUME PhaseType, LedgerNext
    PROVE  \/ phase = 0 /\ UNCHANGED <<phase, now>> /\ ProposalOperation
           \/ NextBlock
           \/ ClearProposals /\ Arrives(1)
           \/ /\ UNCHANGED <<proposalVars, now>>
              /\ (phase = 0 /\ phase' = 0) \/ Passes(1)
<1> USE DEF OnlyVesting, OnlyAwards, OnlyEscrows, OnlyInvites, OnlyMarket, OnlyCommittee,
            OnlySubscriptions, OnlyProposals, OnlyClosed
<1>1. CASE phase = 0 /\ LedgerOperation /\ UNCHANGED phase
  BY <1>1, Operations
<1>2. CASE BlockStep
  <2>1. CASE EndBlock
    BY <2>1, PassingEnd DEF EndBlock
  <2>2. CASE UNCHANGED <<proposalVars, now>> /\ \E k \in 2..13 : Arrives(k)
    BY <2>2, Passing
  <2> QED
    BY <1>2, <2>1, <2>2, BlockPlaces
<1> QED
  BY <1>1, <1>2 DEF LedgerNext

----------------------------------------------------------------------------
(* Proposals.                                                              *)

TransferOps == [from : Users, to : Users, amount : Nat]

OpenProposals == [open : {TRUE}, author : Users, ops : Seq(TransferOps),
                  expiration_time : Nat, review_period_time : Nat,
                  approvals : SUBSET Users]

ProposalsTyped == proposals \in [ProposalIds -> {NoProposal} \cup OpenProposals]

Entries(p) == {[account |-> a, proposal |-> p] : a \in Payers(proposals[p].ops)}

(* ApprovalsMatchProposals, entry by entry.                                *)
LEMMA EntryByEntry ==
    ApprovalsMatchProposals <=>
        \A x : x \in required <=>
                \E p \in ProposalIds : proposals[p].open /\ x \in Entries(p)
BY DEF ApprovalsMatchProposals, Entries

(* Phase 1 alone may find a proposal that has expired.                     *)
ProposalInv ==
    /\ ProposalsTyped
    /\ ApprovalsMatchProposals
    /\ phase # 1 => DueProposals = {}

(* A proposal is changed, or opened, without touching the others.          *)
LEMMA RemovedProposal ==
    ASSUME ProposalsTyped, ApprovalsMatchProposals, NEW p \in ProposalIds,
           RemoveProposal(p)
    PROVE  /\ ProposalsTyped'
           /\ ApprovalsMatchProposals'
           /\ \A q \in ProposalIds : proposals'[q].open =>
                  proposals[q].open
                  /\ proposals'[q].expiration_time = proposals[q].expiration_time
<1>1. /\ proposals' = [proposals EXCEPT ![p] = NoProposal]
      /\ required' = {r \in required : r.proposal # p}
  BY DEF RemoveProposal
<1>2. ProposalsTyped'
  BY <1>1 DEF ProposalsTyped
<1>3. ~proposals'[p].open /\ \A q \in ProposalIds \ {p} : proposals'[q] = proposals[q]
  BY <1>1 DEF ProposalsTyped, NoProposal
<1>4. \A q \in ProposalIds \ {p} : Entries(q)' = Entries(q)
  BY <1>3 DEF Entries, Payers
<1>5. \A q \in ProposalIds : \A x \in Entries(q) : x.proposal = q
  BY DEF Entries
<1>6. \A x : x \in required' <=>
                \E q \in ProposalIds : proposals'[q].open /\ x \in Entries(q)'
  BY <1>1, <1>3, <1>4, <1>5, EntryByEntry
<1>7. ApprovalsMatchProposals'
  BY <1>6 DEF ApprovalsMatchProposals, Entries
<1> QED
  BY <1>2, <1>3, <1>7

LEMMA UpdatedProposal ==
    ASSUME ProposalsTyped, ApprovalsMatchProposals, NEW p \in ProposalIds,
           proposals[p].open, NEW approvals \in SUBSET Users,
           proposals' = [proposals EXCEPT ![p].approvals = approvals],
           UNCHANGED required
    PROVE  /\ ProposalsTyped'
           /\ ApprovalsMatchProposals'
           /\ \A q \in ProposalIds : proposals'[q].open =>
                  proposals[q].open
                  /\ proposals'[q].expiration_time = proposals[q].expiration_time
<1>1. proposals[p] \in OpenProposals
  BY DEF ProposalsTyped, NoProposal
<1>2. ProposalsTyped'
  BY <1>1 DEF ProposalsTyped, OpenProposals
<1>3. /\ proposals'[p].open /\ proposals'[p].ops = proposals[p].ops
      /\ proposals'[p].expiration_time = proposals[p].expiration_time
      /\ \A q \in ProposalIds \ {p} : proposals'[q] = proposals[q]
  BY <1>1 DEF ProposalsTyped, OpenProposals
<1>4. \A q \in ProposalIds : Entries(q)' = Entries(q) /\ proposals'[q].open = proposals[q].open
  BY <1>1, <1>3 DEF Entries, OpenProposals
<1>5. \A x : x \in required' <=>
                \E q \in ProposalIds : proposals'[q].open /\ x \in Entries(q)'
  BY <1>4, EntryByEntry
<1>6. ApprovalsMatchProposals'
  BY <1>5 DEF ApprovalsMatchProposals, Entries
<1> QED
  BY <1>2, <1>3, <1>6

LEMMA OpenedProposal ==
    ASSUME ProposalsTyped, ApprovalsMatchProposals, PhaseType, NEW p \in ProposalIds,
           NEW author \in Users, NEW ops \in Seq(TransferOps),
           NEW expiration \in Nat, NEW review \in Nat,
           ProposalCreate(p, author, ops, expiration, review)
    PROVE  /\ ProposalsTyped'
           /\ ApprovalsMatchProposals'
           /\ \A q \in ProposalIds : proposals'[q].open =>
                  \/ proposals'[q].expiration_time > now
                  \/ /\ proposals[q].open
                     /\ proposals'[q].expiration_time = proposals[q].expiration_time
<1> DEFINE new == [open |-> TRUE, author |-> author, ops |-> ops,
                   expiration_time |-> expiration, review_period_time |-> review,
                   approvals |-> {}]
<1>1. /\ ~proposals[p].open
      /\ now < expiration
      /\ proposals' = [proposals EXCEPT ![p] = new]
      /\ required' = required \cup {[account |-> a, proposal |-> p] : a \in Payers(ops)}
  BY DEF ProposalCreate
<1>2. new \in OpenProposals
  BY DEF OpenProposals
<1>3. ProposalsTyped'
  BY <1>1, <1>2 DEF ProposalsTyped
<1>4. /\ proposals'[p].open /\ proposals'[p].ops = ops
      /\ proposals'[p].expiration_time = expiration
      /\ \A q \in ProposalIds \ {p} : proposals'[q] = proposals[q]
  BY <1>1 DEF ProposalsTyped
<1> HIDE DEF new
<1>5. \A q \in ProposalIds \ {p} : Entries(q)' = Entries(q)
  BY <1>4 DEF Entries
<1>6. Entries(p)' = {[account |-> a, proposal |-> p] : a \in Payers(ops)}
  BY <1>4 DEF Entries
<1>7. \A x : x \in required' <=>
                \E q \in ProposalIds : proposals'[q].open /\ x \in Entries(q)'
  BY <1>1, <1>4, <1>5, <1>6, EntryByEntry
<1>8. ApprovalsMatchProposals'
  BY <1>7 DEF ApprovalsMatchProposals, Entries
<1> QED
  BY <1>1, <1>3, <1>4, <1>8

(* The inputs of proposals are typed.                                      *)
LEMMA BundleTyped ==
    ASSUME NEW a \in Users, NEW b \in Users, NEW ops \in Bundles(a, b)
    PROVE  ops \in Seq(TransferOps)
<1>1. Tokens \subseteq Nat
  BY LedgerAssumption
<1>2. PICK first \in [from : {a}, to : {b},
                      amount : {n \in Tokens : \A m \in Tokens : m <= n}],
           second \in [from : {a}, to : {b}, amount : Tokens]
                        \cup [from : {b}, to : {a}, amount : Tokens] :
          ops = <<first, second>>
  BY DEF Bundles
<1>3. first \in TransferOps
  BY <1>1 DEF TransferOps
<1>4. second \in TransferOps
  BY <1>1 DEF TransferOps
<1> QED
  BY <1>2, <1>3, <1>4

(* What proposals become in any operation on them.                         *)
LEMMA ProposalOperations ==
    ASSUME ProposalsTyped, ApprovalsMatchProposals, PhaseType, ProposalOperation
    PROVE  /\ ProposalsTyped'
           /\ ApprovalsMatchProposals'
           /\ \A q \in ProposalIds : proposals'[q].open =>
                  \/ proposals'[q].expiration_time > now
                  \/ /\ proposals[q].open
                     /\ proposals'[q].expiration_time = proposals[q].expiration_time
<1>1. ASSUME NEW p \in ProposalIds, NEW a \in Actors, NEW b \in Users, NEW d \in Periods,
             NEW review \in BOOLEAN, NEW ops \in Bundles(a, b),
             ProposalCreate(p, a, ops, now + d, IF review THEN now + 1 ELSE Never)
      PROVE  /\ ProposalsTyped'
             /\ ApprovalsMatchProposals'
             /\ \A q \in ProposalIds : proposals'[q].open =>
                  \/ proposals'[q].expiration_time > now
                  \/ /\ proposals[q].open
                     /\ proposals'[q].expiration_time = proposals[q].expiration_time
  <2>1. a \in Users /\ now + d \in Nat /\ (IF review THEN now + 1 ELSE Never) \in Nat
    BY LedgerAssumption, AccountsAssumption DEF PhaseType
  <2>2. ops \in Seq(TransferOps)
    BY <2>1, BundleTyped
  <2> QED
    BY <1>1, <2>1, <2>2, OpenedProposal
<1>2. ASSUME NEW p \in ProposalIds, NEW add \in SUBSET Users, NEW remove,
             ProposalUpdate(p, add, remove)
      PROVE  /\ ProposalsTyped'
             /\ ApprovalsMatchProposals'
             /\ \A q \in ProposalIds : proposals'[q].open =>
                  /\ proposals[q].open
                  /\ proposals'[q].expiration_time = proposals[q].expiration_time
  <2> DEFINE approvals == (proposals[p].approvals \cup add) \ remove
  <2>1. CASE RemoveProposal(p)
    BY <2>1, RemovedProposal
  <2>2. CASE /\ proposals' = [proposals EXCEPT ![p] =
                                  [proposals[p] EXCEPT !.approvals = approvals]]
             /\ UNCHANGED required
    <3>1. proposals[p].open
      BY <1>2 DEF ProposalUpdate
    <3>2. proposals[p] \in OpenProposals
      BY <3>1 DEF ProposalsTyped, NoProposal
    <3>3. approvals \in SUBSET Users
      BY <3>2 DEF OpenProposals
    <3>4. proposals' = [proposals EXCEPT ![p].approvals = approvals]
      BY <2>2
    <3> HIDE DEF approvals
    <3> QED
      BY <2>2, <3>1, <3>3, <3>4, UpdatedProposal
  <2>3. \/ RemoveProposal(p)
        \/ /\ proposals' = [proposals EXCEPT ![p] =
                               [proposals[p] EXCEPT !.approvals = approvals]]
           /\ UNCHANGED required
    BY <1>2 DEF ProposalUpdate
  <2> QED
    BY <2>1, <2>2, <2>3
<1>3. ASSUME NEW p \in ProposalIds, NEW a \in Users, ProposalDelete(p, a)
      PROVE  /\ ProposalsTyped'
             /\ ApprovalsMatchProposals'
             /\ \A q \in ProposalIds : proposals'[q].open =>
                  /\ proposals[q].open
                  /\ proposals'[q].expiration_time = proposals[q].expiration_time
  BY <1>3, RemovedProposal DEF ProposalDelete
<1>4. CASE \E p \in ProposalIds, a \in Actors, b \in Users \ Actors, d \in Periods,
              review \in BOOLEAN : \E ops \in Bundles(a, b) :
              ProposalCreate(p, a, ops, now + d, IF review THEN now + 1 ELSE Never)
  BY <1>1, <1>4
<1>5. CASE \E p \in ProposalIds : \E add, remove \in SUBSET (Users \ Fresh) :
              ProposalUpdate(p, add, remove)
  <2>1. PICK p \in ProposalIds, add \in SUBSET (Users \ Fresh),
             remove \in SUBSET (Users \ Fresh) : ProposalUpdate(p, add, remove)
    BY <1>5
  <2>2. add \in SUBSET Users
    OBVIOUS
  <2> QED
    BY <1>2, <2>1, <2>2
<1>6. CASE \E p \in ProposalIds, a \in Users : ProposalDelete(p, a)
  BY <1>3, <1>6
<1> QED
  BY <1>4, <1>5, <1>6 DEF ProposalOperation

LEMMA ProposalStep ==
    ASSUME PhaseType, ProposalInv, LedgerNext
    PROVE  ProposalInv'
<1>0. PhaseType' /\ ProposalsTyped /\ ApprovalsMatchProposals
  BY PhaseSteps DEF ProposalInv
<1>1. CASE phase = 0 /\ UNCHANGED <<phase, now>> /\ ProposalOperation
  <2>1. DueProposals = {}
    BY <1>1 DEF ProposalInv
  <2>2. \A q \in ProposalIds : proposals'[q].open => ~(proposals'[q].expiration_time <= now)
    <3> SUFFICES ASSUME NEW q \in ProposalIds, proposals'[q].open
                 PROVE  ~(proposals'[q].expiration_time <= now)
      OBVIOUS
    <3>1. proposals'[q] \in OpenProposals
      BY <1>0, <1>1, ProposalOperations DEF ProposalsTyped, NoProposal
    <3>2. proposals'[q].expiration_time \in Nat /\ now \in Nat
      BY <3>1 DEF OpenProposals, PhaseType
    <3>3. \/ proposals'[q].expiration_time > now
          \/ /\ proposals[q].open
             /\ proposals'[q].expiration_time = proposals[q].expiration_time
      BY <1>0, <1>1, ProposalOperations
    <3> QED
      BY <2>1, <3>2, <3>3 DEF DueProposals
  <2>3. DueProposals' = {}
    BY <1>1, <2>2 DEF DueProposals
  <2> QED
    BY <1>0, <1>1, <2>3, ProposalOperations DEF ProposalInv
<1>2. CASE NextBlock
  BY <1>0, <1>2 DEF NextBlock, ProposalInv, proposalVars, ProposalsTyped,
     ApprovalsMatchProposals
<1>3. CASE ClearProposals /\ Arrives(1)
  <2>1. phase' = 1
    BY <1>3, Places DEF ClearProposals, Repeats
  <2>2. PICK p \in DueProposals : RemoveProposal(p)
    BY <1>3 DEF ClearProposals, ExpireProposal
  <2> QED
    BY <1>0, <2>1, <2>2, RemovedProposal DEF DueProposals, ProposalInv
<1>4. CASE /\ UNCHANGED <<proposalVars, now>>
           /\ (phase = 0 /\ phase' = 0) \/ Passes(1)
  <2>1. ProposalsTyped' /\ ApprovalsMatchProposals' /\ DueProposals' = DueProposals
    BY <1>0, <1>4 DEF ProposalsTyped, ApprovalsMatchProposals, DueProposals, proposalVars
  <2>2. phase' # 1 => DueProposals = {}
    BY <1>0, <1>4, PendingWhat, PlaceNames DEF ProposalInv, Passes, PhaseType
  <2> QED
    BY <2>1, <2>2 DEF ProposalInv
<1> QED
  BY <1>1, <1>2, <1>3, <1>4, ProposalFrame

LEMMA ProposalStart ==
    ASSUME LedgerInit
    PROVE  PhaseType /\ ProposalInv
<1>1. ProposalInit /\ phase = 0 /\ now = 0
  BY InitObjects
<1>2. /\ proposals = [p \in ProposalIds |-> NoProposal]
      /\ required = {}
      /\ \A p \in ProposalIds : ~proposals[p].open
  BY <1>1 DEF ProposalInit, NoProposal
<1>3. ProposalsTyped /\ DueProposals = {}
  BY <1>2 DEF ProposalsTyped, DueProposals
<1>4. {q \in ProposalIds : proposals[q].open} = {}
  BY <1>2
<1>5. ApprovalsMatchProposals
  BY <1>2, <1>4 DEF ApprovalsMatchProposals
<1> QED
  BY <1>1, <1>3, <1>5 DEF PhaseType, ProposalInv

LEMMA ProposalIdle ==
    ASSUME PhaseType, ProposalInv, UNCHANGED ledgerVars
    PROVE  (PhaseType /\ ProposalInv)'
BY DEF ledgerVars, PhaseType, ProposalInv, ProposalsTyped, ApprovalsMatchProposals,
   DueProposals, proposalVars

LEMMA ProposalInvariant == LedgerSpec => [](PhaseType /\ ProposalInv)
<1> DEFINE Inv == PhaseType /\ ProposalInv
<1>1. LedgerInit => Inv
  BY ProposalStart
<1>2. Inv /\ [LedgerNext]_ledgerVars => Inv'
  BY ProposalIdle, PhaseSteps, ProposalStep
<1> QED
  BY <1>1, <1>2, PTL DEF LedgerSpec

(***************************************************************************)
(* After every operation and every phase of a block the entries of         *)
(* required_approval_object are those of the open proposals                *)
(* (proposal_create_evaluator, database::remove).                          *)
(***************************************************************************)
THEOREM ApprovalsCorrect == LedgerSpec => []ApprovalsMatchProposals
<1>1. ProposalInv => ApprovalsMatchProposals
  BY DEF ProposalInv
<1> QED
  BY <1>1, ProposalInvariant, PTL

(***************************************************************************)
(* No block ends with a proposal that has expired                          *)
(* (clear_expired_proposals).                                              *)
(***************************************************************************)
THEOREM ProposalsCorrect == LedgerSpec => []ProposalsOnTime
<1>1. PhaseType /\ ProposalInv => ProposalsOnTime
  <2> SUFFICES ASSUME PhaseType, ProposalInv, phase = 0, NEW p \in ProposalIds, proposals[p].open
               PROVE  proposals[p].expiration_time > now
    BY DEF ProposalInv, ProposalsOnTime
  <2>1. p \notin DueProposals
    BY DEF ProposalInv
  <2>2. proposals[p] \in OpenProposals
    BY DEF ProposalInv, ProposalsTyped, NoProposal
  <2>3. proposals[p].expiration_time \in Nat /\ now \in Nat
    BY <2>2 DEF OpenProposals, PhaseType
  <2> QED
    BY <2>1, <2>3 DEF DueProposals
<1> QED
  BY <1>1, ProposalInvariant, PTL

----------------------------------------------------------------------------
(* Escrows.                                                                *)

OpenEscrows == [open : {TRUE}, from : Names, to : Names, agent : Names,
                token_balance : Nat, pending_fee : Nat,
                ratification_deadline : Nat, escrow_expiration : Nat,
                to_approved : BOOLEAN, agent_approved : BOOLEAN, disputed : BOOLEAN]

EscrowsTyped == escrows \in [EscrowIds -> {NoEscrow} \cup OpenEscrows]

(* Up to phase 8 a block may find an escrow that was not ratified in time. *)
EscrowInv ==
    /\ EscrowsTyped
    /\ phase \notin 1..8 => DueEscrows = {}

LEMMA EscrowFrame ==
    ASSUME PhaseType, LedgerNext
    PROVE  \/ phase = 0 /\ UNCHANGED <<phase, now>> /\ EscrowOperation
           \/ NextBlock
           \/ ExpireEscrows /\ Arrives(8)
           \/ /\ UNCHANGED <<escrows, now>>
              /\ (phase = 0 /\ phase' = 0) \/ Passes(8)
<1> USE DEF OnlyVesting, OnlyAwards, OnlyEscrows, OnlyInvites, OnlyMarket, OnlyCommittee,
            OnlySubscriptions, OnlyProposals, OnlyClosed
<1>1. CASE phase = 0 /\ LedgerOperation /\ UNCHANGED phase
  BY <1>1, Operations
<1>2. CASE BlockStep
  <2>1. CASE EndBlock
    BY <2>1, PassingEnd DEF EndBlock
  <2>2. CASE UNCHANGED <<escrows, now>> /\ \E k \in (1..7) \cup (9..13) : Arrives(k)
    BY <2>2, Passing
  <2> QED
    BY <1>2, <2>1, <2>2, BlockPlaces
<1> QED
  BY <1>1, <1>2 DEF LedgerNext


LEMMA EscrowOperations ==
    ASSUME EscrowsTyped, PhaseType, EscrowOperation, now' = now
    PROVE  EscrowsTyped' /\ DueEscrows' \subseteq DueEscrows
<1>1. ASSUME NEW e \in EscrowIds, NEW new \in OpenEscrows,
             escrows' = [escrows EXCEPT ![e] = new],
             \/ escrows[e].open /\ (IsApproved(e) => new.to_approved /\ new.agent_approved)
                   /\ new.ratification_deadline = escrows[e].ratification_deadline
             \/ new.ratification_deadline > now
      PROVE  EscrowsTyped' /\ DueEscrows' \subseteq DueEscrows
  <2>1. EscrowsTyped'
    BY <1>1 DEF EscrowsTyped
  <2>2. \A d \in EscrowIds \ {e} : escrows'[d] = escrows[d]
    BY <1>1 DEF EscrowsTyped
  <2>3. escrows'[e] = new /\ new.ratification_deadline \in Nat
    BY <1>1 DEF EscrowsTyped, OpenEscrows
  <2> QED
    BY <1>1, <2>1, <2>2, <2>3 DEF DueEscrows, IsApproved, PhaseType
<1>2. ASSUME NEW e \in EscrowIds, escrows' = [escrows EXCEPT ![e] = NoEscrow]
      PROVE  EscrowsTyped' /\ DueEscrows' \subseteq DueEscrows
  <2>1. EscrowsTyped'
    BY <1>2 DEF EscrowsTyped
  <2>2. \A d \in EscrowIds \ {e} : escrows'[d] = escrows[d]
    BY <1>2 DEF EscrowsTyped
  <2>3. ~escrows'[e].open
    BY <1>2 DEF EscrowsTyped, NoEscrow
  <2> QED
    BY <2>1, <2>2, <2>3 DEF DueEscrows, IsApproved
<1>3. ASSUME NEW e \in EscrowIds, NEW a \in Users, NEW b \in Users,
             NEW c \in Users \cup {Treasury}, NEW n \in Tokens, NEW fee \in Fees,
             NEW d \in Periods, EscrowTransfer(e, a, b, c, n, fee, now + d, now + d + 1)
      PROVE  EscrowsTyped' /\ DueEscrows' \subseteq DueEscrows
  <2> DEFINE new == [open |-> TRUE, from |-> a, to |-> b, agent |-> c,
                     token_balance |-> n, pending_fee |-> fee,
                     ratification_deadline |-> now + d,
                     escrow_expiration |-> now + d + 1,
                     to_approved |-> FALSE, agent_approved |-> FALSE, disputed |-> FALSE]
  <2>1. /\ a \in Names /\ b \in Names /\ c \in Names
        /\ n \in Nat /\ fee \in Nat /\ d \in Nat \ {0} /\ now \in Nat
    BY AccountsAssumption, LedgerAssumption DEF PhaseType
  <2>2. new \in OpenEscrows /\ new.ratification_deadline > now
    BY <2>1 DEF OpenEscrows
  <2>3. escrows' = [escrows EXCEPT ![e] = new]
    BY <1>3 DEF EscrowTransfer
  <2> HIDE DEF new
  <2> QED
    BY <1>1, <2>2, <2>3
<1>4. ASSUME NEW e \in EscrowIds, NEW who, EscrowApprove(e, who)
      PROVE  EscrowsTyped' /\ DueEscrows' \subseteq DueEscrows
  <2> DEFINE answered == [escrows[e] EXCEPT
                            !.to_approved = @ \/ who = escrows[e].to,
                            !.agent_approved = @ \/ who = escrows[e].agent]
             all == answered.to_approved /\ answered.agent_approved
             new == IF all THEN [answered EXCEPT !.pending_fee = 0] ELSE answered
  <2>1. escrows[e].open /\ escrows' = [escrows EXCEPT ![e] = new]
    BY <1>4 DEF EscrowApprove, MayAnswer
  <2>2. escrows[e] \in OpenEscrows
    BY <2>1 DEF EscrowsTyped, NoEscrow
  <2>3. answered \in OpenEscrows /\ answered.ratification_deadline = escrows[e].ratification_deadline
    BY <2>2 DEF OpenEscrows
  <2>4. IsApproved(e) => answered.to_approved /\ answered.agent_approved
    BY <2>2 DEF OpenEscrows, IsApproved
  <2> HIDE DEF answered
  <2>5. /\ new \in OpenEscrows /\ new.ratification_deadline = escrows[e].ratification_deadline
        /\ IsApproved(e) => new.to_approved /\ new.agent_approved
    BY <2>3, <2>4 DEF OpenEscrows
  <2> HIDE DEF new
  <2>6. /\ escrows[e].open /\ (IsApproved(e) => new.to_approved /\ new.agent_approved)
        /\ new.ratification_deadline = escrows[e].ratification_deadline
    BY <2>1, <2>5
  <2> QED
    BY <1>1, <2>1, <2>5, <2>6, Zenon
<1>5. ASSUME NEW e \in EscrowIds, NEW who, EscrowReject(e, who)
      PROVE  EscrowsTyped' /\ DueEscrows' \subseteq DueEscrows
  BY <1>2, <1>5 DEF EscrowReject
<1>6. ASSUME NEW e \in EscrowIds, EscrowDispute(e)
      PROVE  EscrowsTyped' /\ DueEscrows' \subseteq DueEscrows
  <2> DEFINE new == [escrows[e] EXCEPT !.disputed = TRUE]
  <2>1. /\ escrows[e].open /\ IsApproved(e)
        /\ escrows' = [escrows EXCEPT ![e].disputed = TRUE]
    BY <1>6 DEF EscrowDispute
  <2>2. escrows[e] \in OpenEscrows
    BY <2>1 DEF EscrowsTyped, NoEscrow
  <2>3. /\ new \in OpenEscrows /\ new.to_approved /\ new.agent_approved
        /\ new.ratification_deadline = escrows[e].ratification_deadline
    BY <2>1, <2>2 DEF OpenEscrows, IsApproved
  <2>4. escrows' = [escrows EXCEPT ![e] = new]
    BY <2>1
  <2> HIDE DEF new
  <2> QED
    BY <1>1, <2>1, <2>3, <2>4
<1>7. ASSUME NEW e \in EscrowIds, NEW who, NEW receiver, NEW n \in Tokens,
             EscrowRelease(e, who, receiver, n)
      PROVE  EscrowsTyped' /\ DueEscrows' \subseteq DueEscrows
  <2> DEFINE new == [escrows[e] EXCEPT !.token_balance = @ - n]
  <2>1. /\ escrows[e].open /\ IsApproved(e) /\ escrows[e].token_balance >= n
        /\ escrows' = [escrows EXCEPT ![e] =
              IF escrows[e].token_balance = n THEN NoEscrow
              ELSE [escrows[e] EXCEPT !.token_balance = @ - n]]
    BY <1>7 DEF EscrowRelease
  <2>2. escrows[e] \in OpenEscrows
    BY <2>1 DEF EscrowsTyped, NoEscrow
  <2>3. n \in Nat /\ escrows[e].token_balance \in Nat
    BY <2>2, LedgerAssumption DEF OpenEscrows
  <2>4. escrows[e].token_balance - n \in Nat
    BY <2>1, <2>3
  <2>5. /\ new \in OpenEscrows /\ new.to_approved /\ new.agent_approved
        /\ new.ratification_deadline = escrows[e].ratification_deadline
    BY <2>1, <2>2, <2>4 DEF OpenEscrows, IsApproved
  <2>6. CASE escrows[e].token_balance = n
    <3>1. escrows' = [escrows EXCEPT ![e] = NoEscrow]
      BY <2>1, <2>6
    <3> QED
      BY <1>2, <3>1
  <2>7. CASE escrows[e].token_balance # n
    <3>1. escrows' = [escrows EXCEPT ![e] = new]
      BY <2>1, <2>7
    <3> HIDE DEF new
    <3> QED
      BY <1>1, <2>1, <2>5, <3>1
  <2> QED
    BY <2>6, <2>7
<1> QED
  BY <1>3, <1>4, <1>5, <1>6, <1>7 DEF EscrowOperation

LEMMA EscrowStep ==
    ASSUME PhaseType, EscrowInv, LedgerNext
    PROVE  EscrowInv'
<1>1. CASE phase = 0 /\ UNCHANGED <<phase, now>> /\ EscrowOperation
  BY <1>1, EscrowOperations DEF EscrowInv
<1>2. CASE NextBlock
  BY <1>2 DEF NextBlock, EscrowInv, EscrowsTyped
<1>3. CASE ExpireEscrows /\ Arrives(8)
  <2>1. phase' = 8
    BY <1>3, Places DEF ExpireEscrows, Repeats
  <2>2. PICK e \in EscrowIds : escrows' = [escrows EXCEPT ![e] = NoEscrow]
    BY <1>3 DEF ExpireEscrows, ExpireEscrow, DueEscrows
  <2> QED
    BY <2>1, <2>2 DEF EscrowInv, EscrowsTyped
<1>4. CASE /\ UNCHANGED <<escrows, now>>
           /\ (phase = 0 /\ phase' = 0) \/ Passes(8)
  <2>1. EscrowsTyped' /\ DueEscrows' = DueEscrows
    BY <1>4 DEF EscrowInv, EscrowsTyped, DueEscrows, IsApproved
  <2>2. phase' \notin 1..8 => DueEscrows = {}
    BY <1>4, PendingWhat, PlaceNames DEF EscrowInv, Passes, PhaseType
  <2> QED
    BY <2>1, <2>2 DEF EscrowInv
<1> QED
  BY <1>1, <1>2, <1>3, <1>4, EscrowFrame

LEMMA EscrowStart ==
    ASSUME LedgerInit
    PROVE  PhaseType /\ EscrowInv
<1>1. EscrowInit /\ phase = 0 /\ now = 0
  BY InitObjects
<1>2. EscrowsTyped /\ \A e \in EscrowIds : ~escrows[e].open
  BY <1>1 DEF EscrowInit, EscrowsTyped, NoEscrow
<1> QED
  BY <1>1, <1>2 DEF PhaseType, EscrowInv, DueEscrows

LEMMA EscrowIdle ==
    ASSUME PhaseType, EscrowInv, UNCHANGED ledgerVars
    PROVE  (PhaseType /\ EscrowInv)'
BY DEF ledgerVars, PhaseType, EscrowInv, EscrowsTyped, DueEscrows, IsApproved

(***************************************************************************)
(* No block ends with an escrow that nobody can ratify any more and that   *)
(* still holds its sender's tokens (escrow_approve_evaluator against       *)
(* expire_escrow_ratification).                                            *)
(***************************************************************************)
THEOREM EscrowsCorrect == LedgerSpec => []NoEscrowOverdue
<1> DEFINE Inv == PhaseType /\ EscrowInv
<1>1. LedgerInit => Inv
  BY EscrowStart
<1>2. Inv /\ [LedgerNext]_ledgerVars => Inv'
  BY EscrowIdle, PhaseSteps, EscrowStep
<1>3. Inv => NoEscrowOverdue
  <2> SUFFICES ASSUME Inv, phase = 0, NEW e \in EscrowIds, escrows[e].open, ~IsApproved(e)
               PROVE  escrows[e].ratification_deadline > now
    BY DEF NoEscrowOverdue
  <2>1. e \notin DueEscrows
    BY DEF EscrowInv
  <2>2. escrows[e] \in OpenEscrows
    BY DEF EscrowInv, EscrowsTyped, NoEscrow
  <2>3. escrows[e].ratification_deadline \in Nat /\ now \in Nat
    BY <2>2 DEF OpenEscrows, PhaseType
  <2> QED
    BY <2>1, <2>3 DEF DueEscrows
<1> QED
  BY <1>1, <1>2, <1>3, PTL DEF LedgerSpec

----------------------------------------------------------------------------
(* Subscriptions.                                                          *)

Offers == [levels : Nat, amount : Nat \ {0}, period : Nat \ {0}]
Subs == [active : BOOLEAN, auto_renewal : BOOLEAN, level : Nat, amount : Nat \ {0},
         period : Nat \ {0}, next_time : Nat]

SubsTyped ==
    /\ offers \in [Users -> {NoOffer} \cup Offers]
    /\ subs \in [Users \X Users -> {NoSub} \cup Subs]
    /\ \A k \in Users \X Users :
          IF subs[k].active THEN offers[k[2]] # NoOffer ELSE subs[k].next_time = Never

(* The subscriptions a block handles before k.                             *)
Ahead(k) == {j \in SubObjects \ {k} : /\ subs[j].active
                                      /\ subs[j].next_time <= subs[k].next_time}

(* Every block that k waits for takes one of them away; until phase 13 the *)
(* present block has not done so.                                          *)
SubInv ==
    /\ SubsTyped
    /\ now < Never
    /\ \A k \in Users \X Users :
          subs[k].active /\ subs[k].next_time <= now =>
              /\ now - subs[k].next_time + Cardinality(Ahead(k)) <= Cardinality(SubObjects)
              /\ phase \notin 1..13 =>
                  now - subs[k].next_time + Cardinality(Ahead(k)) < Cardinality(SubObjects)

LEMMA SubFrame ==
    ASSUME PhaseType, LedgerNext
    PROVE  \/ phase = 0 /\ UNCHANGED <<phase, now>> /\ SubscriptionOperation
           \/ NextBlock /\ now' < Never
           \/ RenewSubscription /\ Arrives(13)
           \/ /\ UNCHANGED <<subscriptionVars, now>>
              /\ (phase = 0 /\ phase' = 0) \/ Passes(13)
<1> USE DEF OnlyVesting, OnlyAwards, OnlyEscrows, OnlyInvites, OnlyMarket, OnlyCommittee,
            OnlySubscriptions, OnlyProposals, OnlyClosed
<1>1. CASE phase = 0 /\ LedgerOperation /\ UNCHANGED phase
  BY <1>1, Operations
<1>2. CASE BlockStep /\ now' < Never
  <2>1. CASE EndBlock
    BY <2>1, PassingEnd DEF EndBlock
  <2>2. CASE UNCHANGED <<subscriptionVars, now>> /\ \E k \in 1..12 : Arrives(k)
    BY <2>2, Passing
  <2> QED
    BY <1>2, <2>1, <2>2, BlockPlaces
<1> QED
  BY <1>1, <1>2 DEF LedgerNext

LEMMA SubsFinite ==
    ASSUME SubsTyped
    PROVE  /\ IsFiniteSet(SubObjects) /\ SubObjects \subseteq Users \X Users
           /\ Cardinality(SubObjects) \in Nat
           /\ \A k : /\ IsFiniteSet(Ahead(k)) /\ Ahead(k) \subseteq SubObjects
                     /\ Cardinality(Ahead(k)) \in Nat
                     /\ Cardinality(Ahead(k)) <= Cardinality(SubObjects)
<1>1. IsFiniteSet(Users)
  BY AccountsAssumption, FS_Subset
<1>2. IsFiniteSet(Users \X Users)
  BY <1>1, FS_Product
<1>3. SubObjects \subseteq Users \X Users
  BY DEF SubObjects, SubsTyped
<1>4. IsFiniteSet(SubObjects) /\ Cardinality(SubObjects) \in Nat
  BY <1>2, <1>3, FS_Subset, FS_CardinalityType
<1>5. \A k : Ahead(k) \subseteq SubObjects
  BY DEF Ahead
<1> QED
  BY <1>3, <1>4, <1>5, FS_Subset, FS_CardinalityType

(* One subscription changes to a later time or ends.                       *)
LEMMA SubChanged ==
    ASSUME PhaseType, SubInv, NEW k \in Users \X Users, NEW new \in Subs,
           offers' \in [Users -> {NoOffer} \cup Offers],
           \A a \in Users : offers[a] # NoOffer => offers'[a] # NoOffer,
           subs' = [subs EXCEPT ![k] = new], now' = now,
           IF new.active THEN offers'[k[2]] # NoOffer ELSE new.next_time = Never,
           new.next_time > now
    PROVE  /\ SubsTyped'
           /\ \A j \in Users \X Users : subs'[j].active /\ subs'[j].next_time <= now =>
                 /\ j # k /\ subs'[j] = subs[j]
                 /\ Ahead(j)' \subseteq Ahead(j) \ {k}
           /\ SubObjects' = SubObjects \cup {k}
<1>0. subs \in [Users \X Users -> {NoSub} \cup Subs] /\ k[2] \in Users /\ now \in Nat
  BY DEF SubInv, SubsTyped, PhaseType
<1>1. /\ subs'[k] = new /\ \A j \in (Users \X Users) \ {k} : subs'[j] = subs[j]
      /\ DOMAIN subs = Users \X Users /\ DOMAIN subs' = Users \X Users
  BY <1>0
<1>2. SubsTyped'
  BY <1>0, <1>1 DEF SubInv, SubsTyped
<1>3. new # NoSub
  BY DEF Subs, NoSub
<1>4. SubObjects' = SubObjects \cup {k}
  BY <1>1, <1>3 DEF SubObjects
<1>5. new.next_time \in Nat
  BY DEF Subs
<1>6. ASSUME NEW j \in Users \X Users, subs'[j].active, subs'[j].next_time <= now
      PROVE  /\ j # k /\ subs'[j] = subs[j]
             /\ Ahead(j)' \subseteq Ahead(j) \ {k}
  <2>1. j # k
    BY <1>0, <1>1, <1>5, <1>6
  <2>2. subs[j] \in Subs
    BY <1>0, <1>1, <1>6, <2>1 DEF NoSub
  <2>3. subs[j].next_time \in Nat /\ subs[j].next_time <= now
    BY <1>1, <1>6, <2>1, <2>2 DEF Subs
  <2>4. k \notin Ahead(j)'
    BY <1>0, <1>1, <1>5, <2>1, <2>3 DEF Ahead
  <2> QED
    BY <1>1, <1>4, <2>1, <2>4 DEF Ahead, SubObjects
<1> QED
  BY <1>2, <1>4, <1>6

(* The time a subscription starts with is not zero.                        *)
LEMMA TimeBought ==
    ASSUME NEW left \in Int, NEW price \in Nat \ {0}, NEW period \in Nat \ {0},
           left >= price
    PROVE  (left * period) \div price \in Nat \ {0}
<1>1. left \in Nat /\ left * period \in Nat /\ left <= left * period
  <2>1. left \in Nat
    OBVIOUS
  <2>2. PICK e \in Nat : period = e + 1
    <3>1. period - 1 \in Nat /\ period = (period - 1) + 1
      OBVIOUS
    <3> QED
      BY <3>1
  <2>3. left * e \in Nat /\ left * period = left * e + left
    BY <2>1, <2>2
  <2> QED
    BY <2>1, <2>3
<1>2. price * 1 <= left * period
  BY <1>1
<1>3. 1 <= (left * period) \div price /\ (left * period) \div price \in Nat
  BY <1>1, <1>2, QuotientAtLeast, Quotient
<1> QED
  BY <1>3

LEMMA RemainingInt ==
    ASSUME SubsTyped, PhaseType, NEW k \in Users \X Users, subs[k].active
    PROVE  Remaining(subs[k]) \in Int
<1>1. subs[k] \in Subs
  BY DEF SubsTyped, NoSub
<1>2. /\ subs[k].amount \in Int /\ subs[k].level \in Int /\ subs[k].next_time - now \in Int
      /\ subs[k].period \in Nat \ {0}
  BY <1>1 DEF Subs, PhaseType
<1>3. subs[k].amount * subs[k].level * (subs[k].next_time - now) \in Int
  BY <1>2
<1> QED
  BY <1>2, <1>3 DEF Remaining

LEMMA SubscribedTyped ==
    ASSUME SubsTyped, PhaseType, NEW a \in Users, offers[a] # NoOffer,
           NEW level \in Nat, NEW time \in Nat \ {0}, NEW auto \in BOOLEAN
    PROVE  /\ Subscribed(a, level, time, auto) \in Subs
           /\ Subscribed(a, level, time, auto).active
           /\ Subscribed(a, level, time, auto).next_time > now
<1>1. offers[a] \in Offers
  BY DEF SubsTyped
<1>2. offers[a].amount \in Nat \ {0} /\ offers[a].period \in Nat \ {0} /\ now + time \in Nat
  BY <1>1 DEF Offers, PhaseType
<1> QED
  BY <1>2 DEF Subscribed, Subs, PhaseType

(* What an operation makes of the subscriptions.                           *)
Resubscribed ==
    \/ UNCHANGED subs
    \/ \E k \in Users \X Users, auto \in BOOLEAN :
          subs[k].active /\ subs' = [subs EXCEPT ![k].auto_renewal = auto]
    \/ \E k \in Users \X Users, new \in Subs :
          /\ new.active /\ new.next_time > now
          /\ offers[k[2]] # NoOffer
          /\ subs' = [subs EXCEPT ![k] = new]

LEMMA SubscriptionOperations ==
    ASSUME SubsTyped, PhaseType, SubscriptionOperation
    PROVE  /\ Resubscribed
           /\ offers' \in [Users -> {NoOffer} \cup Offers]
           /\ \A a \in Users : offers[a] # NoOffer => offers'[a] # NoOffer
<1>1. ASSUME NEW a \in Users, NEW l \in Nat, NEW n \in Nat \ {0}, NEW d \in Nat \ {0},
             SetPaidSubscription(a, l, n, d)
      PROVE  /\ Resubscribed
             /\ offers' \in [Users -> {NoOffer} \cup Offers]
             /\ \A b \in Users : offers[b] # NoOffer => offers'[b] # NoOffer
  <2>1. /\ offers' = [offers EXCEPT ![a] = [levels |-> l, amount |-> n, period |-> d]]
        /\ UNCHANGED subs
    BY <1>1, Zenon DEF SetPaidSubscription
  <2>2. [levels |-> l, amount |-> n, period |-> d] \in Offers
    BY DEF Offers
  <2>3. [levels |-> l, amount |-> n, period |-> d] # NoOffer
    BY DEF NoOffer
  <2> QED
    BY <2>1, <2>2, <2>3 DEF Resubscribed, SubsTyped
<1>2. ASSUME NEW s \in Users, NEW a \in Users, NEW level \in Nat, NEW auto \in BOOLEAN,
             PaidSubscribe(s, a, level, auto)
      PROVE  Resubscribed /\ offers' = offers
  <2> DEFINE k == <<s, a>>
             price == offers[a].amount * level
  <2>0. k \in Users \X Users /\ k[2] = a
    OBVIOUS
  <2>1. /\ offers' = offers /\ offers[a] # NoOffer /\ 0 < level
        /\ \/ Subscribe(s, a, level, auto)
           \/ SwitchRenewal(s, a, level, auto)
           \/ ChangeModel(s, a, level, auto)
    BY <1>2 DEF PaidSubscribe
  <2>2. offers[a] \in Offers
    BY <2>1 DEF SubsTyped
  <2>3. offers[a].period \in Nat \ {0} /\ price \in Nat \ {0}
    BY <2>1, <2>2 DEF Offers
  <2>4. ASSUME NEW time \in Nat \ {0},
               subs' = [subs EXCEPT ![<<s, a>>] = Subscribed(a, level, time, auto)]
        PROVE  Resubscribed
    BY <2>0, <2>1, <2>4, SubscribedTyped DEF Resubscribed
  <2>5. CASE Subscribe(s, a, level, auto)
    BY <2>1, <2>3, <2>4, <2>5 DEF Subscribe
  <2>6. CASE SwitchRenewal(s, a, level, auto)
    BY <2>0, <2>1, <2>6 DEF SwitchRenewal, Resubscribed
  <2>7. CASE ChangeModel(s, a, level, auto)
    <3>1. subs[k].active
      BY <2>7 DEF ChangeModel
    <3>2. PICK left \in Int : left = Remaining(subs[k])
      BY <2>0, <3>1, RemainingInt
    <3>3. \/ /\ left >= price
             /\ subs' = [subs EXCEPT ![<<s, a>>] =
                   Subscribed(a, level, (left * offers[a].period) \div price, auto)]
          \/ subs' = [subs EXCEPT ![<<s, a>>] =
                   Subscribed(a, level, offers[a].period, auto)]
      BY <2>7, <3>2 DEF ChangeModel
    <3> HIDE DEF price
    <3> QED
      BY <2>1, <2>3, <2>4, <3>3, TimeBought
  <2> QED
    BY <2>1, <2>5, <2>6, <2>7
<1>3. CASE \E a \in Actors, l \in Levels, n \in Tokens, d \in Periods :
             SetPaidSubscription(a, l, n, d)
  <2>1. PICK a \in Actors, l \in Levels, n \in Tokens, d \in Periods :
            SetPaidSubscription(a, l, n, d)
    BY <1>3
  <2>2. a \in Users /\ l \in Nat /\ n \in Nat \ {0} /\ d \in Nat \ {0}
    BY LedgerAssumption
  <2> QED
    BY <1>1, <2>1, <2>2
<1>4. CASE \E s \in Users, a \in Actors, l \in Levels, auto \in BOOLEAN :
             PaidSubscribe(s, a, l, auto)
  <2>1. PICK s \in Users, a \in Actors, l \in Levels, auto \in BOOLEAN :
            PaidSubscribe(s, a, l, auto)
    BY <1>4
  <2>2. a \in Users /\ l \in Nat
    BY LedgerAssumption
  <2> QED
    BY <1>2, <2>1, <2>2 DEF SubsTyped
<1> QED
  BY <1>3, <1>4 DEF SubscriptionOperation

(* The entry a block handles is renewed for a later time or ends.          *)
LEMMA Processed ==
    ASSUME SubsTyped, PhaseType, now < Never, ProcessSubscription
    PROVE  /\ offers' = offers
           /\ \E k \in Users \X Users, new \in Subs :
                 /\ First(k) /\ subs[k].active
                 /\ subs' = [subs EXCEPT ![k] = new]
                 /\ IF new.active THEN offers[k[2]] # NoOffer ELSE new.next_time = Never
                 /\ new.next_time > now
<1>1. PICK k \in DueSubs : Renew(k) \/ CloseSub(k)
  BY DEF ProcessSubscription
<1>2. k \in Users \X Users /\ subs[k].next_time <= now /\ now \in Nat /\ Never \in Nat
  BY AccountsAssumption DEF DueSubs, SubsTyped, PhaseType
<1>3. subs[k].active
  BY <1>2 DEF SubsTyped
<1>4. subs[k] \in Subs /\ offers[k[2]] \in Offers
  BY <1>2, <1>3 DEF SubsTyped, NoSub
<1>5. First(k)
  BY <1>1 DEF Renew, CloseSub
<1>6. CASE Renew(k)
  <2> DEFINE new == [subs[k] EXCEPT !.amount = offers[k[2]].amount,
                                    !.level = Renewal(k).level,
                                    !.next_time = now + offers[k[2]].period]
  <2>1. /\ offers[k[2]].amount \in Nat \ {0} /\ offers[k[2]].period \in Nat \ {0}
        /\ offers[k[2]].levels \in Nat /\ subs[k].level \in Nat
    BY <1>4 DEF Offers, Subs
  <2>2. Renewal(k).level \in Nat
    <3>1. Renewal(k).level = Min({subs[k].level, offers[k[2]].levels})
      BY DEF Renewal
    <3> QED
      BY <2>1, <3>1, MinOfTwo
  <2>3. now + offers[k[2]].period \in Nat /\ now + offers[k[2]].period > now
    BY <1>2, <2>1
  <2>4. new \in Subs /\ new.active /\ new.next_time > now
    BY <1>3, <1>4, <2>1, <2>2, <2>3 DEF Subs
  <2>5. subs' = [subs EXCEPT ![k] = new] /\ offers' = offers
    BY <1>6 DEF Renew
  <2>6. offers[k[2]] # NoOffer
    BY <1>2, <1>3 DEF SubsTyped
  <2> HIDE DEF new
  <2> QED
    BY <1>2, <1>3, <1>5, <2>4, <2>5, <2>6
<1>7. CASE CloseSub(k)
  <2> DEFINE new == [subs[k] EXCEPT !.active = FALSE, !.auto_renewal = FALSE,
                                    !.next_time = Never]
  <2>1. new \in Subs /\ ~new.active /\ new.next_time = Never
    BY <1>2, <1>4 DEF Subs
  <2>2. subs' = [subs EXCEPT ![k] = new] /\ offers' = offers
    BY <1>7 DEF CloseSub
  <2> HIDE DEF new
  <2> QED
    BY <1>2, <1>3, <1>5, <2>1, <2>2
<1> QED
  BY <1>1, <1>6, <1>7

LEMMA SubStep ==
    ASSUME PhaseType, SubInv, LedgerNext
    PROVE  SubInv'
<1>0. /\ SubsTyped /\ now \in Nat /\ Never \in Nat /\ now < Never
      /\ \A k \in Users \X Users : subs[k].next_time \in Nat
  BY AccountsAssumption DEF SubInv, PhaseType, SubsTyped, Subs, NoSub
<1>1. CASE phase = 0 /\ UNCHANGED <<phase, now>> /\ SubscriptionOperation
  <2>0. /\ Resubscribed
        /\ offers' \in [Users -> {NoOffer} \cup Offers]
        /\ \A a \in Users : offers[a] # NoOffer => offers'[a] # NoOffer
    BY <1>0, <1>1, SubscriptionOperations
  <2>1. CASE UNCHANGED subs
    BY <1>0, <1>1, <2>0, <2>1 DEF SubInv, SubsTyped, Ahead, SubObjects
  <2>2. ASSUME NEW k \in Users \X Users, NEW auto \in BOOLEAN,
               subs[k].active, subs' = [subs EXCEPT ![k].auto_renewal = auto]
        PROVE  SubInv'
    <3>1. subs[k] \in Subs
      BY <1>0, <2>2 DEF SubsTyped, NoSub
    <3> DEFINE new == [subs[k] EXCEPT !.auto_renewal = auto]
    <3>2. /\ new \in Subs /\ new.active = subs[k].active
          /\ new.next_time = subs[k].next_time
      BY <3>1 DEF Subs
    <3>3. subs' = [subs EXCEPT ![k] = new]
      BY <2>2
    <3> HIDE DEF new
    <3>a. subs \in [Users \X Users -> {NoSub} \cup Subs]
      BY <1>0 DEF SubsTyped
    <3>b. new # NoSub /\ subs[k] # NoSub
      BY <3>1, <3>2 DEF Subs, NoSub
    <3>c. subs'[k] = new /\ \A j \in (Users \X Users) \ {k} : subs'[j] = subs[j]
      BY <3>3, <3>a
    <3>4. /\ subs' \in [Users \X Users -> {NoSub} \cup Subs]
          /\ \A j \in Users \X Users : /\ subs'[j].active = subs[j].active
                                       /\ subs'[j].next_time = subs[j].next_time
                                       /\ (subs'[j] = NoSub <=> subs[j] = NoSub)
      BY <3>2, <3>3, <3>a, <3>b, <3>c
    <3>5. SubsTyped'
      BY <1>0, <2>0, <3>4 DEF SubsTyped
    <3>6. SubObjects' = SubObjects
      BY <1>0, <3>4 DEF SubObjects, SubsTyped
    <3>7. \A j \in Users \X Users : Ahead(j)' = Ahead(j)
      BY <1>0, <3>4, <3>6, SubsFinite DEF Ahead
    <3> QED
      BY <1>1, <3>4, <3>5, <3>6, <3>7 DEF SubInv
  <2>3. ASSUME NEW k \in Users \X Users, NEW new \in Subs,
               new.active, new.next_time > now, offers[k[2]] # NoOffer,
               subs' = [subs EXCEPT ![k] = new]
        PROVE  SubInv'
    <3>1. /\ SubsTyped'
          /\ \A j \in Users \X Users : subs'[j].active /\ subs'[j].next_time <= now =>
                /\ j # k /\ subs'[j] = subs[j]
                /\ Ahead(j)' \subseteq Ahead(j) \ {k}
          /\ SubObjects' = SubObjects \cup {k}
      BY <1>1, <2>0, <2>3, SubChanged, SMTT(30), ZenonT(60)
    <3>2. /\ Cardinality(SubObjects') \in Nat /\ Cardinality(SubObjects) \in Nat
          /\ Cardinality(SubObjects) <= Cardinality(SubObjects')
      <4>1. IsFiniteSet(SubObjects) /\ Cardinality(SubObjects) \in Nat
        BY <1>0, SubsFinite
      <4>2. \/ Cardinality(SubObjects \cup {k}) = Cardinality(SubObjects)
            \/ Cardinality(SubObjects \cup {k}) = Cardinality(SubObjects) + 1
        BY <4>1, FS_AddElement
      <4> QED
        BY <3>1, <4>1, <4>2
    <3>3. ASSUME NEW j \in Users \X Users, subs'[j].active, subs'[j].next_time <= now
          PROVE  now - subs'[j].next_time + Cardinality(Ahead(j)') < Cardinality(SubObjects')
      <4>1. subs'[j] = subs[j] /\ Ahead(j)' \subseteq Ahead(j)
        BY <3>1, <3>3
      <4>2. now - subs[j].next_time + Cardinality(Ahead(j)) < Cardinality(SubObjects)
        BY <1>1, <3>3, <4>1 DEF SubInv
      <4>3. /\ Cardinality(Ahead(j)') \in Nat /\ Cardinality(Ahead(j)) \in Nat
            /\ Cardinality(Ahead(j)') <= Cardinality(Ahead(j))
        BY <1>0, <4>1, SubsFinite, FS_Subset, FS_CardinalityType
      <4> QED
        BY <1>0, <3>2, <4>1, <4>2, <4>3
    <3>4. ASSUME NEW j \in Users \X Users, subs'[j].active, subs'[j].next_time <= now
          PROVE  now - subs'[j].next_time + Cardinality(Ahead(j)') <= Cardinality(SubObjects')
      <4>1. subs'[j].next_time \in Nat /\ Cardinality(Ahead(j)') \in Nat
        BY <1>0, <3>1, <3>4, SubsFinite, FS_Subset, FS_CardinalityType
      <4> QED
        BY <1>0, <3>2, <3>3, <3>4, <4>1
    <3> QED
      BY <1>0, <1>1, <3>1, <3>3, <3>4 DEF SubInv
  <2> QED
    BY <2>0, <2>1, <2>2, <2>3 DEF Resubscribed
<1>2. CASE NextBlock /\ now' < Never
  <2>1. /\ UNCHANGED <<offers, subs>> /\ now' = now + 1 /\ phase = 0 /\ phase' = 1
    BY <1>2 DEF NextBlock, subscriptionVars
  <2>2. SubsTyped' /\ SubObjects' = SubObjects /\ \A k : Ahead(k)' = Ahead(k)
    BY <1>0, <2>1 DEF SubsTyped, SubObjects, Ahead
  <2>3. ASSUME NEW k \in Users \X Users, subs[k].active, subs[k].next_time <= now + 1
        PROVE  now + 1 - subs[k].next_time + Cardinality(Ahead(k))
                   <= Cardinality(SubObjects)
    <3>1. /\ Cardinality(Ahead(k)) \in Nat /\ Cardinality(SubObjects) \in Nat
          /\ Cardinality(Ahead(k)) <= Cardinality(SubObjects)
      BY <1>0, SubsFinite
    <3>2. CASE subs[k].next_time <= now
      <4>1. now - subs[k].next_time + Cardinality(Ahead(k)) < Cardinality(SubObjects)
        BY <2>1, <2>3, <3>2 DEF SubInv
      <4> QED
        BY <1>0, <3>1, <4>1
    <3>3. CASE subs[k].next_time = now + 1
      BY <1>0, <3>1, <3>3
    <3> QED
      BY <1>0, <2>3, <3>2, <3>3
  <2>4. \A k \in Users \X Users : subs'[k].active /\ subs'[k].next_time <= now' =>
            now' - subs'[k].next_time + Cardinality(Ahead(k)') <= Cardinality(SubObjects')
    <3> SUFFICES ASSUME NEW k \in Users \X Users, subs'[k].active, subs'[k].next_time <= now'
                 PROVE  now' - subs'[k].next_time + Cardinality(Ahead(k)')
                            <= Cardinality(SubObjects')
      OBVIOUS
    <3>1. now' = now + 1 /\ subs'[k] = subs[k] /\ Ahead(k)' = Ahead(k) /\ SubObjects' = SubObjects
      BY <2>1, <2>2
    <3>2. now + 1 - subs[k].next_time + Cardinality(Ahead(k)) <= Cardinality(SubObjects)
      BY <2>3, <3>1
    <3>3. Cardinality(Ahead(k)') = Cardinality(Ahead(k))
      BY <3>1
    <3>4. Cardinality(SubObjects') = Cardinality(SubObjects)
      BY <3>1
    <3>5. subs'[k].next_time = subs[k].next_time
      BY <3>1
    <3>6. Cardinality(Ahead(k)) \in Nat /\ Cardinality(SubObjects) \in Nat
      BY <1>0, SubsFinite
    <3> QED
      BY <1>0, <3>1, <3>2, <3>3, <3>4, <3>5, <3>6
  <2>5. phase' \in 1..13
    BY <2>1
  <2> QED
    BY <1>2, <2>2, <2>4, <2>5 DEF SubInv
<1>3. CASE RenewSubscription /\ Arrives(13)
  <2>1. phase' = 14 /\ now' = now /\ phase \in 1..13 /\ ProcessSubscription
    BY <1>3, Places DEF RenewSubscription, Once, Arrives
  <2>2. PICK k \in Users \X Users, new \in Subs :
                 /\ First(k) /\ subs[k].active
                 /\ subs' = [subs EXCEPT ![k] = new]
                 /\ IF new.active THEN offers[k[2]] # NoOffer ELSE new.next_time = Never
                 /\ new.next_time > now
    BY <1>0, <2>1, Processed
  <2>3. offers' = offers
    BY <1>0, <2>1, Processed
  <2>4. /\ SubsTyped'
        /\ \A j \in Users \X Users : subs'[j].active /\ subs'[j].next_time <= now =>
              /\ j # k /\ subs'[j] = subs[j]
              /\ Ahead(j)' \subseteq Ahead(j) \ {k}
        /\ SubObjects' = SubObjects \cup {k}
    BY <1>0, <2>1, <2>2, <2>3, SubChanged DEF SubsTyped
  <2>5. k \in SubObjects
    BY <1>0, <2>2 DEF SubObjects, SubsTyped, NoSub
  <2>6. SubObjects' = SubObjects
    BY <2>4, <2>5
  <2>7. ASSUME NEW j \in Users \X Users, subs'[j].active, subs'[j].next_time <= now
        PROVE  now - subs'[j].next_time + Cardinality(Ahead(j)') < Cardinality(SubObjects)
    <3>1. j # k /\ subs'[j] = subs[j] /\ Ahead(j)' \subseteq Ahead(j) \ {k}
      BY <2>4, <2>7
    <3>2. k \in Ahead(j)
      BY <1>0, <2>2, <2>5, <2>7, <3>1 DEF First, DueSubs, Ahead, SubsTyped
    <3>3. /\ IsFiniteSet(Ahead(j)) /\ Cardinality(Ahead(j)) \in Nat
          /\ Cardinality(SubObjects) \in Nat
      BY <1>0, SubsFinite
    <3>4. /\ IsFiniteSet(Ahead(j) \ {k})
          /\ Cardinality(Ahead(j) \ {k}) = Cardinality(Ahead(j)) - 1
      BY <3>2, <3>3, FS_RemoveElement
    <3>5. /\ Cardinality(Ahead(j)') \in Nat
          /\ Cardinality(Ahead(j)') <= Cardinality(Ahead(j)) - 1
      BY <3>1, <3>4, FS_Subset, FS_CardinalityType
    <3>6. now - subs[j].next_time + Cardinality(Ahead(j)) <= Cardinality(SubObjects)
      BY <2>1, <2>7, <3>1 DEF SubInv
    <3> QED
      BY <1>0, <3>1, <3>3, <3>5, <3>6
  <2>8. Cardinality(SubObjects) \in Nat
    BY <1>0, SubsFinite
  <2>9. ASSUME NEW j \in Users \X Users, subs'[j].active, subs'[j].next_time <= now
        PROVE  now - subs'[j].next_time + Cardinality(Ahead(j)') <= Cardinality(SubObjects)
    <3>1. subs'[j].next_time \in Nat /\ Cardinality(Ahead(j)') \in Nat
      BY <1>0, <2>4, <2>9, SubsFinite, FS_Subset, FS_CardinalityType
    <3> QED
      BY <1>0, <2>7, <2>8, <2>9, <3>1
  <2> QED
    BY <1>0, <2>1, <2>4, <2>6, <2>7, <2>9 DEF SubInv
<1>4. CASE /\ UNCHANGED <<subscriptionVars, now>>
           /\ (phase = 0 /\ phase' = 0) \/ Passes(13)
  <2>1. UNCHANGED <<offers, subs>>
    BY <1>4 DEF subscriptionVars
  <2>2. /\ SubsTyped' /\ DueSubs' = DueSubs /\ SubObjects' = SubObjects
        /\ \A k : Ahead(k)' = Ahead(k)
    BY <1>0, <1>4, <2>1 DEF SubsTyped, DueSubs, SubObjects, Ahead
  <2>3. CASE phase' \in 1..13 <=> phase \in 1..13
    BY <1>4, <2>1, <2>2, <2>3 DEF SubInv
  <2>4. CASE phase' \in 1..13 /\ phase \notin 1..13
    BY <1>0, <1>4, <2>1, <2>2, <2>4 DEF SubInv
  <2>5. CASE phase' \notin 1..13 /\ phase \in 1..13
    <3>1. DueSubs = {}
      BY <1>4, <2>5, PendingWhat, PlaceNames DEF Passes, PhaseType
    <3>2. \A k \in Users \X Users : ~(subs[k].next_time <= now)
      BY <1>0, <3>1 DEF DueSubs, SubsTyped
    <3> QED
      BY <1>0, <1>4, <2>1, <2>2, <3>2 DEF SubInv
  <2> QED
    BY <2>3, <2>4, <2>5
<1> QED
  BY <1>1, <1>2, <1>3, <1>4, SubFrame

LEMMA SubStart ==
    ASSUME LedgerInit
    PROVE  PhaseType /\ SubInv
<1>1. SubscriptionInit /\ phase = 0 /\ now = 0
  BY InitObjects
<1>2. SubsTyped /\ \A k \in Users \X Users : ~subs[k].active
  BY <1>1 DEF SubscriptionInit, SubsTyped, NoSub
<1>3. 0 < Never
  BY AccountsAssumption
<1> QED
  BY <1>1, <1>2, <1>3 DEF PhaseType, SubInv

LEMMA SubIdle ==
    ASSUME PhaseType, SubInv, UNCHANGED ledgerVars
    PROVE  (PhaseType /\ SubInv)'
BY DEF ledgerVars, subscriptionVars, PhaseType, SubInv, SubsTyped, Ahead, SubObjects

(***************************************************************************)
(* A subscription waits for its renewal or its end at most one block for   *)
(* every other subscription, although paid_subscribe_processing handles    *)
(* only the first due one in a block.                                      *)
(***************************************************************************)
THEOREM SubscriptionsCorrect == LedgerSpec => []SubscriptionsOnTime
<1> DEFINE Inv == PhaseType /\ SubInv
<1>1. LedgerInit => Inv
  BY SubStart
<1>2. Inv /\ [LedgerNext]_ledgerVars => Inv'
  BY SubIdle, PhaseSteps, SubStep
<1>3. Inv => SubscriptionsOnTime
  <2> SUFFICES ASSUME Inv, phase = 0, NEW k \in DOMAIN subs, subs[k].active
               PROVE  now - subs[k].next_time < Cardinality(SubObjects)
    BY DEF SubscriptionsOnTime
  <2>1. SubsTyped /\ k \in Users \X Users /\ now \in Nat
    BY DEF SubInv, SubsTyped, PhaseType
  <2>2. subs[k].next_time \in Nat
    BY <2>1 DEF SubsTyped, Subs, NoSub
  <2>3. Cardinality(SubObjects) \in Nat /\ Cardinality(Ahead(k)) \in Nat
    BY <2>1, SubsFinite
  <2>4. subs[k].next_time <= now =>
            now - subs[k].next_time + Cardinality(Ahead(k)) < Cardinality(SubObjects)
    BY <2>1 DEF SubInv
  <2> QED
    BY <2>1, <2>2, <2>3, <2>4
<1> QED
  BY <1>1, <1>2, <1>3, PTL DEF LedgerSpec

----------------------------------------------------------------------------
(* A ledger in which every share of the total has an owner.                *)
Sound(l) == Formed(l) /\ Gap(l) = 0

LEMMA SoundShares ==
    ASSUME NEW l, Sound(l), NEW a \in Names
    PROVE  /\ l.acc[a].vesting_shares \in Nat /\ l.dgp.total_vesting_shares \in Nat
           /\ l.acc[a].vesting_shares <= l.dgp.total_vesting_shares
<1>1. l \in Ledgers
  BY DEF Sound, Formed
<1>2. PICK s \in Nat : s = AccountShares(l)
  BY <1>1, SumTypes
<1>3. l.acc[a].vesting_shares <= s /\ l.acc[a].vesting_shares \in Nat
  BY <1>1, <1>2, SumTypes, AccountTypes
<1>4. l.dgp.total_vesting_shares \in Nat
  BY <1>1, TotalTypes
<1>5. l.dgp.total_vesting_shares = s
  BY <1>2, <1>4 DEF Sound, Gap
<1> QED
  BY <1>3, <1>4, <1>5

LEMMA MovesSound ==
    ASSUME NEW l, Sound(l), NEW m, NEW d, Moves(l, m, d)
    PROVE  Sound(m)
BY DEF Sound, Moves, Shifts

----------------------------------------------------------------------------
(* The accounts that are emptied at the end of a block.                    *)
Drained(x) == WithShares(WithBalance(x, 0), 0)

DrainedFields == {"balance", "vesting_shares"}

LEMMA DrainedType ==
    ASSUME NEW x \in Account, NEW y, y = Drained(x)
    PROVE  /\ y \in Account /\ y.balance = 0 /\ y.vesting_shares = 0
           /\ \A f \in AccountFields \ DrainedFields : y[f] = x[f]
<1>1. PICK z : z = WithBalance(x, 0)
  OBVIOUS
<1>2. y = WithShares(z, 0)
  BY <1>1 DEF Drained
<1>3. /\ z \in Account /\ z.balance = 0
      /\ \A f \in AccountFields \ {"balance"} : z[f] = x[f]
  BY <1>1, BalanceReplaced
<1>4. /\ y \in Account /\ y.vesting_shares = 0
      /\ \A f \in AccountFields \ {"vesting_shares"} : y[f] = z[f]
  BY <1>2, <1>3, SharesReplaced
<1> QED
  BY <1>3, <1>4 DEF AccountFields, DrainedFields

LEMMA EmptiedMoves ==
    ASSUME NEW l, Sound(l), NEW a \in {Null, Anonymous, Treasury}, l.acc[a].exists, NEW m, m = Emptied(l, a)
    PROVE  /\ Moves(l, m, 0 - Held(l, a)) /\ Held(l, a) \in Int
           /\ KeepsBut(l, m, DrainedFields)
           /\ m.val = l.val /\ m.ballots = l.ballots
           /\ m.dgp.total_reward_shares = l.dgp.total_reward_shares
           /\ \A b \in Names : b # a => m.acc[b] = l.acc[b]
<1>0. Formed(l) /\ l \in Ledgers /\ Priced(l) /\ a \in Names
  BY AccountsAssumption DEF Sound, Formed
<1>1. PICK x, t : x = l.acc[a] /\ t = l.dgp
  OBVIOUS
<1>2. /\ x \in Account /\ x.balance \in Int /\ x.reserved_balance \in Int
      /\ x.vesting_shares \in Nat
  BY <1>0, <1>1, AccountTypes
<1>3. /\ t \in Totals /\ t.total_vesting_fund \in Nat /\ t.total_vesting_shares \in Nat
      /\ x.vesting_shares <= t.total_vesting_shares
  BY <1>0, <1>1, TotalTypes, SoundShares
<1>4. PICK s : s = x.vesting_shares
  OBVIOUS
<1>5. PICK k : k = ToTokens(l, s)
  OBVIOUS
<1>6. s \in Nat /\ s <= l.dgp.total_vesting_shares
  BY <1>1, <1>2, <1>3, <1>4
<1>7. /\ k \in Nat /\ k <= t.total_vesting_fund
      /\ t.total_vesting_fund - k = 0 <=> t.total_vesting_shares - s = 0
  BY <1>0, <1>1, <1>5, <1>6, ToTokensNat
<1>8. PICK g \in Nat, h \in Nat :
          g = t.total_vesting_fund - k /\ h = t.total_vesting_shares - s
  BY <1>1, <1>3, <1>6, <1>7
<1>9. PICK new, u : new = Drained(x) /\ u = WithStake(t, g, h)
  OBVIOUS
<1>10. /\ new \in Account /\ new.balance = 0 /\ new.vesting_shares = 0
       /\ \A f \in AccountFields \ DrainedFields : new[f] = x[f]
  BY <1>2, <1>9, DrainedType
<1>11. /\ u \in Totals /\ u.total_vesting_fund = g /\ u.total_vesting_shares = h
       /\ u.current_supply = t.current_supply
       /\ u.total_reward_fund = t.total_reward_fund
       /\ u.total_reward_shares = t.total_reward_shares
       /\ u.committee_fund = t.committee_fund
  BY <1>3, <1>8, <1>9, StakeReplaced
<1>12. m = Reshape(l, a, new, u)
  <2>1. m = [l EXCEPT !.acc[a].balance = 0, !.acc[a].vesting_shares = 0,
                      !.dgp.total_vesting_shares = h, !.dgp.total_vesting_fund = g]
    BY <1>1, <1>4, <1>5, <1>8 DEF Emptied
  <2>2. l.acc \in [Names -> Account] /\ DOMAIN l = {"acc", "dgp", "val", "ballots"}
    BY <1>0 DEF Ledgers
  <2>3. PICK A : A = [l.acc EXCEPT ![a].balance = 0, ![a].vesting_shares = 0]
    OBVIOUS
  <2>4. A = [l.acc EXCEPT ![a] = new]
    BY <1>1, <1>9, <2>2, <2>3 DEF Drained, WithBalance, WithShares
  <2>5. m = [l EXCEPT !.acc = A, !.dgp = u]
    <3>1. u = [t EXCEPT !.total_vesting_shares = h, !.total_vesting_fund = g]
      BY <1>3, <1>9 DEF WithStake, Totals
    <3> QED
      BY <1>1, <2>1, <2>2, <2>3, <3>1
  <2> QED
    BY <2>2, <2>4, <2>5 DEF Reshape, SetAccount, SetTotals
<1>13. /\ new.exists = x.exists /\ new.proxy = x.proxy
       /\ new.reserved_balance = x.reserved_balance
       /\ new.proxied_vsf_votes = x.proxied_vsf_votes
  BY <1>10 DEF AccountFields, DrainedFields
<1>14. Reshapes(l, a, new, u)
  BY <1>1, <1>7, <1>8, <1>10, <1>11, <1>13 DEF Reshapes
<1>15. ReshapedSums(l, m, a, new, u)
  BY <1>0, <1>12, <1>14, ReshapeForms
<1>16. Purse(u) = Purse(t) /\ Purse(t) \in Int
  BY <1>0, <1>1, <1>11, TotalTypes DEF Purse
<1>17. Gap(l) \in Int /\ Surplus(l) \in Int
  BY <1>0, SumTypes
<1>18. Gap(m) = Gap(l)
  <2>1. Gap(m) = Gap(l) + (x.vesting_shares - new.vesting_shares)
                    + (u.total_vesting_shares - t.total_vesting_shares)
    BY <1>1, <1>15 DEF ReshapedSums
  <2> QED
    BY <1>2, <1>3, <1>4, <1>8, <1>10, <1>11, <1>17, <2>1
<1>19. Held(l, a) = x.balance + k
  BY <1>1, <1>4, <1>5 DEF Held
<1>20. Surplus(m) = Surplus(l) + (0 - Held(l, a))
  <2>1. Surplus(m) = Surplus(l)
          + ((new.balance + new.reserved_balance) - (x.balance + x.reserved_balance))
          + (u.total_vesting_fund - t.total_vesting_fund) + (Purse(u) - Purse(t))
    BY <1>1, <1>15 DEF ReshapedSums
  <2>2. Surplus(m) = Surplus(l) + (0 - (x.balance + k))
    BY <1>2, <1>3, <1>7, <1>8, <1>10, <1>11, <1>13, <1>16, <1>17, <2>1
  <2> QED
    BY <1>19, <2>2
<1>21. Held(l, a) \in Int
  BY <1>2, <1>7, <1>19
<1>22. /\ m.dgp = u /\ m.val = l.val /\ m.ballots = l.ballots /\ m.acc[a] = new
       /\ \A b \in Names : b # a => m.acc[b] = l.acc[b]
       /\ Formed(m) /\ Grows(l, m)
  BY <1>15 DEF ReshapedSums
<1>23. KeepsBut(l, m, DrainedFields)
  BY <1>1, <1>10, <1>22 DEF Keeps, KeepsBut
<1>24. Carries(l, m)
  <2> SUFFICES ASSUME Proxied(l) PROVE Carries(l, m)
    BY DEF Carries
  <2>1. l.acc[a].proxy = Nobody
    BY DEF Proxied, Direct
  <2>2. m \in Ledgers /\ SameProxies(l, m) /\ SameProxied(l, m)
    BY <1>1, <1>13, <1>22 DEF Formed, SameProxies, SameProxied
  <2>3. \A b \in Names \ {a} : m.acc[b].vesting_shares = l.acc[b].vesting_shares
    BY <1>22
  <2> QED
    BY <1>0, <2>1, <2>2, <2>3, DirectCarries
<1> QED
  BY <1>1, <1>11, <1>18, <1>20, <1>21, <1>22, <1>23, <1>24 DEF Moves, Shifts

WithSupply(t, n) == [t EXCEPT !.current_supply = n]

LEMMA SupplyReplaced ==
    ASSUME NEW t \in Totals, NEW n, n \in Int, NEW u, u = WithSupply(t, n)
    PROVE  /\ u \in Totals /\ SameStake(t, u)
           /\ u.current_supply = n
           /\ u.total_reward_fund = t.total_reward_fund
           /\ u.total_reward_shares = t.total_reward_shares
           /\ u.committee_fund = t.committee_fund
BY DEF Totals, WithSupply, SameStake

(* What the steps that empty the special accounts have in common.          *)
Drains(l, m) ==
    /\ Moves(l, m, 0) /\ KeepsBut(l, m, DrainedFields) /\ m.ballots = l.ballots
    /\ m.dgp.total_reward_shares = l.dgp.total_reward_shares
    /\ \A b \in Names \ {Null, Anonymous, Treasury} : m.acc[b] = l.acc[b]

LEMMA DrainsTransitive ==
    ASSUME NEW l, Formed(l), NEW m, NEW n, Drains(l, m), Drains(m, n)
    PROVE  Drains(l, n)
<1>1. Moves(l, n, 0 + 0)
  BY MovesTransitive DEF Drains
<1>2. KeepsBut(l, n, DrainedFields)
  BY DEF Drains, Keeps, KeepsBut
<1> QED
  BY <1>1, <1>2 DEF Drains

LEMMA BurnDrains ==
    ASSUME NEW l, Sound(l), NEW a \in {Null, Anonymous}, NEW m, m = Burn(l, a)
    PROVE  Drains(l, m) /\ m.acc[Treasury] = l.acc[Treasury]
<1>0. Formed(l) /\ l \in Ledgers /\ a \in Names /\ l.acc[a].exists
  BY AccountsAssumption DEF Sound, Formed, Staffed
<1>1. PICK p : p = Emptied(l, a)
  OBVIOUS
<1>2. /\ Moves(l, p, 0 - Held(l, a)) /\ Held(l, a) \in Int
      /\ KeepsBut(l, p, DrainedFields)
      /\ p.val = l.val /\ p.ballots = l.ballots
      /\ p.dgp.total_reward_shares = l.dgp.total_reward_shares
      /\ \A b \in Names : b # a => p.acc[b] = l.acc[b]
  BY <1>0, <1>1, EmptiedMoves
<1>3. PICK t, h : t = p.dgp /\ h = Held(l, a)
  OBVIOUS
<1>4. Formed(p) /\ p \in Ledgers
  BY <1>2 DEF Moves, Shifts, Formed
<1>5. /\ t \in Totals /\ t.current_supply \in Int /\ t.total_reward_fund \in Int
      /\ t.committee_fund \in Int /\ h \in Int
  BY <1>2, <1>3, <1>4, TotalTypes
<1>6. PICK n : n \in Int /\ n = t.current_supply - h
  BY <1>5
<1>7. PICK u : u = WithSupply(t, n)
  OBVIOUS
<1>8. /\ u \in Totals /\ SameStake(p.dgp, u) /\ u.current_supply = n
      /\ u.total_reward_fund = t.total_reward_fund
      /\ u.total_reward_shares = t.total_reward_shares
      /\ u.committee_fund = t.committee_fund
  <2>1. t \in Totals /\ n \in Int
    BY <1>5, <1>6
  <2>2. /\ u \in Totals /\ SameStake(t, u) /\ u.current_supply = n
        /\ u.total_reward_fund = t.total_reward_fund
        /\ u.total_reward_shares = t.total_reward_shares
        /\ u.committee_fund = t.committee_fund
    BY <1>7, <2>1, SupplyReplaced
  <2> QED
    BY <1>3, <2>2
<1>9. m = SetTotals(p, u)
  BY <1>1, <1>3, <1>4, <1>6, <1>7 DEF Burn, SetTotals, WithSupply, Ledgers
<1>10. /\ Moves(p, m, Purse(u) - Purse(p.dgp))
       /\ m.acc = p.acc /\ m.dgp = u /\ m.val = p.val /\ m.ballots = p.ballots
  BY <1>4, <1>8, <1>9, TotalsMoves
<1>11. Purse(u) - Purse(p.dgp) = h
  BY <1>3, <1>5, <1>6, <1>8 DEF Purse
<1>12. PICK d \in Int : d = 0 - h
  BY <1>5
<1>13. Moves(l, m, d + h)
  BY <1>0, <1>2, <1>3, <1>5, <1>10, <1>11, <1>12, MovesTransitive
<1>14. d + h = 0
  BY <1>5, <1>12
<1>15. KeepsBut(l, m, DrainedFields)
  BY <1>2, <1>10 DEF Keeps, KeepsBut
<1>16. m.acc[Treasury] = l.acc[Treasury]
  BY <1>2, <1>10, AccountsAssumption
<1> QED
  BY <1>2, <1>3, <1>8, <1>10, <1>13, <1>14, <1>15, <1>16 DEF Drains

LEMMA ClaimDrains ==
    ASSUME NEW l, Sound(l), l.acc[Treasury].balance >= 0, NEW m, m = ClaimCommittee(l)
    PROVE  Drains(l, m) /\ m.acc[Treasury].balance = 0
<1>0. Formed(l) /\ l \in Ledgers /\ Treasury \in Names /\ l.acc[Treasury].exists
  BY AccountsAssumption DEF Sound, Formed, Staffed
<1>1. PICK p, h : p = Emptied(l, Treasury) /\ h = Held(l, Treasury)
  OBVIOUS
<1>2. /\ Moves(l, p, 0 - h) /\ h \in Int
      /\ KeepsBut(l, p, DrainedFields)
      /\ p.val = l.val /\ p.ballots = l.ballots
      /\ p.dgp.total_reward_shares = l.dgp.total_reward_shares
      /\ \A b \in Names : b # Treasury => p.acc[b] = l.acc[b]
  BY <1>0, <1>1, EmptiedMoves
<1>3. Formed(p)
  BY <1>2 DEF Moves, Shifts
<1>4. h \in Nat
  <2>1. PICK s : s = l.acc[Treasury].vesting_shares
    OBVIOUS
  <2>2. s \in Nat /\ s <= l.dgp.total_vesting_shares
    BY <1>0, <2>1, SoundShares
  <2>3. ToTokens(l, s) \in Nat
    BY <1>0, <2>2, ToTokensNat DEF Formed
  <2>4. l.acc[Treasury].balance \in Int
    BY <1>0, AccountTypes
  <2> QED
    BY <1>1, <2>1, <2>3, <2>4 DEF Held
<1>5. m = PayCommittee(p, h)
  BY <1>1 DEF ClaimCommittee
<1>6. Pays(p, m, h) /\ m.acc = p.acc
  BY <1>3, <1>4, <1>5, PayCommitteePays
<1>7. Moves(p, m, h) /\ m.ballots = p.ballots
      /\ m.dgp.total_reward_shares = p.dgp.total_reward_shares
  BY <1>6, PaysMoves
<1>8. PICK d \in Int : d = 0 - h
  BY <1>2
<1>9. Moves(l, m, d + h)
  BY <1>0, <1>2, <1>7, <1>8, MovesTransitive
<1>10. d + h = 0
  BY <1>2, <1>8
<1>11. KeepsBut(l, m, DrainedFields)
  BY <1>2, <1>6 DEF Keeps, KeepsBut
<1>12. m.acc[Treasury].balance = 0
  BY <1>0, <1>1, <1>6 DEF Emptied, Ledgers, Account
<1> QED
  BY <1>2, <1>6, <1>7, <1>9, <1>10, <1>11, <1>12 DEF Drains

LEMMA SpecialDrains ==
    ASSUME NEW l, Sound(l), l.acc[Treasury].balance >= 0,
           NEW m, m = ClaimCommittee(Burn(Burn(l, Null), Anonymous))
    PROVE  Drains(l, m) /\ m.acc[Treasury].balance = 0
<1>1. PICK p, q : p = Burn(l, Null) /\ q = Burn(p, Anonymous)
  OBVIOUS
<1>2. Drains(l, p) /\ p.acc[Treasury] = l.acc[Treasury]
  BY <1>1, BurnDrains
<1>3. Sound(p)
  BY <1>2, MovesSound DEF Drains
<1>4. Drains(p, q) /\ q.acc[Treasury] = p.acc[Treasury]
  BY <1>1, <1>3, BurnDrains
<1>5. Sound(q)
  BY <1>3, <1>4, MovesSound DEF Drains
<1>6. Drains(q, m) /\ m.acc[Treasury].balance = 0
  BY <1>1, <1>2, <1>4, <1>5, ClaimDrains
<1>7. Drains(l, q)
  BY <1>2, <1>4, DrainsTransitive DEF Sound
<1> QED
  BY <1>6, <1>7, DrainsTransitive DEF Sound

----------------------------------------------------------------------------
(* Awards: payments that may add to the shares of the reward fund.         *)
Rewards(l, m, r, d) ==
    /\ Moves(l, m, d) /\ Keeps(l, m, SteadyFields) /\ Saves(l, m)
    /\ m.ballots = l.ballots
    /\ m.dgp.total_reward_shares = l.dgp.total_reward_shares + r
    /\ \A a \in Names : m.acc[a].vesting_shares >= l.acc[a].vesting_shares

LEMMA PaysRewards ==
    ASSUME NEW l, Formed(l), NEW m, NEW d, Pays(l, m, d)
    PROVE  Rewards(l, m, 0, d)
<1>1. l.dgp.total_reward_shares \in Int
  BY TotalTypes DEF Formed
<1> QED
  BY <1>1, PaysMoves DEF Rewards

LEMMA RewardsTransitive ==
    ASSUME NEW l, Formed(l), NEW m, NEW n, NEW r, r \in Int, NEW s, s \in Int,
           NEW d, d \in Int, NEW e, e \in Int,
           Rewards(l, m, r, d), Rewards(m, n, s, e)
    PROVE  Rewards(l, n, r + s, d + e)
<1>1. l \in Ledgers /\ m \in Ledgers /\ n \in Ledgers
  BY DEF Formed, Rewards, Moves, Shifts
<1>2. Moves(l, n, d + e)
  BY MovesTransitive DEF Rewards
<1>3. Keeps(l, n, SteadyFields)
  BY DEF Rewards, Keeps
<1>4. Saves(l, n)
  <2>1. /\ l.acc[Treasury].balance \in Int /\ m.acc[Treasury].balance \in Int
        /\ n.acc[Treasury].balance \in Int
    BY <1>1, AccountTypes, AccountsAssumption
  <2> QED
    BY <2>1 DEF Rewards, Saves
<1>5. n.dgp.total_reward_shares = l.dgp.total_reward_shares + (r + s)
  <2>1. l.dgp.total_reward_shares \in Int
    BY <1>1, TotalTypes
  <2> QED
    BY <2>1 DEF Rewards
<1>6. \A a \in Names : n.acc[a].vesting_shares >= l.acc[a].vesting_shares
  BY <1>1, AccountTypes DEF Rewards
<1> QED
  BY <1>2, <1>3, <1>4, <1>5, <1>6 DEF Rewards

LEMMA PayoutNat ==
    ASSUME NEW l, Formed(l), l = Current, NEW r, r \in Nat, r > 0
    PROVE  Payout(r) \in Nat /\ Payout(r) <= dgp.total_reward_fund
<1>1. PICK F \in Nat, S \in Nat : F = dgp.total_reward_fund /\ S = dgp.total_reward_shares
  BY TotalTypes DEF Formed, Current
<1>2. Payout(r) = (F * r) \div (S + r)
  BY <1>1 DEF Payout
<1>3. PICK k \in Nat \ {0}, p \in Nat : k = S + r /\ p = F * r
  <2>1. S + r \in Nat \ {0} /\ F * r \in Nat
    OBVIOUS
  <2> QED
    BY <2>1
<1>4. p <= k * F
  <2>1. (S + r) * F = S * F + F * r /\ S * F \in Nat /\ F * r \in Nat
    OBVIOUS
  <2> QED
    BY <1>3, <2>1
<1>5. p \div k \in Nat /\ p \div k <= F
  BY <1>4, Quotient, QuotientAtMost
<1> QED
  BY <1>1, <1>2, <1>3, <1>5

WithReward(t, f, s) == [t EXCEPT !.total_reward_fund = f, !.total_reward_shares = s]

LEMMA RewardReplaced ==
    ASSUME NEW t \in Totals, NEW f, f \in Nat, NEW s, s \in Nat, NEW u, u = WithReward(t, f, s)
    PROVE  /\ SameStake(t, u) /\ u.current_supply = t.current_supply
           /\ u.total_reward_fund = f /\ u.total_reward_shares = s
           /\ u.committee_fund = t.committee_fund
BY DEF Totals, WithReward, SameStake

(* The totals are set, the accounts stay as they are.                      *)
LEMMA RewardRewards ==
    ASSUME NEW l, Formed(l), NEW f, f \in Nat, NEW s, s \in Nat,
           NEW u, u = WithReward(l.dgp, f, s), NEW m, m = SetTotals(l, u)
    PROVE  /\ Rewards(l, m, s - l.dgp.total_reward_shares, f - l.dgp.total_reward_fund)
           /\ m.acc = l.acc
<1>0. l \in Ledgers
  BY DEF Formed
<1>1. PICK t : t = l.dgp
  OBVIOUS
<1>2. /\ t \in Totals /\ t.current_supply \in Int /\ t.total_reward_fund \in Int
      /\ t.committee_fund \in Int /\ t.total_reward_shares \in Int
  BY <1>0, <1>1, TotalTypes
<1>3. /\ SameStake(t, u) /\ u.current_supply = t.current_supply
      /\ u.total_reward_fund = f /\ u.total_reward_shares = s
      /\ u.committee_fund = t.committee_fund
  <2>1. t \in Totals /\ u = WithReward(t, f, s)
    BY <1>1, <1>2
  <2> QED
    BY <2>1, RewardReplaced
<1>4. /\ Moves(l, m, Purse(u) - Purse(t))
      /\ m.acc = l.acc /\ m.dgp = u /\ m.val = l.val /\ m.ballots = l.ballots
  BY <1>1, <1>3, TotalsMoves
<1>5. Purse(u) - Purse(t) = f - t.total_reward_fund
  BY <1>2, <1>3 DEF Purse
<1>6. s = t.total_reward_shares + (s - t.total_reward_shares)
  BY <1>2
<1>7. Keeps(l, m, SteadyFields) /\ Saves(l, m)
  BY <1>0, <1>4, SavesSame DEF Keeps
<1>8. \A a \in Names : m.acc[a].vesting_shares >= l.acc[a].vesting_shares
  BY <1>0, <1>4, AccountTypes
<1> QED
  BY <1>1, <1>3, <1>4, <1>5, <1>6, <1>7, <1>8 DEF Rewards

LEMMA ClaimRewards ==
    ASSUME NEW l, Formed(l), l = Current, NEW r, r \in Nat, r > 0,
           NEW m, m = ClaimReward(l, r)
    PROVE  Rewards(l, m, r, 0 - Payout(r)) /\ m.acc = l.acc
<1>0. l \in Ledgers /\ l.dgp = dgp
  BY DEF Formed, Current
<1>1. PICK t, p : t = l.dgp /\ p = Payout(r)
  OBVIOUS
<1>2. /\ t \in Totals /\ t.total_reward_fund \in Nat /\ t.total_reward_shares \in Nat
      /\ p \in Nat /\ p <= t.total_reward_fund
  BY <1>0, <1>1, TotalTypes, PayoutNat
<1>3. PICK f, s : f = t.total_reward_fund - p /\ s = t.total_reward_shares + r
  OBVIOUS
<1>4. f \in Nat /\ s \in Nat
  BY <1>2, <1>3
<1>5. PICK u : u = WithReward(l.dgp, f, s)
  OBVIOUS
<1>6. m = SetTotals(l, u)
  BY <1>0, <1>1, <1>3, <1>5 DEF ClaimReward, SetTotals, WithReward, Ledgers
<1>7. /\ Rewards(l, m, s - t.total_reward_shares, f - t.total_reward_fund)
      /\ m.acc = l.acc
  BY <1>1, <1>4, <1>5, <1>6, RewardRewards
<1>8. s - t.total_reward_shares = r /\ f - t.total_reward_fund = 0 - p
  BY <1>2, <1>3
<1> QED
  BY <1>1, <1>7, <1>8

LEMMA SpendPays ==
    ASSUME NEW l, Formed(l), NEW a \in Names, l.acc[a].exists, Formed(Current),
           now \in Nat, NEW e, e \in Int, NEW m, m = Spend(l, a, e)
    PROVE  Rewards(l, m, 0, 0)
<1>1. PICK c : c = CurrentEnergy(Current, a) - e
  OBVIOUS
<1>2. CurrentEnergy(Current, a) \in Int
  BY CurrentEnergyInt DEF Formed
<1>3. c \in Int
  BY <1>1, <1>2
<1>4. m = SetEnergy(l, a, c, now)
  BY <1>1 DEF Spend, SetEnergy
<1>5. Pays(l, m, 0)
  BY <1>3, <1>4, EnergyPays
<1> QED
  BY <1>5, PaysRewards

LEMMA BenefitNat ==
    ASSUME NEW tokens, tokens \in Nat, NEW w, w \in 0..Full
    PROVE  /\ Benefit(tokens, w) \in Nat /\ Benefit(tokens, w) <= tokens
           /\ w = 0 => Benefit(tokens, w) = 0
<1>1. Full \in Nat \ {0} /\ w \in Nat /\ w <= Full
  BY AccountsAssumption
<1>2. PICK p \in Nat : p = tokens * w
  BY <1>1
<1>3. Benefit(tokens, w) = p \div Full
  BY <1>2 DEF Benefit
<1>4. p <= Full * tokens
  <2>1. PICK k \in Nat : Full = w + k
    <3>1. Full - w \in Nat /\ Full = w + (Full - w)
      BY <1>1
    <3> QED
      BY <3>1
  <2>2. Full * tokens = tokens * w + k * tokens /\ k * tokens \in Nat
    BY <1>1, <2>1
  <2> QED
    BY <1>2, <2>2
<1>5. p \div Full \in Nat /\ p \div Full <= tokens
  BY <1>1, <1>2, <1>4, Quotient, QuotientAtMost
<1>6. w = 0 => p \div Full = 0
  <2>1. ASSUME w = 0 PROVE p \div Full <= 0
    <3>1. p = 0 /\ Full * 0 = 0
      BY <1>1, <1>2, <2>1
    <3> QED
      BY <1>1, <3>1, QuotientAtMost
  <2> QED
    BY <1>5, <2>1
<1> QED
  BY <1>3, <1>5, <1>6

(* The beneficiary is paid at most what there is; if that is more than is  *)
(* left, the receiver gets nothing and the difference comes from nowhere.  *)
LEMMA PayAwardRewards ==
    ASSUME NEW l, Formed(l), NEW tokens, tokens \in Nat, NEW b \in Names, NEW w, w \in 0..Full,
           w # 0 => l.acc[b].exists, NEW c \in Names, l.acc[c].exists, NEW left, left \in Nat,
           NEW m, m = PayAward(l, tokens, b, w, c, left)
    PROVE  \E d \in Nat : /\ Rewards(l, m, 0, d) /\ d >= left
                          /\ Benefit(tokens, w) <= left => d = left
<1>1. PICK k : k = Benefit(tokens, w)
  OBVIOUS
<1>2. k \in Nat /\ k <= tokens /\ (w = 0 => k = 0)
  BY <1>1, BenefitNat
<1>3. PICK p : p = IF w = 0 THEN l ELSE CreateVesting(l, b, k)
  OBVIOUS
<1>4. Rewards(l, p, 0, k) /\ Formed(p)
  <2>1. CASE w = 0
    <3>1. p = l /\ k = 0
      BY <1>2, <1>3, <2>1
    <3> QED
      BY <3>1, PaysNothing, PaysRewards
  <2>2. CASE w # 0
    <3>1. p = CreateVesting(l, b, k)
      BY <1>3, <2>2
    <3>2. Pays(l, p, k)
      BY <1>2, <2>2, <3>1, CreateVestingPays
    <3> QED
      BY <3>2, PaysRewards DEF Pays, Books
  <2> QED
    BY <2>1, <2>2
<1>5. PICK rest : rest = left - k
  OBVIOUS
<1>6. m = IF rest > 0 THEN CreateVesting(p, c, rest) ELSE p
  BY <1>1, <1>3, <1>5 DEF PayAward
<1>7. CASE rest > 0
  <2>1. rest \in Nat /\ p.acc[c].exists
    BY <1>2, <1>4, <1>5, <1>7 DEF Rewards, Moves, Shifts, Grows
  <2>2. m = CreateVesting(p, c, rest)
    BY <1>6, <1>7
  <2>3. Pays(p, m, rest)
    BY <1>4, <2>1, <2>2, CreateVestingPays
  <2>4. Rewards(p, m, 0, rest)
    BY <1>4, <2>3, PaysRewards
  <2>5. Rewards(l, m, 0 + 0, k + rest)
    BY <1>2, <1>4, <2>1, <2>4, RewardsTransitive
  <2>6. 0 + 0 = 0 /\ k + rest = left /\ left >= left
    BY <1>2, <1>5
  <2> QED
    BY <2>5, <2>6
<1>8. CASE ~(rest > 0)
  <2>1. m = p
    BY <1>6, <1>8
  <2>2. k >= left /\ (k <= left => k = left)
    BY <1>2, <1>5, <1>8
  <2> QED
    BY <1>1, <1>2, <1>4, <2>1, <2>2
<1> QED
  BY <1>7, <1>8

(* The ledger after a step.                                                *)
LEMMA BecomesNext ==
    ASSUME NEW l \in Ledgers, Becomes(l)
    PROVE  Current' = l
BY DEF Becomes, Ledgers, Current

LEMMA RsharesInt ==
    ASSUME Current \in Ledgers, NEW a \in Names, NEW e, e \in Int
    PROVE  Rshares(a, e) \in Int
<1>1. EffectiveShares(Current, a) \in Int
  BY AccountTypes DEF EffectiveShares
<1>2. PICK s \in Int : s = EffectiveShares(Current, a)
  BY <1>1
<1>3. Full \in Nat \ {0}
  BY AccountsAssumption
<1>4. s * e \in Int
  OBVIOUS
<1> QED
  BY <1>2, <1>3, <1>4 DEF Rshares

(* What an award, of either kind, adds to the shares of the fund.          *)
Claims(r) == (r = 0 /\ UNCHANGED awardShares) \/ (r > 0 /\ Claimed(r))

Tired(l, a, r, e) == Spend(ClaimReward(l, r), a, e)

LEMMA TiredRewards ==
    ASSUME NEW l, Formed(l), l = Current, now \in Nat, NEW a \in Names, l.acc[a].exists,
           NEW r, r \in Nat, r > 0, NEW e, e \in Int, NEW m, m = Tired(l, a, r, e)
    PROVE  /\ Rewards(l, m, r, 0 - Payout(r)) /\ Formed(m) /\ Payout(r) \in Nat
           /\ \A b \in Names : l.acc[b].exists => m.acc[b].exists
<1>1. PICK p, k : p = ClaimReward(l, r) /\ k = Payout(r)
  OBVIOUS
<1>2. Rewards(l, p, r, 0 - k) /\ p.acc = l.acc /\ k \in Nat
  BY <1>1, ClaimRewards, PayoutNat
<1>3. Formed(p) /\ p.acc[a].exists
  BY <1>2 DEF Rewards, Moves, Shifts
<1>4. m = Spend(p, a, e)
  BY <1>1 DEF Tired
<1>5. Rewards(p, m, 0, 0)
  BY <1>3, <1>4, SpendPays
<1>6. PICK d \in Int : d = 0 - k
  BY <1>2
<1>7. Rewards(l, m, r + 0, d + 0)
  BY <1>2, <1>5, <1>6, RewardsTransitive
<1>8. r + 0 = r /\ d + 0 = d
  OBVIOUS
<1>9. Rewards(l, m, r, 0 - k)
  BY <1>6, <1>7, <1>8
<1> QED
  BY <1>1, <1>2, <1>9 DEF Rewards, Moves, Shifts, Grows

LEMMA AwardStep ==
    ASSUME Formed(Current), now \in Nat, NEW a \in Names, NEW b \in Names, NEW c \in Names,
           NEW p, p \in Int, NEW w, w \in 0..Full, Award(a, b, p, c, w)
    PROVE  \E r \in Nat : Rewards(Current, Current', r, 0) /\ Claims(r)
<1>1. PICK l, r : l = Current /\ r = Rshares(a, p)
  OBVIOUS
<1>2. /\ Formed(l) /\ l \in Ledgers /\ l.acc = acc /\ r \in Int
      /\ l.acc[a].exists /\ l.acc[b].exists
  BY <1>1, RsharesInt DEF Formed, Current, Award
<1>3. CASE r < MinRshares
  <2>1. PICK m : m = Spend(l, a, p)
    OBVIOUS
  <2>2. Becomes(m) /\ UNCHANGED awardShares
    BY <1>1, <1>3, <2>1 DEF Award
  <2>3. Rewards(l, m, 0, 0)
    BY <1>1, <1>2, <2>1, SpendPays
  <2>4. Current' = m
    BY <2>2, <2>3, BecomesNext DEF Rewards, Moves, Shifts, Formed
  <2>5. Claims(0)
    BY <2>2 DEF Claims
  <2>6. Rewards(Current, Current', 0, 0)
    BY <1>1, <2>3, <2>4
  <2> QED
    BY <2>5, <2>6
<1>4. CASE ~(r < MinRshares)
  <2>1. PICK t, k : t = Tired(l, a, r, p) /\ k = Payout(r)
    OBVIOUS
  <2>2. /\ r > 0 /\ Claimed(r)
        /\ IF k = 0 THEN Becomes(t)
           ELSE /\ w # 0 => l.acc[c].exists
                /\ Becomes(PayAward(t, k, c, w, b, k))
    BY <1>1, <1>2, <1>4, <2>1 DEF Award, Tired
  <2>3. r \in Nat
    BY <1>2, <2>2
  <2>4. /\ Rewards(l, t, r, 0 - k) /\ Formed(t) /\ k \in Nat
        /\ \A n \in Names : l.acc[n].exists => t.acc[n].exists
    BY <1>1, <1>2, <2>1, <2>2, <2>3, TiredRewards
  <2>5. CASE k = 0
    <3>1. Current' = t /\ 0 - k = 0
      BY <2>2, <2>4, <2>5, BecomesNext DEF Formed
    <3> QED
      BY <1>1, <2>2, <2>3, <2>4, <3>1 DEF Claims
  <2>6. CASE k # 0
    <3>1. PICK m : m = PayAward(t, k, c, w, b, k)
      OBVIOUS
    <3>2. Becomes(m) /\ (w # 0 => t.acc[c].exists) /\ t.acc[b].exists
      BY <1>2, <2>2, <2>4, <2>6, <3>1
    <3>3. \E d \in Nat : Rewards(t, m, 0, d) /\ (Benefit(k, w) <= k => d = k)
      BY <2>4, <3>1, <3>2, PayAwardRewards
    <3>4. Rewards(t, m, 0, k)
      BY <2>4, <3>3, BenefitNat
    <3>5. PICK d \in Int : d = 0 - k
      BY <2>4
    <3>6. Rewards(l, m, r + 0, d + k)
      BY <1>2, <2>3, <2>4, <3>4, <3>5, RewardsTransitive
    <3>7. r + 0 = r /\ d + k = 0
      BY <1>2, <2>4, <3>5
    <3>8. Current' = m
      BY <3>2, <3>4, BecomesNext DEF Rewards, Moves, Shifts, Formed
    <3> QED
      BY <1>1, <2>2, <2>3, <3>6, <3>7, <3>8 DEF Claims
  <2> QED
    BY <2>5, <2>6
<1> QED
  BY <1>3, <1>4

(* A fixed award whose beneficiary's part, computed from the whole worth of *)
(* the shares, is more than the amount.                                     *)
Overshoots(a, amount, maxEnergy, weight) ==
    Benefit(Payout(Rshares(a, NeededEnergy(a, maxEnergy, amount))), weight) > amount

LEMMA NeededEnergyInt ==
    ASSUME Formed(Current), NEW a \in Names, NEW e, e \in Nat, NEW n, n \in Nat,
           FixedAwardAccepted(a, e, n)
    PROVE  NeededEnergy(a, e, n) \in Int
<1>1. PICK f, s, r : f = dgp.total_reward_fund /\ s = dgp.total_reward_shares /\ r = Rshares(a, e)
  OBVIOUS
<1>2. f \in Nat /\ s \in Nat
  BY <1>1, TotalTypes DEF Formed, Current
<1>3. r \in Int
  BY <1>1, RsharesInt DEF Formed
<1>4. r > 0 /\ f > n
  BY <1>1 DEF FixedAwardAccepted
<1>5. PICK q : q = (n * s) \div (f - n)
  OBVIOUS
<1>6. n * s \in Nat /\ f - n \in Nat \ {0}
  BY <1>2, <1>4
<1>7. q \in Nat
  BY <1>5, <1>6, Quotient
<1>8. q * e \in Nat
  BY <1>7
<1>9. r \in Nat \ {0}
  BY <1>3, <1>4
<1>10. PICK k \in Nat : k = (q * e) \div r
  BY <1>8, <1>9, Quotient
<1>11. Full \in Int
  BY AccountsAssumption
<1>12. NeededEnergy(a, e, n) = Min({k + 1, Full})
  BY <1>1, <1>5, <1>10 DEF NeededEnergy
<1>13. PICK i \in Int : i = k + 1
  OBVIOUS
<1>14. Min({i, Full}) \in Int
  BY <1>11, MinOfTwo
<1> QED
  BY <1>12, <1>13, <1>14

LEMMA FixedAwardStep ==
    ASSUME Formed(Current), now \in Nat, NEW a \in Names, NEW b \in Names, NEW c \in Names,
           NEW n, n \in Nat, NEW p, p \in Nat, NEW w, w \in 0..Full,
           FixedAward(a, b, n, p, c, w)
    PROVE  \E r, d \in Nat :
              /\ Rewards(Current, Current', r, d) /\ Claims(r)
              /\ ~Overshoots(a, n, p, w) => d = 0
<1>1. PICK l, e : l = Current /\ e = NeededEnergy(a, p, n)
  OBVIOUS
<1>2. PICK r : r = Rshares(a, e)
  OBVIOUS
<1>3. PICK t, k : t = Tired(l, a, r, e) /\ k = Payout(r)
  OBVIOUS
<1>4. PICK m, f : m = PayAward(t, k, c, w, b, n) /\ f = PayCommittee(m, k - n)
  OBVIOUS
<1>5. /\ l.acc[a].exists /\ l.acc[b].exists /\ FixedAwardAccepted(a, p, n)
      /\ r > 0 /\ k >= n /\ (w # 0 => l.acc[c].exists) /\ Claimed(r) /\ Becomes(f)
  BY <1>1, <1>2, <1>3, <1>4 DEF FixedAward, Tired, Current
<1>6. e \in Int
  BY <1>1, <1>5, NeededEnergyInt
<1>7. r \in Nat
  BY <1>2, <1>5, <1>6, RsharesInt DEF Formed
<1>8. /\ Rewards(l, t, r, 0 - k) /\ Formed(t) /\ k \in Nat
      /\ \A x \in Names : l.acc[x].exists => t.acc[x].exists
  BY <1>1, <1>3, <1>5, <1>6, <1>7, TiredRewards
<1>9. (w # 0 => t.acc[c].exists) /\ t.acc[b].exists
  BY <1>5, <1>8
<1>10. PICK d \in Nat : /\ Rewards(t, m, 0, d) /\ d >= n
                        /\ Benefit(k, w) <= n => d = n
  BY <1>4, <1>8, <1>9, PayAwardRewards
<1>11. PICK g \in Nat : g = k - n
  BY <1>5, <1>8
<1>12. Formed(m)
  BY <1>10 DEF Rewards, Moves, Shifts
<1>13. Rewards(m, f, 0, g)
  BY <1>4, <1>11, <1>12, PayCommitteePays, PaysRewards
<1>14. PICK i \in Int : i = 0 - k
  BY <1>8
<1>15. Rewards(l, m, r + 0, i + d)
  <2>1. Formed(l) /\ r \in Int /\ 0 \in Int /\ d \in Int /\ i \in Int
    BY <1>1, <1>7
  <2>2. Rewards(l, t, r, i)
    BY <1>8, <1>14
  <2> QED
    BY <1>10, <2>1, <2>2, RewardsTransitive
<1>16. PICK j \in Int : j = i + d
  OBVIOUS
<1>17. r + 0 = r /\ r \in Int
  BY <1>7
<1>18. Rewards(l, f, r + 0, j + g)
  BY <1>1, <1>13, <1>15, <1>16, <1>17, RewardsTransitive
<1>19. Current' = f
  BY <1>5, <1>13, BecomesNext DEF Rewards, Moves, Shifts, Formed
<1>20. Claims(r)
  BY <1>5 DEF Claims
<1>21. PICK h \in Nat : h = j + g
  BY <1>8, <1>10, <1>11, <1>14, <1>16
<1>22. ~Overshoots(a, n, p, w) => h = 0
  <2>1. Benefit(k, w) \in Nat
    BY <1>8, BenefitNat
  <2>2. ~Overshoots(a, n, p, w) => Benefit(k, w) <= n
    BY <1>1, <1>2, <1>3, <2>1 DEF Overshoots
  <2>3. d = n => h = 0
    BY <1>8, <1>11, <1>14, <1>16, <1>21
  <2> QED
    BY <1>10, <2>2, <2>3
<1>23. Rewards(Current, Current', r, h)
  BY <1>1, <1>17, <1>18, <1>19, <1>21
<1> QED
  BY <1>7, <1>20, <1>22, <1>23

----------------------------------------------------------------------------
(* The shares of past awards.                                              *)

AwardObject == [rshares : Nat, expires : Nat]
AwardObjects == Seq(AwardObject)

RsharesOf(s) == SumFunction([i \in DOMAIN s |-> s[i].rshares])

LEMMA RsharesAppended ==
    ASSUME NEW s \in AwardObjects, NEW x \in AwardObject
    PROVE  /\ Append(s, x) \in AwardObjects
           /\ RsharesOf(Append(s, x)) = RsharesOf(s) + x.rshares
<1>1. PICK n \in Nat : n = Len(s)
  BY DEF AwardObjects
<1>2. PICK t : t = Append(s, x)
  OBVIOUS
<1>3. /\ t \in AwardObjects /\ DOMAIN t = 1..(n + 1) /\ DOMAIN s = 1..n
      /\ \A i \in 1..n : t[i] = s[i] /\ s[i].rshares \in Nat
      /\ t[n + 1] = x /\ x.rshares \in Nat
  <2>1. t \in AwardObjects /\ Len(t) = n + 1 /\ t[n + 1] = x
        /\ \A i \in 1..n : t[i] = s[i]
    BY <1>1, <1>2 DEF AwardObjects
  <2>2. DOMAIN t = 1..Len(t) /\ DOMAIN s = 1..Len(s) /\ \A i \in 1..Len(s) : s[i] \in AwardObject
    BY <2>1 DEF AwardObjects
  <2>3. \A y \in AwardObject : y.rshares \in Nat
    BY DEF AwardObject
  <2> QED
    BY <1>1, <2>1, <2>2, <2>3
<1>4. PICK f : f = [i \in 1..(n + 1) |-> t[i].rshares]
  OBVIOUS
<1>5. PICK g : g = [i \in 1..n |-> s[i].rshares]
  OBVIOUS
<1>6. /\ f \in [1..(n + 1) -> Int] /\ g \in [1..n -> Int] /\ f[n + 1] = x.rshares
      /\ \A i \in 1..n : f[i] = g[i]
  <2>1. \A i \in 1..(n + 1) : i \in 1..n \/ i = n + 1
    OBVIOUS
  <2>2. \A i \in 1..(n + 1) : t[i].rshares \in Int
    BY <1>3, <2>1
  <2>3. \A i \in 1..n : i \in 1..(n + 1)
    OBVIOUS
  <2>4. n + 1 \in 1..(n + 1)
    OBVIOUS
  <2> QED
    BY <1>3, <1>4, <1>5, <2>2, <2>3, <2>4
<1>7. IsFiniteSet(1..(n + 1)) /\ IsFiniteSet(1..n) /\ n + 1 \in 1..(n + 1)
  <2>1. 1 \in Int /\ n \in Int /\ n + 1 \in Int
    OBVIOUS
  <2>2. IsFiniteSet(1..(n + 1))
    BY <2>1, FS_Interval
  <2>3. IsFiniteSet(1..n)
    BY <2>1, FS_Interval
  <2> QED
    BY <2>2, <2>3
<1>8. (1..(n + 1)) \ {n + 1} = 1..n
  OBVIOUS
<1>9. SumFunctionOnSet(f, 1..(n + 1)) = f[n + 1] + SumFunctionOnSet(f, 1..n)
  BY <1>6, <1>7, <1>8, SumRemove
<1>10. SumFunctionOnSet(f, 1..n) = SumFunctionOnSet(g, 1..n)
  <2>1. \A i \in 1..n : f[i] \in Int /\ f[i] = g[i]
    BY <1>6
  <2> QED
    BY <2>1, <1>7, SumSame
<1>11. SumFunction(f) = SumFunctionOnSet(f, 1..(n + 1)) /\ SumFunction(g) = SumFunctionOnSet(g, 1..n)
  BY <1>6 DEF SumFunction
<1>12. SumFunction(g) \in Int
  BY <1>6, <1>7, SumOfInts
<1>13. RsharesOf(t) = SumFunction(f) /\ RsharesOf(s) = SumFunction(g)
  BY <1>3, <1>4, <1>5 DEF RsharesOf
<1>14. SumFunction(f) = SumFunction(g) + x.rshares
  BY <1>3, <1>6, <1>9, <1>10, <1>11, <1>12
<1> QED
  BY <1>2, <1>3, <1>13, <1>14

LEMMA RsharesNat ==
    ASSUME NEW s \in AwardObjects
    PROVE  RsharesOf(s) \in Nat
<1>1. PICK n \in Nat : n = Len(s)
  BY DEF AwardObjects
<1>2. [i \in DOMAIN s |-> s[i].rshares] \in [1..n -> Nat]
  <2>1. DOMAIN s = 1..n /\ \A i \in 1..n : s[i] \in AwardObject
    BY <1>1 DEF AwardObjects
  <2>2. \A y \in AwardObject : y.rshares \in Nat
    BY DEF AwardObject
  <2> QED
    BY <2>1, <2>2
<1>3. IsFiniteSet(1..n)
  BY FS_Interval
<1> QED
  BY <1>2, <1>3, SumOfNats DEF RsharesOf

(* The shares at the front of the sequence and those behind them.          *)
LEMMA RsharesSplit ==
    ASSUME NEW s \in AwardObjects, NEW n \in 0..Len(s)
    PROVE  /\ SubSeq(s, n + 1, Len(s)) \in AwardObjects
           /\ SumFunction([i \in 1..n |-> s[i].rshares]) \in Nat
           /\ RsharesOf(s) = SumFunction([i \in 1..n |-> s[i].rshares])
                                + RsharesOf(SubSeq(s, n + 1, Len(s)))
<1>1. PICK k \in Nat : k = Len(s)
  BY DEF AwardObjects
<1>2. PICK t : t = SubSeq(s, n + 1, Len(s))
  OBVIOUS
<1>3. n \in Nat /\ n <= k
  BY <1>1
<1>4. PICK m \in Nat : m = k - n
  BY <1>3
<1>5. /\ t \in AwardObjects /\ DOMAIN s = 1..k /\ \A i \in 1..k : s[i] \in AwardObject
      /\ DOMAIN t = 1..m /\ \A i \in 1..m : t[i] = s[n + i]
  <2>1. t \in AwardObjects
    BY <1>2 DEF AwardObjects
  <2>2. Len(t) = m
    BY <1>1, <1>2, <1>3, <1>4 DEF AwardObjects
  <2>3. \A i \in 1..m : t[i] = s[n + i]
    BY <1>1, <1>2, <1>3, <1>4 DEF AwardObjects
  <2> QED
    BY <1>1, <2>1, <2>2, <2>3 DEF AwardObjects
<1>6. \A y \in AwardObject : y.rshares \in Nat
  BY DEF AwardObject
<1>7. PICK f : f = [i \in 1..k |-> s[i].rshares]
  OBVIOUS
<1>8. PICK h : h = [i \in 1..n |-> s[i].rshares]
  OBVIOUS
<1>9. PICK g : g = [i \in 1..m |-> t[i].rshares]
  OBVIOUS
<1>10. PICK p : p = [i \in 1..m |-> n + i]
  OBVIOUS
<1>11. /\ \A i \in 1..n : i \in 1..k
       /\ \A i \in 1..m : n + i \in 1..k
  BY <1>3, <1>4
<1>12. f \in [1..k -> Int] /\ h \in [1..n -> Nat] /\ g \in [1..m -> Int]
  <2>1. \A i \in 1..k : s[i].rshares \in Nat
    BY <1>5, <1>6
  <2>2. \A i \in 1..m : t[i].rshares \in Nat
    BY <1>5, <1>11, <2>1
  <2>3. f \in [1..k -> Int]
    BY <1>7, <2>1
  <2>4. h \in [1..n -> Nat]
    BY <1>8, <1>11, <2>1
  <2>5. g \in [1..m -> Int]
    BY <1>9, <2>2
  <2> QED
    BY <2>3, <2>4, <2>5
<1>13. /\ p \in [1..m -> 1..k]
       /\ \A i \in 1..m : g[i] = f[p[i]]
  BY <1>5, <1>7, <1>9, <1>10, <1>11
<1>14. \A i, j \in 1..m : p[i] = p[j] => i = j
  BY <1>3, <1>10
<1>15. IsFiniteSet(1..k) /\ IsFiniteSet(1..m) /\ IsFiniteSet(1..n)
  <2>1. 1 \in Int /\ k \in Int /\ m \in Int /\ n \in Int
    BY <1>3
  <2>2. IsFiniteSet(1..k)
    BY <2>1, FS_Interval
  <2>3. IsFiniteSet(1..m)
    BY <2>1, FS_Interval
  <2>4. IsFiniteSet(1..n)
    BY <2>1, FS_Interval
  <2> QED
    BY <2>2, <2>3, <2>4
<1>16. PICK P : P = {p[i] : i \in 1..m}
  OBVIOUS
<1>17. SumFunction(g) = SumFunctionOnSet(f, P)
  <2>1. PICK S, T : S = 1..k /\ T = 1..m
    OBVIOUS
  <2>2. /\ IsFiniteSet(S) /\ IsFiniteSet(T) /\ f \in [S -> Int] /\ g \in [T -> Int]
        /\ p \in [T -> S] /\ \A i, j \in T : p[i] = p[j] => i = j
        /\ \A i \in T : g[i] = f[p[i]]
    BY <1>12, <1>13, <1>14, <1>15, <2>1
  <2>3. SumFunction(g) = SumFunctionOnSet(f, {p[i] : i \in T})
    BY <2>2, SumRenamed
  <2> QED
    BY <1>16, <2>1, <2>3
<1>18. (1..k) \ (1..n) = P
  <2>1. \A i \in (1..k) \ (1..n) : i - n \in 1..m /\ n + (i - n) = i
    BY <1>3, <1>4
  <2>2. \A i \in (1..k) \ (1..n) : p[i - n] = i
    BY <1>10, <2>1
  <2>3. (1..k) \ (1..n) \subseteq P
    BY <1>16, <2>1, <2>2
  <2>4. \A i \in 1..m : n + i \notin 1..n
    BY <1>3
  <2>5. P \subseteq (1..k) \ (1..n)
    BY <1>10, <1>11, <1>16, <2>4
  <2> QED
    BY <2>3, <2>5
<1>19. SumFunctionOnSet(f, 1..k) = SumFunctionOnSet(f, 1..n) + SumFunctionOnSet(f, P)
  <2>1. 1..n \in SUBSET (1..k)
    BY <1>11
  <2>2. \A i \in 1..k : f[i] \in Int
    BY <1>12
  <2> QED
    BY <1>15, <1>18, <2>1, <2>2, SumSplit
<1>20. SumFunctionOnSet(f, 1..n) = SumFunctionOnSet(h, 1..n)
  <2>1. \A i \in 1..n : f[i] \in Int /\ f[i] = h[i]
    BY <1>7, <1>8, <1>11, <1>12
  <2> QED
    BY <1>15, <2>1, SumSame
<1>21. SumFunction(f) = SumFunctionOnSet(f, 1..k) /\ SumFunction(h) = SumFunctionOnSet(h, 1..n)
  BY <1>12 DEF SumFunction
<1>22. SumFunction(h) \in Nat
  BY <1>12, <1>15, SumOfNats
<1>23. RsharesOf(s) = SumFunction(f) /\ RsharesOf(t) = SumFunction(g)
  BY <1>5, <1>7, <1>9 DEF RsharesOf
<1> QED
  BY <1>2, <1>5, <1>8, <1>17, <1>19, <1>20, <1>21, <1>22, <1>23

(* The shares that compete for the reward fund are those of the objects.   *)
AwardsInv == awardShares \in AwardObjects /\ RewardSharesAddUp

LEMMA ExpireAwardSharesStep ==
    ASSUME Formed(Current), AwardsInv, ExpireAwardShares
    PROVE  /\ \E r \in Int : Rewards(Current, Current', r, 0)
           /\ AwardsInv'
<1>1. PICK n \in DueAwardShares :
         /\ awardShares' = SubSeq(awardShares, n + 1, Len(awardShares))
         /\ Becomes([Current EXCEPT !.dgp.total_reward_shares =
                @ - SumFunction([i \in 1..n |-> awardShares[i].rshares])])
  BY DEF ExpireAwardShares
<1>2. PICK l, f, k : l = Current /\ f = l.dgp.total_reward_fund
                     /\ k = SumFunction([i \in 1..n |-> awardShares[i].rshares])
  OBVIOUS
<1>3. n \in 0..Len(awardShares)
  BY DEF DueAwardShares
<1>4. /\ awardShares' \in AwardObjects /\ k \in Nat
      /\ RsharesOf(awardShares) = k + RsharesOf(awardShares')
  BY <1>1, <1>2, <1>3, RsharesSplit DEF AwardsInv
<1>5. RsharesOf(awardShares') \in Nat
  BY <1>4, RsharesNat
<1>6. dgp.total_reward_shares = RsharesOf(awardShares)
  BY DEF AwardsInv, RewardSharesAddUp, RsharesOf
<1>7. l \in Ledgers /\ l.dgp = dgp /\ l.dgp \in Totals /\ f \in Nat /\ Formed(l)
  BY <1>2, TotalTypes DEF Formed, Current
<1>8. PICK s \in Nat : s = l.dgp.total_reward_shares - k
  BY <1>4, <1>5, <1>6, <1>7
<1>9. PICK u, m : u = WithReward(l.dgp, f, s) /\ m = SetTotals(l, u)
  OBVIOUS
<1>10. [l EXCEPT !.dgp.total_reward_shares = @ - k] = m
  <2>1. [l.dgp EXCEPT !.total_reward_shares = l.dgp.total_reward_shares - k] = u
    BY <1>2, <1>7, <1>8, <1>9 DEF WithReward, Totals
  <2>2. [l EXCEPT !.dgp = u] = m
    BY <1>9 DEF SetTotals
  <2>3. [l EXCEPT !.dgp.total_reward_shares = @ - k]
          = [l EXCEPT !.dgp = [l.dgp EXCEPT !.total_reward_shares = l.dgp.total_reward_shares - k]]
    BY <1>7 DEF Ledgers
  <2> QED
    BY <2>1, <2>2, <2>3
<1>11. Rewards(l, m, s - l.dgp.total_reward_shares, f - l.dgp.total_reward_fund)
  BY <1>7, <1>8, <1>9, RewardRewards
<1>12. s - l.dgp.total_reward_shares \in Int /\ f - l.dgp.total_reward_fund = 0
  BY <1>2, <1>7, <1>8, TotalTypes
<1>13. Becomes(m)
  BY <1>1, <1>2, <1>10
<1>14. Current' = m
  BY <1>11, <1>13, BecomesNext DEF Rewards, Moves, Shifts, Formed
<1>15. \E r \in Int : Rewards(Current, Current', r, 0)
  BY <1>2, <1>11, <1>12, <1>14
<1>16. dgp'.total_reward_shares = s
  <2>0. l.dgp \in Totals /\ f \in Nat /\ u = WithReward(l.dgp, f, s)
    BY <1>7, <1>9
  <2>1. u.total_reward_shares = s /\ u \in Totals
    BY <2>0, RewardReplaced DEF SameStake
  <2>2. m.dgp = u
    BY <1>7, <1>9, <2>1, OneTotals
  <2> QED
    BY <1>13, <2>1, <2>2 DEF Becomes
<1>17. s = RsharesOf(awardShares')
  BY <1>4, <1>5, <1>6, <1>7, <1>8
<1>18. RewardSharesAddUp'
  BY <1>16, <1>17 DEF RewardSharesAddUp, RsharesOf
<1> QED
  BY <1>4, <1>15, <1>18 DEF AwardsInv

----------------------------------------------------------------------------
(* Emission.                                                               *)

LEMMA SameAccountsRewards ==
    ASSUME NEW l, Formed(l), NEW m, NEW d, Moves(l, m, d), m.acc = l.acc,
           m.ballots = l.ballots,
           m.dgp.total_reward_shares = l.dgp.total_reward_shares
    PROVE  Rewards(l, m, 0, d)
<1>1. Keeps(l, m, SteadyFields)
  BY DEF Keeps
<1>2. Saves(l, m)
  BY SavesSame DEF Formed
<1>3. \A a \in Names : l.acc[a].vesting_shares \in Nat
  BY AccountTypes DEF Formed
<1>4. l.dgp.total_reward_shares \in Int
  BY TotalTypes DEF Formed
<1> QED
  BY <1>1, <1>2, <1>3, <1>4 DEF Rewards

WithEmission(t, c, r, s) ==
    [t EXCEPT !.committee_fund = c, !.total_reward_fund = r, !.current_supply = s]

Emits(t, u, c, r, s) ==
    /\ SameStake(t, u) /\ u.current_supply = s
    /\ u.total_reward_fund = r /\ u.committee_fund = c
    /\ u.total_reward_shares = t.total_reward_shares

LEMMA EmissionReplaced ==
    ASSUME NEW t \in Totals, NEW c, c \in Nat, NEW r, r \in Nat, NEW s, s \in Int,
           NEW u, u = WithEmission(t, c, r, s)
    PROVE  Emits(t, u, c, r, s)
BY DEF WithEmission, Totals, SameStake, Emits

LEMMA EmissionParts ==
    /\ ValidatorReward \in Nat /\ CommitteePart \in Nat
    /\ IssuedPerBlock - ValidatorReward - CommitteePart \in Nat
    /\ \A rate \in 0..Full : /\ (ValidatorReward * rate) \div Full \in Nat
                             /\ (ValidatorReward * rate) \div Full <= ValidatorReward
<1>1. /\ IssuedPerBlock \in Nat /\ ValidatorPercent \in 0..Full
      /\ CommitteeRatio \in 0..Full /\ Full \in Nat \ {0}
  BY AwardsAssumption, AccountsAssumption
<1>2. \A p \in Nat, w \in 0..Full : (p * w) \div Full \in Nat /\ (p * w) \div Full <= p
  <2>1. SUFFICES ASSUME NEW p \in Nat, NEW w \in 0..Full
                 PROVE  (p * w) \div Full \in Nat /\ (p * w) \div Full <= p
    OBVIOUS
  <2>2. w \in Nat /\ w <= Full
    BY <1>1
  <2>3. p * w \in Nat /\ p * w <= Full * p
    BY <1>1, <2>2, SMTT(30)
  <2> QED
    BY <1>1, <2>3, Quotient, QuotientAtMost
<1>3. ValidatorReward \in Nat /\ ValidatorReward <= IssuedPerBlock
  BY <1>1, <1>2 DEF ValidatorReward
<1>4. PICK k \in Nat : k = IssuedPerBlock - ValidatorReward
  BY <1>1, <1>3
<1>5. CommitteePart \in Nat /\ CommitteePart <= k
  BY <1>1, <1>2, <1>4 DEF CommitteePart
<1>6. IssuedPerBlock - ValidatorReward - CommitteePart \in Nat
  BY <1>1, <1>3, <1>4, <1>5
<1> QED
  BY <1>2, <1>3, <1>5, <1>6

LEMMA ProcessFundsStep ==
    ASSUME Formed(Current), NEW v \in Validators, ProcessFunds(v)
    PROVE  Rewards(Current, Current', 0, 0)
<1>1. PICK l : l = Current
  OBVIOUS
<1>2. /\ Formed(l) /\ l \in Ledgers /\ l.val = val /\ l.dgp = dgp /\ l.dgp \in Totals
      /\ l.val[v] \in ValidatorObject
  BY <1>1, TotalTypes DEF Formed, Current, Ledgers
<1>3. PICK i, r, c : i = IssuedPerBlock /\ r = ValidatorReward /\ c = CommitteePart
  OBVIOUS
<1>4. PICK s : s = (r * val[v].sharing_rate) \div Full
  OBVIOUS
<1>5. i \in Nat /\ r \in Nat /\ c \in Nat /\ i - r - c \in Nat /\ s \in Nat /\ s <= r
  <2>1. val[v].sharing_rate \in 0..Full
    BY <1>2 DEF ValidatorObject
  <2> QED
    BY <1>3, <1>4, <2>1, EmissionParts, AwardsAssumption
<1>6. PICK t : t = l.dgp
  OBVIOUS
<1>7. /\ t \in Totals /\ t.committee_fund \in Nat /\ t.total_reward_fund \in Nat
      /\ t.current_supply \in Int
  BY <1>2, <1>6 DEF Totals
<1>8. PICK cf, rf, cs : /\ cf = t.committee_fund + c
                        /\ rf = t.total_reward_fund + (i - r - c)
                        /\ cs = t.current_supply + i
  OBVIOUS
<1>9. cf \in Nat /\ rf \in Nat /\ cs \in Int
  BY <1>5, <1>7, <1>8
<1>10. PICK u, m : u = WithEmission(t, cf, rf, cs) /\ m = SetTotals(l, u)
  OBVIOUS
<1>11. /\ SameStake(t, u) /\ u.current_supply = cs
       /\ u.total_reward_fund = rf /\ u.committee_fund = cf
       /\ u.total_reward_shares = t.total_reward_shares
  <2>1. t \in Totals /\ u = WithEmission(t, cf, rf, cs)
    BY <1>7, <1>10
  <2>2. Emits(t, u, cf, rf, cs)
    BY <1>9, <2>1, EmissionReplaced
  <2> QED
    BY <2>2 DEF Emits
<1>12. /\ Moves(l, m, Purse(u) - Purse(t))
       /\ m.acc = l.acc /\ m.dgp = u /\ m.val = l.val /\ m.ballots = l.ballots
  BY <1>2, <1>6, <1>10, <1>11, TotalsMoves
<1>13. Purse(u) - Purse(t) = 0 - r
  BY <1>5, <1>7, <1>8, <1>11 DEF Purse
<1>14. PICK p, q : p = l.val[v].pending_stakeholder_reward /\ q = p + s
  OBVIOUS
<1>15. p \in Nat /\ q \in Nat
  BY <1>2, <1>5, <1>14 DEF ValidatorObject
<1>16. PICK n : n = SetPending(m, v, q)
  OBVIOUS
<1>17. /\ Moves(m, n, q - p) /\ n.acc = m.acc /\ n.dgp = m.dgp /\ n.ballots = m.ballots
  BY <1>12, <1>14, <1>15, <1>16, PendingMoves DEF Moves, Shifts
<1>18. n = [l EXCEPT !.dgp.committee_fund = @ + c,
                     !.dgp.total_reward_fund = @ + (i - r - c),
                     !.dgp.current_supply = @ + i,
                     !.val[v].pending_stakeholder_reward = @ + s]
  <2>1. [l EXCEPT !.dgp.committee_fund = @ + c,
                  !.dgp.total_reward_fund = @ + (i - r - c),
                  !.dgp.current_supply = @ + i] = m
    BY <1>2, <1>6, <1>7, <1>8, <1>10 DEF SetTotals, WithEmission, Ledgers, Totals
  <2>2. n = [m EXCEPT !.val[v].pending_stakeholder_reward = @ + s]
    BY <1>2, <1>12, <1>14, <1>16 DEF SetPending, Ledgers, ValidatorObject, Moves, Shifts, Formed
  <2> QED
    BY <2>1, <2>2
<1>19. PICK d \in Int : d = 0 - r
  BY <1>5
<1>20. PICK e \in Int : e = q - p
  BY <1>15
<1>21. Moves(l, n, d + e)
  BY <1>2, <1>12, <1>13, <1>17, <1>19, <1>20, MovesTransitive
<1>22. PICK f \in Int : f = d + e
  OBVIOUS
<1>23. Rewards(l, n, 0, f)
  BY <1>2, <1>6, <1>11, <1>12, <1>17, <1>21, <1>22, SameAccountsRewards
<1>24. f = s - r
  <2>1. q - p = s
    BY <1>5, <1>14, <1>15
  <2> QED
    BY <1>5, <1>19, <1>20, <1>22, <2>1
<1>25. PICK x \in Nat : x = r - s
  BY <1>5
<1>26. PICK w : w = CreateVesting(n, v, x)
  OBVIOUS
<1>27. Becomes(IF x > 0 THEN w ELSE n)
  BY <1>1, <1>3, <1>4, <1>18, <1>25, <1>26 DEF ProcessFunds
<1>28. CASE x > 0
  <2>1. Formed(n) /\ n.acc[v].exists /\ v \in Names
    BY <1>23, AccountsAssumption DEF Rewards, Moves, Shifts, Formed, Staffed
  <2>2. Rewards(n, w, 0, x)
    BY <1>26, <2>1, CreateVestingPays, PaysRewards
  <2>3. 0 \in Int /\ x \in Int
    OBVIOUS
  <2>4. Rewards(l, w, 0 + 0, f + x)
    BY <1>2, <1>23, <2>2, <2>3, RewardsTransitive
  <2>5. 0 + 0 = 0 /\ f + x = 0
    BY <1>5, <1>24, <1>25
  <2>6. Current' = w
    BY <1>27, <1>28, <2>2, BecomesNext DEF Rewards, Moves, Shifts, Formed
  <2> QED
    BY <1>1, <2>4, <2>5, <2>6
<1>29. CASE ~(x > 0)
  <2>1. f = 0
    BY <1>5, <1>24, <1>25, <1>29
  <2>2. Current' = n
    BY <1>27, <1>29, <1>23, BecomesNext DEF Rewards, Moves, Shifts, Formed
  <2> QED
    BY <1>1, <1>23, <2>1, <2>2
<1> QED
  BY <1>28, <1>29

(* The fold of a distribution.                                             *)
Sharing(v, base, S) ==
    FoldSet(LAMBDA b, l : CreateVesting(l, b.account, StakeholderPart(v, b)), base, S)

IsSharing(g, v, base, S) ==
    g = [s \in SUBSET S |-> IF s = {} THEN base
                            ELSE LET x == CHOOSE x \in s : TRUE
                                 IN  CreateVesting(g[s \ {x}], x.account, StakeholderPart(v, x))]

LEMMA SharingDef ==
    ASSUME NEW v, NEW base, NEW S
    PROVE  Sharing(v, base, S) = (CHOOSE g : IsSharing(g, v, base, S))[S]
BY DEF Sharing, FoldSet, MapThenFoldSet, IsSharing

LEMMA SharingReaches ==
    ASSUME NEW v, NEW base, NEW S, IsFiniteSet(S),
           NEW R, R \subseteq (SUBSET S) \X Ledgers, <<{}, base>> \in R,
           \A s \in SUBSET S : \A x \in S \ s : \A l \in Ledgers :
               <<s, l>> \in R => <<s \cup {x}, CreateVesting(l, x.account, StakeholderPart(v, x))>> \in R
    PROVE  <<S, Sharing(v, base, S)>> \in R
<1>1. PICK f : f = [p \in S \X Ledgers |-> CreateVesting(p[2], p[1].account, StakeholderPart(v, p[1]))]
  OBVIOUS
<1>2. \A x \in S, l \in Ledgers : f[x, l] = CreateVesting(l, x.account, StakeholderPart(v, x))
  BY <1>1
<1>3. Kept(R, f, S, Ledgers)
  BY <1>2 DEF Kept
<1>4. PICK g : IsFold(g, f, base, S)
  BY FoldExists
<1>5. Follows(g, f, base, S, Ledgers)
  BY <1>4, FoldFollows
<1>6. \A s \in SUBSET S : <<s, g[s]>> \in R
  BY <1>3, <1>5, FoldReaches
<1>7. \A s \in SUBSET S : g[s] \in Ledgers
  BY <1>6
<1>8. ASSUME NEW s \in SUBSET S, s # {}
      PROVE  f[CHOOSE x \in s : TRUE, g[s \ {CHOOSE x \in s : TRUE}]]
                = LET x == CHOOSE x \in s : TRUE
                  IN  CreateVesting(g[s \ {x}], x.account, StakeholderPart(v, x))
  <2>1. PICK y : y = CHOOSE x \in s : TRUE
    OBVIOUS
  <2>2. y \in s
    BY <1>8, <2>1
  <2>3. y \in S /\ s \ {y} \in SUBSET S
    BY <2>2
  <2>4. f[y, g[s \ {y}]] = CreateVesting(g[s \ {y}], y.account, StakeholderPart(v, y))
    BY <1>2, <1>7, <2>3
  <2> QED
    BY <2>1, <2>4
<1>9. IsSharing(g, v, base, S)
  BY <1>4, <1>8 DEF IsFold, IsSharing
<1>10. PICK h : h = CHOOSE e : IsSharing(e, v, base, S)
  OBVIOUS
<1>11. IsSharing(h, v, base, S)
  BY <1>9, <1>10
<1>12. h[{}] = base
  BY <1>11 DEF IsSharing
<1>13. ASSUME NEW s \in SUBSET S, s # {}
       PROVE  \E x \in s : h[s \ {x}] \in Ledgers => h[s] = f[x, h[s \ {x}]]
  <2>1. PICK y : y = CHOOSE x \in s : TRUE
    OBVIOUS
  <2>2. y \in s /\ y \in S
    BY <1>13, <2>1
  <2>3. h[s] = CreateVesting(h[s \ {y}], y.account, StakeholderPart(v, y))
    BY <1>11, <1>13, <2>1 DEF IsSharing
  <2> QED
    BY <1>2, <2>2, <2>3
<1>14. Follows(h, f, base, S, Ledgers)
  BY <1>12, <1>13 DEF Follows
<1>15. <<S, h[S]>> \in R
  BY <1>3, <1>14, FoldReaches
<1> QED
  BY <1>10, <1>15, SharingDef


LEMMA SharingPays ==
    ASSUME Formed(Current), NEW v, NEW S, S \subseteq ballots,
           NEW q, q = [b \in S |-> StakeholderPart(v, b)], q \in [S -> Nat]
    PROVE  /\ Pays(Current, Sharing(v, Current, S), SumFunction(q))
           /\ SamePending(Current, Sharing(v, Current, S))
<1>1. PICK l : l = Current
  OBVIOUS
<1>2. /\ Formed(l) /\ l \in Ledgers /\ IsFiniteSet(S)
      /\ \A b \in S : b.account \in Names /\ l.acc[b.account].exists
  <2>1. l.ballots = ballots /\ IsFiniteSet(ballots) /\ ballots \subseteq Ballot
        /\ \A b \in ballots : l.acc[b.account].exists
    BY <1>1 DEF Current, Formed, Cast, Ledgers
  <2>2. IsFiniteSet(S)
    BY <2>1, FS_Subset
  <2> QED
    BY <1>1, <2>1, <2>2 DEF Formed, Ballot
<1>3. PICK R : R = {p \in (SUBSET S) \X Ledgers :
                      /\ Pays(l, p[2], SumFunctionOnSet(q, p[1]))
                      /\ SamePending(l, p[2])}
  OBVIOUS
<1>4. \A s \in SUBSET S, m \in Ledgers :
         <<s, m>> \in R <=> Pays(l, m, SumFunctionOnSet(q, s)) /\ SamePending(l, m)
  BY <1>3
<1>5. R \subseteq (SUBSET S) \X Ledgers
  BY <1>3
<1>6. <<{}, l>> \in R
  <2>1. Pays(l, l, 0)
    BY <1>2, PaysNothing
  <2>2. SumFunctionOnSet(q, {}) = 0
    BY SumEmpty
  <2>3. SamePending(l, l)
    BY DEF SamePending
  <2> QED
    BY <1>2, <1>4, <2>1, <2>2, <2>3
<1>7. ASSUME NEW s \in SUBSET S, NEW x \in S \ s, NEW m \in Ledgers, <<s, m>> \in R
      PROVE  <<s \cup {x}, CreateVesting(m, x.account, StakeholderPart(v, x))>> \in R
  <2>1. PICK k, t, n : /\ k = SumFunctionOnSet(q, s) /\ t = q[x]
                       /\ n = CreateVesting(m, x.account, t)
    OBVIOUS
  <2>2. Pays(l, m, k) /\ SamePending(l, m) /\ t \in Nat /\ t = StakeholderPart(v, x)
    BY <1>4, <1>7, <2>1
  <2>3. IsFiniteSet(s) /\ \A y \in s : q[y] \in Int
    BY <1>2, FS_Subset
  <2>4. k \in Int
    BY <2>1, <2>3, SumInt
  <2>5. SumFunctionOnSet(q, s \cup {x}) = t + k
    <3>1. PICK u : u = s \cup {x}
      OBVIOUS
    <3>2. IsFiniteSet(u) /\ x \in u /\ u \ {x} = s /\ \A y \in u : q[y] \in Int
      BY <2>3, <3>1, FS_AddElement
    <3>3. SumFunctionOnSet(q, u) = q[x] + SumFunctionOnSet(q, s)
      BY <3>2, SumRemove
    <3> QED
      BY <2>1, <3>1, <3>3
  <2>6. Formed(m) /\ m.acc[x.account].exists /\ x.account \in Names
    BY <1>2, <2>2 DEF Pays, Books, Steady
  <2>7. Pays(m, n, t) /\ SamePending(m, n)
    BY <2>1, <2>2, <2>6, CreateVestingPays
  <2>8. t \in Int
    BY <2>2
  <2>9. Pays(l, n, k + t)
    BY <1>2, <2>2, <2>4, <2>7, <2>8, PaysTransitive
  <2>10. k + t = SumFunctionOnSet(q, s \cup {x})
    BY <2>4, <2>5, <2>8
  <2>11. SamePending(l, n)
    BY <2>2, <2>7 DEF SamePending
  <2>12. n \in Ledgers
    BY <2>7 DEF Pays, Books, Formed
  <2>13. s \cup {x} \in SUBSET S
    OBVIOUS
  <2>14. <<s \cup {x}, n>> \in R
    BY <1>4, <2>9, <2>10, <2>11, <2>12, <2>13
  <2> QED
    BY <2>1, <2>2, <2>14
<1>8. <<S, Sharing(v, l, S)>> \in R
  BY <1>2, <1>5, <1>6, <1>7, SharingReaches
<1>9. Pays(l, Sharing(v, l, S), SumFunctionOnSet(q, S)) /\ SamePending(l, Sharing(v, l, S))
  BY <1>3, <1>8
<1>10. SumFunctionOnSet(q, S) = SumFunction(q)
  BY DEF SumFunction
<1> QED
  BY <1>1, <1>9, <1>10

LEMMA FairWeightInt ==
    ASSUME NEW l \in Ledgers, NEW a \in Names
    PROVE  FairWeight(l, a) \in Int
<1>1. PICK c, s, p : /\ c = l.acc[a].validators_voted_for /\ s = l.acc[a].vesting_shares
                     /\ p = l.acc[a].proxied_vsf_votes
  OBVIOUS
<1>2. c \in Nat /\ s \in Nat /\ p \in [1..ProxyDepth -> Int]
  BY <1>1, AccountTypes DEF Stakes
<1>3. ProxyDepth \in Int /\ 1 \in Int
  BY AccountsAssumption
<1>4. IsFiniteSet(1..ProxyDepth)
  BY <1>3, FS_Interval
<1>5. PICK k \in Int : k = SumFunction(p)
  BY <1>2, <1>4, SumOfInts
<1>6. PICK i \in Int : i = s + k
  BY <1>2
<1>7. FairWeight(l, a) = IF c = 0 THEN 0 ELSE i \div c
  BY <1>1, <1>5, <1>6 DEF FairWeight, VotingStake
<1> QED
  BY <1>2, <1>7

(* Votes were cast in the past.                                            *)
BallotsPast == \A b \in ballots : b.block <= now

LEMMA WeightedNat ==
    ASSUME Formed(Current), now \in Nat, BallotsPast, NEW v, NEW b \in Voters(v)
    PROVE  Weighted(b) \in Nat \ {0}
<1>1. /\ b \in ballots /\ b.block \in Nat /\ b.block <= now /\ b.account \in Names
      /\ FairWeight(Current, b.account) > 0
  BY DEF Voters, BallotsPast, Formed, Current, Ledgers, Ballot
<1>2. FairWeight(Current, b.account) \in Int
  BY <1>1, FairWeightInt DEF Formed
<1>3. PICK w \in Nat \ {0} : w = FairWeight(Current, b.account)
  BY <1>1, <1>2
<1>4. PICK e \in Nat \ {0} : e = EpochLength
  BY AwardsAssumption
<1>5. PICK i \in Int : i = now - e + 1
  OBVIOUS
<1>6. PICK j \in Int : j = b.block
  BY <1>1
<1>7. Max({j, i}) = IF j >= i THEN j ELSE i
  BY MaxOfTwo
<1>8. PICK k : k = Max({j, i})
  OBVIOUS
<1>9. k \in Int /\ k <= now
  BY <1>1, <1>5, <1>6, <1>7, <1>8
<1>10. PICK n \in Nat \ {0} : n = now - k + 1
  BY <1>9
<1>11. w * n \in Nat \ {0}
  OBVIOUS
<1>12. Weighted(b) = w * n
  BY <1>3, <1>4, <1>5, <1>6, <1>8, <1>10 DEF Weighted
<1> QED
  BY <1>11, <1>12

(* The parts of the voters are at most what there is to share.             *)
LEMMA PartsOfVoters ==
    ASSUME Formed(Current), now \in Nat, BallotsPast, NEW v \in Validators,
           NEW S, S \subseteq Voters(v), NEW q, q = [b \in S |-> StakeholderPart(v, b)]
    PROVE  /\ q \in [S -> Nat] /\ S \subseteq ballots
           /\ SumFunction(q) \in Nat
           /\ SumFunction(q) <= val[v].pending_stakeholder_reward
<1>1. PICK V, p : V = Voters(v) /\ p = val[v].pending_stakeholder_reward
  OBVIOUS
<1>2. IsFiniteSet(ballots) /\ V \subseteq ballots /\ p \in Nat
  BY <1>1 DEF Voters, Formed, Cast, Current, Ledgers, ValidatorObject
<1>3. IsFiniteSet(V) /\ IsFiniteSet(S)
  BY <1>1, <1>2, FS_Subset
<1>4. PICK w : w = [b \in V |-> Weighted(b)]
  OBVIOUS
<1>5. w \in [V -> Nat \ {0}]
  BY <1>1, <1>4, WeightedNat
<1>6. w \in [V -> Nat]
  BY <1>5
<1>7. PICK W : W = SumFunction(w)
  OBVIOUS
<1>8. W \in Nat /\ \A b \in V : w[b] <= W
  BY <1>3, <1>6, <1>7, SumOfNats
<1>9. CASE S = {}
  <2>1. q \in [S -> Nat] /\ DOMAIN q = {}
    BY <1>9
  <2>2. SumFunction(q) = 0
    BY <2>1, SumOfNone
  <2> QED
    BY <1>1, <1>2, <2>1, <2>2
<1>10. CASE S # {}
  <2>1. W \in Nat \ {0}
    BY <1>1, <1>5, <1>8, <1>10
  <2>2. \A b \in S : q[b] = (p * w[b]) \div W
    BY <1>1, <1>4, <1>7 DEF StakeholderPart
  <2>3. PICK u : u = [b \in S |-> w[b]]
    OBVIOUS
  <2>4. u \in [S -> Nat] /\ \A b \in S : u[b] = w[b]
    BY <1>1, <1>6, <2>3
  <2>5. q \in [S -> Nat]
    <3>1. ASSUME NEW b \in S PROVE (p * w[b]) \div W \in Nat
      <4>1. p * w[b] \in Nat
        BY <1>1, <1>2, <1>6
      <4> QED
        BY <2>1, <4>1, Quotient
    <3> QED
      BY <2>2, <3>1
  <2>6. SumFunction(u) <= W
    <3>1. \A b \in V : w[b] \in Int
      BY <1>6
    <3>2. S \in SUBSET V
      BY <1>1
    <3>3. SumFunctionOnSet(w, V) = SumFunctionOnSet(w, S) + SumFunctionOnSet(w, V \ S)
      BY <1>3, <3>1, <3>2, SumSplit
    <3>4. PICK T : T = V \ S
      OBVIOUS
    <3>5. IsFiniteSet(T) /\ \A b \in T : w[b] \in Nat
      BY <1>3, <1>6, <3>4, FS_Subset
    <3>6. SumFunctionOnSet(w, T) \in Nat
      BY <3>5, SumNat
    <3>7. IsFiniteSet(S) /\ \A b \in S : w[b] \in Int /\ w[b] = u[b]
      BY <1>3, <2>4, <3>1, <3>2
    <3>8. SumFunctionOnSet(w, S) = SumFunctionOnSet(u, S)
      BY <3>7, SumSame
    <3>9. SumFunction(u) = SumFunctionOnSet(u, S) /\ W = SumFunctionOnSet(w, V)
      BY <1>6, <1>7, <2>4 DEF SumFunction
    <3>10. SumFunction(u) \in Nat
      BY <1>3, <2>4, SumOfNats
    <3> QED
      BY <3>3, <3>4, <3>6, <3>8, <3>9, <3>10
  <2>7. \A b \in S : q[b] = (p * u[b]) \div W
    BY <2>2, <2>4
  <2>8. SumFunction(q) <= p
    BY <1>2, <1>3, <2>1, <2>4, <2>5, <2>6, <2>7, PartsOfWhole
  <2>9. SumFunction(q) \in Nat
    BY <1>3, <2>5, SumOfNats
  <2> QED
    BY <1>1, <1>2, <2>5, <2>8, <2>9
<1> QED
  BY <1>9, <1>10

LEMMA DistributedRewards ==
    ASSUME Formed(Current), now \in Nat, BallotsPast, NEW v \in Validators
    PROVE  Rewards(Current, Distributed(v), 0, 0)
<1>1. PICK l, p : l = Current /\ p = val[v].pending_stakeholder_reward
  OBVIOUS
<1>2. Formed(l) /\ l.val = val /\ p \in Nat
  BY <1>1 DEF Formed, Current, Ledgers, ValidatorObject
<1>3. PICK S : S = {b \in Voters(v) : StakeholderPart(v, b) >= MinPayout}
  OBVIOUS
<1>4. S \subseteq Voters(v)
  BY <1>3
<1>5. PICK q : q = [b \in S |-> StakeholderPart(v, b)]
  OBVIOUS
<1>6. PICK k : k = SumFunction(q)
  OBVIOUS
<1>7. q \in [S -> Nat] /\ S \subseteq ballots /\ k \in Nat /\ k <= p
  BY <1>1, <1>4, <1>5, <1>6, PartsOfVoters
<1>8. PICK m : m = Sharing(v, l, S)
  OBVIOUS
<1>9. Pays(l, m, k) /\ SamePending(l, m)
  BY <1>1, <1>5, <1>6, <1>7, <1>8, SharingPays
<1>10. PICK d \in Nat : d = p - k
  BY <1>2, <1>7
<1>11. PICK n : n = IF d > 0 THEN CreateVesting(m, v, d) ELSE m
  OBVIOUS
<1>12. Pays(l, n, p) /\ SamePending(l, n)
  <2>1. CASE d > 0
    <3>1. Formed(m) /\ m.acc[v].exists /\ v \in Names
      BY <1>9, AccountsAssumption DEF Pays, Books, Formed, Staffed
    <3>2. Pays(m, n, d) /\ SamePending(m, n)
      BY <1>11, <2>1, <3>1, CreateVestingPays
    <3>3. k \in Int /\ d \in Int
      BY <1>7
    <3>4. Pays(l, n, k + d)
      BY <1>2, <1>9, <3>2, <3>3, PaysTransitive
    <3>5. k + d = p
      BY <1>2, <1>7, <1>10
    <3> QED
      BY <1>9, <3>2, <3>4, <3>5 DEF SamePending
  <2>2. CASE ~(d > 0)
    <3>1. k = p /\ n = m
      BY <1>2, <1>7, <1>10, <1>11, <2>2
    <3> QED
      BY <1>9, <3>1
  <2> QED
    BY <2>1, <2>2
<1>13. Rewards(l, n, 0, p)
  BY <1>2, <1>12, PaysRewards
<1>14. PICK r : r = SetPending(n, v, 0)
  OBVIOUS
<1>15. Formed(n) /\ n.val[v].pending_stakeholder_reward = p
  BY <1>1, <1>2, <1>12 DEF Pays, Books, SamePending
<1>16. Moves(n, r, 0 - p) /\ r.acc = n.acc /\ r.dgp = n.dgp /\ r.ballots = n.ballots
  BY <1>14, <1>15, PendingMoves
<1>17. Rewards(n, r, 0, 0 - p)
  BY <1>15, <1>16, SameAccountsRewards
<1>18. PICK e \in Int : e = 0 - p
  BY <1>2
<1>19. 0 \in Int /\ p \in Int
  BY <1>2
<1>20. Rewards(l, r, 0 + 0, p + e)
  BY <1>2, <1>13, <1>17, <1>18, <1>19, RewardsTransitive
<1>21. p + e = 0 /\ 0 + 0 = 0
  BY <1>18, <1>19
<1>22. Distributed(v) = r
  BY <1>1, <1>3, <1>5, <1>6, <1>8, <1>10, <1>11, <1>14 DEF Distributed, Sharing, SetPending
<1> QED
  BY <1>1, <1>20, <1>21, <1>22

LEMMA EpochDistributionStep ==
    ASSUME Formed(Current), now \in Nat, BallotsPast, EpochDistribution
    PROVE  Rewards(Current, Current', 0, 0)
<1>1. PICK v \in Validators : Becomes(Distributed(v))
  BY DEF EpochDistribution
<1>2. PICK m : m = Distributed(v)
  OBVIOUS
<1>3. Rewards(Current, m, 0, 0)
  BY <1>2, DistributedRewards
<1>4. Current' = m
  BY <1>1, <1>2, <1>3, BecomesNext DEF Rewards, Moves, Shifts, Formed
<1> QED
  BY <1>3, <1>4

=============================================================================
