------------------------------- MODULE Ledger -------------------------------
(***************************************************************************)
(* The operations of the chain and the end of a block, composed.  The      *)
(* operations of a block see the time of the block before it; then         *)
(* _apply_block advances the time and runs its housekeeping in a fixed     *)
(* order, one phase after the other, each object that is due in a step of  *)
(* its own.                                                                *)
(***************************************************************************)
EXTENDS Vesting, Voting, Awards, Escrow, Invites, AccountMarket, Committee,
        Subscriptions, Proposals

CONSTANTS
    Tokens,         \* amounts of tokens, and of shares, in operations
    Percents,       \* percentages other than zero
    Weights,        \* weights of the beneficiary of an award
    Fees,           \* fees of escrow agents
    Periods,        \* periods and durations in operations
    Levels,         \* levels of a paid subscription
    Opinions,       \* votes on a request to the committee fund
    Workers,        \* the users that such requests pay
    Actors,         \* the users that withdraw, sell, are recovered and
                    \* offer subscriptions
    Producers       \* the validators that produce the blocks

ASSUME LedgerAssumption ==
    /\ Producers \subseteq Validators /\ Actors \cup Workers \subseteq Users
    /\ Tokens \cup Periods \subseteq Nat \ {0}
    /\ Percents \subseteq 1..Full /\ Weights \subseteq 0..Full
    /\ Fees \cup Levels \subseteq Nat /\ Opinions \subseteq -Full..Full

VARIABLE phase      \* 0 while operations are applied, then the place in Phases

ledgerVars == <<accountVars, vestingVars, awardShares, escrows, invites,
                marketVars, committeeVars, subscriptionVars, proposalVars, now, phase>>

\* Everything but the objects of one family of operations; vesting operations and
\* invites also say what becomes of the recovery accounts.
OnlyVesting == UNCHANGED <<awardShares, escrows, invites, sale,
                           committeeVars, subscriptionVars, proposalVars, now>>
OnlyAwards == UNCHANGED <<vestingVars, escrows, invites, marketVars,
                          committeeVars, subscriptionVars, proposalVars, now>>
OnlyEscrows == UNCHANGED <<vestingVars, awardShares, invites, marketVars,
                           committeeVars, subscriptionVars, proposalVars, now>>
OnlyInvites == UNCHANGED <<vestingVars, awardShares, escrows, sale,
                           committeeVars, subscriptionVars, proposalVars, now>>
OnlyMarket == UNCHANGED <<vestingVars, awardShares, escrows, invites,
                          committeeVars, subscriptionVars, proposalVars, now>>
OnlyCommittee == UNCHANGED <<vestingVars, awardShares, escrows, invites,
                             marketVars, subscriptionVars, proposalVars, now>>
OnlySubscriptions == UNCHANGED <<vestingVars, awardShares, escrows, invites,
                                 marketVars, committeeVars, proposalVars, now>>

OnlyProposals == UNCHANGED <<vestingVars, awardShares, escrows, invites,
                             marketVars, committeeVars, subscriptionVars, now>>

----------------------------------------------------------------------------
\* The operations, with their inputs.

Fresh == {a \in Names : ~acc[a].exists}

VestingOperation ==
    /\ \E a \in Users, b \in Users \cup {Null, Anonymous, Treasury}, n \in Tokens :
          \/ Transfer(a, b, n)
          \/ TransferToVesting(a, b, n)
          \/ \E new \in Fresh : TransferAnonymous(a, new, n)
    /\ OnlyVesting /\ UNCHANGED recovery

StakeOperation ==
    /\ \/ \E a \in Actors, b \in Users, n \in Tokens \cup {0} :
             DelegateVestingShares(a, b, n) /\ UNCHANGED recovery
       \/ \E a \in Actors, n \in Tokens \cup {0}, new \in Fresh, s \in Tokens :
             AccountCreate(a, new, n, s) /\ FirstRecoveryAccount(new, a)
       \/ \E a \in Actors, b \in Users \cup {Null}, p \in Percents \cup {0},
             auto \in BOOLEAN :
             SetWithdrawVestingRoute(a, b, p, auto) /\ UNCHANGED recovery
    /\ OnlyVesting

WithdrawOperation ==
    /\ \E a \in Actors, n \in Tokens \cup {0} : WithdrawVesting(a, n)
    /\ OnlyVesting /\ UNCHANGED recovery

VotingOperation ==
    /\ \E a \in Users :
          \/ \E b \in Users \cup {Nobody} : AccountValidatorProxy(a, b)
          \/ \E v \in Validators : Vote(a, v) \/ Unvote(a, v)
    /\ OnlyVesting /\ UNCHANGED <<vestingVars, recovery>>

AwardOperation ==
    /\ \E a \in Actors, b, c \in Users, p \in Percents, w \in Weights :
          \/ Award(a, b, p, c, w)
          \/ \E n \in Tokens : FixedAward(a, b, n, p, c, w)
    /\ OnlyAwards

EscrowOperation ==
    /\ \E e \in EscrowIds :
          \/ \E a, b \in Users, c \in Users \cup {Treasury}, n \in Tokens,
                fee \in Fees, d \in Periods :
                EscrowTransfer(e, a, b, c, n, fee, now + d, now + d + 1)
          \/ \E a \in Users \cup {Treasury} :
                EscrowApprove(e, a) \/ EscrowReject(e, a)
          \/ EscrowDispute(e)
          \/ \E a \in Users \cup {Treasury}, b \in Users, n \in Tokens :
                EscrowRelease(e, a, b, n)
    /\ OnlyEscrows

InviteOperation ==
    /\ \E k \in InviteKeys :
          \/ /\ \/ \E a \in Users, n \in Tokens : CreateInvite(k, a, n)
                \/ \E a \in Users : ClaimInviteBalance(k, a) \/ UseInviteBalance(k, a)
             /\ UNCHANGED recovery
          \/ \E new \in Fresh :
                InviteRegistration(k, new) /\ FirstRecoveryAccount(new, invites[k].creator)
    /\ OnlyInvites

SaleOperation ==
    /\ \E a \in Actors, b \in Users, n \in Tokens, on \in BOOLEAN :
          \/ SetAccountPrice(a, b, n, on)
          \/ \E c \in Users : TargetAccountSale(a, b, c, n, on)
    /\ OnlyMarket

PurchaseOperation ==
    /\ \E a \in Actors, b \in Users, n \in Tokens :
          \/ \E clock \in now..(now + ClockAhead) : Bid(a, b, n, clock)
          \/ BuyAccount(a, b, n)
    /\ OnlyMarket

SubaccountOperation ==
    /\ \E a, b \in Users, n \in Tokens :
          \/ \E on \in BOOLEAN : SetSubaccountPrice(a, b, n, on)
          \/ \E new \in Fresh : BuySubaccount(a, new, b, n)
    /\ OnlyMarket

RecoveryOperation ==
    /\ \E a \in Actors :
          \/ \E b \in Users :
                \/ RequestAccountRecovery(a, b)
                \/ CancelAccountRecovery(a, b)
                \/ ChangeRecoveryAccount(a, b)
          \/ RecoverAccount(a)
    /\ OnlyMarket

CommitteeOperation ==
    /\ \/ \E a \in Actors, w \in Workers, n \in Tokens, d \in Periods :
             CreateRequest(a, w, n - 1, n, d)
       \/ \E r \in RequestIds :
             \/ CancelRequest(r)
             \/ \E a \in Users, p \in Opinions : VoteRequest(a, r, p)
    /\ OnlyCommittee

SubscriptionOperation ==
    /\ \/ \E a \in Actors, l \in Levels, n \in Tokens, d \in Periods :
             SetPaidSubscription(a, l, n, d)
       \/ \E s \in Users, a \in Actors, l \in Levels, auto \in BOOLEAN :
             PaidSubscribe(s, a, l, auto)
    /\ OnlySubscriptions

\* Two transfers, the first of the largest amount, the second in either direction.
Bundles(a, b) ==
    {<<first, second>> :
        first \in [from : {a}, to : {b},
                   amount : {n \in Tokens : \A m \in Tokens : m <= n}],
        second \in [from : {a}, to : {b}, amount : Tokens]
                     \cup [from : {b}, to : {a}, amount : Tokens]}

ProposalOperation ==
    /\ \E p \in ProposalIds :
          \/ \E a \in Actors, b \in Users \ Actors, d \in Periods, review \in BOOLEAN :
                \E ops \in Bundles(a, b) :
                    ProposalCreate(p, a, ops, now + d, IF review THEN now + 1 ELSE Never)
          \/ \E add, remove \in SUBSET (Users \ Fresh) : ProposalUpdate(p, add, remove)
          \/ \E a \in Users : ProposalDelete(p, a)
    /\ OnlyProposals

\* A payment that may leave too little for the transfers of a proposal.
PaymentOperation ==
    /\ \E a \in Actors, b \in Users \ Actors, n \in Tokens : Transfer(a, b, n)
    /\ OnlyVesting /\ UNCHANGED recovery

----------------------------------------------------------------------------
\* The end of a block.

Phases == <<"proposals", "delegations", "closed", "funds", "epoch", "withdrawals",
            "recovery", "escrows", "auctions", "special", "conclusions",
            "payments", "subscriptions">>

Place(name) == CHOOSE i \in DOMAIN Phases : Phases[i] = name

\* Whether a phase finds something to do.
Pending(name) ==
    CASE name = "proposals" -> DueProposals # {}
      [] name = "delegations" -> DueExpirations # {}
      [] name = "closed" -> TRUE
      [] name = "funds" -> TRUE
      [] name = "epoch" -> \E v \in Validators : EpochDue(v)
      [] name = "withdrawals" -> DueWithdrawals # {}
      [] name = "recovery" -> RecoveriesDue
      [] name = "escrows" -> DueEscrows # {}
      [] name = "auctions" -> DueAuctions # {}
      [] name = "special" -> \E a \in {Null, Anonymous, Treasury} :
                                acc[a].balance # 0 \/ acc[a].vesting_shares # 0
      [] name = "conclusions" -> DueRequests # {}
      [] name = "payments" -> /\ now % PayInterval = 0
                              /\ WithStatus("approved") # {}
      [] name = "subscriptions" -> DueSubs # {}

\* The phase is the next one that has something to do.
Reached(name) ==
    /\ phase # 0 /\ phase <= Place(name)
    /\ Pending(name)
    /\ \A i \in phase..(Place(name) - 1) : ~Pending(Phases[i])

Repeats(name) == Reached(name) /\ phase' = Place(name)
Once(name) == Reached(name) /\ phase' = Place(name) + 1

\* update_global_dynamic_data
NextBlock ==
    /\ phase = 0
    /\ now' = now + 1
    /\ phase' = 1
    /\ UNCHANGED <<accountVars, vestingVars, awardShares, escrows, invites,
                   marketVars, committeeVars, subscriptionVars, proposalVars>>

ClearProposals == Repeats("proposals") /\ ExpireProposal /\ OnlyProposals

ClearDelegations ==
    /\ Repeats("delegations") /\ ClearExpiredDelegation
    /\ OnlyVesting /\ UNCHANGED recovery

\* These three touch different objects.
ClearClosed ==
    /\ Once("closed")
    /\ ClearUsedInvites /\ ClearClosedRequests /\ ExpireAwardShares
    /\ UNCHANGED <<vestingVars, escrows, marketVars, subscriptionVars, proposalVars, now>>

PayProducer ==
    /\ Once("funds")
    /\ \E producer \in Producers : ProcessFunds(producer)
    /\ OnlyAwards

PayStakeholders == Repeats("epoch") /\ EpochDistribution /\ OnlyAwards

PayWithdrawals ==
    /\ Repeats("withdrawals") /\ ProcessVestingWithdrawal
    /\ OnlyVesting /\ UNCHANGED recovery

ExpireRecoveries ==
    /\ Once("recovery")
    /\ RecoveryProcessing
    /\ OnlyMarket /\ UNCHANGED <<accountVars, sale>>

ExpireEscrows == Repeats("escrows") /\ ExpireEscrow /\ OnlyEscrows

EndAuctions == Repeats("auctions") /\ AuctionExpiration /\ OnlyMarket

ClearSpecial == Once("special") /\ ClearSpecialAccounts /\ OnlyAwards

ConcludeRequests == Repeats("conclusions") /\ ConcludeRequest /\ OnlyCommittee

PayInstalments == Once("payments") /\ PayRequests /\ OnlyCommittee

RenewSubscription ==
    Once("subscriptions") /\ ProcessSubscription /\ OnlySubscriptions

EndBlock ==
    /\ phase # 0
    /\ \A i \in phase..Len(Phases) : ~Pending(Phases[i])
    /\ phase' = 0
    /\ UNCHANGED <<accountVars, vestingVars, awardShares, escrows, invites,
                   marketVars, committeeVars, subscriptionVars, proposalVars, now>>

BlockStep ==
    \/ NextBlock
    \/ ClearProposals
    \/ ClearDelegations
    \/ ClearClosed
    \/ PayProducer
    \/ PayStakeholders
    \/ PayWithdrawals
    \/ ExpireRecoveries
    \/ ExpireEscrows
    \/ EndAuctions
    \/ ClearSpecial
    \/ ConcludeRequests
    \/ PayInstalments
    \/ RenewSubscription
    \/ EndBlock

----------------------------------------------------------------------------
\* The chain as a whole.

\* A state without objects other than accounts and the shares of past awards.
StartFrom(created, balance, shares, fund, reward, rates, awards) ==
    /\ acc = [a \in Names |->
          IF a \notin created THEN NoAccount
          ELSE [NewAccount(0) EXCEPT !.balance = balance[a],
                                     !.vesting_shares = shares[a]]]
    /\ dgp = [current_supply |-> SumFunction(balance) + fund + reward,
              total_vesting_fund |-> fund,
              total_vesting_shares |-> SumFunction(shares),
              total_reward_fund |-> reward,
              total_reward_shares |->
                  SumFunction([i \in DOMAIN awards |-> awards[i].rshares]),
              committee_fund |-> 0]
    /\ val = [v \in Validators |-> [votes |-> 0, pending_stakeholder_reward |-> 0,
                                    sharing_rate |-> rates[v]]]
    /\ ballots = {}
    /\ now = 0
    /\ VestingInit
    /\ awardShares = awards
    /\ EscrowInit
    /\ InvitesInit
    /\ MarketInit
    /\ CommitteeInit
    /\ SubscriptionInit
    /\ ProposalInit
    /\ phase = 0

\* The special accounts and the validators have accounts; there are tokens
\* behind the shares.
LedgerInit ==
    \E created \in SUBSET Names, fund, reward \in Nat, rates \in [Validators -> 0..Full],
      awards \in Seq([rshares : Nat, expires : 0..RegenTime]) :
        \E balance, shares \in [created -> Nat] :
            /\ Validators \cup {Null, Anonymous, Treasury} \subseteq created
            /\ fund = 0 <=> SumFunction(shares) = 0
            /\ \A i, j \in DOMAIN awards : i < j => awards[i].expires <= awards[j].expires
            /\ StartFrom(created, balance, shares, fund, reward, rates, awards)

LedgerOperation ==
    \/ VestingOperation
    \/ StakeOperation
    \/ WithdrawOperation
    \/ VotingOperation
    \/ AwardOperation
    \/ EscrowOperation
    \/ InviteOperation
    \/ SaleOperation
    \/ PurchaseOperation
    \/ SubaccountOperation
    \/ RecoveryOperation
    \/ CommitteeOperation
    \/ SubscriptionOperation
    \/ ProposalOperation

\* Operations between blocks; the last block is before the end of time.
LedgerNext ==
    \/ phase = 0 /\ LedgerOperation /\ UNCHANGED phase
    \/ BlockStep /\ now' < Never

LedgerSpec == LedgerInit /\ [][LedgerNext]_ledgerVars

----------------------------------------------------------------------------
\* Properties.

\* No token is created or lost: the balances, the tokens under bids, in
\* escrows and invites, the vesting fund, the reward fund, the committee fund
\* and the rewards kept for stakeholders add up to current_supply after every
\* operation and every phase of a block, rounding included.
SupplyConserved ==
    AccountTokens(Current) + FundTokens(Current) + EscrowTokens + InviteTokens
        = dgp.current_supply

\* No block ends with an escrow that nobody can ratify any more and that still
\* holds its sender's tokens: one that is past its deadline is approved by both
\* (escrow_approve_evaluator compares with >=, expire_escrow_ratification with
\* <=, on either side of the change of the head block time).
NoEscrowOverdue ==
    phase = 0 => \A e \in EscrowIds :
        escrows[e].open /\ ~IsApproved(e) => escrows[e].ratification_deadline > now

\* A subscription is renewed or closed late by at most one block for every
\* other subscription object, although paid_subscribe_processing handles only
\* one of them in a block.
SubscriptionsOnTime ==
    phase = 0 => \A k \in DOMAIN subs :
        subs[k].active => now - subs[k].next_time < Cardinality(SubObjects)

\* No block ends with a proposal that has expired, whether its operations were
\* approved, failed or were never approved.
ProposalsOnTime ==
    phase = 0 => \A p \in ProposalIds :
        proposals[p].open => proposals[p].expiration_time > now

\* When a proposal expires, either no balance changes, or every account that pays
\* has approved and all of its operations are applied, although each of
\* them may fail after others have moved tokens.
ProposalsAllOrNothing ==
    [][phase # 0 /\ acc' # acc =>
        \E p \in DueProposals :
            /\ ~proposals'[p].open
            /\ Payers(proposals[p].ops) \subseteq proposals[p].approvals
            /\ \A a \in Names :
                  acc'[a].balance = acc[a].balance + NetOf(proposals[p].ops, a)
      ]_proposals

=============================================================================
