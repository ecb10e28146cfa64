------------------------------- MODULE Awards -------------------------------
(***************************************************************************)
(* Emission and awards: the tokens a block issues (process_funds), the     *)
(* part of a validator's reward that is shared with its stakeholders at    *)
(* the end of an epoch, awards from the reward fund, and what happens to   *)
(* tokens sent to the null, the anonymous and the committee account.       *)
(***************************************************************************)
EXTENDS Accounts, Sequences

CONSTANTS
    IssuedPerBlock,         \* CHAIN_DIGITAL_ASSET_ISSUED_PER_BLOCK
    ValidatorPercent,       \* inflation_validator_percent
    CommitteeRatio,         \* inflation_ratio
    EpochLength,            \* median_props.distribution_epoch_length
    MinPayout,              \* CHAIN_MIN_STAKEHOLDER_REWARD_PAYOUT
    MinRshares              \* median_props.vote_accounting_min_rshares

ASSUME AwardsAssumption ==
    /\ {IssuedPerBlock, EpochLength, MinPayout} \subseteq Nat \ {0}
    /\ MinRshares \in Nat
    /\ {ValidatorPercent, CommitteeRatio} \subseteq 0..Full

VARIABLE awardShares        \* award_shares_expire_object, oldest first

----------------------------------------------------------------------------
\* Awards.

Rshares(a, energy) == (EffectiveShares(Current, a) * energy) \div Full

\* calc_rshare_award
Payout(rshares) ==
    (dgp.total_reward_fund * rshares) \div (dgp.total_reward_shares + rshares)

\* claim_rshare_award
ClaimReward(l, rshares) ==
    [l EXCEPT !.dgp.total_reward_fund = @ - Payout(rshares),
              !.dgp.total_reward_shares = @ + rshares]

Claimed(rshares) ==
    awardShares' = Append(awardShares,
                     [rshares |-> rshares, expires |-> now + RegenTime])

Spend(l, a, energy) ==
    [l EXCEPT !.acc[a].energy = CurrentEnergy(Current, a) - energy,
              !.acc[a].last_vote_time = now]

Benefit(tokens, weight) == (tokens * weight) \div Full

\* A beneficiary, if the weight is not zero, and then the receiver are paid.
PayAward(l, tokens, beneficiary, weight, receiver, left) ==
    LET first == IF weight = 0 THEN l
                 ELSE CreateVesting(l, beneficiary, Benefit(tokens, weight))
        rest == left - Benefit(tokens, weight)
    IN  IF rest > 0 THEN CreateVesting(first, receiver, rest) ELSE first

\* award_evaluator
Award(a, receiver, energy, beneficiary, weight) ==
    LET rshares == Rshares(a, energy)
        tired == Spend(ClaimReward(Current, rshares), a, energy)
    IN  /\ acc[a].exists /\ acc[receiver].exists
        /\ CurrentEnergy(Current, a) > 0
        /\ energy <= CurrentEnergy(Current, a)
        /\ IF rshares < MinRshares
           THEN Becomes(Spend(Current, a, energy)) /\ UNCHANGED awardShares
           ELSE /\ rshares > 0
                /\ Claimed(rshares)
                /\ IF Payout(rshares) = 0 THEN Becomes(tired)
                   ELSE /\ weight # 0 => acc[beneficiary].exists
                        /\ Becomes(PayAward(tired, Payout(rshares), beneficiary,
                                            weight, receiver, Payout(rshares)))

\* The energy fixed_award_evaluator takes for an amount: the shares that would
\* pay it, one step of energy more, and never more than all of it.
NeededEnergy(a, maxEnergy, amount) ==
    LET needed == (amount * dgp.total_reward_shares)
                      \div (dgp.total_reward_fund - amount)
    IN  Min({(needed * maxEnergy) \div Rshares(a, maxEnergy) + 1, Full})

FixedAwardAccepted(a, maxEnergy, amount) ==
    /\ CurrentEnergy(Current, a) > 0
    /\ maxEnergy <= CurrentEnergy(Current, a)
    /\ Rshares(a, maxEnergy) > 0
    /\ Payout(Rshares(a, maxEnergy)) >= amount
    /\ dgp.total_reward_fund > amount
    /\ (amount * dgp.total_reward_shares) \div (dgp.total_reward_fund - amount)
          <= Rshares(a, maxEnergy)

\* fixed_award_evaluator: the receiver gets the amount, what the shares are
\* worth above it goes to the committee fund; the beneficiary's part is
\* computed from the whole worth.
FixedAward(a, receiver, amount, maxEnergy, beneficiary, weight) ==
    LET energy == NeededEnergy(a, maxEnergy, amount)
        rshares == Rshares(a, energy)
        tokens == Payout(rshares)
        tired == Spend(ClaimReward(Current, rshares), a, energy)
    IN  /\ acc[a].exists /\ acc[receiver].exists
        /\ FixedAwardAccepted(a, maxEnergy, amount)
        /\ rshares >= MinRshares /\ rshares > 0
        /\ tokens >= amount
        /\ weight # 0 => acc[beneficiary].exists
        /\ Claimed(rshares)
        /\ Becomes(PayCommittee(PayAward(tired, tokens, beneficiary, weight,
                                         receiver, amount), tokens - amount))

\* The loop takes objects from the front of the index until one is not due.
DueAwardShares ==
    {n \in 0..Len(awardShares) :
        /\ \A i \in 1..n : awardShares[i].expires <= now
        /\ n < Len(awardShares) => awardShares[n + 1].expires > now}

\* As if the shares of an award competed for ever.
ExpireAwardSharesKeepsTotal ==
    /\ \E n \in DueAwardShares :
          awardShares' = SubSeq(awardShares, n + 1, Len(awardShares))
    /\ Becomes(Current)

\* expire_award_shares_processing
ExpireAwardShares ==
    \E n \in DueAwardShares :
        /\ awardShares' = SubSeq(awardShares, n + 1, Len(awardShares))
        /\ Becomes([Current EXCEPT !.dgp.total_reward_shares =
                @ - SumFunction([i \in 1..n |-> awardShares[i].rshares])])

----------------------------------------------------------------------------
\* Emission: process_funds after hardfork 11, with the sharing of hardfork 13.

ValidatorReward == (IssuedPerBlock * ValidatorPercent) \div Full
CommitteePart == ((IssuedPerBlock - ValidatorReward) * CommitteeRatio) \div Full

ProcessFunds(producer) ==
    LET shared == (ValidatorReward * val[producer].sharing_rate) \div Full
        issued == [Current EXCEPT
            !.dgp.committee_fund = @ + CommitteePart,
            !.dgp.total_reward_fund =
                @ + (IssuedPerBlock - ValidatorReward - CommitteePart),
            !.dgp.current_supply = @ + IssuedPerBlock,
            !.val[producer].pending_stakeholder_reward = @ + shared]
    IN  /\ Becomes(IF ValidatorReward - shared > 0
                   THEN CreateVesting(issued, producer, ValidatorReward - shared)
                   ELSE issued)
        /\ UNCHANGED awardShares

\* The stake-blocks of a vote in the epoch that ends with this block.
Weighted(b) ==
    FairWeight(Current, b.account)
        * (now - Max({b.block, now - EpochLength + 1}) + 1)

Voters(v) == {b \in ballots : b.validator = v /\ FairWeight(Current, b.account) > 0}

StakeholderPart(v, b) ==
    (val[v].pending_stakeholder_reward * Weighted(b))
        \div SumFunction([c \in Voters(v) |-> Weighted(c)])

\* As if the dust of the division stayed with nobody.
DistributedNoDust(v) ==
    LET paid == {b \in Voters(v) : StakeholderPart(v, b) >= MinPayout}
    IN  [FoldSet(LAMBDA b, l : CreateVesting(l, b.account, StakeholderPart(v, b)),
                 Current, paid)
            EXCEPT !.val[v].pending_stakeholder_reward = 0]

\* Every voter gets its part, unless that is below the least payout; the dust
\* goes to the validator.
Distributed(v) ==
    LET paid == {b \in Voters(v) : StakeholderPart(v, b) >= MinPayout}
        dust == val[v].pending_stakeholder_reward
                    - SumFunction([b \in paid |-> StakeholderPart(v, b)])
        shared == FoldSet(LAMBDA b, l :
                              CreateVesting(l, b.account, StakeholderPart(v, b)),
                          Current, paid)
    IN  [(IF dust > 0 THEN CreateVesting(shared, v, dust) ELSE shared)
            EXCEPT !.val[v].pending_stakeholder_reward = 0]

EpochDue(v) ==
    now % EpochLength = 0 /\ val[v].pending_stakeholder_reward # 0

\* One turn of the loop of process_validator_epoch_distribution.
EpochDistribution ==
    \E v \in Validators :
        /\ EpochDue(v)
        /\ Becomes(Distributed(v))
        /\ UNCHANGED awardShares

----------------------------------------------------------------------------
\* clear_null_account_balance, clear_anonymous_account_balance and
\* claim_committee_account_balance: shares are turned back into tokens, and the
\* tokens are burnt or moved to the fund.

\* As if the shares left their account but not the total.
EmptiedKeepsTotal(l, a) ==
    [l EXCEPT !.acc[a].balance = 0,
              !.acc[a].vesting_shares = 0,
              !.dgp.total_vesting_fund = @ - ToTokens(l, l.acc[a].vesting_shares)]

Emptied(l, a) ==
    [l EXCEPT !.acc[a].balance = 0,
              !.acc[a].vesting_shares = 0,
              !.dgp.total_vesting_shares = @ - l.acc[a].vesting_shares,
              !.dgp.total_vesting_fund = @ - ToTokens(l, l.acc[a].vesting_shares)]

Held(l, a) == l.acc[a].balance + ToTokens(l, l.acc[a].vesting_shares)

Burn(l, a) == [Emptied(l, a) EXCEPT !.dgp.current_supply = @ - Held(l, a)]

ClaimCommittee(l) == PayCommittee(Emptied(l, Treasury), Held(l, Treasury))

ClearSpecialAccounts ==
    /\ Becomes(ClaimCommittee(Burn(Burn(Current, Null), Anonymous)))
    /\ UNCHANGED awardShares

----------------------------------------------------------------------------
\* Properties.

\* The shares that compete for the reward fund are those of the awards of the
\* last regeneration period (claim_rshare_award, expire_award_shares_processing).
RewardSharesAddUp ==
    dgp.total_reward_shares =
        SumFunction([i \in DOMAIN awardShares |-> awardShares[i].rshares])

\* The shares of all accounts are the total the share price is computed from.
SharesAddUp == dgp.total_vesting_shares = AccountShares(Current)

=============================================================================
