------------------------------ MODULE Accounts ------------------------------
(***************************************************************************)
(* The objects every monetary operation of the chain shares: the accounts  *)
(* (account_object), the funds and totals of the dynamic global properties *)
(* and the validators' votes, with the helpers of database.cpp that move   *)
(* tokens and shares between them.                                         *)
(*                                                                         *)
(* The helpers work on a ledger: a record l of four of the variables below.  *)
(* An operation of the code is a composition of helpers, an action assigns *)
(* the result to the variables with Becomes.  The model is of a chain that *)
(* has passed hardfork 13.  Names of the same account objects are reused   *)
(* for accounts that do not exist yet (exists = FALSE).                    *)
(***************************************************************************)
EXTENDS Integers, FiniteSets, FiniteSetsExt, Functions

CONSTANTS
    Names,          \* account names, existing or not
    Users,          \* the accounts that sign operations: init_genesis gives
                    \* the three special accounts below no key
    Nobody,         \* the empty name
    Null,           \* CHAIN_NULL_ACCOUNT: what it receives is burnt
    Anonymous,      \* CHAIN_ANONYMOUS_ACCOUNT: what it keeps is burnt
    Treasury,       \* CHAIN_COMMITTEE_ACCOUNT: what it keeps goes to the fund
    Validators,     \* the accounts that are validators
    Full,           \* CHAIN_100_PERCENT
    RegenTime,      \* CHAIN_ENERGY_REGENERATION_SECONDS
    CreationFee,    \* median_props.account_creation_fee
    ProxyDepth,     \* CHAIN_MAX_PROXY_RECURSION_DEPTH
    Never           \* fc::time_point_sec::maximum()

ASSUME AccountsAssumption ==
    /\ IsFiniteSet(Names)
    /\ Validators \subseteq Names
    /\ Users \subseteq Names \ {Null, Anonymous, Treasury}
    /\ {Null, Anonymous, Treasury} \subseteq Names
    /\ Null # Anonymous /\ Null # Treasury /\ Anonymous # Treasury
    /\ Nobody \notin Names
    /\ CreationFee \in Nat
    /\ {Full, RegenTime, ProxyDepth, Never} \subseteq Nat \ {0}

VARIABLES
    acc,        \* account_object by name
    dgp,        \* the token funds and totals of dynamic_global_property_object
    val,        \* validator_object by owner: votes and the reward to share
    ballots,    \* validator_vote_object: voter, validator, block of the vote
    now         \* head_block_time; a block takes one unit, so also its number

accountVars == <<acc, dgp, val, ballots>>

Current == [acc |-> acc, dgp |-> dgp, val |-> val, ballots |-> ballots]

Becomes(l) ==
    /\ acc' = l.acc
    /\ dgp' = l.dgp
    /\ val' = l.val
    /\ ballots' = l.ballots

----------------------------------------------------------------------------
\* account_object: the fields money and votes depend on.

NewAccount(time) ==
    [exists |-> TRUE, balance |-> 0, reserved_balance |-> 0,
     vesting_shares |-> 0, delegated_vesting_shares |-> 0,
     received_vesting_shares |-> 0, vesting_withdraw_rate |-> 0,
     next_vesting_withdrawal |-> Never, to_withdraw |-> 0, withdrawn |-> 0,
     energy |-> Full, last_vote_time |-> time,
     proxy |-> Nobody, proxied_vsf_votes |-> [i \in 1..ProxyDepth |-> 0],
     validators_voted_for |-> 0, validators_vote_weight |-> 0]

NoAccount == [NewAccount(0) EXCEPT !.exists = FALSE]

Exists(l, a) == l.acc[a].exists

EffectiveShares(l, a) ==
    l.acc[a].vesting_shares - l.acc[a].delegated_vesting_shares
        + l.acc[a].received_vesting_shares

AvailableShares(l, a) ==
    l.acc[a].vesting_shares - l.acc[a].delegated_vesting_shares

\* available_vesting_shares(true)
DelegatableShares(l, a) ==
    AvailableShares(l, a) - (l.acc[a].to_withdraw - l.acc[a].withdrawn)

CurrentEnergy(l, a) ==
    Min({l.acc[a].energy
            + (Full * (now - l.acc[a].last_vote_time)) \div RegenTime, Full})

\* shares_sender_recalc_energy: shares that leave an account take the energy
\* they stood for with them.
RecalcEnergy(l, a, shares) ==
    IF EffectiveShares(l, a) <= 0 THEN l
    ELSE [l EXCEPT
            !.acc[a].energy =
                Max({CurrentEnergy(l, a)
                        - (Full * shares) \div EffectiveShares(l, a), -Full}),
            !.acc[a].last_vote_time = now]

----------------------------------------------------------------------------
\* get_vesting_share_price and asset * price, which round down.

NoPrice(l) == l.dgp.total_vesting_fund = 0 \/ l.dgp.total_vesting_shares = 0

ToShares(l, tokens) ==
    IF NoPrice(l) THEN tokens * 1000
    ELSE (tokens * l.dgp.total_vesting_shares) \div l.dgp.total_vesting_fund

ToTokens(l, shares) ==
    IF NoPrice(l) THEN shares \div 1000
    ELSE (shares * l.dgp.total_vesting_fund) \div l.dgp.total_vesting_shares

----------------------------------------------------------------------------
\* Votes: the stake of an account, with the stakes proxied to it, is divided
\* evenly over the validators it votes for.

VotesOf(l, a) == {b \in l.ballots : b.account = a}

VotedFor(l, a) == {b.validator : b \in VotesOf(l, a)}

\* The division of share_type truncates toward zero.
TruncDiv(d, n) == IF d >= 0 THEN d \div n ELSE -((-d) \div n)

\* adjust_validator_vote for every validator in vs.  Its assertion that no validator
\* has more votes than there are shares is left out: an operation that it would
\* abort is taken here.
AddVotes(l, vs, delta) ==
    [l EXCEPT !.val = [v \in Validators |->
        IF v \in vs THEN [l.val[v] EXCEPT !.votes = Max({@ + delta, 0})]
        ELSE l.val[v]]]

\* adjust_validator_votes
AdjustVotes(l, a, delta) ==
    LET fair == TruncDiv(delta, l.acc[a].validators_voted_for)
    IN  IF l.acc[a].validators_voted_for = 0 THEN l
        ELSE AddVotes([l EXCEPT !.acc[a].validators_vote_weight = @ + fair],
                      VotedFor(l, a), fair)

\* The account an account's stake reaches after i proxies (Nobody when the
\* chain of proxies is shorter).
ProxyAfter(l, a) ==
    LET p[i \in 0..ProxyDepth] ==
            IF i = 0 THEN a
            ELSE IF p[i - 1] = Nobody THEN Nobody
            ELSE l.acc[p[i - 1]].proxy
    IN  p

\* adjust_proxied_validator_votes: delta[i] is what the stakes i proxies
\* below a contribute.  The proxy at distance d keeps, in its entry of the
\* same distance, what comes from i + d - 1 below it; the account at the end
\* of the chain votes with the sum.  Beyond ProxyDepth a stake is lost.
AdjustProxied(l, a, delta) ==
    LET p == ProxyAfter(l, a)
        distance(n) == CHOOSE d \in 1..ProxyDepth : p[d] = n
        last == CHOOSE d \in 0..ProxyDepth :
                    /\ p[d] # Nobody
                    /\ \A e \in (d + 1)..ProxyDepth : p[e] = Nobody
        carried == [l EXCEPT !.acc = [n \in Names |->
            IF n \notin {p[d] : d \in 1..ProxyDepth} THEN l.acc[n]
            ELSE [l.acc[n] EXCEPT !.proxied_vsf_votes =
                    [i \in 1..ProxyDepth |->
                        @[i] + IF i >= distance(n) THEN delta[i - distance(n)]
                               ELSE 0]]]]
    IN  IF l.acc[p[last]].proxy # Nobody THEN carried
        ELSE AdjustVotes(carried, p[last],
                 SumFunctionOnSet(delta, 0..(ProxyDepth - last)))

\* The overload for one amount: only the account's own stake changes.
AdjustStakeVotes(l, a, delta) ==
    AdjustProxied(l, a, [i \in 0..ProxyDepth |-> IF i = 0 THEN delta ELSE 0])

\* The stake an account votes with: its own and what is proxied to it.
VotingStake(l, a) ==
    l.acc[a].vesting_shares
        + SumFunction(l.acc[a].proxied_vsf_votes)

\* validator_vote_fair_weight
FairWeight(l, a) ==
    IF l.acc[a].validators_voted_for = 0 THEN 0
    ELSE VotingStake(l, a) \div l.acc[a].validators_voted_for

----------------------------------------------------------------------------
\* adjust_balance, create_vesting and the creation of an account.

AdjustBalance(l, a, delta) == [l EXCEPT !.acc[a].balance = @ + delta]

PayCommittee(l, amount) == [l EXCEPT !.dgp.committee_fund = @ + amount]

CreateVesting(l, a, tokens) ==
    LET shares == ToShares(l, tokens)
    IN  AdjustStakeVotes(
            [l EXCEPT !.acc[a].vesting_shares = @ + shares,
                      !.dgp.total_vesting_fund = @ + tokens,
                      !.dgp.total_vesting_shares = @ + shares], a, shares)

CreateAccount(l, a) == [l EXCEPT !.acc[a] = NewAccount(now)]

----------------------------------------------------------------------------
\* What the tokens and the shares of the accounts add up to.

AccountTokens(l) ==
    SumFunction([a \in Names |-> l.acc[a].balance + l.acc[a].reserved_balance])

FundTokens(l) ==
    l.dgp.total_vesting_fund + l.dgp.total_reward_fund + l.dgp.committee_fund
        + SumFunction([v \in Validators |-> l.val[v].pending_stakeholder_reward])

AccountShares(l) == SumFunction([a \in Names |-> l.acc[a].vesting_shares])

=============================================================================
