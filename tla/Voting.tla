------------------------------- MODULE Voting -------------------------------
(***************************************************************************)
(* Votes for validators, directly or through a proxy                       *)
(* (account_validator_vote_evaluator, account_validator_proxy_evaluator).  *)
(***************************************************************************)
EXTENDS Accounts

CONSTANT MaxVotes       \* CHAIN_MAX_ACCOUNT_VALIDATOR_VOTES

ASSUME VotingAssumption == MaxVotes \in Nat \ {0}

\* The stakes an account brings to its votes or its proxy, by distance.
StakesOf(l, a) ==
    [i \in 0..ProxyDepth |->
        IF i = 0 THEN l.acc[a].vesting_shares ELSE l.acc[a].proxied_vsf_votes[i]]

Negated(delta) == [i \in DOMAIN delta |-> -delta[i]]

\* As if only the account's own stake left with it.
WithdrawStakesOwnOnly(l, a) == AdjustStakeVotes(l, a, -l.acc[a].vesting_shares)

\* All stakes of an account are taken from where they count.
WithdrawStakes(l, a) == AdjustProxied(l, a, Negated(StakesOf(l, a)))

\* clear_validator_votes
ClearVotes(l, a) ==
    [l EXCEPT !.ballots = @ \ VotesOf(l, a),
              !.acc[a].validators_voted_for = 0,
              !.acc[a].validators_vote_weight = 0]

\* The walk from the new proxy to the end of its chain: a loop or a chain of
\* more than ProxyDepth accounts, the account included, is refused.
ProxyAccepted(a, proxy) ==
    LET p == ProxyAfter(Current, proxy)
        chain == {p[i] : i \in 0..ProxyDepth} \ {Nobody}
    IN  /\ a \notin {p[i] : i \in 1..ProxyDepth}
        /\ Cardinality(chain) > 1 => Cardinality(chain) + 1 <= ProxyDepth

AccountValidatorProxy(a, proxy) ==
    LET freed == WithdrawStakes(Current, a)
        moved == [ClearVotes(freed, a) EXCEPT !.acc[a].proxy = proxy]
    IN  /\ acc[a].exists
        /\ acc[a].proxy # proxy /\ proxy # a
        /\ IF proxy = Nobody
           THEN Becomes([freed EXCEPT !.acc[a].proxy = Nobody])
           ELSE /\ acc[proxy].exists
                /\ ProxyAccepted(a, proxy)
                /\ Becomes(AdjustProxied(moved, a, StakesOf(Current, a)))

----------------------------------------------------------------------------
\* A direct vote takes the stake back from the proxy first; then the weight of
\* the voter is taken from its validators, and the new weight given to the new
\* set.

Unproxied(a) ==
    IF acc[a].proxy = Nobody THEN Current
    ELSE [WithdrawStakes(Current, a) EXCEPT !.acc[a].proxy = Nobody]

Reweighted(l, a, ballot, count) ==
    LET off == AddVotes(l, VotedFor(l, a), -l.acc[a].validators_vote_weight)
        voted == [off EXCEPT !.ballots = ballot,
                             !.acc[a].validators_voted_for = count]
        weight == FairWeight(voted, a)
    IN  AddVotes([voted EXCEPT !.acc[a].validators_vote_weight = weight],
                 VotedFor(voted, a), weight)

Vote(a, v) ==
    LET l == Unproxied(a)
    IN  /\ acc[a].exists
        /\ v \notin VotedFor(l, a)
        /\ acc[a].validators_voted_for < MaxVotes
        /\ Becomes(Reweighted(l, a,
               l.ballots \cup {[account |-> a, validator |-> v, block |-> now]},
               l.acc[a].validators_voted_for + 1))

Unvote(a, v) ==
    LET l == Unproxied(a)
    IN  /\ acc[a].exists
        /\ v \in VotedFor(l, a)
        /\ Becomes(Reweighted(l, a,
               {b \in l.ballots : ~(b.account = a /\ b.validator = v)},
               l.acc[a].validators_voted_for - 1))

----------------------------------------------------------------------------
\* Properties.

\* A validator's votes are the sum of the weights of the accounts that vote for
\* it now, whatever votes, proxies and changes of stake came before: no weight
\* is left behind or taken twice (adjust_validator_votes).  Changes of stake
\* that the number of votes does not divide are rounded one by one and may
\* leave the difference behind: the instances keep them even.
VotesAddUp ==
    \A v \in Validators :
        val[v].votes =
            MapThenSumSet(LAMBDA b : acc[b.account].validators_vote_weight,
                          {b \in ballots : b.validator = v})

\* What an account holds as proxied votes is the stake of the accounts that
\* reach it through their proxies, distance by distance, in whatever order
\* proxies are set, moved and cleared and stakes change; and the number its
\* stake is divided by is the number of its votes.
ProxiesAddUp ==
    LET after == [b \in Names |-> ProxyAfter(Current, b)]
    IN  \A a \in Names :
            /\ \A d \in 1..ProxyDepth :
                  acc[a].proxied_vsf_votes[d] =
                      SumFunction([b \in Names |->
                          IF after[b][d] = a THEN acc[b].vesting_shares ELSE 0])
            /\ acc[a].validators_voted_for = Cardinality(VotesOf(Current, a))

=============================================================================
