------------------------------ MODULE Vesting -------------------------------
(***************************************************************************)
(* Transfers, vesting shares, delegations, withdrawals and their routes,   *)
(* and the creation of accounts: the evaluators of chain_evaluator.cpp and *)
(* what database.cpp does with their objects at the end of a block.        *)
(***************************************************************************)
EXTENDS Accounts, Sequences, SequencesExt

CONSTANTS
    WithdrawInterval,       \* CHAIN_VESTING_WITHDRAW_INTERVAL_SECONDS
    WithdrawIntervals,      \* median_props.withdraw_intervals
    MaxRoutes,              \* CHAIN_MAX_WITHDRAW_ROUTES
    DelegationRatio,        \* median_props.create_account_delegation_ratio
    DelegationTime,         \* median_props.create_account_delegation_time
    MinDelegation           \* median_props.min_delegation, in tokens

ASSUME VestingAssumption ==
    /\ {WithdrawInterval, WithdrawIntervals, MaxRoutes} \subseteq Nat \ {0}
    /\ {DelegationRatio, DelegationTime, MinDelegation} \subseteq Nat

VARIABLES
    routes,         \* withdraw_vesting_route_object: percent and auto_vest
    delegations,    \* vesting_delegation_object by delegator and delegatee
    expirations     \* vesting_delegation_expiration_object, oldest first

vestingVars == <<routes, delegations, expirations>>

NoRoute == [percent |-> 0, auto_vest |-> FALSE]
NoDelegation == [vesting_shares |-> 0, min_delegation_time |-> 0]

VestingInit ==
    /\ routes = [a \in Users |-> [b \in Names |-> NoRoute]]
    /\ delegations = [a \in Users |-> [b \in Names |-> NoDelegation]]
    /\ expirations = <<>>

----------------------------------------------------------------------------
\* Transfers.

\* transfer_evaluator.  Tokens for the anonymous account pay at least the fee
\* of an account.
Transfer(from, to, amount) ==
    /\ acc[from].exists /\ acc[to].exists
    /\ acc[from].balance >= amount
    /\ to = Anonymous => amount >= CreationFee
    /\ Becomes(AdjustBalance(AdjustBalance(Current, from, -amount), to, amount))
    /\ UNCHANGED vestingVars

\* The same with a memo that names a free login and its key: the tokens become
\* the shares of the new account.
TransferAnonymous(from, new, amount) ==
    /\ acc[from].exists /\ ~acc[new].exists
    /\ acc[from].balance >= amount
    /\ amount >= CreationFee
    /\ LET paid == AdjustBalance(AdjustBalance(Current, from, -amount),
                                 Anonymous, amount)
       IN  Becomes(CreateVesting(
               AdjustBalance(CreateAccount(paid, new), Anonymous, -amount),
               new, amount))
    /\ UNCHANGED vestingVars

TransferToVesting(from, to, amount) ==
    /\ acc[from].exists /\ acc[to].exists
    /\ acc[from].balance >= amount
    /\ Becomes(CreateVesting(AdjustBalance(Current, from, -amount), to, amount))
    /\ UNCHANGED vestingVars

\* account_create_evaluator: the fee becomes the shares of the new account,
\* the rest of what an account needs may be delegated to it.
AccountCreate(creator, new, fee, delegation) ==
    LET ratio(tokens) == ToShares(Current, DelegationRatio * tokens)
        charged == [RecalcEnergy(Current, creator, delegation) EXCEPT
                        !.acc[creator].balance = @ - fee,
                        !.acc[creator].delegated_vesting_shares =
                            @ + delegation]
        created == [CreateAccount(charged, new) EXCEPT
                        !.acc[new].received_vesting_shares = delegation]
    IN  /\ acc[creator].exists /\ ~acc[new].exists
        /\ acc[creator].balance >= fee
        /\ DelegatableShares(Current, creator) >= delegation
        /\ delegation > 0 => CurrentEnergy(Current, creator) >= 0
        /\ ratio(fee) + delegation >= ratio(CreationFee)
        /\ Becomes(IF fee > 0 THEN CreateVesting(created, new, fee) ELSE created)
        /\ delegations' =
              IF delegation = 0 THEN delegations
              ELSE [delegations EXCEPT ![creator][new] =
                      [vesting_shares |-> delegation,
                       min_delegation_time |-> now + DelegationTime]]
        /\ UNCHANGED <<routes, expirations>>

----------------------------------------------------------------------------
\* Delegation.

\* As if shares under withdrawal could be delegated.
DelegateAcceptedTwice(delegator, delegatee, shares) ==
    LET old == delegations[delegator][delegatee].vesting_shares
    IN  IF shares > old
        THEN AvailableShares(Current, delegator) >= shares - old
        ELSE shares > 0 \/ old # 0

DelegateAccepted(delegator, delegatee, shares) ==
    LET old == delegations[delegator][delegatee].vesting_shares
        least == ToShares(Current, MinDelegation)
    IN  IF shares > old
        THEN /\ DelegatableShares(Current, delegator) >= shares - old
             /\ CurrentEnergy(Current, delegator) >= 0
             /\ old = 0 => shares >= least
        ELSE (shares = 0 /\ old # 0) \/ (shares > 0 /\ shares >= least)

\* As if the returned shares were booked with the sign of the change.
ExpirationWrongSign(delegator, old, delta) ==
    [delegator |-> delegator,
     vesting_shares |-> delta,
     expiration |-> Max({now + RegenTime, old.min_delegation_time})]

\* What is taken back leaves the delegatee at once and returns to the
\* delegator when this object is cleared.
Expiration(delegator, old, delta) ==
    [delegator |-> delegator,
     vesting_shares |-> -delta,
     expiration |-> Max({now + RegenTime, old.min_delegation_time})]

DelegateVestingShares(delegator, delegatee, shares) ==
    LET old == delegations[delegator][delegatee]
        delta == shares - old.vesting_shares
        sent == IF delta <= 0 THEN Current
                ELSE [RecalcEnergy(Current, delegator, delta) EXCEPT
                        !.acc[delegator].delegated_vesting_shares = @ + delta]
    IN  /\ acc[delegator].exists /\ acc[delegatee].exists
        /\ delegator # delegatee
        /\ DelegateAccepted(delegator, delegatee, shares)
        /\ Becomes([sent EXCEPT
                        !.acc[delegatee].received_vesting_shares = @ + delta])
        /\ delegations' = [delegations EXCEPT ![delegator][delegatee] =
                IF shares = 0 THEN NoDelegation
                ELSE [vesting_shares |-> shares,
                      min_delegation_time |->
                        IF old = NoDelegation THEN now
                        ELSE old.min_delegation_time]]
        /\ expirations' = IF delta > 0 THEN expirations
                          ELSE Append(expirations,
                                      Expiration(delegator, old, delta))
        /\ UNCHANGED routes

DueExpirations == {i \in DOMAIN expirations : expirations[i].expiration < now}

\* One turn of the loop of clear_expired_delegations, in the order of the
\* index by_expiration.
ClearExpiredDelegation ==
    \E i \in DueExpirations :
        LET due == expirations[i]
            back == [Current EXCEPT !.acc[due.delegator].delegated_vesting_shares
                                        = @ - due.vesting_shares]
        IN  /\ \A j \in DueExpirations :
                  \/ due.expiration < expirations[j].expiration
                  \/ due.expiration = expirations[j].expiration /\ i <= j
            /\ Becomes(RecalcEnergy(back, due.delegator, due.vesting_shares))
            /\ expirations' = RemoveAt(expirations, i)
            /\ UNCHANGED <<routes, delegations>>

----------------------------------------------------------------------------
\* Withdrawal.

WithdrawVesting(a, shares) ==
    LET rate == Max({AvailableShares(Current, a) \div WithdrawIntervals, 1})
    IN  /\ acc[a].exists
        /\ AvailableShares(Current, a) >= shares
        /\ IF shares = 0
           THEN Becomes([Current EXCEPT
                    !.acc[a].vesting_withdraw_rate = 0,
                    !.acc[a].next_vesting_withdrawal = Never,
                    !.acc[a].to_withdraw = 0,
                    !.acc[a].withdrawn = 0])
           ELSE /\ acc[a].vesting_withdraw_rate # rate
                /\ Becomes([Current EXCEPT
                    !.acc[a].vesting_withdraw_rate = rate,
                    !.acc[a].next_vesting_withdrawal = now + WithdrawInterval,
                    !.acc[a].to_withdraw = shares,
                    !.acc[a].withdrawn = 0])
        /\ UNCHANGED vestingVars

\* The routes the loops over by_withdraw_route visit: upper_bound starts
\* behind the account with id 0, which is the null account.
RoutesFrom(rs, a) == {b \in Names \ {Null} : rs[a][b] # NoRoute}

RoutedPercent(rs, a) == SumFunction([b \in RoutesFrom(rs, a) |-> rs[a][b].percent])

SetWithdrawVestingRoute(from, to, percent, auto) ==
    LET set == [routes EXCEPT ![from][to] =
                    IF percent = 0 THEN NoRoute
                    ELSE [percent |-> percent, auto_vest |-> auto]]
    IN  /\ acc[from].exists /\ acc[to].exists
        /\ routes[from][to] = NoRoute =>
              /\ percent # 0
              /\ Cardinality({b \in Names : routes[from][b] # NoRoute})
                    < MaxRoutes
        /\ RoutedPercent(set, from) <= Full
        /\ routes' = set
        /\ UNCHANGED <<delegations, expirations>>
        /\ UNCHANGED accountVars

DueWithdrawals == {a \in Names : acc[a].exists
                                 /\ acc[a].next_vesting_withdrawal <= now}

\* What one period pays out of an account.
WithdrawalOf(l, a) ==
    LET left == l.acc[a].to_withdraw - l.acc[a].withdrawn
        rate == l.acc[a].vesting_withdraw_rate
    IN  Min({l.acc[a].vesting_shares,
             IF left < rate THEN l.acc[a].to_withdraw % rate ELSE rate})

\* The amount a route takes, first as shares ...
RoutePart(a, b, amount) == (amount * routes[a][b].percent) \div Full

DepositShares(l, a, b, amount) ==
    LET part == RoutePart(a, b, amount)
    IN  AdjustStakeVotes([l EXCEPT !.acc[b].vesting_shares = @ + part], b, part)

\* ... and in the second pass converted to tokens.
DepositTokens(l, a, b, amount) ==
    LET part == RoutePart(a, b, amount)
        tokens == ToTokens(l, part)
    IN  [l EXCEPT !.acc[b].balance = @ + tokens,
                  !.dgp.total_vesting_fund = @ - tokens,
                  !.dgp.total_vesting_shares = @ - part]

VestedRoutes(a) == {b \in RoutesFrom(routes, a) : routes[a][b].auto_vest}
PaidRoutes(a) == RoutesFrom(routes, a) \ VestedRoutes(a)

RouteParts(a, S, amount) == SumFunction([b \in S |-> RoutePart(a, b, amount)])

Deposited(a, amount) ==
    FoldSet(LAMBDA b, l : DepositTokens(l, a, b, amount),
            FoldSet(LAMBDA b, l : DepositShares(l, a, b, amount),
                    Current, VestedRoutes(a)),
            PaidRoutes(a))

\* What no route takes becomes tokens of the account itself.
Withdrawn(l, a, amount, rest) ==
    LET tokens == ToTokens(l, rest)
    IN  [RecalcEnergy(l, a, RouteParts(a, PaidRoutes(a), amount) + rest) EXCEPT
            !.acc[a].vesting_shares = @ - amount,
            !.acc[a].balance = @ + tokens,
            !.acc[a].withdrawn = @ + amount,
            !.dgp.total_vesting_fund = @ - tokens,
            !.dgp.total_vesting_shares = @ - rest]

WithdrawalEnded(l, a) ==
    l.acc[a].withdrawn >= l.acc[a].to_withdraw \/ l.acc[a].vesting_shares = 0

NextWithdrawal(l, a) ==
    IF WithdrawalEnded(l, a)
    THEN [l EXCEPT !.acc[a].vesting_withdraw_rate = 0,
                   !.acc[a].next_vesting_withdrawal = Never]
    ELSE [l EXCEPT !.acc[a].next_vesting_withdrawal = @ + WithdrawInterval]

\* One turn of the loop of process_vesting_withdrawals.
WithdrawalPaid(a) ==
    LET amount == WithdrawalOf(Current, a)
        rest == Max({amount - RouteParts(a, VestedRoutes(a), amount)
                            - RouteParts(a, PaidRoutes(a), amount), 0})
    IN  AdjustStakeVotes(
            NextWithdrawal(Withdrawn(Deposited(a, amount), a, amount, rest), a),
            a, -amount)

ProcessVestingWithdrawal ==
    \E a \in DueWithdrawals :
        /\ \A b \in DueWithdrawals :
              acc[a].next_vesting_withdrawal <= acc[b].next_vesting_withdrawal
        /\ Becomes(WithdrawalPaid(a))
        /\ UNCHANGED vestingVars

----------------------------------------------------------------------------
\* Properties.

DelegatedBy(a) ==
    SumFunction([b \in Names |-> delegations[a][b].vesting_shares])
    + SumFunction([i \in DOMAIN expirations |->
                      IF expirations[i].delegator = a
                      THEN expirations[i].vesting_shares ELSE 0])

DelegatedTo(b) ==
    SumFunction([a \in Users |-> delegations[a][b].vesting_shares])

\* The two counters of an account agree with the delegation objects: what it
\* has given away is the sum of its delegations and of the returns still under
\* way (delegate_vesting_shares_evaluator, clear_expired_delegations), what it
\* has received is the sum of the delegations to it.
DelegationsAddUp ==
    /\ \A a \in Users : acc[a].delegated_vesting_shares = DelegatedBy(a)
    /\ \A a \in Names : acc[a].received_vesting_shares = DelegatedTo(a)

\* An account owns every share it has delegated or has still to pay out: no
\* order of delegating, taking back, withdrawing and paying out lets the same
\* share be lent and withdrawn (available_vesting_shares).
SharesBacked ==
    \A a \in Names : DelegatableShares(Current, a) >= 0

=============================================================================
