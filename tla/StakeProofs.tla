---------------------------- MODULE StakeProofs -----------------------------
(***************************************************************************)
(* Loans, withdrawals and votes, and the inductive invariant of the whole  *)
(* ledger with what follows from it: shares and stake add up, bids are     *)
(* reserved, the committee fund is never overdrawn, and no step but an     *)
(* award that overshoots changes what the tokens add up to.                *)
(***************************************************************************)
EXTENDS MoneyProofs

----------------------------------------------------------------------------
(* Shares that are lent or under withdrawal.                               *)

(* What an account has lent and has still to withdraw is there, and all    *)
(* but the last of its payments are of the rate.                           *)
Solvent(a, x) ==
    /\ x.vesting_shares - x.delegated_vesting_shares - (x.to_withdraw - x.withdrawn) >= 0
    /\ x.withdrawn <= x.to_withdraw
    /\ x.next_vesting_withdrawal # Never =>
          /\ a \in Users /\ x.vesting_withdraw_rate > 0
          /\ \E k \in Nat : x.withdrawn = k * x.vesting_withdraw_rate
    /\ a \notin Users => x.delegated_vesting_shares = 0 /\ x.to_withdraw = 0

Covered(l) == \A a \in Names : Solvent(a, l.acc[a])

SolventFields == WithdrawFields \cup {"delegated_vesting_shares"}

(* Shares are added, or taken from an account that owes none.              *)
LEMMA CoveredFrame ==
    ASSUME NEW l \in Ledgers, NEW m \in Ledgers, Covered(l), Keeps(l, m, SolventFields),
           \A a \in Users : m.acc[a].vesting_shares >= l.acc[a].vesting_shares
    PROVE  Covered(m)
<1> SUFFICES ASSUME NEW a \in Names PROVE Solvent(a, m.acc[a])
  BY DEF Covered
<1>1. PICK x, y : x = l.acc[a] /\ y = m.acc[a]
  OBVIOUS
<1>2. /\ y.delegated_vesting_shares = x.delegated_vesting_shares
      /\ y.vesting_withdraw_rate = x.vesting_withdraw_rate
      /\ y.next_vesting_withdrawal = x.next_vesting_withdrawal
      /\ y.to_withdraw = x.to_withdraw /\ y.withdrawn = x.withdrawn
  BY <1>1 DEF Keeps, SolventFields, WithdrawFields
<1>3. Solvent(a, x)
  BY <1>1 DEF Covered
<1>4. /\ x.vesting_shares \in Nat /\ y.vesting_shares \in Nat
      /\ x.delegated_vesting_shares \in Int /\ x.to_withdraw \in Nat /\ x.withdrawn \in Nat
  BY <1>1, AccountTypes
<1>5. y.vesting_shares - y.delegated_vesting_shares - (y.to_withdraw - y.withdrawn) >= 0
  <2>1. CASE a \in Users
    <3>1. y.vesting_shares >= x.vesting_shares
      BY <1>1, <2>1
    <3>2. x.vesting_shares - x.delegated_vesting_shares - (x.to_withdraw - x.withdrawn) >= 0
      BY <1>3 DEF Solvent
    <3> QED
      BY <1>2, <1>4, <3>1, <3>2
  <2>2. CASE a \notin Users
    <3>1. x.delegated_vesting_shares = 0 /\ x.to_withdraw = 0
      BY <1>3, <2>2 DEF Solvent
    <3> QED
      BY <1>2, <1>4, <3>1
  <2> QED
    BY <2>1, <2>2
<1>6. Solvent(a, y)
  BY <1>2, <1>3, <1>5 DEF Solvent
<1> QED
  BY <1>1, <1>6

LEMMA CoveredSteady ==
    ASSUME NEW l, Formed(l), NEW m, Formed(m), Covered(l), NEW F, SolventFields \subseteq F,
           Keeps(l, m, F), \A a \in Names : m.acc[a].vesting_shares >= l.acc[a].vesting_shares
    PROVE  Covered(m)
<1>1. l \in Ledgers /\ m \in Ledgers
  BY DEF Formed
<1>2. Keeps(l, m, SolventFields)
  BY DEF Keeps
<1>3. \A a \in Users : m.acc[a].vesting_shares >= l.acc[a].vesting_shares
  BY AccountsAssumption
<1> QED
  BY <1>1, <1>2, <1>3, CoveredFrame

LEMMA RewardsCovered ==
    ASSUME NEW l, Formed(l), NEW m, NEW r, NEW d, Rewards(l, m, r, d), Covered(l)
    PROVE  Covered(m)
<1>1. PICK F : F = SteadyFields
  OBVIOUS
<1>2. SolventFields \subseteq F
  BY <1>1 DEF SolventFields, WithdrawFields, SteadyFields
<1>3. Formed(m) /\ Keeps(l, m, F) /\ \A a \in Names : m.acc[a].vesting_shares >= l.acc[a].vesting_shares
  BY <1>1 DEF Rewards, Moves, Shifts
<1> QED
  BY <1>2, <1>3, CoveredSteady

LEMMA TradesCovered ==
    ASSUME NEW l, Formed(l), NEW m, NEW x, NEW y, Trades(l, m, x, y), Covered(l)
    PROVE  Covered(m)
<1>1. PICK F : F = TradeFields
  OBVIOUS
<1>2. SolventFields \subseteq F
  BY <1>1 DEF SolventFields, WithdrawFields, SteadyFields, TradeFields
<1>3. Formed(m) /\ Keeps(l, m, F) /\ \A a \in Names : m.acc[a].vesting_shares >= l.acc[a].vesting_shares
  BY <1>1 DEF Trades, Moves, Shifts
<1> QED
  BY <1>2, <1>3, CoveredSteady

LEMMA DrainsCovered ==
    ASSUME NEW l, Formed(l), NEW m, Drains(l, m), Covered(l)
    PROVE  Covered(m)
<1>1. l \in Ledgers /\ m \in Ledgers
  BY DEF Formed, Drains, Moves, Shifts
<1>2. Keeps(l, m, SolventFields)
  <2>1. SolventFields \subseteq AccountFields \ DrainedFields
    BY DEF SolventFields, WithdrawFields, AccountFields, DrainedFields
  <2> QED
    BY <2>1 DEF Drains, KeepsBut, Keeps
<1>3. \A a \in Users : m.acc[a].vesting_shares >= l.acc[a].vesting_shares
  <2>1. \A a \in Users : a \in Names \ {Null, Anonymous, Treasury}
    BY AccountsAssumption
  <2>2. \A a \in Users : m.acc[a] = l.acc[a]
    BY <2>1 DEF Drains
  <2>3. \A a \in Users : l.acc[a].vesting_shares \in Nat
    BY <1>1, <2>1, AccountTypes
  <2> QED
    BY <2>2, <2>3
<1> QED
  BY <1>1, <1>2, <1>3, CoveredFrame

(* Loans that can be afforded.                                             *)
LEMMA LendsCovered ==
    ASSUME Formed(Current), Covered(Current), NEW a \in Users, NEW b \in Names,
           NEW x, x \in Int, NEW y, Affordable(a, x), Lends(Current, Current', a, x, b, y)
    PROVE  Covered(Current')
<1> SUFFICES ASSUME NEW c \in Names PROVE Solvent(c, Current'.acc[c])
  BY DEF Covered
<1>1. PICK u, v : u = Current.acc[c] /\ v = Current'.acc[c]
  OBVIOUS
<1>2. /\ v.vesting_withdraw_rate = u.vesting_withdraw_rate
      /\ v.next_vesting_withdrawal = u.next_vesting_withdrawal
      /\ v.to_withdraw = u.to_withdraw /\ v.withdrawn = u.withdrawn
  <2>1. WithdrawFields \subseteq SteadyFields \ LoanFields
    BY DEF WithdrawFields, SteadyFields, LoanFields
  <2>2. \A f \in SteadyFields \ LoanFields : v[f] = u[f]
    BY <1>1 DEF Lends, LendsFor, Keeps
  <2> QED
    BY <2>1, <2>2 DEF WithdrawFields
<1>3. /\ v.vesting_shares >= u.vesting_shares
      /\ v.delegated_vesting_shares = u.delegated_vesting_shares + Extra(c, a, x)
  BY <1>1 DEF Lends, LendsFor
<1>4. Solvent(c, u)
  BY <1>1 DEF Covered
<1>5. Current \in Ledgers /\ Current' \in Ledgers
  BY DEF Formed, Lends, LendsFor, Moves, Shifts
<1>6. /\ u.vesting_shares \in Nat /\ v.vesting_shares \in Nat
      /\ u.delegated_vesting_shares \in Int /\ u.to_withdraw \in Nat /\ u.withdrawn \in Nat
  BY <1>1, <1>5, AccountTypes
<1>7. u.vesting_shares - u.delegated_vesting_shares - (u.to_withdraw - u.withdrawn) >= 0
  BY <1>4 DEF Solvent
<1>8. v.vesting_shares - v.delegated_vesting_shares - (v.to_withdraw - v.withdrawn) >= 0
  <2>1. CASE c = a
    <3>1. DelegatableShares(Current, a)
            = u.vesting_shares - u.delegated_vesting_shares - (u.to_withdraw - u.withdrawn)
      BY <1>1, <2>1 DEF DelegatableShares, AvailableShares
    <3>2. v.delegated_vesting_shares = u.delegated_vesting_shares + x
      BY <1>3, <2>1 DEF Extra
    <3> QED
      BY <1>2, <1>3, <1>6, <1>7, <3>1, <3>2 DEF Affordable
  <2>2. CASE c # a
    <3>1. v.delegated_vesting_shares = u.delegated_vesting_shares
      BY <1>3, <1>6, <2>2 DEF Extra
    <3> QED
      BY <1>2, <1>3, <1>6, <1>7, <3>1
  <2> QED
    BY <2>1, <2>2
<1>9. c \notin Users => v.delegated_vesting_shares = 0 /\ v.to_withdraw = 0
  BY <1>2, <1>3, <1>4 DEF Solvent, Extra
<1>10. Solvent(c, v)
  BY <1>2, <1>4, <1>8, <1>9 DEF Solvent
<1> QED
  BY <1>1, <1>10

(* The properties that follow.                                             *)
LEMMA CoveredShares ==
    ASSUME Formed(Current), Covered(Current)
    PROVE  SharesBacked
<1> SUFFICES ASSUME NEW a \in Names PROVE DelegatableShares(Current, a) >= 0
  BY DEF SharesBacked
<1>1. Solvent(a, Current.acc[a])
  BY DEF Covered
<1> QED
  BY <1>1 DEF Solvent, DelegatableShares, AvailableShares

LEMMA CoveredEffective ==
    ASSUME Formed(Current), Covered(Current), LoansBacked
    PROVE  EffectiveNat
<1> SUFFICES ASSUME NEW a \in Names PROVE EffectiveShares(Current, a) \in Nat
  BY DEF EffectiveNat
<1>1. PICK x : x = Current.acc[a]
  OBVIOUS
<1>2. Solvent(a, x)
  BY <1>1 DEF Covered
<1>3. Current \in Ledgers
  BY DEF Formed
<1>4. /\ x.vesting_shares \in Nat /\ x.delegated_vesting_shares \in Int
      /\ x.to_withdraw \in Nat /\ x.withdrawn \in Nat
  BY <1>1, <1>3, AccountTypes
<1>5. x.received_vesting_shares \in Nat
  <2>1. delegations \in [Users -> [Names -> Loan]] /\ acc[a].received_vesting_shares = Borrowed(delegations, a)
    BY LoanBalance
  <2>2. Borrowed(delegations, a) \in Nat
    BY <2>1, LentNat
  <2> QED
    BY <1>1, <2>1, <2>2 DEF Current
<1>6. x.vesting_shares - x.delegated_vesting_shares >= 0
  BY <1>2, <1>4 DEF Solvent
<1>7. EffectiveShares(Current, a) = x.vesting_shares - x.delegated_vesting_shares + x.received_vesting_shares
  BY <1>1 DEF EffectiveShares
<1> QED
  BY <1>4, <1>5, <1>6, <1>7

(* A withdrawal is started, stopped or paid.                               *)
Withdraws(l, m) ==
    /\ Moves(l, m, 0) /\ Keeps(l, m, SteadyFields \ WithdrawFields) /\ Saves(l, m)
    /\ m.ballots = l.ballots
    /\ m.dgp.total_reward_shares = l.dgp.total_reward_shares

LEMMA WithdrawalSet ==
    ASSUME Formed(Current), Covered(Current), NEW a \in Users, acc[a].exists,
           NEW r, NEW t, NEW n, r \in Nat, t \in Nat, n \in Nat,
           t # Never => r > 0, n <= AvailableShares(Current, a),
           Becomes(SetWithdrawal(Current, a, r, t, n, 0))
    PROVE  Withdraws(Current, Current') /\ Covered(Current')
<1>1. PICK l, m : l = Current /\ m = SetWithdrawal(Current, a, r, t, n, 0)
  OBVIOUS
<1>2. Formed(l) /\ l \in Ledgers /\ l.acc[a].exists /\ a \in Names /\ 0 \in Nat
  BY <1>1, AccountsAssumption DEF Formed, Current
<1>3. /\ Moves(l, m, 0) /\ KeepsBut(l, m, WithdrawFields)
      /\ m.dgp = l.dgp /\ m.ballots = l.ballots
      /\ m.acc[a].vesting_withdraw_rate = r /\ m.acc[a].next_vesting_withdrawal = t
      /\ m.acc[a].to_withdraw = n /\ m.acc[a].withdrawn = 0
      /\ \A b \in Names : b # a => m.acc[b] = l.acc[b]
  BY <1>1, <1>2, WithdrawalMoves DEF WithdrawFields
<1>4. Formed(m) /\ m \in Ledgers
  BY <1>3, LedgerOfMoves
<1>5. Current' = m
  BY <1>1, <1>4, BecomesNext
<1>6. Keeps(l, m, SteadyFields \ WithdrawFields)
  <2>1. SteadyFields \ WithdrawFields \subseteq AccountFields \ WithdrawFields
    BY DEF SteadyFields, AccountFields
  <2> QED
    BY <1>3, <2>1 DEF KeepsBut, Keeps
<1>7. \A b \in Names : /\ m.acc[b]["balance"] = l.acc[b]["balance"]
                       /\ m.acc[b]["vesting_shares"] = l.acc[b]["vesting_shares"]
                       /\ m.acc[b]["delegated_vesting_shares"] = l.acc[b]["delegated_vesting_shares"]
  <2>1. {"balance", "vesting_shares", "delegated_vesting_shares"} \subseteq AccountFields \ WithdrawFields
    BY DEF AccountFields, WithdrawFields
  <2> QED
    BY <1>3, <2>1 DEF KeepsBut, Keeps
<1>8. Saves(l, m)
  <2>1. Treasury \in Names
    BY AccountsAssumption
  <2> QED
    BY <1>2, <1>7, <2>1, SavesSame
<1>9. Withdraws(l, m)
  BY <1>3, <1>6, <1>8 DEF Withdraws
<1>10. ASSUME NEW c \in Names PROVE Solvent(c, m.acc[c])
  <2>1. CASE c # a
    <3>1. m.acc[c] = l.acc[c]
      BY <1>3, <2>1
    <3> QED
      BY <1>1, <3>1 DEF Covered
  <2>2. CASE c = a
    <3>1. PICK u, v : u = l.acc[a] /\ v = m.acc[a]
      OBVIOUS
    <3>2. u.vesting_shares \in Nat /\ u.delegated_vesting_shares \in Int
      BY <1>2, <3>1, AccountTypes
    <3>3. v.vesting_shares = u.vesting_shares /\ v.delegated_vesting_shares = u.delegated_vesting_shares
      BY <1>2, <1>7, <3>1
    <3>4. n <= u.vesting_shares - u.delegated_vesting_shares
      BY <1>1, <3>1 DEF AvailableShares
    <3>5. /\ v.vesting_withdraw_rate = r /\ v.next_vesting_withdrawal = t
          /\ v.to_withdraw = n /\ v.withdrawn = 0
      BY <1>3, <3>1
    <3>6. v.vesting_shares - v.delegated_vesting_shares - (v.to_withdraw - v.withdrawn) >= 0
      BY <3>2, <3>3, <3>4, <3>5
    <3>7. \E k \in Nat : 0 = k * r
      <4>1. 0 \in Nat /\ 0 = 0 * r
        OBVIOUS
      <4> QED
        BY <4>1
    <3>8. Solvent(a, v)
      BY <3>5, <3>6, <3>7 DEF Solvent
    <3> QED
      BY <2>2, <3>1, <3>8
  <2> QED
    BY <2>1, <2>2
<1> QED
  BY <1>1, <1>5, <1>9, <1>10 DEF Covered

LEMMA WithdrawVestingStep ==
    ASSUME Formed(Current), Covered(Current), now \in Nat, NEW a \in Users,
           NEW n, n \in Nat, WithdrawVesting(a, n)
    PROVE  Withdraws(Current, Current') /\ Covered(Current')
<1>1. PICK s : s = AvailableShares(Current, a)
  OBVIOUS
<1>2. s \in Int
  <2>1. Current \in Ledgers /\ a \in Names
    BY AccountsAssumption DEF Formed
  <2>2. Current.acc[a].vesting_shares \in Nat /\ Current.acc[a].delegated_vesting_shares \in Int
    BY <2>1, AccountTypes
  <2> QED
    BY <1>1, <2>2 DEF AvailableShares
<1>3. acc[a].exists /\ s >= n
  BY <1>1 DEF WithdrawVesting
<1>4. n <= s
  BY <1>2, <1>3
<1>5. CASE n = 0
  <2>1. Becomes(SetWithdrawal(Current, a, 0, Never, 0, 0))
    BY <1>5 DEF WithdrawVesting, SetWithdrawal
  <2>2. 0 \in Nat /\ Never \in Nat /\ (Never # Never => 0 > 0) /\ 0 <= s
    BY <1>4, <1>5, AccountsAssumption
  <2> QED
    BY <1>1, <1>3, <2>1, <2>2, WithdrawalSet
<1>6. CASE n # 0
  <2>1. PICK r : r = Max({s \div WithdrawIntervals, 1})
    OBVIOUS
  <2>2. r \in Nat /\ r > 0
    <3>1. s \div WithdrawIntervals \in Int /\ 1 \in Int
      BY <1>2, VestingAssumption
    <3>2. r = IF s \div WithdrawIntervals >= 1 THEN s \div WithdrawIntervals ELSE 1
      BY <2>1, <3>1, MaxOfTwo
    <3> QED
      BY <3>1, <3>2
  <2>3. PICK t : t = now + WithdrawInterval
    OBVIOUS
  <2>4. t \in Nat
    BY <2>3, VestingAssumption
  <2>5. Becomes(SetWithdrawal(Current, a, r, t, n, 0))
    BY <1>1, <1>6, <2>1, <2>3, Zenon DEF WithdrawVesting, SetWithdrawal
  <2> QED
    BY <1>1, <1>3, <1>4, <2>2, <2>4, <2>5, WithdrawalSet
<1> QED
  BY <1>5, <1>6

----------------------------------------------------------------------------
(* Routes of withdrawals.                                                  *)

Route == [percent : 0..Full, auto_vest : BOOLEAN]

RoutesBacked ==
    /\ routes \in [Users -> [Names -> Route]]
    /\ \A a \in Users : RoutedPercent(routes, a) <= Full
    /\ \A a \in Users, b \in Names : routes[a][b] # NoRoute => acc[b].exists

LEMMA RoutesFrame ==
    ASSUME RoutesBacked, UNCHANGED routes, Grows(Current, Current')
    PROVE  RoutesBacked'
<1>1. \A b \in Names : acc[b].exists => acc'[b].exists
  BY DEF Grows, Current
<1>2. \A a \in Users : RoutesFrom(routes, a)' = RoutesFrom(routes, a)
  BY DEF RoutesFrom
<1>3. \A a \in Users : RoutedPercent(routes, a)' = RoutedPercent(routes, a)
  BY DEF RoutedPercent, RoutesFrom
<1> QED
  BY <1>1, <1>3 DEF RoutesBacked

LEMMA SetRouteStep ==
    ASSUME RoutesBacked, NEW a \in Users, NEW b \in Names, NEW p, p \in 0..Full,
           NEW auto \in BOOLEAN, SetWithdrawVestingRoute(a, b, p, auto)
    PROVE  RoutesBacked' /\ UNCHANGED accountVars
<1>1. PICK x, s : /\ x = IF p = 0 THEN NoRoute ELSE [percent |-> p, auto_vest |-> auto]
                  /\ s = [routes EXCEPT ![a][b] =
                              IF p = 0 THEN NoRoute ELSE [percent |-> p, auto_vest |-> auto]]
                  /\ s = [routes EXCEPT ![a][b] = x]
  OBVIOUS
<1>2a. routes' = s
  BY <1>1, Zenon DEF SetWithdrawVestingRoute
<1>2b. acc[b].exists /\ UNCHANGED accountVars
  BY Zenon DEF SetWithdrawVestingRoute
<1>2c. RoutedPercent(s, a) <= Full
  BY <1>1, Zenon DEF SetWithdrawVestingRoute
<1>2. /\ acc[b].exists /\ routes' = s /\ UNCHANGED accountVars
      /\ RoutedPercent(s, a) <= Full
  BY <1>2a, <1>2b, <1>2c
<1>3. x \in Route
  <2>1. Full \in Nat
    BY AccountsAssumption
  <2> QED
    BY <1>1, <2>1 DEF Route, NoRoute
<1>4. routes \in [Users -> [Names -> Route]]
  BY DEF RoutesBacked
<1>5. s \in [Users -> [Names -> Route]]
  BY <1>1, <1>3, <1>4
<1>6. /\ \A c \in Users : c # a => s[c] = routes[c]
      /\ \A c \in Names : c # b => s[a][c] = routes[a][c]
  BY <1>1, <1>4
<1>7. RoutedPercent(s, a) <= Full
  BY <1>2 DEF RoutedPercent
<1>8. ASSUME NEW c \in Users, c # a PROVE RoutedPercent(s, c) <= Full
  <2>1. s[c] = routes[c]
    BY <1>6, <1>8
  <2>2. RoutesFrom(s, c) = RoutesFrom(routes, c)
    BY <2>1 DEF RoutesFrom
  <2>3. RoutedPercent(routes, c) <= Full
    BY DEF RoutesBacked
  <2> QED
    BY <2>1, <2>2, <2>3 DEF RoutedPercent
<1>9. \A c \in Users : RoutedPercent(s, c) <= Full
  BY <1>7, <1>8
<1>10. \A c \in Users, d \in Names : s[c][d] # NoRoute => acc[d].exists
  BY <1>2, <1>6 DEF RoutesBacked
<1>11. acc' = acc
  BY <1>2 DEF accountVars
<1>12. \A c \in Users : RoutedPercent(routes, c)' = RoutedPercent(s, c)
  BY <1>2 DEF RoutedPercent, RoutesFrom
<1> QED
  BY <1>2, <1>5, <1>9, <1>10, <1>11, <1>12 DEF RoutesBacked

----------------------------------------------------------------------------
(* Payments of withdrawals.                                                *)

LEMMA RouteTypes ==
    ASSUME RoutesBacked, NEW a \in Users, NEW b \in Names, NEW n, n \in Nat
    PROVE  routes[a][b].percent \in Nat /\ RoutePart(a, b, n) \in Nat
<1>1. Full \in Nat \ {0}
  BY AccountsAssumption
<1>2. routes[a][b] \in Route
  BY DEF RoutesBacked
<1>3. routes[a][b].percent \in 0..Full
  BY <1>2 DEF Route
<1>4. PICK p : p = routes[a][b].percent
  OBVIOUS
<1>5. p \in Nat
  BY <1>1, <1>3, <1>4
<1>6. n * p \in Nat
  BY <1>5
<1>7. (n * p) \div Full \in Nat
  BY <1>1, <1>6, Quotient
<1> QED
  BY <1>4, <1>5, <1>7 DEF RoutePart

LEMMA RouteSets ==
    ASSUME NEW a \in Users
    PROVE  /\ VestedRoutes(a) \subseteq Names /\ PaidRoutes(a) \subseteq Names
           /\ RoutesFrom(routes, a) \subseteq Names
           /\ VestedRoutes(a) \subseteq RoutesFrom(routes, a)
           /\ PaidRoutes(a) = RoutesFrom(routes, a) \ VestedRoutes(a)
           /\ IsFiniteSet(VestedRoutes(a)) /\ IsFiniteSet(PaidRoutes(a))
           /\ IsFiniteSet(RoutesFrom(routes, a))
           /\ \A b \in RoutesFrom(routes, a) : routes[a][b] # NoRoute
<1>1. RoutesFrom(routes, a) \subseteq Names /\ \A b \in RoutesFrom(routes, a) : routes[a][b] # NoRoute
  BY DEF RoutesFrom
<1>2. VestedRoutes(a) \subseteq RoutesFrom(routes, a)
  BY DEF VestedRoutes
<1>3. PaidRoutes(a) = RoutesFrom(routes, a) \ VestedRoutes(a)
  BY DEF PaidRoutes
<1>4. IsFiniteSet(Names)
  BY AccountsAssumption
<1>5. \A S : S \subseteq Names => IsFiniteSet(S)
  BY <1>4, FS_Subset
<1> QED
  BY <1>1, <1>2, <1>3, <1>5

(* The parts of a set of routes, as the sum of one function.               *)
PartOf(a, n) == [b \in Names |-> RoutePart(a, b, n)]

LEMMA RoutePartsSum ==
    ASSUME RoutesBacked, NEW a \in Users, NEW n, n \in Nat, NEW S, S \subseteq Names,
           NEW q, q = PartOf(a, n)
    PROVE  /\ RouteParts(a, S, n) = SumFunctionOnSet(q, S)
           /\ RouteParts(a, S, n) \in Nat
           /\ \A b \in Names : q[b] \in Nat /\ q[b] \in Int /\ q[b] = RoutePart(a, b, n)
<1>1. \A b \in Names : q[b] \in Nat /\ q[b] \in Int /\ q[b] = RoutePart(a, b, n)
  BY RouteTypes DEF PartOf
<1>2. PICK f : f = [b \in S |-> RoutePart(a, b, n)]
  OBVIOUS
<1>3. IsFiniteSet(S)
  BY AccountsAssumption, FS_Subset
<1>4. \A b \in S : f[b] \in Int /\ f[b] = q[b]
  BY <1>1, <1>2
<1>5. SumFunctionOnSet(f, S) = SumFunctionOnSet(q, S)
  BY <1>3, <1>4, SumSame
<1>6. RouteParts(a, S, n) = SumFunctionOnSet(f, S)
  BY <1>2 DEF RouteParts, SumFunction
<1>7. \A b \in S : q[b] \in Nat
  BY <1>1
<1>8. SumFunctionOnSet(q, S) \in Nat
  BY <1>3, <1>7, SumNat
<1> QED
  BY <1>1, <1>5, <1>6, <1>8

(* The routes take no more than there is.                                  *)
LEMMA RoutesWithin ==
    ASSUME RoutesBacked, NEW a \in Users, NEW n, n \in Nat
    PROVE  /\ RouteParts(a, VestedRoutes(a), n) \in Nat
           /\ RouteParts(a, PaidRoutes(a), n) \in Nat
           /\ RouteParts(a, VestedRoutes(a), n) + RouteParts(a, PaidRoutes(a), n) <= n
<1>1. PICK R, V, P, q : /\ R = RoutesFrom(routes, a) /\ V = VestedRoutes(a) /\ P = PaidRoutes(a)
                        /\ q = PartOf(a, n)
  OBVIOUS
<1>2. /\ R \subseteq Names /\ V \subseteq Names /\ P \subseteq Names /\ V \subseteq R
      /\ P = R \ V /\ IsFiniteSet(R)
  BY <1>1, RouteSets
<1>3. /\ \A b \in Names : q[b] \in Nat /\ q[b] \in Int /\ q[b] = RoutePart(a, b, n)
      /\ RouteParts(a, V, n) = SumFunctionOnSet(q, V) /\ RouteParts(a, V, n) \in Nat
      /\ RouteParts(a, P, n) = SumFunctionOnSet(q, P) /\ RouteParts(a, P, n) \in Nat
  BY <1>1, <1>2, RoutePartsSum
<1>4. SumFunctionOnSet(q, R) = SumFunctionOnSet(q, V) + SumFunctionOnSet(q, P)
  BY <1>2, <1>3, SumSplit
<1>5. PICK w, f : /\ w = [b \in R |-> routes[a][b].percent]
                  /\ f = [b \in R |-> RoutePart(a, b, n)]
  OBVIOUS
<1>6. w \in [R -> Nat] /\ f \in [R -> Nat]
  BY <1>2, <1>5, RouteTypes
<1>7. \A b \in R : f[b] = (n * w[b]) \div Full
  BY <1>5 DEF RoutePart
<1>8. SumFunction(w) <= Full
  BY <1>1, <1>5 DEF RoutesBacked, RoutedPercent
<1>9. Full \in Nat \ {0}
  BY AccountsAssumption
<1>10. SumFunction(f) <= n
  BY <1>2, <1>6, <1>7, <1>8, <1>9, PartsOfWhole
<1>11. SumFunction(f) = SumFunctionOnSet(f, R)
  BY <1>5 DEF SumFunction
<1>12. \A b \in R : f[b] \in Int /\ f[b] = q[b]
  BY <1>2, <1>3, <1>5
<1>13. SumFunctionOnSet(f, R) = SumFunctionOnSet(q, R)
  BY <1>2, <1>12, SumSame
<1> QED
  BY <1>1, <1>3, <1>4, <1>10, <1>11, <1>13

(* Shares are deposited: p of them are counted twice until they are taken  *)
(* from their owner, t are counted no more although their owner has them.  *)
Stores(l, m, p, t) ==
    /\ Formed(m) /\ Grows(l, m)
    /\ Gap(m) = Gap(l) - p - t /\ Surplus(m) = Surplus(l)
    /\ m.dgp.total_vesting_shares = l.dgp.total_vesting_shares - t
    /\ m.dgp.total_reward_shares = l.dgp.total_reward_shares
    /\ m.ballots = l.ballots /\ Saves(l, m) /\ Keeps(l, m, SteadyFields)
    /\ \A a \in Names : m.acc[a].vesting_shares >= l.acc[a].vesting_shares

(* The proxies are told of the shares.                                     *)
Deposits(l, m, p, t) == Stores(l, m, p, t) /\ Carries(l, m)

LEMMA StoresTransitive ==
    ASSUME NEW l, Formed(l), NEW m, NEW n, NEW p, p \in Int, NEW t, t \in Int,
           NEW q, q \in Int, NEW u, u \in Int, Stores(l, m, p, t), Stores(m, n, q, u)
    PROVE  Stores(l, n, p + q, t + u)
<1>1. l \in Ledgers /\ m \in Ledgers /\ n \in Ledgers
  BY DEF Formed, Stores
<1>2. Formed(n) /\ Grows(l, n) /\ Keeps(l, n, SteadyFields) /\ n.ballots = l.ballots
      /\ n.dgp.total_reward_shares = l.dgp.total_reward_shares
  BY DEF Stores, Grows, Keeps
<1>3. Gap(l) \in Int /\ Surplus(n) = Surplus(l) /\ l.dgp.total_vesting_shares \in Int
  BY <1>1, SumTypes, TotalTypes DEF Stores
<1>4. Gap(n) = Gap(l) - (p + q) - (t + u)
      /\ n.dgp.total_vesting_shares = l.dgp.total_vesting_shares - (t + u)
  BY <1>3 DEF Stores
<1>5. Treasury \in Names
  BY AccountsAssumption
<1>6. l.acc[Treasury].balance \in Int /\ m.acc[Treasury].balance \in Int /\ n.acc[Treasury].balance \in Int
  BY <1>1, <1>5, AccountTypes
<1>7. Saves(l, n)
  BY <1>6 DEF Stores, Saves
<1>8. ASSUME NEW a \in Names PROVE n.acc[a].vesting_shares >= l.acc[a].vesting_shares
  <2>1. l.acc[a].vesting_shares \in Nat /\ m.acc[a].vesting_shares \in Nat /\ n.acc[a].vesting_shares \in Nat
    BY <1>1, AccountTypes
  <2>2. n.acc[a].vesting_shares >= m.acc[a].vesting_shares /\ m.acc[a].vesting_shares >= l.acc[a].vesting_shares
    BY DEF Stores
  <2> QED
    BY <2>1, <2>2
<1> QED
  BY <1>2, <1>3, <1>4, <1>7, <1>8 DEF Stores

LEMMA DepositsTransitive ==
    ASSUME NEW l, Formed(l), NEW m, NEW n, NEW p, p \in Int, NEW t, t \in Int,
           NEW q, q \in Int, NEW u, u \in Int, Deposits(l, m, p, t), Deposits(m, n, q, u)
    PROVE  Deposits(l, n, p + q, t + u)
BY StoresTransitive, CarriesTransitive DEF Deposits

LEMMA BooksStores ==
    ASSUME NEW l, Formed(l), NEW m, Books(l, m, 0), m.dgp = l.dgp
    PROVE  Stores(l, m, 0, 0)
<1>1. /\ Shifts(l, m, 0) /\ Keeps(l, m, SteadyFields)
      /\ m.ballots = l.ballots /\ Saves(l, m)
      /\ m.dgp.total_reward_shares = l.dgp.total_reward_shares
      /\ \A a \in Names : m.acc[a].vesting_shares >= l.acc[a].vesting_shares
  BY BooksShifts
<1>2. Gap(l) \in Int /\ Surplus(l) \in Int /\ l.dgp.total_vesting_shares \in Int
  BY SumTypes, TotalTypes DEF Formed
<1>3. Formed(m) /\ Grows(l, m) /\ Gap(m) = Gap(l) /\ Surplus(m) = Surplus(l) + 0
  BY <1>1 DEF Shifts
<1>4. Gap(m) = Gap(l) - 0 - 0 /\ Surplus(m) = Surplus(l)
      /\ m.dgp.total_vesting_shares = l.dgp.total_vesting_shares - 0
  BY <1>2, <1>3
<1> QED
  BY <1>1, <1>3, <1>4 DEF Stores

LEMMA PaysDeposits ==
    ASSUME NEW l, Formed(l), NEW m, Pays(l, m, 0), m.dgp = l.dgp
    PROVE  Deposits(l, m, 0, 0)
BY BooksStores DEF Pays, Deposits

LEMMA DepositsReflexive ==
    ASSUME NEW l, Formed(l)
    PROVE  Deposits(l, l, 0, 0)
BY PaysNothing, PaysDeposits

LEMMA DepositSharesStep ==
    ASSUME NEW l, Formed(l), NEW b \in Names, l.acc[b].exists, NEW s, s \in Nat,
           NEW m, m = AdjustStakeVotes([l EXCEPT !.acc[b].vesting_shares = @ + s], b, s)
    PROVE  Deposits(l, m, s, 0)
<1>0. l \in Ledgers
  BY DEF Formed
<1>1. PICK x, t, k : x = l.acc[b] /\ t = l.dgp /\ k = x.vesting_shares + s
  OBVIOUS
<1>2. x \in Account /\ x.vesting_shares \in Nat /\ x.balance \in Int /\ x.reserved_balance \in Int
  BY <1>0, <1>1, AccountTypes
<1>3. /\ t \in Totals /\ t.total_vesting_fund \in Nat /\ t.total_vesting_shares \in Nat
      /\ Purse(t) \in Int
  BY <1>0, <1>1, TotalTypes DEF Purse
<1>4. k \in Nat
  BY <1>1, <1>2
<1>5. PICK y, q : y = WithShares(x, k) /\ q = Reshape(l, b, y, t)
  OBVIOUS
<1>6. y \in Account /\ y.vesting_shares = k /\ \A f \in AccountFields \ {"vesting_shares"} : y[f] = x[f]
  BY <1>2, <1>4, <1>5, SharesReplaced
<1>7. /\ y.balance = x.balance /\ y.reserved_balance = x.reserved_balance
      /\ y.exists = x.exists /\ y.proxy = x.proxy
      /\ y.proxied_vsf_votes = x.proxied_vsf_votes /\ \A f \in SteadyFields : y[f] = x[f]
  BY <1>6 DEF AccountFields, SteadyFields
<1>8. Reshapes(l, b, y, t)
  BY <1>1, <1>3, <1>6, <1>7 DEF Reshapes, Formed, Priced
<1>9. ReshapedSums(l, q, b, y, t)
  BY <1>5, <1>8, ReshapeForms
<1>10. /\ Formed(q) /\ Grows(l, q)
       /\ q.dgp = t /\ q.ballots = l.ballots
       /\ q.acc[b] = y /\ \A c \in Names : c # b => q.acc[c] = l.acc[c]
  BY <1>9 DEF ReshapedSums
<1>11. Gap(l) \in Int /\ Surplus(l) \in Int
  BY <1>0, SumTypes
<1>12. Gap(q) = Gap(l) - s - 0
  <2>1. Gap(q) = Gap(l) + (x.vesting_shares - y.vesting_shares)
                    + (t.total_vesting_shares - t.total_vesting_shares)
    BY <1>1, <1>9 DEF ReshapedSums
  <2> QED
    BY <1>1, <1>2, <1>3, <1>6, <1>11, <2>1
<1>13. Surplus(q) = Surplus(l)
  <2>1. Surplus(q) = Surplus(l)
          + ((y.balance + y.reserved_balance) - (x.balance + x.reserved_balance))
          + (t.total_vesting_fund - t.total_vesting_fund) + (Purse(t) - Purse(t))
    BY <1>1, <1>9 DEF ReshapedSums
  <2> QED
    BY <1>2, <1>3, <1>7, <1>11, <2>1
<1>14. Keeps(l, q, SteadyFields)
  BY <1>1, <1>7, <1>10 DEF Keeps
<1>15. ASSUME NEW c \in Names PROVE q.acc[c].vesting_shares >= l.acc[c].vesting_shares
  <2>1. l.acc[c].vesting_shares \in Nat
    BY <1>0, AccountTypes
  <2> QED
    BY <1>1, <1>2, <1>6, <1>10, <2>1
<1>16. Saves(l, q)
  BY <1>0, <1>1, <1>7, <1>10, SavesSame, AccountsAssumption
<1>17. Stores(l, q, s, 0)
  <2>1. q.dgp.total_vesting_shares = l.dgp.total_vesting_shares - 0
        /\ q.dgp.total_reward_shares = l.dgp.total_reward_shares
    BY <1>1, <1>3, <1>10
  <2> QED
    BY <1>10, <1>12, <1>13, <1>14, <1>15, <1>16, <2>1 DEF Stores
<1>18. q = [l EXCEPT !.acc[b].vesting_shares = @ + s]
  BY <1>0, <1>1, <1>5 DEF Reshape, SetAccount, SetTotals, WithShares, Ledgers
<1>19. VotesOnly(q, m)
  <2>1. q.acc[b].exists /\ Linked(q) /\ q \in Ledgers /\ s \in Int
    BY <1>1, <1>7, <1>10 DEF Formed
  <2> QED
    BY <1>18, <2>1, AdjustStakeVotesOnly
<1>20. Books(q, m, 0) /\ m.dgp = q.dgp
  BY <1>10, <1>19, VotesOnlyBooks DEF VotesOnly
<1>21. Stores(q, m, 0, 0)
  BY <1>10, <1>20, BooksStores
<1>22. s \in Int /\ 0 \in Int
  OBVIOUS
<1>23. Stores(l, m, s + 0, 0 + 0)
  BY <1>17, <1>21, <1>22, StoresTransitive
<1>24. SameProxies(l, q) /\ SameProxied(l, q)
  BY <1>1, <1>7, <1>10 DEF SameProxies, SameProxied
<1>25. ASSUME Proxied(l) PROVE Proxied(m)
  <2>1. q \in Ledgers /\ Linked(q) /\ q.acc[b].exists /\ s \in Int
    BY <1>1, <1>7, <1>10 DEF Formed
  <2>2. \A c \in Names \ {b} : q.acc[c].vesting_shares = l.acc[c].vesting_shares
    BY <1>10
  <2>3. q.acc[b].vesting_shares = l.acc[b].vesting_shares + s
    BY <1>1, <1>6, <1>10
  <2> QED
    BY <1>0, <1>18, <1>24, <1>25, <2>1, <2>2, <2>3, SharesReported
<1> QED
  BY <1>22, <1>23, <1>25 DEF Deposits, Carries

(* Shares of an account become tokens of it.                               *)
Cashes(l, m, a, y, n) ==
    /\ Formed(m) /\ Grows(l, m)
    /\ Gap(m) = Gap(l) + (l.acc[a].vesting_shares - y.vesting_shares) - n
    /\ Surplus(m) = Surplus(l)
    /\ m.dgp.total_vesting_shares = l.dgp.total_vesting_shares - n
    /\ m.dgp.total_reward_shares = l.dgp.total_reward_shares
    /\ m.ballots = l.ballots /\ Saves(l, m)
    /\ m.acc[a] = y /\ \A b \in Names : b # a => m.acc[b] = l.acc[b]

Cashed(l, a, y, n) ==
    Reshape(l, a, y, WithStake(l.dgp, l.dgp.total_vesting_fund - ToTokens(l, n),
                               l.dgp.total_vesting_shares - n))

LEMMA CashedForms ==
    ASSUME NEW l, Formed(l), NEW a \in Names, l.acc[a].exists, NEW n, n \in Nat,
           n <= l.dgp.total_vesting_shares, NEW y \in Account, y.exists,
           y.proxy = l.acc[a].proxy, y.reserved_balance = l.acc[a].reserved_balance,
           y.balance = l.acc[a].balance + ToTokens(l, n),
           NEW m, m = Cashed(l, a, y, n)
    PROVE  Cashes(l, m, a, y, n)
<1>0. l \in Ledgers /\ Priced(l)
  BY DEF Formed
<1>1. PICK x, t, k : x = l.acc[a] /\ t = l.dgp /\ k = ToTokens(l, n)
  OBVIOUS
<1>2. x.vesting_shares \in Nat /\ x.balance \in Int /\ x.reserved_balance \in Int
      /\ y.vesting_shares \in Nat
  <2>1. y.vesting_shares \in Nat
    BY DEF Account
  <2> QED
    BY <1>0, <1>1, <2>1, AccountTypes
<1>3. /\ t \in Totals /\ t.total_vesting_fund \in Nat /\ t.total_vesting_shares \in Nat
      /\ Purse(t) \in Int
  BY <1>0, <1>1, TotalTypes DEF Purse
<1>4. /\ k \in Nat /\ k <= t.total_vesting_fund
      /\ t.total_vesting_fund - k = 0 <=> t.total_vesting_shares - n = 0
  BY <1>0, <1>1, ToTokensNat
<1>5. PICK f, s : f = t.total_vesting_fund - k /\ s = t.total_vesting_shares - n
  OBVIOUS
<1>6. f \in Nat /\ s \in Nat
  BY <1>1, <1>3, <1>4, <1>5
<1>7. PICK u : u = WithStake(t, f, s)
  OBVIOUS
<1>8. /\ u \in Totals /\ u.total_vesting_fund = f /\ u.total_vesting_shares = s
      /\ u.current_supply = t.current_supply
      /\ u.total_reward_fund = t.total_reward_fund
      /\ u.total_reward_shares = t.total_reward_shares
      /\ u.committee_fund = t.committee_fund
  BY <1>3, <1>6, <1>7, StakeReplaced
<1>9. Purse(u) = Purse(t)
  BY <1>8 DEF Purse
<1>10. m = Reshape(l, a, y, u)
  BY <1>1, <1>5, <1>7 DEF Cashed
<1>11. Reshapes(l, a, y, u)
  BY <1>4, <1>5, <1>8 DEF Reshapes
<1>12. ReshapedSums(l, m, a, y, u)
  BY <1>10, <1>11, ReshapeForms
<1>13. /\ Formed(m) /\ Grows(l, m)
       /\ m.dgp = u /\ m.ballots = l.ballots
       /\ m.acc[a] = y /\ \A c \in Names : c # a => m.acc[c] = l.acc[c]
  BY <1>12 DEF ReshapedSums
<1>14. Gap(l) \in Int /\ Surplus(l) \in Int
  BY <1>0, SumTypes
<1>15. Gap(m) = Gap(l) + (x.vesting_shares - y.vesting_shares) - n
  <2>1. Gap(m) = Gap(l) + (x.vesting_shares - y.vesting_shares) + (s - t.total_vesting_shares)
    BY <1>1, <1>8, <1>12 DEF ReshapedSums
  <2> QED
    BY <1>2, <1>3, <1>5, <1>14, <2>1
<1>16. Surplus(m) = Surplus(l)
  <2>1. Surplus(m) = Surplus(l)
          + ((y.balance + y.reserved_balance) - (x.balance + x.reserved_balance))
          + (f - t.total_vesting_fund) + (Purse(t) - Purse(t))
    BY <1>1, <1>8, <1>9, <1>12 DEF ReshapedSums
  <2>2. y.balance = x.balance + k /\ y.reserved_balance = x.reserved_balance
    BY <1>1
  <2> QED
    BY <1>2, <1>3, <1>4, <1>5, <1>14, <2>1, <2>2
<1>17. Saves(l, m)
  <2>1. Treasury \in Names
    BY AccountsAssumption
  <2>2. l.acc[Treasury].balance \in Int
    BY <1>0, <2>1, AccountTypes
  <2> QED
    BY <1>1, <1>4, <1>13, <2>1, <2>2 DEF Saves
<1> QED
  BY <1>1, <1>5, <1>8, <1>13, <1>15, <1>16, <1>17 DEF Cashes

Redeem(l, b, k, s) ==
    [l EXCEPT !.acc[b].balance = @ + k, !.dgp.total_vesting_fund = @ - k,
              !.dgp.total_vesting_shares = @ - s]

LEMMA DepositTokensStep ==
    ASSUME NEW l, Formed(l), NEW b \in Names, l.acc[b].exists, NEW s, s \in Nat,
           s <= l.dgp.total_vesting_shares, NEW k, k = ToTokens(l, s),
           NEW m, m = Redeem(l, b, k, s)
    PROVE  Deposits(l, m, 0, s)
<1>0. l \in Ledgers /\ Priced(l)
  BY DEF Formed
<1>1. PICK x, n, y : x = l.acc[b] /\ n = x.balance + k /\ y = WithBalance(x, n)
  OBVIOUS
<1>2. x \in Account /\ x.balance \in Int /\ x.vesting_shares \in Nat
  BY <1>0, <1>1, AccountTypes
<1>3. k \in Nat
  BY <1>0, ToTokensNat
<1>4. n \in Int
  BY <1>1, <1>2, <1>3
<1>5a. y = WithBalance(x, n)
  BY <1>1
<1>5. y \in Account /\ y.balance = n /\ \A f \in AccountFields \ {"balance"} : y[f] = x[f]
  BY <1>2, <1>4, <1>5a, BalanceReplaced
<1>6. /\ y.reserved_balance = x.reserved_balance /\ y.vesting_shares = x.vesting_shares
      /\ y.exists = x.exists /\ y.proxy = x.proxy
      /\ y.proxied_vsf_votes = x.proxied_vsf_votes /\ \A f \in SteadyFields : y[f] = x[f]
  BY <1>5 DEF AccountFields, SteadyFields
<1>7. m = Cashed(l, b, y, s)
  BY <1>0, <1>1 DEF Redeem, Cashed, Reshape, SetAccount, SetTotals, WithBalance, WithStake, Ledgers
<1>8. Cashes(l, m, b, y, s)
  <2>1. /\ y.exists /\ y.proxy = l.acc[b].proxy /\ y.reserved_balance = l.acc[b].reserved_balance
        /\ y.balance = l.acc[b].balance + ToTokens(l, s)
    BY <1>1, <1>5, <1>6
  <2> QED
    BY <1>5, <1>7, <2>1, CashedForms
<1>9. Gap(l) \in Int
  BY <1>0, SumTypes
<1>10. Gap(m) = Gap(l) - 0 - s
  <2>1. Gap(m) = Gap(l) + (x.vesting_shares - x.vesting_shares) - s
    BY <1>1, <1>6, <1>8 DEF Cashes
  <2> QED
    BY <1>2, <1>9, <2>1
<1>11. Keeps(l, m, SteadyFields)
  BY <1>1, <1>6, <1>8 DEF Cashes, Keeps
<1>12. ASSUME NEW c \in Names PROVE m.acc[c].vesting_shares >= l.acc[c].vesting_shares
  <2>1. l.acc[c].vesting_shares \in Nat /\ m.acc[c].vesting_shares = l.acc[c].vesting_shares
    BY <1>0, <1>1, <1>6, <1>8, AccountTypes DEF Cashes
  <2> QED
    BY <2>1
<1>13. SameStakes(l, m)
  BY <1>1, <1>6, <1>8 DEF Cashes, SameStakes
<1>14. Carries(l, m)
  BY <1>0, <1>8, <1>13, SameCarries DEF Cashes, Formed
<1> QED
  BY <1>8, <1>10, <1>11, <1>12, <1>14 DEF Cashes, Deposits, Stores

(* The deposits of the routes to shares.                                   *)
Vesting(a, n, base, S) ==
    FoldSet(LAMBDA b, l : DepositShares(l, a, b, n), base, S)

IsVesting(g, a, n, base, S) ==
    g = [s \in SUBSET S |-> IF s = {} THEN base
                            ELSE LET x == CHOOSE x \in s : TRUE
                                 IN  DepositShares(g[s \ {x}], a, x, n)]

LEMMA VestingDef ==
    ASSUME NEW a, NEW n, NEW base, NEW S
    PROVE  Vesting(a, n, base, S) = (CHOOSE g : IsVesting(g, a, n, base, S))[S]
BY DEF Vesting, FoldSet, MapThenFoldSet, IsVesting

LEMMA VestingReaches ==
    ASSUME NEW a, NEW n, NEW base, NEW S, IsFiniteSet(S),
           NEW R, R \subseteq (SUBSET S) \X Ledgers, <<{}, base>> \in R,
           \A s \in SUBSET S : \A x \in S \ s : \A l \in Ledgers :
               <<s, l>> \in R => <<s \cup {x}, DepositShares(l, a, x, n)>> \in R
    PROVE  <<S, Vesting(a, n, base, S)>> \in R
<1>1. PICK f : f = [p \in S \X Ledgers |-> DepositShares(p[2], a, p[1], n)]
  OBVIOUS
<1>2. \A x \in S, l \in Ledgers : f[x, l] = DepositShares(l, a, x, n)
  BY <1>1
<1>3. Kept(R, f, S, Ledgers)
  BY <1>2 DEF Kept
<1>4. PICK g : IsFold(g, f, base, S)
  BY FoldExists
<1>5. Follows(g, f, base, S, Ledgers)
  BY <1>4, FoldFollows
<1>6. \A s \in SUBSET S : <<s, g[s]>> \in R
  BY <1>3, <1>5, FoldReaches
<1>7. \A s \in SUBSET S : g[s] \in Ledgers
  BY <1>6
<1>8. ASSUME NEW s \in SUBSET S, s # {}
      PROVE  f[CHOOSE x \in s : TRUE, g[s \ {CHOOSE x \in s : TRUE}]]
                = LET x == CHOOSE x \in s : TRUE
                  IN  DepositShares(g[s \ {x}], a, x, n)
  <2>1. PICK y : y = CHOOSE x \in s : TRUE
    OBVIOUS
  <2>2. y \in s
    BY <1>8, <2>1
  <2>3. y \in S /\ s \ {y} \in SUBSET S
    BY <2>2
  <2>4. f[y, g[s \ {y}]] = DepositShares(g[s \ {y}], a, y, n)
    BY <1>2, <1>7, <2>3
  <2> QED
    BY <2>1, <2>4
<1>9. IsVesting(g, a, n, base, S)
  BY <1>4, <1>8 DEF IsFold, IsVesting
<1>10. PICK h : h = CHOOSE e : IsVesting(e, a, n, base, S)
  OBVIOUS
<1>11. IsVesting(h, a, n, base, S)
  BY <1>9, <1>10
<1>12. h[{}] = base
  BY <1>11 DEF IsVesting
<1>13. ASSUME NEW s \in SUBSET S, s # {}
       PROVE  \E x \in s : h[s \ {x}] \in Ledgers => h[s] = f[x, h[s \ {x}]]
  <2>1. PICK y : y = CHOOSE x \in s : TRUE
    OBVIOUS
  <2>2. y \in s /\ y \in S
    BY <1>13, <2>1
  <2>3. h[s] = DepositShares(h[s \ {y}], a, y, n)
    BY <1>11, <1>13, <2>1 DEF IsVesting
  <2> QED
    BY <1>2, <2>2, <2>3
<1>14. Follows(h, f, base, S, Ledgers)
  BY <1>12, <1>13 DEF Follows
<1>15. <<S, h[S]>> \in R
  BY <1>3, <1>14, FoldReaches
<1> QED
  BY <1>10, <1>15, VestingDef

(* The deposits of the routes to tokens.                                   *)
Cashing(a, n, base, S) ==
    FoldSet(LAMBDA b, l : DepositTokens(l, a, b, n), base, S)

IsCashing(g, a, n, base, S) ==
    g = [s \in SUBSET S |-> IF s = {} THEN base
                            ELSE LET x == CHOOSE x \in s : TRUE
                                 IN  DepositTokens(g[s \ {x}], a, x, n)]

LEMMA CashingDef ==
    ASSUME NEW a, NEW n, NEW base, NEW S
    PROVE  Cashing(a, n, base, S) = (CHOOSE g : IsCashing(g, a, n, base, S))[S]
BY DEF Cashing, FoldSet, MapThenFoldSet, IsCashing

LEMMA CashingReaches ==
    ASSUME NEW a, NEW n, NEW base, NEW S, IsFiniteSet(S),
           NEW R, R \subseteq (SUBSET S) \X Ledgers, <<{}, base>> \in R,
           \A s \in SUBSET S : \A x \in S \ s : \A l \in Ledgers :
               <<s, l>> \in R => <<s \cup {x}, DepositTokens(l, a, x, n)>> \in R
    PROVE  <<S, Cashing(a, n, base, S)>> \in R
<1>1. PICK f : f = [p \in S \X Ledgers |-> DepositTokens(p[2], a, p[1], n)]
  OBVIOUS
<1>2. \A x \in S, l \in Ledgers : f[x, l] = DepositTokens(l, a, x, n)
  BY <1>1
<1>3. Kept(R, f, S, Ledgers)
  BY <1>2 DEF Kept
<1>4. PICK g : IsFold(g, f, base, S)
  BY FoldExists
<1>5. Follows(g, f, base, S, Ledgers)
  BY <1>4, FoldFollows
<1>6. \A s \in SUBSET S : <<s, g[s]>> \in R
  BY <1>3, <1>5, FoldReaches
<1>7. \A s \in SUBSET S : g[s] \in Ledgers
  BY <1>6
<1>8. ASSUME NEW s \in SUBSET S, s # {}
      PROVE  f[CHOOSE x \in s : TRUE, g[s \ {CHOOSE x \in s : TRUE}]]
                = LET x == CHOOSE x \in s : TRUE
                  IN  DepositTokens(g[s \ {x}], a, x, n)
  <2>1. PICK y : y = CHOOSE x \in s : TRUE
    OBVIOUS
  <2>2. y \in s
    BY <1>8, <2>1
  <2>3. y \in S /\ s \ {y} \in SUBSET S
    BY <2>2
  <2>4. f[y, g[s \ {y}]] = DepositTokens(g[s \ {y}], a, y, n)
    BY <1>2, <1>7, <2>3
  <2> QED
    BY <2>1, <2>4
<1>9. IsCashing(g, a, n, base, S)
  BY <1>4, <1>8 DEF IsFold, IsCashing
<1>10. PICK h : h = CHOOSE e : IsCashing(e, a, n, base, S)
  OBVIOUS
<1>11. IsCashing(h, a, n, base, S)
  BY <1>9, <1>10
<1>12. h[{}] = base
  BY <1>11 DEF IsCashing
<1>13. ASSUME NEW s \in SUBSET S, s # {}
       PROVE  \E x \in s : h[s \ {x}] \in Ledgers => h[s] = f[x, h[s \ {x}]]
  <2>1. PICK y : y = CHOOSE x \in s : TRUE
    OBVIOUS
  <2>2. y \in s /\ y \in S
    BY <1>13, <2>1
  <2>3. h[s] = DepositTokens(h[s \ {y}], a, y, n)
    BY <1>11, <1>13, <2>1 DEF IsCashing
  <2> QED
    BY <1>2, <2>2, <2>3
<1>14. Follows(h, f, base, S, Ledgers)
  BY <1>12, <1>13 DEF Follows
<1>15. <<S, h[S]>> \in R
  BY <1>3, <1>14, FoldReaches
<1> QED
  BY <1>10, <1>15, CashingDef

LEMMA VestingDeposits ==
    ASSUME RoutesBacked, NEW a \in Users, NEW n, n \in Nat, NEW l, Formed(l), NEW S,
           S \subseteq Names, \A b \in S : l.acc[b].exists
    PROVE  Deposits(l, Vesting(a, n, l, S), RouteParts(a, S, n), 0)
<1>1. PICK q : q = PartOf(a, n)
  OBVIOUS
<1>2. l \in Ledgers /\ IsFiniteSet(S)
  BY AccountsAssumption, FS_Subset DEF Formed
<1>3. \A s \in SUBSET S : RouteParts(a, s, n) = SumFunctionOnSet(q, s) /\ RouteParts(a, s, n) \in Nat
  BY <1>1, RoutePartsSum
<1>4. \A b \in Names : q[b] \in Int /\ q[b] \in Nat /\ q[b] = RoutePart(a, b, n)
  BY <1>1, RoutePartsSum
<1>5. PICK R : R = {p \in (SUBSET S) \X Ledgers : Deposits(l, p[2], SumFunctionOnSet(q, p[1]), 0)}
  OBVIOUS
<1>6. \A s \in SUBSET S, m \in Ledgers : <<s, m>> \in R <=> Deposits(l, m, SumFunctionOnSet(q, s), 0)
  BY <1>5
<1>7. R \subseteq (SUBSET S) \X Ledgers
  BY <1>5
<1>8. <<{}, l>> \in R
  <2>1. SumFunctionOnSet(q, {}) = 0
    BY SumEmpty
  <2>2. Deposits(l, l, 0, 0)
    BY DepositsReflexive
  <2> QED
    BY <1>2, <1>6, <2>1, <2>2
<1>9. ASSUME NEW s \in SUBSET S, NEW x \in S \ s, NEW m \in Ledgers, <<s, m>> \in R
      PROVE  <<s \cup {x}, DepositShares(m, a, x, n)>> \in R
  <2>1. PICK k, t, o : k = SumFunctionOnSet(q, s) /\ t = q[x] /\ o = DepositShares(m, a, x, n)
    OBVIOUS
  <2>2. Deposits(l, m, k, 0) /\ x \in Names
    BY <1>6, <1>9, <2>1
  <2>3. t \in Nat /\ t \in Int /\ t = RoutePart(a, x, n) /\ k \in Int /\ 0 \in Int
    BY <1>3, <1>4, <2>1, <2>2
  <2>4. SumFunctionOnSet(q, s \cup {x}) = t + k
    <3>1. PICK u : u = s \cup {x}
      OBVIOUS
    <3>2. IsFiniteSet(u) /\ x \in u /\ u \ {x} = s /\ \A y \in u : q[y] \in Int
      BY <1>2, <1>4, <3>1, FS_AddElement, FS_Subset
    <3>3. SumFunctionOnSet(q, u) = q[x] + SumFunctionOnSet(q, s)
      BY <3>2, SumRemove
    <3> QED
      BY <2>1, <3>1, <3>3
  <2>5. Formed(m) /\ m.acc[x].exists
    BY <2>2 DEF Deposits, Stores, Grows
  <2>6. o = AdjustStakeVotes([m EXCEPT !.acc[x].vesting_shares = @ + t], x, t)
    BY <2>1, <2>3 DEF DepositShares
  <2>7. Deposits(m, o, t, 0)
    BY <2>2, <2>3, <2>5, <2>6, DepositSharesStep
  <2>8. Deposits(l, o, k + t, 0 + 0)
    BY <2>2, <2>3, <2>7, DepositsTransitive
  <2>9. k + t = SumFunctionOnSet(q, s \cup {x}) /\ 0 + 0 = 0
    BY <2>3, <2>4
  <2>10. o \in Ledgers /\ s \cup {x} \in SUBSET S
    BY <2>8 DEF Deposits, Stores, Formed
  <2> QED
    BY <1>6, <2>1, <2>8, <2>9, <2>10
<1>10. <<S, Vesting(a, n, l, S)>> \in R
  BY <1>2, <1>7, <1>8, <1>9, VestingReaches
<1>11. Deposits(l, Vesting(a, n, l, S), SumFunctionOnSet(q, S), 0)
  BY <1>5, <1>10
<1>12. SumFunctionOnSet(q, S) = RouteParts(a, S, n)
  BY <1>3
<1> QED
  BY <1>11, <1>12

LEMMA CashingDeposits ==
    ASSUME RoutesBacked, NEW a \in Users, NEW n, n \in Nat, NEW l, Formed(l), NEW S,
           S \subseteq Names, \A b \in S : l.acc[b].exists,
           RouteParts(a, S, n) <= l.dgp.total_vesting_shares
    PROVE  Deposits(l, Cashing(a, n, l, S), 0, RouteParts(a, S, n))
<1>1. PICK q : q = PartOf(a, n)
  OBVIOUS
<1>2. l \in Ledgers /\ IsFiniteSet(S)
  BY AccountsAssumption, FS_Subset DEF Formed
<1>3. \A s \in SUBSET S : RouteParts(a, s, n) = SumFunctionOnSet(q, s) /\ RouteParts(a, s, n) \in Nat
  BY <1>1, RoutePartsSum
<1>4. \A b \in Names : q[b] \in Int /\ q[b] \in Nat /\ q[b] = RoutePart(a, b, n)
  BY <1>1, RoutePartsSum
<1>5. PICK R : R = {p \in (SUBSET S) \X Ledgers : Deposits(l, p[2], 0, SumFunctionOnSet(q, p[1]))}
  OBVIOUS
<1>6. \A s \in SUBSET S, m \in Ledgers : <<s, m>> \in R <=> Deposits(l, m, 0, SumFunctionOnSet(q, s))
  BY <1>5
<1>7. R \subseteq (SUBSET S) \X Ledgers
  BY <1>5
<1>8. <<{}, l>> \in R
  <2>1. SumFunctionOnSet(q, {}) = 0
    BY SumEmpty
  <2>2. Deposits(l, l, 0, 0)
    BY DepositsReflexive
  <2> QED
    BY <1>2, <1>6, <2>1, <2>2
<1>9. ASSUME NEW s \in SUBSET S, NEW x \in S \ s, NEW m \in Ledgers, <<s, m>> \in R
      PROVE  <<s \cup {x}, DepositTokens(m, a, x, n)>> \in R
  <2>1. PICK k, t, o : k = SumFunctionOnSet(q, s) /\ t = q[x] /\ o = DepositTokens(m, a, x, n)
    OBVIOUS
  <2>2. Deposits(l, m, 0, k) /\ x \in Names
    BY <1>6, <1>9, <2>1
  <2>3. t \in Nat /\ t \in Int /\ t = RoutePart(a, x, n) /\ k \in Int /\ 0 \in Int
    BY <1>3, <1>4, <2>1, <2>2
  <2>4. SumFunctionOnSet(q, s \cup {x}) = t + k
    <3>1. PICK u : u = s \cup {x}
      OBVIOUS
    <3>2. IsFiniteSet(u) /\ x \in u /\ u \ {x} = s /\ \A y \in u : q[y] \in Int
      BY <1>2, <1>4, <3>1, FS_AddElement, FS_Subset
    <3>3. SumFunctionOnSet(q, u) = q[x] + SumFunctionOnSet(q, s)
      BY <3>2, SumRemove
    <3> QED
      BY <2>1, <3>1, <3>3
  <2>5. Formed(m) /\ m.acc[x].exists
    BY <2>2 DEF Deposits, Stores, Grows
  <2>6. t <= m.dgp.total_vesting_shares
    <3>1. PICK u, v : u = s \cup {x} /\ v = S \ u
      OBVIOUS
    <3>2. u \in SUBSET S /\ v \in SUBSET S
      BY <3>1
    <3>3. \A y \in S : q[y] \in Int
      BY <1>4
    <3>4. SumFunctionOnSet(q, S) = SumFunctionOnSet(q, u) + SumFunctionOnSet(q, v)
      BY <1>2, <3>1, <3>2, <3>3, SumSplit
    <3>5. SumFunctionOnSet(q, v) \in Nat /\ SumFunctionOnSet(q, S) <= l.dgp.total_vesting_shares
      BY <1>3, <3>2
    <3>6. m.dgp.total_vesting_shares = l.dgp.total_vesting_shares - k /\ l.dgp.total_vesting_shares \in Nat
      BY <1>2, <2>2, TotalTypes DEF Deposits, Stores
    <3>7. SumFunctionOnSet(q, u) = t + k
      BY <2>4, <3>1
    <3> QED
      BY <2>3, <3>4, <3>5, <3>6, <3>7
  <2>7. PICK z : z = ToTokens(m, t)
    OBVIOUS
  <2>8. o = Redeem(m, x, z, t)
    BY <2>1, <2>3, <2>7 DEF DepositTokens, Redeem
  <2>9. Deposits(m, o, 0, t)
    BY <2>2, <2>3, <2>5, <2>6, <2>7, <2>8, DepositTokensStep
  <2>10. Deposits(l, o, 0 + 0, k + t)
    BY <2>2, <2>3, <2>9, DepositsTransitive
  <2>11. k + t = SumFunctionOnSet(q, s \cup {x}) /\ 0 + 0 = 0
    BY <2>3, <2>4
  <2>12. o \in Ledgers /\ s \cup {x} \in SUBSET S
    BY <2>10 DEF Deposits, Stores, Formed
  <2> QED
    BY <1>6, <2>1, <2>10, <2>11, <2>12
<1>10. <<S, Cashing(a, n, l, S)>> \in R
  BY <1>2, <1>7, <1>8, <1>9, CashingReaches
<1>11. Deposits(l, Cashing(a, n, l, S), 0, SumFunctionOnSet(q, S))
  BY <1>5, <1>10
<1>12. SumFunctionOnSet(q, S) = RouteParts(a, S, n)
  BY <1>3
<1> QED
  BY <1>11, <1>12

LEMMA DepositedForms ==
    ASSUME RoutesBacked, Formed(Current), NEW a \in Users, NEW n, n \in Nat,
           n <= dgp.total_vesting_shares, NEW m, m = Deposited(a, n),
           NEW p, p = RouteParts(a, VestedRoutes(a), n),
           NEW t, t = RouteParts(a, PaidRoutes(a), n)
    PROVE  Deposits(Current, m, p, t)
<1>1. PICK l, V, P : l = Current /\ V = VestedRoutes(a) /\ P = PaidRoutes(a)
  OBVIOUS
<1>2. PICK o : o = Vesting(a, n, l, V)
  OBVIOUS
<1>3. m = Cashing(a, n, o, P)
  BY <1>1, <1>2 DEF Deposited, Vesting, Cashing
<1>4. /\ V \subseteq Names /\ P \subseteq Names
      /\ \A b \in V \cup P : routes[a][b] # NoRoute
  BY <1>1, RouteSets
<1>5. \A b \in V \cup P : l.acc[b].exists
  BY <1>1, <1>4 DEF RoutesBacked, Current
<1>6. p \in Nat /\ t \in Nat /\ p + t <= n
  BY RoutesWithin
<1>7. Formed(l) /\ l.dgp.total_vesting_shares \in Nat /\ n <= l.dgp.total_vesting_shares
  BY <1>1, TotalTypes DEF Current, Formed
<1>8. Deposits(l, o, p, 0)
  BY <1>1, <1>2, <1>4, <1>5, <1>7, VestingDeposits
<1>9. Formed(o) /\ (\A b \in P : o.acc[b].exists)
  BY <1>4, <1>5, <1>8 DEF Deposits, Stores, Grows
<1>10. o.dgp.total_vesting_shares = l.dgp.total_vesting_shares - 0
  BY <1>8 DEF Deposits, Stores
<1>11. t <= o.dgp.total_vesting_shares
  BY <1>6, <1>7, <1>10
<1>12. Deposits(o, m, 0, t)
  BY <1>1, <1>3, <1>4, <1>9, <1>11, CashingDeposits
<1>13. p \in Int /\ t \in Int /\ 0 \in Int
  BY <1>6
<1>14. Deposits(l, m, p + 0, 0 + t)
  BY <1>7, <1>8, <1>12, <1>13, DepositsTransitive
<1>15. p + 0 = p /\ 0 + t = t
  BY <1>13
<1> QED
  BY <1>1, <1>14, <1>15

(* An account draws n of its shares, of which r become its tokens.         *)
Draws(l, m, a, n, r) ==
    /\ Formed(m) /\ Grows(l, m)
    /\ Gap(m) = Gap(l) + n - r /\ Surplus(m) = Surplus(l)
    /\ m.dgp.total_reward_shares = l.dgp.total_reward_shares
    /\ m.ballots = l.ballots /\ Saves(l, m)
    /\ m.acc[a].withdrawn = l.acc[a].withdrawn + n
    /\ m.acc[a].vesting_shares = l.acc[a].vesting_shares - n
    /\ SameProxied(l, m)
    /\ \A f \in SteadyFields \ {"withdrawn"} : m.acc[a][f] = l.acc[a][f]
    /\ \A b \in Names : b # a =>
          /\ m.acc[b].vesting_shares = l.acc[b].vesting_shares
          /\ \A f \in SteadyFields : m.acc[b][f] = l.acc[b][f]

WithDraft(x, n, k) ==
    [x EXCEPT !.vesting_shares = @ - n, !.balance = @ + k, !.withdrawn = @ + n]

LEMMA DraftMade ==
    ASSUME NEW x \in Account, NEW n, n \in Nat, n <= x.vesting_shares, NEW k, k \in Nat,
           NEW y, y = WithDraft(x, n, k)
    PROVE  /\ y \in Account /\ y.vesting_shares = x.vesting_shares - n
           /\ y.balance = x.balance + k /\ y.withdrawn = x.withdrawn + n
           /\ \A f \in AccountFields \ {"vesting_shares", "balance", "withdrawn"} : y[f] = x[f]
<1>1. x.vesting_shares \in Nat /\ x.balance \in Int /\ x.withdrawn \in Nat
  BY DEF Account
<1>2. PICK s, b, w : s = x.vesting_shares - n /\ b = x.balance + k /\ w = x.withdrawn + n
  OBVIOUS
<1>3. s \in Nat /\ b \in Int /\ w \in Nat
  BY <1>1, <1>2
<1>4. y = [x EXCEPT !.vesting_shares = s, !.balance = b, !.withdrawn = w]
  BY <1>2 DEF WithDraft
<1>5. /\ y \in Account /\ y.vesting_shares = s /\ y.balance = b /\ y.withdrawn = w
      /\ \A f \in AccountFields \ {"vesting_shares", "balance", "withdrawn"} : y[f] = x[f]
  BY <1>3, <1>4 DEF Account, AccountFields
<1> QED
  BY <1>2, <1>5

DrawOut(l, a, e, n, r) ==
    LET tokens == ToTokens(l, r)
    IN  [RecalcEnergy(l, a, e) EXCEPT
            !.acc[a].vesting_shares = @ - n,
            !.acc[a].balance = @ + tokens,
            !.acc[a].withdrawn = @ + n,
            !.dgp.total_vesting_fund = @ - tokens,
            !.dgp.total_vesting_shares = @ - r]

Drafted(o, a, n, k, r) ==
    [o EXCEPT !.acc[a].vesting_shares = @ - n, !.acc[a].balance = @ + k,
              !.acc[a].withdrawn = @ + n,
              !.dgp.total_vesting_fund = @ - k, !.dgp.total_vesting_shares = @ - r]

SetDraft(o, a, s, b, w) ==
    [o EXCEPT !.acc[a].vesting_shares = s, !.acc[a].balance = b, !.acc[a].withdrawn = w]
Drawn(x, s, b, w) == [x EXCEPT !.vesting_shares = s, !.balance = b, !.withdrawn = w]
SetStake(p, f, h) == [p EXCEPT !.dgp.total_vesting_fund = f, !.dgp.total_vesting_shares = h]

LEMMA ThreeFields ==
    ASSUME NEW o \in Ledgers, NEW a \in Names, NEW s, NEW b, NEW w
    PROVE  SetDraft(o, a, s, b, w) = SetAccount(o, a, Drawn(o.acc[a], s, b, w))
BY DEF Ledgers, SetAccount, SetDraft, Drawn

LEMMA TwoTotals ==
    ASSUME NEW o \in Ledgers, NEW a \in Names, NEW y, NEW p, p = SetAccount(o, a, y), NEW f, NEW h
    PROVE  SetStake(p, f, h) = SetTotals(p, WithStake(o.dgp, f, h))
BY DEF Ledgers, SetTotals, SetAccount, SetStake, WithStake

LEMMA DraftedAs ==
    ASSUME NEW o \in Ledgers, NEW a \in Names, NEW n, NEW k, NEW r
    PROVE  Drafted(o, a, n, k, r)
              = Reshape(o, a, WithDraft(o.acc[a], n, k),
                        WithStake(o.dgp, o.dgp.total_vesting_fund - k,
                                  o.dgp.total_vesting_shares - r))
<1>2. PICK x, t, s, b, w, f, h :
         /\ x = o.acc[a] /\ t = o.dgp
         /\ s = x.vesting_shares - n /\ b = x.balance + k /\ w = x.withdrawn + n
         /\ f = t.total_vesting_fund - k /\ h = t.total_vesting_shares - r
  OBVIOUS
<1>3. x \in Account /\ t \in Totals
  BY <1>2, AccountTypes, TotalTypes
<1>4. WithDraft(x, n, k) = Drawn(x, s, b, w)
  BY <1>2 DEF WithDraft, Drawn
<1>5. Drafted(o, a, n, k, r) = SetStake(SetDraft(o, a, s, b, w), f, h)
  BY <1>2, <1>3 DEF Drafted, Ledgers, Account, Totals, SetStake, SetDraft
<1>6. PICK p : p = SetDraft(o, a, s, b, w)
  OBVIOUS
<1>7. p = SetAccount(o, a, Drawn(x, s, b, w))
  BY <1>2, <1>6, ThreeFields
<1>8. SetStake(p, f, h) = SetTotals(p, WithStake(o.dgp, f, h))
  BY <1>7, TwoTotals
<1>9. Drafted(o, a, n, k, r) = Reshape(o, a, Drawn(x, s, b, w), WithStake(o.dgp, f, h))
  BY <1>5, <1>6, <1>7, <1>8 DEF Reshape
<1> QED
  BY <1>2, <1>4, <1>9

LEMMA DrawOutDraws ==
    ASSUME NEW l, Formed(l), NEW a \in Names, l.acc[a].exists, now \in Nat,
           NEW e, e \in Int, NEW n, n \in Nat, n <= l.acc[a].vesting_shares,
           NEW r, r \in Nat, r <= l.dgp.total_vesting_shares,
           NEW m, m = DrawOut(l, a, e, n, r)
    PROVE  Draws(l, m, a, n, r)
<1>0. l \in Ledgers
  BY DEF Formed
<1>1. PICK o, k : o = RecalcEnergy(l, a, e) /\ k = ToTokens(l, r)
  OBVIOUS
<1>2. /\ Pays(l, o, 0) /\ o.dgp = l.dgp
      /\ \A b \in Names : /\ o.acc[b].vesting_shares = l.acc[b].vesting_shares
                          /\ o.acc[b].exists = l.acc[b].exists
                          /\ o.acc[b].balance = l.acc[b].balance
                          /\ o.acc[b].proxied_vsf_votes = l.acc[b].proxied_vsf_votes
  BY <1>1, RecalcEnergyPays
<1>3. /\ Moves(l, o, 0) /\ Keeps(l, o, SteadyFields)
      /\ o.ballots = l.ballots /\ Saves(l, o)
      /\ o.dgp.total_reward_shares = l.dgp.total_reward_shares
  BY <1>2, PaysMoves
<1>4. Formed(o) /\ o \in Ledgers /\ Priced(o) /\ Grows(l, o) /\ Gap(o) = Gap(l) /\ Surplus(o) = Surplus(l) + 0
  BY <1>3 DEF Moves, Shifts, Formed
<1>5. ToTokens(o, r) = k
  BY <1>1, <1>2 DEF ToTokens, NoPrice
<1>6. k \in Nat
  BY <1>2, <1>4, <1>5, ToTokensNat
<1>7. PICK x, y : x = o.acc[a] /\ y = WithDraft(x, n, k)
  OBVIOUS
<1>8. x \in Account /\ x.vesting_shares \in Nat /\ x.vesting_shares = l.acc[a].vesting_shares
      /\ n <= x.vesting_shares
  BY <1>2, <1>4, <1>7, AccountTypes
<1>9. /\ y \in Account /\ y.vesting_shares = x.vesting_shares - n
      /\ y.balance = x.balance + k /\ y.withdrawn = x.withdrawn + n
      /\ \A f \in AccountFields \ {"vesting_shares", "balance", "withdrawn"} : y[f] = x[f]
  BY <1>6, <1>7, <1>8, DraftMade
<1>10. /\ y.exists = x.exists /\ y.proxy = x.proxy /\ y.reserved_balance = x.reserved_balance
       /\ y.proxied_vsf_votes = x.proxied_vsf_votes
       /\ \A f \in SteadyFields \ {"withdrawn"} : y[f] = x[f]
  BY <1>9 DEF AccountFields, SteadyFields
<1>11. m = Cashed(o, a, y, r)
  <2>1. m = Drafted(o, a, n, k, r)
    BY <1>1, Zenon DEF DrawOut, Drafted
  <2> QED
    BY <1>4, <1>5, <1>7, <2>1, DraftedAs DEF Cashed
<1>12. Cashes(o, m, a, y, r)
  <2>1. /\ y.exists /\ o.acc[a].exists /\ y.proxy = o.acc[a].proxy
        /\ y.reserved_balance = o.acc[a].reserved_balance
        /\ y.balance = o.acc[a].balance + ToTokens(o, r)
        /\ r <= o.dgp.total_vesting_shares
    BY <1>2, <1>5, <1>7, <1>9, <1>10
  <2> QED
    BY <1>4, <1>9, <1>11, <2>1, CashedForms
<1>13. /\ Formed(m) /\ Grows(o, m) /\ m.ballots = o.ballots /\ Saves(o, m)
       /\ Surplus(m) = Surplus(o)
       /\ m.dgp.total_reward_shares = o.dgp.total_reward_shares
       /\ Gap(m) = Gap(o) + (x.vesting_shares - y.vesting_shares) - r
       /\ m.acc[a] = y /\ \A b \in Names : b # a => m.acc[b] = o.acc[b]
  BY <1>7, <1>12 DEF Cashes
<1>14. Gap(l) \in Int /\ Surplus(l) \in Int
  BY <1>0, SumTypes
<1>15. Gap(m) = Gap(l) + n - r /\ Surplus(m) = Surplus(l)
  BY <1>4, <1>8, <1>9, <1>13, <1>14
<1>16. Grows(l, m)
  BY <1>4, <1>13 DEF Grows
<1>17. Saves(l, m)
  <2>1. Treasury \in Names
    BY AccountsAssumption
  <2>2. l.acc[Treasury].balance \in Int /\ o.acc[Treasury].balance \in Int /\ m.acc[Treasury].balance \in Int
    BY <1>0, <1>4, <1>13, <2>1, AccountTypes DEF Formed
  <2> QED
    BY <1>3, <1>13, <2>2 DEF Saves
<1>18. \A b \in Names : \A f \in SteadyFields : o.acc[b][f] = l.acc[b][f]
  BY <1>3 DEF Keeps
<1>19. \A f \in SteadyFields \ {"withdrawn"} : m.acc[a][f] = l.acc[a][f]
  BY <1>7, <1>10, <1>13, <1>18
<1>20. \A b \in Names : b # a =>
          /\ m.acc[b].vesting_shares = l.acc[b].vesting_shares
          /\ \A f \in SteadyFields : m.acc[b][f] = l.acc[b][f]
  BY <1>2, <1>13, <1>18
<1>21. m.acc[a].vesting_shares = l.acc[a].vesting_shares - n
  BY <1>8, <1>9, <1>13
<1>22. m.acc[a].withdrawn = l.acc[a].withdrawn + n
  <2>1. "withdrawn" \in SteadyFields
    BY DEF SteadyFields
  <2>2. o.acc[a]["withdrawn"] = l.acc[a]["withdrawn"]
    BY <1>18, <2>1
  <2> QED
    BY <1>7, <1>9, <1>13, <2>2
<1>23. SameProxied(l, m)
  BY <1>2, <1>7, <1>10, <1>13 DEF SameProxied
<1> QED
  BY <1>3, <1>13, <1>15, <1>16, <1>17, <1>19, <1>20, <1>21, <1>22, <1>23 DEF Draws

LEMMA Remainder ==
    ASSUME NEW k \in Nat, NEW r \in Nat \ {0}, NEW d \in Nat, d < r
    PROVE  (k * r + d) % r = d
<1>1. PICK n \in Nat : n = k * r + d
  OBVIOUS
<1>2. n = r * (n \div r) + (n % r) /\ 0 <= n % r /\ n % r < r /\ n % r \in Nat /\ n \div r \in Nat
  <2>1. n \in Int /\ r \in Int /\ r > 0
    OBVIOUS
  <2> QED
    BY <2>1
<1>3. PICK q \in Nat, e \in Nat : q = n \div r /\ e = n % r
  BY <1>2
<1>4. r * k + d = r * q + e /\ e < r
  BY <1>1, <1>2, <1>3
<1>5. ~(q < k)
  <2> SUFFICES ASSUME q < k PROVE FALSE
    OBVIOUS
  <2>1. PICK j \in Nat : k = q + 1 + j
    <3>1. k - q - 1 \in Nat /\ k = q + 1 + (k - q - 1)
      OBVIOUS
    <3> QED
      BY <3>1
  <2>2. r * k = r * q + r + r * j
    BY <2>1
  <2>3. r * j \in Nat /\ r * q \in Nat /\ r * k \in Nat
    BY <2>1
  <2> QED
    BY <1>4, <2>2, <2>3
<1>6. ~(k < q)
  <2> SUFFICES ASSUME k < q PROVE FALSE
    OBVIOUS
  <2>1. PICK j \in Nat : q = k + 1 + j
    <3>1. q - k - 1 \in Nat /\ q = k + 1 + (q - k - 1)
      OBVIOUS
    <3> QED
      BY <3>1
  <2>2. r * q = r * k + r + r * j
    BY <2>1
  <2>3. r * j \in Nat /\ r * q \in Nat /\ r * k \in Nat
    BY <2>1
  <2> QED
    BY <1>4, <2>2, <2>3
<1>7. q = k
  BY <1>5, <1>6
<1>8. r * k \in Nat
  OBVIOUS
<1>9. d = e
  BY <1>4, <1>7, <1>8
<1> QED
  BY <1>1, <1>3, <1>9

(* A payment is the rate, or all that is left.                             *)
LEMMA WithdrawalAmount ==
    ASSUME NEW l \in Ledgers, NEW a \in Names, Solvent(a, l.acc[a]),
           l.acc[a].next_vesting_withdrawal # Never, l.acc[a].delegated_vesting_shares >= 0,
           NEW n, n = WithdrawalOf(l, a),
           NEW d, d = l.acc[a].to_withdraw - l.acc[a].withdrawn
    PROVE  /\ n \in Nat /\ d \in Nat /\ n <= d /\ n <= l.acc[a].vesting_shares
           /\ n = d \/ n = l.acc[a].vesting_withdraw_rate
<1>1. PICK x, s, r, t, w : /\ x = l.acc[a] /\ s = x.vesting_shares /\ r = x.vesting_withdraw_rate
                           /\ t = x.to_withdraw /\ w = x.withdrawn
  OBVIOUS
<1>2. s \in Nat /\ r \in Nat /\ t \in Nat /\ w \in Nat /\ x.delegated_vesting_shares \in Int
  BY <1>1, AccountTypes
<1>3. /\ s - x.delegated_vesting_shares - (t - w) >= 0 /\ w <= t /\ r > 0
      /\ \E k \in Nat : w = k * r
  BY <1>1 DEF Solvent
<1>4. d \in Nat /\ d <= s /\ t = w + d
  BY <1>1, <1>2, <1>3
<1>5. PICK k \in Nat : w = k * r
  BY <1>3
<1>6. PICK z : z = IF d < r THEN t % r ELSE r
  OBVIOUS
<1>7. z = IF d < r THEN d ELSE r
  <2>1. CASE d < r
    <3>1. r \in Nat \ {0}
      BY <1>2, <1>3
    <3>2. (k * r + d) % r = d
      BY <1>4, <2>1, <3>1, Remainder
    <3> QED
      BY <1>4, <1>5, <1>6, <2>1, <3>2
  <2>2. CASE ~(d < r)
    BY <1>6, <2>2
  <2> QED
    BY <2>1, <2>2
<1>8. z \in Nat /\ z <= d /\ (z = d \/ z = r)
  BY <1>2, <1>4, <1>7
<1>9. z <= s /\ z \in Int /\ s \in Int
  BY <1>2, <1>4, <1>8
<1>10. Min({s, z}) = IF s <= z THEN s ELSE z
  BY <1>9, MinOfTwo
<1>11. Min({s, z}) = z
  BY <1>9, <1>10
<1>12. n = Min({s, z})
  BY <1>1, <1>6 DEF WithdrawalOf
<1> QED
  BY <1>1, <1>4, <1>8, <1>9, <1>11, <1>12

SetSchedule(l, a, r, t) ==
    [l EXCEPT !.acc[a].vesting_withdraw_rate = r, !.acc[a].next_vesting_withdrawal = t]
WithSchedule(x, r, t) == [x EXCEPT !.vesting_withdraw_rate = r, !.next_vesting_withdrawal = t]

LEMMA ScheduleReplaced ==
    ASSUME NEW x \in Account, NEW r, NEW t
    PROVE  WithSchedule(x, r, t) = WithWithdrawal(x, r, t, x.to_withdraw, x.withdrawn)
BY DEF WithSchedule, WithWithdrawal, Account

LEMMA ScheduleSet ==
    ASSUME NEW l \in Ledgers, NEW a \in Names, NEW r, NEW t
    PROVE  SetSchedule(l, a, r, t)
               = SetWithdrawal(l, a, r, t, l.acc[a].to_withdraw, l.acc[a].withdrawn)
<1>1. l.acc[a] \in Account
  BY AccountTypes
<1>2. PICK n, k : n = l.acc[a].to_withdraw /\ k = l.acc[a].withdrawn
  OBVIOUS
<1>3. SetSchedule(l, a, r, t) = SetAccount(l, a, WithSchedule(l.acc[a], r, t))
  BY DEF SetSchedule, WithSchedule, SetAccount, Ledgers
<1>4. SetWithdrawal(l, a, r, t, n, k) = SetAccount(l, a, WithWithdrawal(l.acc[a], r, t, n, k))
  BY DEF SetWithdrawal, WithWithdrawal, SetAccount, Ledgers
<1> QED
  BY <1>1, <1>2, <1>3, <1>4, ScheduleReplaced

LEMMA TimeSet ==
    ASSUME NEW l \in Ledgers, NEW a \in Names, NEW t
    PROVE  [l EXCEPT !.acc[a].next_vesting_withdrawal = t]
               = SetWithdrawal(l, a, l.acc[a].vesting_withdraw_rate, t,
                               l.acc[a].to_withdraw, l.acc[a].withdrawn)
<1>1. l.acc[a] \in Account
  BY AccountTypes
<1>2. PICK n, k, q : n = l.acc[a].to_withdraw /\ k = l.acc[a].withdrawn /\ q = l.acc[a].vesting_withdraw_rate
  OBVIOUS
<1>5. [l EXCEPT !.acc[a].next_vesting_withdrawal = t] = SetWithdrawal(l, a, q, t, n, k)
  BY <1>1, <1>2 DEF SetWithdrawal, Ledgers, Account
<1> QED
  BY <1>2, <1>5

(* The withdrawal goes on unless it has ended.                             *)
Continues(l, m, a) ==
    /\ Moves(l, m, 0) /\ KeepsBut(l, m, {"vesting_withdraw_rate", "next_vesting_withdrawal"})
    /\ m.dgp = l.dgp /\ m.ballots = l.ballots
    /\ \A b \in Names : b # a => m.acc[b] = l.acc[b]
    /\ m.acc[a].next_vesting_withdrawal # Never =>
          /\ l.acc[a].withdrawn < l.acc[a].to_withdraw
          /\ m.acc[a].vesting_withdraw_rate = l.acc[a].vesting_withdraw_rate

LEMMA NextWithdrawalSet ==
    ASSUME NEW l, Formed(l), NEW a \in Names, l.acc[a].exists, NEW r, NEW t, r \in Nat, t \in Nat,
           t # Never => /\ l.acc[a].withdrawn < l.acc[a].to_withdraw
                        /\ r = l.acc[a].vesting_withdraw_rate,
           NEW m, m = SetWithdrawal(l, a, r, t, l.acc[a].to_withdraw, l.acc[a].withdrawn)
    PROVE  Continues(l, m, a)
<1>1. PICK n, k : n = l.acc[a].to_withdraw /\ k = l.acc[a].withdrawn
  OBVIOUS
<1>2. n \in Nat /\ k \in Nat
  BY <1>1, AccountTypes DEF Formed
<1>3. m = SetWithdrawal(l, a, r, t, n, k)
  BY <1>1
<1>4. /\ Moves(l, m, 0)
      /\ KeepsBut(l, m, WithdrawFields)
      /\ m.dgp = l.dgp /\ m.ballots = l.ballots
      /\ m.acc[a].vesting_withdraw_rate = r /\ m.acc[a].next_vesting_withdrawal = t
      /\ m.acc[a].to_withdraw = n /\ m.acc[a].withdrawn = k
      /\ \A b \in Names : b # a => m.acc[b] = l.acc[b]
  BY <1>2, <1>3, WithdrawalMoves
<1>5. ASSUME NEW b \in Names, NEW f \in AccountFields \ {"vesting_withdraw_rate", "next_vesting_withdrawal"}
      PROVE  m.acc[b][f] = l.acc[b][f]
  <2>1. CASE f \in {"to_withdraw", "withdrawn"}
    BY <1>1, <1>4, <2>1
  <2>2. CASE f \notin {"to_withdraw", "withdrawn"}
    BY <1>4, <2>2 DEF KeepsBut, Keeps, WithdrawFields
  <2> QED
    BY <2>1, <2>2
<1>6. KeepsBut(l, m, {"vesting_withdraw_rate", "next_vesting_withdrawal"})
  BY <1>5 DEF KeepsBut, Keeps
<1> QED
  BY <1>4, <1>6 DEF Continues

LEMMA NextWithdrawalContinues ==
    ASSUME NEW l, Formed(l), NEW a \in Names, l.acc[a].exists, NEW m, m = NextWithdrawal(l, a)
    PROVE  Continues(l, m, a)
<1>0. l \in Ledgers
  BY DEF Formed
<1>1. PICK r, t : r = l.acc[a].vesting_withdraw_rate /\ t = l.acc[a].next_vesting_withdrawal + WithdrawInterval
  OBVIOUS
<1>2. r \in Nat /\ t \in Nat /\ l.acc[a].withdrawn \in Nat /\ l.acc[a].to_withdraw \in Nat
  <2>1. l.acc[a].next_vesting_withdrawal \in Nat /\ WithdrawInterval \in Nat
    BY <1>0, AccountTypes, VestingAssumption
  <2> QED
    BY <1>0, <1>1, <2>1, AccountTypes
<1>3. CASE WithdrawalEnded(l, a)
  <2>1. m = SetWithdrawal(l, a, 0, Never, l.acc[a].to_withdraw, l.acc[a].withdrawn)
    <3>1. m = SetSchedule(l, a, 0, Never)
      BY <1>3, Zenon DEF NextWithdrawal, SetSchedule
    <3> QED
      BY <1>0, <3>1, ScheduleSet
  <2>2. 0 \in Nat /\ Never \in Nat
    BY AccountsAssumption
  <2> QED
    BY <2>1, <2>2, NextWithdrawalSet
<1>4. CASE ~WithdrawalEnded(l, a)
  <2>1. m = SetWithdrawal(l, a, r, t, l.acc[a].to_withdraw, l.acc[a].withdrawn)
    <3>1. m = [l EXCEPT !.acc[a].next_vesting_withdrawal = t]
      BY <1>1, <1>4 DEF NextWithdrawal
    <3> QED
      BY <1>0, <1>1, <3>1, TimeSet
  <2>2. l.acc[a].withdrawn < l.acc[a].to_withdraw
    BY <1>2, <1>4 DEF WithdrawalEnded
  <2> QED
    BY <1>1, <1>2, <2>1, <2>2, NextWithdrawalSet
<1> QED
  BY <1>3, <1>4

LEMMA WithdrawalPaidForms ==
    ASSUME Sound(Current), LoansBacked, Covered(Current), RoutesBacked, now \in Nat,
           NEW a \in Users, acc[a].exists, acc[a].next_vesting_withdrawal # Never,
           NEW m, m = WithdrawalPaid(a)
    PROVE  Withdraws(Current, m) /\ Covered(m)
<1>1. PICK l, n : l = Current /\ n = WithdrawalOf(Current, a)
  OBVIOUS
<1>2. PICK p, t, r : /\ p = RouteParts(a, VestedRoutes(a), n) /\ t = RouteParts(a, PaidRoutes(a), n)
                     /\ r = Max({n - p - t, 0})
  OBVIOUS
<1>3. PICK o, w, v : /\ o = Deposited(a, n) /\ w = Withdrawn(o, a, n, r)
                     /\ v = NextWithdrawal(w, a)
  OBVIOUS
<1>4. m = AdjustStakeVotes(v, a, -n)
  BY <1>1, <1>2, <1>3 DEF WithdrawalPaid
<1>5. /\ Formed(l) /\ l \in Ledgers /\ Gap(l) = 0 /\ a \in Names /\ l.acc[a].exists
      /\ l.acc = acc /\ l.dgp = dgp
  BY <1>1, AccountsAssumption DEF Sound, Formed, Current
<1>6. PICK d : d = l.acc[a].to_withdraw - l.acc[a].withdrawn
  OBVIOUS
<1>7. l.acc[a].delegated_vesting_shares \in Nat
  <2>1. /\ delegations \in [Users -> [Names -> Loan]] /\ expirations \in Returns
        /\ acc[a].delegated_vesting_shares = Lent(delegations, a) + Returning(expirations, a)
    BY LoanBalance
  <2>2. Lent(delegations, a) \in Nat /\ Returning(expirations, a) \in Nat
    BY <2>1, LentNat, ReturningNat
  <2> QED
    BY <1>5, <2>1, <2>2
<1>8. Solvent(a, l.acc[a])
  BY <1>1, <1>5 DEF Covered
<1>9. /\ n \in Nat /\ d \in Nat /\ n <= d /\ n <= l.acc[a].vesting_shares
      /\ n = d \/ n = l.acc[a].vesting_withdraw_rate
  <2>1. l.acc[a].delegated_vesting_shares >= 0 /\ l.acc[a].next_vesting_withdrawal # Never
    BY <1>5, <1>7
  <2>2. n = WithdrawalOf(l, a)
    BY <1>1
  <2> QED
    BY <1>5, <1>6, <1>8, <2>1, <2>2, WithdrawalAmount
<1>10. /\ l.acc[a].vesting_shares \in Nat /\ l.dgp.total_vesting_shares \in Nat
       /\ l.acc[a].vesting_shares <= l.dgp.total_vesting_shares
  BY <1>1, <1>5, SoundShares
<1>11. n <= dgp.total_vesting_shares
  BY <1>5, <1>9, <1>10
<1>12. p \in Nat /\ t \in Nat /\ p + t <= n
  BY <1>2, <1>9, RoutesWithin
<1>13. r \in Nat /\ r = n - p - t
  <2>1. n - p - t \in Int /\ n - p - t >= 0 /\ 0 \in Int
    BY <1>9, <1>12
  <2>2. r = IF n - p - t >= 0 THEN n - p - t ELSE 0
    BY <1>2, <2>1, MaxOfTwo
  <2> QED
    BY <2>1, <2>2
<1>14. Deposits(l, o, p, t)
  BY <1>1, <1>2, <1>3, <1>5, <1>9, <1>11, DepositedForms
<1>15. /\ Formed(o) /\ o \in Ledgers /\ Grows(l, o) /\ o.acc[a].exists
       /\ Gap(o) = Gap(l) - p - t /\ Surplus(o) = Surplus(l)
       /\ o.dgp.total_vesting_shares = l.dgp.total_vesting_shares - t
       /\ o.dgp.total_reward_shares = l.dgp.total_reward_shares
       /\ o.ballots = l.ballots /\ Saves(l, o)
       /\ \A b \in Names : \A f \in SteadyFields : o.acc[b][f] = l.acc[b][f]
       /\ \A b \in Names : o.acc[b].vesting_shares >= l.acc[b].vesting_shares
  BY <1>5, <1>14 DEF Deposits, Stores, Formed, Grows, Keeps
<1>16. n <= o.acc[a].vesting_shares /\ r <= o.dgp.total_vesting_shares
  <2>1. o.acc[a].vesting_shares \in Nat /\ o.acc[a].vesting_shares >= l.acc[a].vesting_shares
    BY <1>5, <1>15, AccountTypes
  <2>2. o.dgp.total_vesting_shares = l.dgp.total_vesting_shares - t
    BY <1>15
  <2> QED
    BY <1>9, <1>10, <1>12, <1>13, <2>1, <2>2
<1>17. w = DrawOut(o, a, t + r, n, r)
  BY <1>2, <1>3 DEF Withdrawn, DrawOut
<1>18. Draws(o, w, a, n, r)
  <2>1. t + r \in Int
    BY <1>12, <1>13
  <2> QED
    BY <1>5, <1>9, <1>13, <1>15, <1>16, <1>17, <2>1, DrawOutDraws
<1>19. /\ Formed(w) /\ Grows(o, w) /\ w.acc[a].exists
       /\ Gap(w) = Gap(o) + n - r /\ Surplus(w) = Surplus(o)
       /\ w.dgp.total_reward_shares = o.dgp.total_reward_shares
       /\ w.ballots = o.ballots /\ Saves(o, w)
       /\ w.acc[a].withdrawn = o.acc[a].withdrawn + n
       /\ w.acc[a].vesting_shares = o.acc[a].vesting_shares - n
       /\ SameProxied(o, w)
       /\ \A f \in SteadyFields \ {"withdrawn"} : w.acc[a][f] = o.acc[a][f]
       /\ \A b \in Names : b # a =>
             /\ w.acc[b].vesting_shares = o.acc[b].vesting_shares
             /\ \A f \in SteadyFields : w.acc[b][f] = o.acc[b][f]
  BY <1>5, <1>15, <1>18 DEF Draws, Grows
<1>20. Continues(w, v, a)
  BY <1>3, <1>5, <1>19, NextWithdrawalContinues
<1>21. /\ Moves(w, v, 0)
       /\ KeepsBut(w, v, {"vesting_withdraw_rate", "next_vesting_withdrawal"})
       /\ v.dgp = w.dgp /\ v.ballots = w.ballots
       /\ \A b \in Names : b # a => v.acc[b] = w.acc[b]
       /\ v.acc[a].next_vesting_withdrawal # Never =>
             /\ w.acc[a].withdrawn < w.acc[a].to_withdraw
             /\ v.acc[a].vesting_withdraw_rate = w.acc[a].vesting_withdraw_rate
  BY <1>20 DEF Continues
<1>22. /\ Formed(v) /\ v \in Ledgers /\ Grows(w, v) /\ v.acc[a].exists
       /\ Gap(v) = Gap(w) /\ Surplus(v) = Surplus(w) + 0
  BY <1>5, <1>19, <1>21 DEF Moves, Shifts, Formed, Grows
<1>23. VotesOnly(v, m)
  <2>1. -n \in Int /\ Linked(v)
    BY <1>9, <1>22 DEF Formed
  <2> QED
    BY <1>4, <1>5, <1>22, <2>1, AdjustStakeVotesOnly
<1>24. Books(v, m, 0) /\ \A b \in Names : m.acc[b].vesting_shares = v.acc[b].vesting_shares
  BY <1>22, <1>23, VotesOnlyBooks
<1>25. /\ Shifts(v, m, 0) /\ m.ballots = v.ballots /\ Saves(v, m)
       /\ m.dgp.total_reward_shares = v.dgp.total_reward_shares
       /\ \A b \in Names : \A f \in SteadyFields : m.acc[b][f] = v.acc[b][f]
  BY <1>24, BooksShifts DEF Keeps
<1>26. /\ Formed(m) /\ m \in Ledgers /\ Grows(v, m) /\ Gap(m) = Gap(v) /\ Surplus(m) = Surplus(v) + 0
  BY <1>25 DEF Shifts, Formed
<1>27. Moves(l, m, 0)
  <2>1. Grows(l, m)
    BY <1>15, <1>19, <1>22, <1>26 DEF Grows
  <2>2. Gap(l) \in Int /\ Surplus(l) \in Int
    BY <1>5, SumTypes
  <2>3. Gap(m) = Gap(l)
    BY <1>9, <1>12, <1>13, <1>15, <1>19, <1>22, <1>26, <2>2
  <2>4. Surplus(m) = Surplus(l) + 0
    BY <1>15, <1>19, <1>22, <1>26, <2>2
  <2>5. SameProxies(o, v) /\ SameProxied(o, v)
    <3>1. \A b \in Names : /\ v.acc[b].proxy = w.acc[b].proxy
                           /\ v.acc[b].proxied_vsf_votes = w.acc[b].proxied_vsf_votes
      BY <1>21 DEF KeepsBut, Keeps, AccountFields
    <3>2. \A b \in Names : w.acc[b].proxy = o.acc[b].proxy
      BY <1>19 DEF SteadyFields
    <3> QED
      BY <1>19, <3>1, <3>2 DEF SameProxies, SameProxied
  <2>6. v.acc[a].vesting_shares = o.acc[a].vesting_shares + (-n)
    <3>1. v.acc[a].vesting_shares = w.acc[a].vesting_shares
      BY <1>5, <1>21 DEF KeepsBut, Keeps, AccountFields
    <3>2. o.acc[a].vesting_shares \in Nat
      BY <1>5, <1>15, AccountTypes
    <3> QED
      BY <1>9, <1>19, <3>1, <3>2
  <2>7. \A b \in Names \ {a} : v.acc[b].vesting_shares = o.acc[b].vesting_shares
    BY <1>19, <1>21
  <2>8. ASSUME Proxied(l) PROVE Proxied(m)
    <3>1. Proxied(o)
      BY <1>14, <2>8 DEF Deposits, Carries
    <3>2. Linked(v) /\ -n \in Int
      BY <1>9, <1>22 DEF Formed
    <3> QED
      BY <1>4, <1>5, <1>15, <1>22, <2>5, <2>6, <2>7, <3>1, <3>2, SharesReported
  <2> QED
    BY <1>26, <2>1, <2>3, <2>4, <2>8 DEF Moves, Shifts, Carries
<1>28. Saves(l, m)
  <2>1. Treasury \in Names /\ Treasury # a
    BY AccountsAssumption
  <2>2. l.acc[Treasury].balance \in Int /\ o.acc[Treasury].balance \in Int
        /\ w.acc[Treasury].balance \in Int /\ v.acc[Treasury].balance \in Int
        /\ m.acc[Treasury].balance \in Int
    BY <1>5, <1>15, <1>19, <1>22, <1>26, <2>1, AccountTypes DEF Formed
  <2>3. v.acc[Treasury] = w.acc[Treasury]
    BY <1>21, <2>1
  <2> QED
    BY <1>15, <1>19, <1>25, <2>2, <2>3 DEF Saves
<1>29. m.ballots = l.ballots /\ m.dgp.total_reward_shares = l.dgp.total_reward_shares
  BY <1>15, <1>19, <1>21, <1>25
<1>30. \A f \in SteadyFields \ {"vesting_withdraw_rate", "next_vesting_withdrawal", "withdrawn"} :
          m.acc[a][f] = l.acc[a][f]
  <2> TAKE f \in SteadyFields \ {"vesting_withdraw_rate", "next_vesting_withdrawal", "withdrawn"}
  <2>1. f \in AccountFields \ {"vesting_withdraw_rate", "next_vesting_withdrawal"}
    BY DEF SteadyFields, AccountFields
  <2>2. v.acc[a][f] = w.acc[a][f]
    BY <1>5, <1>21, <2>1 DEF KeepsBut, Keeps
  <2> QED
    BY <1>5, <1>15, <1>19, <1>25, <2>2
<1>31. \A b \in Names : b # a => \A f \in SteadyFields : m.acc[b][f] = l.acc[b][f]
  BY <1>15, <1>19, <1>21, <1>25
<1>32. Keeps(l, m, SteadyFields \ WithdrawFields)
  <2>1. SteadyFields \ WithdrawFields
            \subseteq SteadyFields \ {"vesting_withdraw_rate", "next_vesting_withdrawal", "withdrawn"}
    BY DEF WithdrawFields
  <2> QED
    BY <1>30, <1>31, <2>1 DEF Keeps
<1>33. Withdraws(l, m)
  BY <1>27, <1>28, <1>29, <1>32 DEF Withdraws
<1>34. ASSUME NEW b \in Names, b # a PROVE Solvent(b, m.acc[b])
  <2>1. PICK x, y : x = l.acc[b] /\ y = m.acc[b]
    OBVIOUS
  <2>2. Solvent(b, x)
    BY <1>1, <2>1 DEF Covered
  <2>3. /\ y.delegated_vesting_shares = x.delegated_vesting_shares
        /\ y.to_withdraw = x.to_withdraw /\ y.withdrawn = x.withdrawn
        /\ y.next_vesting_withdrawal = x.next_vesting_withdrawal
        /\ y.vesting_withdraw_rate = x.vesting_withdraw_rate
    BY <1>31, <1>34, <2>1 DEF SteadyFields
  <2>4. /\ x.vesting_shares \in Nat /\ x.delegated_vesting_shares \in Int
        /\ x.to_withdraw \in Nat /\ x.withdrawn \in Nat /\ y.vesting_shares \in Nat
    BY <1>5, <1>26, <2>1, AccountTypes
  <2>5. y.vesting_shares >= x.vesting_shares
    BY <1>15, <1>19, <1>21, <1>24, <1>34, <2>1
  <2>6. y.vesting_shares - y.delegated_vesting_shares - (y.to_withdraw - y.withdrawn) >= 0
    BY <2>2, <2>3, <2>4, <2>5 DEF Solvent
  <2>7. Solvent(b, y)
    BY <2>2, <2>3, <2>6 DEF Solvent
  <2> QED
    BY <2>1, <2>7
<1>35. Solvent(a, m.acc[a])
  <2>1. PICK x, y : x = l.acc[a] /\ y = m.acc[a]
    OBVIOUS
  <2>2. Solvent(a, x)
    BY <1>8, <2>1
  <2>3. /\ y.delegated_vesting_shares = x.delegated_vesting_shares /\ y.to_withdraw = x.to_withdraw
    BY <1>30, <2>1 DEF SteadyFields
  <2>4. /\ x.vesting_shares \in Nat /\ x.delegated_vesting_shares \in Int
        /\ x.to_withdraw \in Nat /\ x.withdrawn \in Nat /\ y.vesting_shares \in Nat
        /\ x.vesting_withdraw_rate \in Nat
    BY <1>5, <1>26, <2>1, AccountTypes
  <2>5. v.acc[a].vesting_shares = w.acc[a].vesting_shares /\ v.acc[a].withdrawn = w.acc[a].withdrawn
    <3>1. {"vesting_shares", "withdrawn"} \subseteq AccountFields \ {"vesting_withdraw_rate", "next_vesting_withdrawal"}
      BY DEF AccountFields
    <3>2. \A f \in {"vesting_shares", "withdrawn"} : v.acc[a][f] = w.acc[a][f]
      BY <1>5, <1>21, <3>1 DEF KeepsBut, Keeps
    <3> QED
      BY <3>2
  <2>6. y.withdrawn = x.withdrawn + n
    <3>1. "withdrawn" \in SteadyFields
      BY DEF SteadyFields
    <3>2. m.acc[a]["withdrawn"] = v.acc[a]["withdrawn"] /\ o.acc[a]["withdrawn"] = l.acc[a]["withdrawn"]
      BY <1>5, <1>15, <1>25, <3>1
    <3> QED
      BY <1>19, <2>1, <2>5, <3>2
  <2>7. y.vesting_shares >= x.vesting_shares - n
    <3>1. o.acc[a].vesting_shares \in Nat /\ o.acc[a].vesting_shares >= x.vesting_shares
      BY <1>5, <1>15, <2>1, AccountTypes
    <3>2. y.vesting_shares = o.acc[a].vesting_shares - n
      BY <1>5, <1>19, <1>24, <2>1, <2>5
    <3> QED
      BY <1>9, <2>4, <3>1, <3>2
  <2>8. y.vesting_shares - y.delegated_vesting_shares - (y.to_withdraw - y.withdrawn) >= 0
        /\ y.withdrawn <= y.to_withdraw
    <3>1. x.vesting_shares - x.delegated_vesting_shares - (x.to_withdraw - x.withdrawn) >= 0
      BY <2>2 DEF Solvent
    <3>2. d = x.to_withdraw - x.withdrawn
      BY <1>6, <2>1
    <3> QED
      BY <1>9, <2>3, <2>4, <2>6, <2>7, <3>1, <3>2
  <2>9. ASSUME y.next_vesting_withdrawal # Never
        PROVE  y.vesting_withdraw_rate > 0 /\ \E k \in Nat : y.withdrawn = k * y.vesting_withdraw_rate
    <3>1. /\ m.acc[a]["next_vesting_withdrawal"] = v.acc[a]["next_vesting_withdrawal"]
          /\ m.acc[a]["vesting_withdraw_rate"] = v.acc[a]["vesting_withdraw_rate"]
          /\ w.acc[a]["vesting_withdraw_rate"] = l.acc[a]["vesting_withdraw_rate"]
          /\ w.acc[a]["to_withdraw"] = l.acc[a]["to_withdraw"]
      BY <1>5, <1>15, <1>19, <1>25 DEF SteadyFields
    <3>2. /\ v.acc[a].next_vesting_withdrawal # Never
      BY <2>1, <2>9, <3>1
    <3>3. /\ w.acc[a].withdrawn < w.acc[a].to_withdraw
          /\ y.vesting_withdraw_rate = x.vesting_withdraw_rate
      BY <1>21, <2>1, <3>1, <3>2
    <3>4. w.acc[a].withdrawn = y.withdrawn
      <4>1. m.acc[a]["withdrawn"] = v.acc[a]["withdrawn"]
        BY <1>5, <1>25 DEF SteadyFields
      <4> QED
        BY <2>1, <2>5, <4>1
    <3>5. x.withdrawn + n < x.to_withdraw
      BY <2>1, <2>6, <3>1, <3>3, <3>4
    <3>6. n = x.vesting_withdraw_rate
      BY <1>6, <1>9, <2>1, <2>4, <3>5
    <3>7. x.vesting_withdraw_rate > 0 /\ \E k \in Nat : x.withdrawn = k * x.vesting_withdraw_rate
      <4>1. x.next_vesting_withdrawal # Never
        BY <1>5, <2>1
      <4> QED
        BY <2>2, <4>1 DEF Solvent
    <3>8. PICK k \in Nat : x.withdrawn = k * x.vesting_withdraw_rate
      BY <3>7
    <3>9. k + 1 \in Nat /\ y.withdrawn = (k + 1) * x.vesting_withdraw_rate
      <4>1. (k + 1) * n = k * n + n
        BY <1>9
      <4> QED
        BY <2>6, <3>6, <3>8, <4>1
    <3> QED
      BY <3>3, <3>7, <3>9
  <2>10. Solvent(a, y)
    BY <2>8, <2>9 DEF Solvent
  <2> QED
    BY <2>1, <2>10
<1> QED
  BY <1>1, <1>33, <1>34, <1>35 DEF Covered

LEMMA WithdrawalStep ==
    ASSUME Sound(Current), LoansBacked, Covered(Current), RoutesBacked, now \in Nat, now < Never,
           ProcessVestingWithdrawal
    PROVE  Withdraws(Current, Current') /\ Covered(Current')
<1>1. PICK a \in DueWithdrawals : Becomes(WithdrawalPaid(a))
  BY DEF ProcessVestingWithdrawal
<1>2. a \in Names /\ acc[a].exists /\ acc[a].next_vesting_withdrawal <= now
  BY <1>1 DEF DueWithdrawals
<1>3. acc[a].next_vesting_withdrawal # Never
  <2>1. Never \in Nat
    BY AccountsAssumption
  <2> QED
    BY <1>2, <2>1
<1>4. Solvent(a, acc[a])
  BY <1>2 DEF Covered, Current
<1>5. a \in Users
  BY <1>3, <1>4 DEF Solvent
<1>6. PICK m : m = WithdrawalPaid(a)
  OBVIOUS
<1>7. Withdraws(Current, m) /\ Covered(m)
  BY <1>2, <1>3, <1>5, <1>6, WithdrawalPaidForms
<1>8. m \in Ledgers
  BY <1>7 DEF Withdraws, Moves, Shifts, Formed
<1>9. Current' = m
  BY <1>1, <1>6, <1>8, BecomesNext
<1> QED
  BY <1>7, <1>9

----------------------------------------------------------------------------
(* Votes for validators: no tokens and no shares move.                     *)
PollFields == SteadyFields \ {"proxy", "validators_voted_for"}
Polls(l, m) ==
    /\ Shifts(l, m, 0) /\ Keeps(l, m, PollFields) /\ Saves(l, m) /\ m.dgp = l.dgp
    /\ \A a \in Names : m.acc[a].vesting_shares = l.acc[a].vesting_shares

(* Of the votes, only those of a may change.                               *)
Recounts(l, m, a, B, n) ==
    /\ Polls(l, m) /\ m.ballots = B /\ m.acc[a].validators_voted_for = n
    /\ \A b \in Names : b # a => m.acc[b].validators_voted_for = l.acc[b].validators_voted_for

SameVotes(l, m, a) == Recounts(l, m, a, l.ballots, l.acc[a].validators_voted_for)

LEMMA PollsTransitive ==
    ASSUME NEW l, Formed(l), NEW m, NEW n, Polls(l, m), Polls(m, n)
    PROVE  Polls(l, n)
<1>1. 0 \in Int
  OBVIOUS
<1>2. Shifts(l, m, 0) /\ Shifts(m, n, 0)
  BY DEF Polls
<1>3. Shifts(l, n, 0 + 0)
  BY <1>1, <1>2, ShiftsTransitive
<1>4. Shifts(l, n, 0)
  BY <1>3
<1>5. Keeps(l, n, PollFields)
  BY DEF Polls, Keeps
<1>6. Saves(l, n)
  <2>1. l \in Ledgers /\ m \in Ledgers /\ n \in Ledgers /\ Treasury \in Names
    BY <1>2, AccountsAssumption DEF Shifts, Formed
  <2>2. /\ l.acc[Treasury].balance \in Int /\ m.acc[Treasury].balance \in Int
        /\ n.acc[Treasury].balance \in Int
    BY <2>1, AccountTypes
  <2>3. Saves(l, m) /\ Saves(m, n)
    BY DEF Polls
  <2> QED
    BY <2>2, <2>3 DEF Saves
<1>7. n.dgp = l.dgp /\ \A a \in Names : n.acc[a].vesting_shares = l.acc[a].vesting_shares
  BY DEF Polls
<1> QED
  BY <1>4, <1>5, <1>6, <1>7 DEF Polls

LEMMA RecountsTransitive ==
    ASSUME NEW l, Formed(l), NEW m, NEW n, NEW a \in Names, NEW B, NEW i, NEW C, NEW j,
           Recounts(l, m, a, B, i), Recounts(m, n, a, C, j)
    PROVE  Recounts(l, n, a, C, j)
<1>1. Polls(l, n)
  BY PollsTransitive DEF Recounts
<1>2. /\ n.ballots = C /\ n.acc[a].validators_voted_for = j
      /\ \A b \in Names : b # a => n.acc[b].validators_voted_for = l.acc[b].validators_voted_for
  BY DEF Recounts
<1> QED
  BY <1>1, <1>2 DEF Recounts

LEMMA SameVotesThen ==
    ASSUME NEW l, Formed(l), NEW m, NEW n, NEW a \in Names, NEW C, NEW j,
           SameVotes(l, m, a), Recounts(m, n, a, C, j)
    PROVE  Recounts(l, n, a, C, j)
BY RecountsTransitive DEF SameVotes

LEMMA ThenSameVotes ==
    ASSUME NEW l, Formed(l), NEW m, NEW n, NEW a \in Names, NEW B, NEW i,
           Recounts(l, m, a, B, i), SameVotes(m, n, a)
    PROVE  Recounts(l, n, a, B, i)
<1>1. m.ballots = B /\ m.acc[a].validators_voted_for = i
  BY DEF Recounts
<1>2. Recounts(m, n, a, B, i)
  BY <1>1 DEF SameVotes
<1> QED
  BY <1>2, RecountsTransitive

LEMMA RecountsFormed ==
    ASSUME NEW l, NEW m, NEW a, NEW B, NEW i, Recounts(l, m, a, B, i)
    PROVE  Formed(m) /\ Grows(l, m) /\ m \in Ledgers
BY DEF Recounts, Polls, Shifts, Formed

LEMMA FieldsOfPolls ==
    /\ PollFields \subseteq AccountFields /\ "vesting_shares" \in AccountFields
    /\ "balance" \in AccountFields /\ "validators_voted_for" \in AccountFields
    /\ "proxy" \notin PollFields /\ "validators_voted_for" \notin PollFields
    /\ "proxied_vsf_votes" \notin PollFields /\ "validators_vote_weight" \notin PollFields
BY DEF PollFields, SteadyFields, AccountFields

(* Changes of a single field, or of the ballots.                           *)
LEMMA FieldPolls ==
    ASSUME NEW l, Formed(l), NEW m, NEW g, Shifts(l, m, 0), KeepsBut(l, m, g), m.dgp = l.dgp,
           g \subseteq {"proxy", "validators_voted_for", "validators_vote_weight"}
    PROVE  Polls(l, m)
<1>1. Treasury \in Names /\ l \in Ledgers
  BY AccountsAssumption DEF Formed
<1>2. /\ PollFields \subseteq AccountFields \ g /\ "vesting_shares" \in AccountFields \ g
      /\ "balance" \in AccountFields \ g
  BY FieldsOfPolls
<1>3. Keeps(l, m, PollFields)
  BY <1>2, KeepsPart
<1>4. /\ m.acc[Treasury].balance = l.acc[Treasury].balance
      /\ \A a \in Names : m.acc[a].vesting_shares = l.acc[a].vesting_shares
  BY <1>1, <1>2 DEF KeepsBut, Keeps
<1>5. Saves(l, m)
  BY <1>1, <1>4, SavesSame
<1> QED
  BY <1>3, <1>4, <1>5 DEF Polls

LEMMA VotesOnlySame ==
    ASSUME NEW l, Formed(l), NEW m, VotesOnly(l, m), NEW a \in Names
    PROVE  SameVotes(l, m, a)
<1>1. /\ Books(l, m, 0)
      /\ \A b \in Names : m.acc[b].vesting_shares = l.acc[b].vesting_shares
  BY VotesOnlyBooks
<1>2. Shifts(l, m, 0) /\ Keeps(l, m, SteadyFields) /\ Saves(l, m) /\ m.ballots = l.ballots
  BY <1>1, BooksShifts
<1>3. m.dgp = l.dgp
  BY DEF VotesOnly
<1>4. Keeps(l, m, PollFields)
  BY <1>2 DEF Keeps, PollFields
<1>5. \A b \in Names : m.acc[b].validators_voted_for = l.acc[b].validators_voted_for
  BY <1>2 DEF Keeps, SteadyFields
<1>6. Polls(l, m)
  BY <1>1, <1>2, <1>3, <1>4 DEF Polls
<1> QED
  BY <1>2, <1>5, <1>6 DEF SameVotes, Recounts

LEMMA ProxySame ==
    ASSUME NEW l, Formed(l), NEW a \in Names, l.acc[a].exists,
           NEW p, p \in Names \cup {Nobody}, p # Nobody => l.acc[p].exists,
           NEW m, m = SetProxy(l, a, p)
    PROVE  SameVotes(l, m, a)
<1>1. PICK g : g = {"proxy"}
  OBVIOUS
<1>2. Shifts(l, m, 0) /\ KeepsBut(l, m, g) /\ m.dgp = l.dgp /\ m.ballots = l.ballots
  BY <1>1, ProxyShifts
<1>3. Polls(l, m)
  BY <1>1, <1>2, FieldPolls
<1>4. "validators_voted_for" \in AccountFields \ g
  BY <1>1, FieldsOfPolls
<1>5. \A b \in Names : m.acc[b].validators_voted_for = l.acc[b].validators_voted_for
  BY <1>2, <1>4 DEF KeepsBut, Keeps
<1> QED
  BY <1>2, <1>3, <1>5 DEF SameVotes, Recounts

LEMMA CountRecounts ==
    ASSUME NEW l, Formed(l), NEW a \in Names, l.acc[a].exists, NEW n, n \in Nat,
           NEW m, m = SetCount(l, a, n)
    PROVE  Recounts(l, m, a, l.ballots, n)
<1>1. PICK g : g = {"validators_voted_for"}
  OBVIOUS
<1>2. /\ Shifts(l, m, 0) /\ KeepsBut(l, m, g) /\ m.dgp = l.dgp /\ m.ballots = l.ballots
      /\ m.acc[a].validators_voted_for = n
      /\ \A b \in Names : b # a => m.acc[b] = l.acc[b]
  BY <1>1, CountMoves DEF Moves
<1>3. Polls(l, m)
  BY <1>1, <1>2, FieldPolls
<1> QED
  BY <1>2, <1>3 DEF Recounts

LEMMA BallotsRecount ==
    ASSUME NEW l, Formed(l), NEW B, B \in SUBSET Ballot, IsFiniteSet(B),
           \A b \in B : l.acc[b.account].exists, NEW m, m = SetBallots(l, B), NEW a \in Names
    PROVE  Recounts(l, m, a, B, l.acc[a].validators_voted_for)
<1>1. Shifts(l, m, 0) /\ m.acc = l.acc /\ m.dgp = l.dgp /\ m.ballots = B
  BY BallotsMoves DEF Moves
<1>2. PICK g : g = {"proxy"}
  OBVIOUS
<1>3. KeepsBut(l, m, g)
  BY <1>1 DEF KeepsBut, Keeps
<1>4. Polls(l, m)
  BY <1>1, <1>2, <1>3, FieldPolls
<1> QED
  BY <1>1, <1>4 DEF Recounts

LEMMA WeightSame ==
    ASSUME NEW l, Formed(l), NEW a \in Names, l.acc[a].exists, NEW w, w \in Int,
           NEW m, m = SetWeight(l, a, w)
    PROVE  SameVotes(l, m, a)
<1>1. l \in Ledgers
  BY DEF Formed
<1>2. VotesOnly(l, m)
  BY <1>1, WeightOnly
<1> QED
  BY <1>2, VotesOnlySame

LEMMA AddVotesSame ==
    ASSUME NEW l, Formed(l), NEW vs, NEW delta, delta \in Int, NEW m, m = AddVotes(l, vs, delta),
           NEW a \in Names
    PROVE  SameVotes(l, m, a)
<1>1. l \in Ledgers
  BY DEF Formed
<1>2. VotesOnly(l, m)
  BY <1>1, AddVotesOnly
<1> QED
  BY <1>2, VotesOnlySame

LEMMA AdjustProxiedSame ==
    ASSUME NEW l, Formed(l), NEW a \in Names, l.acc[a].exists, NEW delta,
           delta \in [0..ProxyDepth -> Int], NEW m, m = AdjustProxied(l, a, delta)
    PROVE  SameVotes(l, m, a)
<1>1. l \in Ledgers /\ Linked(l)
  BY DEF Formed
<1>2. VotesOnly(l, m)
  BY <1>1, AdjustProxiedOnly
<1> QED
  BY <1>2, VotesOnlySame

(* The ballots and the number of votes.                                    *)
SetVotes(l, a, B, n) == SetCount(SetBallots(l, B), a, n)

(* Ballots of accounts that exist.                                         *)
Castable(l, B) ==
    B \in SUBSET Ballot /\ IsFiniteSet(B) /\ \A b \in B : l.acc[b.account].exists

LEMMA VotesSet ==
    ASSUME NEW l, Formed(l), NEW a \in Names, l.acc[a].exists, NEW B, Castable(l, B),
           NEW n, n \in Nat, NEW m, m = SetVotes(l, a, B, n)
    PROVE  Recounts(l, m, a, B, n)
<1>1. PICK k : k = SetBallots(l, B)
  OBVIOUS
<1>2. Recounts(l, k, a, B, l.acc[a].validators_voted_for)
  BY <1>1, BallotsRecount DEF Castable
<1>3. Formed(k) /\ k.acc[a].exists /\ k.ballots = B
  BY <1>2, RecountsFormed DEF Grows, Recounts
<1>4. m = SetCount(k, a, n)
  BY <1>1 DEF SetVotes
<1>5. Recounts(k, m, a, k.ballots, n)
  BY <1>3, <1>4, CountRecounts
<1>6. Recounts(k, m, a, B, n)
  BY <1>3, <1>5
<1> QED
  BY <1>2, <1>6, RecountsTransitive

(* Votes, their number and their weight leave the stakes alone.            *)
LEMMA SameStakesTransitive ==
    ASSUME NEW l, NEW m, NEW n, SameStakes(l, m), SameStakes(m, n)
    PROVE  SameStakes(l, n)
BY DEF SameStakes

LEMMA WeightStakes ==
    ASSUME NEW l \in Ledgers, NEW a \in Names, NEW w, NEW m, m = SetWeight(l, a, w)
    PROVE  SameStakes(l, m)
BY DEF SetWeight, SameStakes, Ledgers, Account

LEMMA AddVotesStakes ==
    ASSUME NEW l \in Ledgers, NEW vs, NEW delta, NEW m, m = AddVotes(l, vs, delta)
    PROVE  SameStakes(l, m)
<1>1. m.acc = l.acc
  BY DEF AddVotes, Ledgers
<1> QED
  BY <1>1 DEF SameStakes

LEMMA SetVotesStakes ==
    ASSUME NEW l \in Ledgers, NEW a \in Names, NEW B, NEW n, NEW m, m = SetVotes(l, a, B, n)
    PROVE  SameStakes(l, m)
<1>1. PICK k : k = SetBallots(l, B)
  OBVIOUS
<1>2. k.acc = l.acc /\ l.acc \in [Names -> Account] /\ DOMAIN k = DOMAIN l
  BY <1>1 DEF SetBallots, Ledgers
<1>3. \A b \in Names : k.acc[b] \in Account
  BY <1>2
<1>4. m = SetCount(k, a, n)
  BY <1>1 DEF SetVotes
<1>5. SameStakes(k, m)
  BY <1>2, <1>3, <1>4 DEF SetCount, SameStakes, Ledgers, Account
<1> QED
  BY <1>2, <1>5 DEF SameStakes

LEMMA ReweightedRecounts ==
    ASSUME NEW l, Formed(l), NEW a \in Names, l.acc[a].exists, NEW B, Castable(l, B),
           NEW n, n \in Nat, NEW m, m = Reweighted(l, a, B, n)
    PROVE  Recounts(l, m, a, B, n) /\ SameStakes(l, m)
<1>1. PICK w : w = l.acc[a].validators_vote_weight
  OBVIOUS
<1>2. l \in Ledgers /\ w \in Int /\ -w \in Int
  BY <1>1, AccountTypes DEF Formed
<1>3. PICK off : off = AddVotes(l, VotedFor(l, a), -w)
  OBVIOUS
<1>4. SameVotes(l, off, a)
  BY <1>2, <1>3, AddVotesSame
<1>5. Formed(off) /\ Grows(l, off) /\ off \in Ledgers
  BY <1>4, RecountsFormed DEF SameVotes
<1>6. off.acc[a].exists /\ Castable(off, B)
  BY <1>5 DEF Grows, Castable, Ballot
<1>7. PICK voted : voted = SetVotes(off, a, B, n)
  OBVIOUS
<1>8. Recounts(off, voted, a, B, n)
  BY <1>5, <1>6, <1>7, VotesSet
<1>9. Formed(voted) /\ Grows(off, voted) /\ voted \in Ledgers
  BY <1>8, RecountsFormed
<1>10. voted.acc[a].exists
  BY <1>6, <1>9 DEF Grows
<1>11. PICK u : u = FairWeight(voted, a)
  OBVIOUS
<1>12. u \in Int
  BY <1>9, <1>11, FairWeightInt
<1>13. PICK k : k = SetWeight(voted, a, u)
  OBVIOUS
<1>14. SameVotes(voted, k, a)
  BY <1>9, <1>10, <1>12, <1>13, WeightSame
<1>15. Formed(k)
  BY <1>14, RecountsFormed DEF SameVotes
<1>16. voted = [off EXCEPT !.ballots = B, !.acc[a].validators_voted_for = n]
  BY <1>7 DEF SetVotes, SetCount, SetBallots
<1>17. m = AddVotes(k, VotedFor(voted, a), u)
  BY <1>1, <1>3, <1>11, <1>13, <1>16 DEF Reweighted, SetWeight
<1>18. SameVotes(k, m, a)
  BY <1>12, <1>15, <1>17, AddVotesSame
<1>19. Recounts(l, voted, a, B, n)
  BY <1>4, <1>8, SameVotesThen
<1>20. Recounts(l, k, a, B, n)
  BY <1>14, <1>19, ThenSameVotes
<1>21. SameStakes(l, off) /\ SameStakes(off, voted) /\ SameStakes(voted, k) /\ SameStakes(k, m)
  BY <1>2, <1>3, <1>5, <1>7, <1>9, <1>13, <1>15, <1>17,
     AddVotesStakes, SetVotesStakes, WeightStakes DEF Formed
<1>22. SameStakes(l, m)
  BY <1>21 DEF SameStakes
<1>23. Recounts(l, m, a, B, n)
  BY <1>18, <1>20, ThenSameVotes
<1> QED
  BY <1>22, <1>23

LEMMA StakesOfType ==
    ASSUME NEW l \in Ledgers, NEW a \in Names, NEW d, d = StakesOf(l, a)
    PROVE  /\ d \in [0..ProxyDepth -> Int] /\ Negated(d) \in [0..ProxyDepth -> Int]
           /\ \A i \in 0..ProxyDepth : d[i] = StakeAt(l, a, i) /\ Negated(d)[i] = -StakeAt(l, a, i)
<1>1. ProxyDepth \in Nat
  BY AccountsAssumption
<1>2. PICK s, p : s = l.acc[a].vesting_shares /\ p = l.acc[a].proxied_vsf_votes
  OBVIOUS
<1>3. s \in Int /\ p \in [1..ProxyDepth -> Int]
  BY <1>2, AccountTypes DEF Stakes
<1>4. d = [i \in 0..ProxyDepth |-> IF i = 0 THEN s ELSE p[i]]
  BY <1>2 DEF StakesOf
<1>5. \A i \in 0..ProxyDepth : i # 0 => i \in 1..ProxyDepth
  BY <1>1
<1>6. d \in [0..ProxyDepth -> Int]
  BY <1>3, <1>4, <1>5
<1>7. \A i \in 0..ProxyDepth : d[i] = StakeAt(l, a, i)
  BY <1>2, <1>4 DEF StakeAt
<1>8. \A i \in 0..ProxyDepth : Negated(d)[i] = -d[i]
  BY <1>6 DEF Negated
<1>9. Negated(d) \in [0..ProxyDepth -> Int]
  BY <1>6 DEF Negated
<1> QED
  BY <1>6, <1>7, <1>8, <1>9

LEMMA WithdrawStakesSame ==
    ASSUME NEW l, Formed(l), NEW a \in Names, l.acc[a].exists, NEW m, m = WithdrawStakes(l, a)
    PROVE  SameVotes(l, m, a)
<1>1. PICK d : d = StakesOf(l, a)
  OBVIOUS
<1>2. l \in Ledgers
  BY DEF Formed
<1>3. Negated(d) \in [0..ProxyDepth -> Int]
  BY <1>1, <1>2, StakesOfType
<1>4. PICK e : e = Negated(d)
  OBVIOUS
<1>5. m = AdjustProxied(l, a, e)
  BY <1>1, <1>4 DEF WithdrawStakes
<1> QED
  BY <1>3, <1>4, <1>5, AdjustProxiedSame

(* The proxies count nothing of an account that leaves its proxy.          *)
LEMMA StakesWithdrawn ==
    ASSUME NEW l, Formed(l), Proxied(l), NEW a \in Names, l.acc[a].exists,
           NEW m, m = WithdrawStakes(l, a)
    PROVE  /\ CountedAs(m, a, Zeros) /\ SameProxies(l, m)
           /\ \A i \in 0..ProxyDepth : StakeAt(m, a, i) = StakeAt(l, a, i)
<1>1. PICK d, e : d = StakesOf(l, a) /\ e = Negated(d)
  OBVIOUS
<1>2. l \in Ledgers /\ Linked(l)
  BY DEF Formed
<1>3. e \in [0..ProxyDepth -> Int] /\ \A i \in 0..ProxyDepth : e[i] = -StakeAt(l, a, i)
  BY <1>1, <1>2, StakesOfType
<1>4. \A i \in 1..ProxyDepth : e[i - 1] = -StakeAt(l, a, i - 1)
  BY <1>3, ZerosType
<1>5. m = AdjustProxied(l, a, e)
  BY <1>1 DEF WithdrawStakes
<1> QED
  BY <1>2, <1>3, <1>4, <1>5, StakesTaken

LEMMA ProxySet ==
    ASSUME NEW l, Formed(l), NEW a \in Names, l.acc[a].exists, CountedAs(l, a, Zeros),
           NEW p, p \in Names \cup {Nobody}, p # Nobody => l.acc[p].exists,
           NEW m, m = SetProxy(l, a, p)
    PROVE  /\ CountedAs(m, a, Zeros) /\ m.acc[a].proxy = p
           /\ \A b \in Names \ {a} : m.acc[b].proxy = l.acc[b].proxy
           /\ \A i \in 0..ProxyDepth : StakeAt(m, a, i) = StakeAt(l, a, i)
<1>1. /\ Shifts(l, m, 0) /\ KeepsBut(l, m, {"proxy"}) /\ m.acc[a].proxy = p
      /\ \A b \in Names : b # a => m.acc[b] = l.acc[b]
  BY ProxyShifts
<1>2. l \in Ledgers /\ m \in Ledgers
  BY <1>1 DEF Shifts, Formed
<1>3. \A b \in Names : /\ m.acc[b].proxied_vsf_votes = l.acc[b].proxied_vsf_votes
                       /\ m.acc[b].vesting_shares = l.acc[b].vesting_shares
  BY <1>1 DEF KeepsBut, Keeps, AccountFields
<1>4. \A d \in 1..ProxyDepth : Zeros[d - 1] = 0
  BY ZerosType
<1>5. \A b \in Names \ {a} : m.acc[b].proxy = l.acc[b].proxy
  BY <1>1
<1>6. CountedAs(m, a, Zeros)
  BY <1>2, <1>3, <1>4, <1>5, CountedFrame
<1> QED
  BY <1>1, <1>3, <1>5, <1>6 DEF StakeAt

(* An account that leaves its proxy.                                       *)
LEMMA ProxyRemoved ==
    ASSUME NEW l, Formed(l), Proxied(l), NEW a \in Names, l.acc[a].exists,
           NEW k, k = WithdrawStakes(l, a), NEW m, m = SetProxy(k, a, Nobody)
    PROVE  Proxied(m)
<1>1. CountedAs(k, a, Zeros) /\ SameProxies(l, k)
  BY StakesWithdrawn
<1>2. SameVotes(l, k, a)
  BY WithdrawStakesSame
<1>3. Formed(k) /\ k.acc[a].exists
  BY <1>2, RecountsFormed DEF SameVotes, Grows
<1>4. SameVotes(k, m, a)
  BY <1>3, ProxySame
<1>5. m \in Ledgers
  BY <1>4, RecountsFormed DEF SameVotes
<1>6. /\ CountedAs(m, a, Zeros) /\ m.acc[a].proxy = Nobody
      /\ \A b \in Names \ {a} : m.acc[b].proxy = k.acc[b].proxy
  BY <1>1, <1>3, ProxySet
<1>7. Tallied(m)
  BY <1>5, <1>6, ProxyLeft
<1>8. PICK r : RankedBy(k, r)
  BY <1>1, SameRanks DEF Proxied, Ranked
<1>9. RankedBy(m, r)
  BY <1>6, <1>8 DEF RankedBy
<1>10. Direct(k)
  BY <1>1, SameRanks DEF Proxied
<1>11. Direct(m)
  BY <1>6, <1>10, AccountsAssumption DEF Direct
<1> QED
  BY <1>7, <1>9, <1>11 DEF Proxied, Ranked

(* Votes are of the past, one for a validator, and are counted.             *)
Counted(l) ==
    /\ \A b, c \in l.ballots : b.account = c.account /\ b.validator = c.validator => b = c
    /\ \A a \in Names : l.acc[a].validators_voted_for = Cardinality(VotesOf(l, a))

Polled == BallotsPast /\ Counted(Current)

LEMMA PolledFrame ==
    ASSUME Polled, NEW m, Current' = m, m.ballots = ballots,
           Keeps(Current, m, {"validators_voted_for"}),
           now \in Nat, now' \in Nat, now' >= now, Formed(Current)
    PROVE  Polled'
<1>1. ballots' = ballots /\ m.ballots = Current.ballots
  BY DEF Current
<1>2. \A b \in ballots : b.block \in Nat
  BY DEF Formed, Ledgers, Current, Ballot
<1>3. BallotsPast'
  BY <1>1, <1>2 DEF Polled, BallotsPast
<1>4. \A a \in Names : VotesOf(m, a) = VotesOf(Current, a)
  BY <1>1 DEF VotesOf
<1>5. Counted(Current)
  BY DEF Polled
<1>6. \A a \in Names : m.acc[a].validators_voted_for = Current.acc[a].validators_voted_for
  BY DEF Keeps
<1>7. Counted(m)
  BY <1>1, <1>4, <1>5, <1>6 DEF Counted
<1>8. Counted(Current)' = Counted(m)
  BY DEF Counted, VotesOf
<1> QED
  BY <1>3, <1>7, <1>8 DEF Polled

(* The votes of one account change.                                        *)
LEMMA RecountsCounted ==
    ASSUME NEW l, Formed(l), Counted(l), NEW a \in Names, NEW m, NEW B, NEW n,
           Recounts(l, m, a, B, n),
           {b \in B : b.account # a} = {b \in l.ballots : b.account # a},
           \A b, c \in B : b.account = a /\ c.account = a /\ b.validator = c.validator => b = c,
           n = Cardinality({b \in B : b.account = a})
    PROVE  Counted(m)
<1>1. /\ m.ballots = B /\ m.acc[a].validators_voted_for = n
      /\ \A b \in Names : b # a => m.acc[b].validators_voted_for = l.acc[b].validators_voted_for
  BY DEF Recounts
<1>2. \A b \in B : b.account # a => b \in l.ballots
  OBVIOUS
<1>3. ASSUME NEW b \in B, NEW c \in B, b.account = c.account, b.validator = c.validator
      PROVE  b = c
  <2>1. CASE b.account = a
    BY <1>3, <2>1
  <2>2. CASE b.account # a
    BY <1>2, <1>3, <2>2 DEF Counted
  <2> QED
    BY <2>1, <2>2
<1>4. ASSUME NEW c \in Names
      PROVE  m.acc[c].validators_voted_for = Cardinality(VotesOf(m, c))
  <2>1. CASE c = a
    <3>1. VotesOf(m, c) = {b \in B : b.account = a}
      BY <1>1, <2>1 DEF VotesOf
    <3> QED
      BY <1>1, <2>1, <3>1
  <2>2. CASE c # a
    <3>1. VotesOf(m, c) = VotesOf(l, c)
      BY <1>1, <2>2 DEF VotesOf
    <3> QED
      BY <1>1, <2>2, <3>1 DEF Counted
  <2> QED
    BY <2>1, <2>2
<1> QED
  BY <1>1, <1>3, <1>4 DEF Counted

LEMMA UnproxiedSame ==
    ASSUME Formed(Current), NEW a \in Names, acc[a].exists, NEW m, m = Unproxied(a)
    PROVE  SameVotes(Current, m, a) /\ Carries(Current, m)
<1>0. Current.acc[a].exists /\ Current.acc = acc
  BY DEF Current
<1>1. CASE acc[a].proxy = Nobody
  <2>1. m = Current
    BY <1>1 DEF Unproxied
  <2>2. VotesOnly(m, m)
    BY <2>1, VotesOnlyReflexive DEF Formed
  <2> QED
    BY <2>1, <2>2, VotesOnlySame DEF Carries
<1>2. CASE acc[a].proxy # Nobody
  <2>1. PICK k : k = WithdrawStakes(Current, a)
    OBVIOUS
  <2>2. SameVotes(Current, k, a)
    BY <1>0, <2>1, WithdrawStakesSame
  <2>3. Formed(k) /\ Grows(Current, k)
    BY <2>2, RecountsFormed DEF SameVotes
  <2>4. k.acc[a].exists
    BY <1>0, <2>3 DEF Grows
  <2>5. m = SetProxy(k, a, Nobody)
    BY <1>2, <2>1 DEF Unproxied, SetProxy
  <2>6. SameVotes(k, m, a)
    BY <2>3, <2>4, <2>5, ProxySame
  <2>7. Carries(Current, m)
    BY <1>0, <2>1, <2>5, ProxyRemoved DEF Carries
  <2>8. SameVotes(Current, m, a)
    BY <2>2, <2>6, ThenSameVotes DEF SameVotes
  <2> QED
    BY <2>7, <2>8
<1> QED
  BY <1>1, <1>2

(* The new votes are Polled when the step takes the ledger to them.        *)
LEMMA RecountedStep ==
    ASSUME Formed(Current), Polled, NEW a \in Names, NEW m, NEW B, NEW n,
           Recounts(Current, m, a, B, n), Carries(Current, m), Becomes(m), UNCHANGED now,
           {b \in B : b.account # a} = {b \in ballots : b.account # a},
           \A b, c \in B : b.account = a /\ c.account = a /\ b.validator = c.validator => b = c,
           \A b \in B : b.account = a => b.block <= now,
           n = Cardinality({b \in B : b.account = a})
    PROVE  Polls(Current, Current') /\ Carries(Current, Current') /\ Polled'
<1>1. m \in Ledgers /\ m.ballots = B
  <2>1. m \in Ledgers
    BY RecountsFormed
  <2>2. m.ballots = B
    BY DEF Recounts
  <2> QED
    BY <2>1, <2>2
<1>2. Current' = m
  BY <1>1, BecomesNext
<1>3. ballots = Current.ballots
  BY DEF Current
<1>4. Counted(Current)
  BY DEF Polled
<1>5. Counted(m)
  BY <1>3, <1>4, RecountsCounted
<1>6. ballots' = B
  BY <1>1 DEF Becomes
<1>7. \A b \in B : b.account # a => b \in ballots
  OBVIOUS
<1>8. BallotsPast'
  BY <1>6, <1>7 DEF Polled, BallotsPast
<1>9. Counted(Current)' = Counted(m)
  BY <1>2 DEF Counted, VotesOf
<1>10. Polls(Current, m)
  BY DEF Recounts
<1> QED
  BY <1>2, <1>5, <1>8, <1>9, <1>10 DEF Polled

LEMMA BallotsCastable ==
    ASSUME Formed(Current), NEW l, Formed(l), Grows(Current, l), NEW B, B \subseteq ballots
    PROVE  Castable(l, B)
<1>1. /\ ballots \in SUBSET Ballot /\ IsFiniteSet(ballots)
      /\ \A b \in ballots : acc[b.account].exists
  BY DEF Formed, Ledgers, Cast, Current
<1>2. IsFiniteSet(B)
  BY <1>1, FS_Subset
<1>3. \A b \in B : b.account \in Names
  BY <1>1 DEF Ballot
<1>4. \A b \in B : l.acc[b.account].exists
  BY <1>1, <1>3 DEF Grows, Current
<1> QED
  BY <1>1, <1>2, <1>4 DEF Castable

LEMMA VoteStep ==
    ASSUME Formed(Current), Polled, now \in Nat, NEW a \in Names, NEW v \in Validators,
           Vote(a, v), UNCHANGED now
    PROVE  Polls(Current, Current') /\ Carries(Current, Current') /\ Polled'
<1>1. PICK l : l = Unproxied(a)
  OBVIOUS
<1>2. PICK x : x = [account |-> a, validator |-> v, block |-> now]
  OBVIOUS
<1>3. x \in Ballot /\ x.account = a /\ x.validator = v /\ x.block = now
  BY <1>2 DEF Ballot
<1>4. PICK B, n : B = l.ballots \cup {x} /\ n = l.acc[a].validators_voted_for + 1
  OBVIOUS
<1>5. PICK m : m = Reweighted(l, a, B, n)
  OBVIOUS
<1>6. acc[a].exists /\ v \notin VotedFor(l, a) /\ Becomes(m)
  BY <1>1, <1>2, <1>4, <1>5 DEF Vote
<1>7. SameVotes(Current, l, a) /\ Carries(Current, l)
  BY <1>1, <1>6, UnproxiedSame
<1>8. Formed(l) /\ Grows(Current, l) /\ l \in Ledgers
  BY <1>7, RecountsFormed DEF SameVotes
<1>9. l.ballots = ballots /\ l.acc[a].validators_voted_for = acc[a].validators_voted_for
  BY <1>7 DEF SameVotes, Recounts, Current
<1>10. l.acc[a].exists
  BY <1>6, <1>8 DEF Grows, Current
<1>11. n \in Nat
  BY <1>4, <1>8, AccountTypes
<1>12. Castable(l, ballots)
  BY <1>8, BallotsCastable
<1>13. Castable(l, B)
  <2>1. IsFiniteSet(B)
    BY <1>4, <1>9, <1>12, FS_AddElement DEF Castable
  <2> QED
    BY <1>3, <1>4, <1>9, <1>10, <1>12, <2>1 DEF Castable
<1>14. Recounts(l, m, a, B, n) /\ SameStakes(l, m)
  BY <1>5, <1>8, <1>10, <1>11, <1>13, ReweightedRecounts
<1>15. Recounts(Current, m, a, B, n)
  BY <1>7, <1>14, SameVotesThen
<1>16. PICK V : V = {b \in ballots : b.account = a}
  OBVIOUS
<1>17. acc[a].validators_voted_for = Cardinality(V)
  BY <1>16 DEF Polled, Counted, VotesOf, Current
<1>18. \A b \in V : b.validator # v
  BY <1>6, <1>9, <1>16 DEF VotedFor, VotesOf
<1>19. IsFiniteSet(V)
  BY <1>12, <1>16, FS_Subset DEF Castable
<1>20. {b \in B : b.account = a} = V \cup {x}
  BY <1>3, <1>4, <1>9, <1>16
<1>21. x \notin V
  BY <1>3, <1>18
<1>22. Cardinality(V \cup {x}) = Cardinality(V) + 1
  BY <1>19, <1>21, FS_AddElement
<1>23. n = Cardinality({b \in B : b.account = a})
  BY <1>4, <1>9, <1>17, <1>20, <1>22
<1>24. {b \in B : b.account # a} = {b \in ballots : b.account # a}
  BY <1>3, <1>4, <1>9
<1>25. ASSUME NEW b \in B, NEW c \in B, b.account = a, c.account = a, b.validator = c.validator
       PROVE  b = c
  <2>1. b \in V \cup {x} /\ c \in V \cup {x}
    BY <1>20, <1>25
  <2>2. CASE b \in V /\ c \in V
    BY <1>16, <1>25, <2>2 DEF Polled, Counted, Current
  <2> QED
    BY <1>3, <1>18, <1>25, <2>1, <2>2
<1>26. \A b \in B : b.account = a => b.block <= now
  BY <1>3, <1>4, <1>9 DEF Polled, BallotsPast
<1>27. Carries(Current, m)
  <2>1. m \in Ledgers
    BY <1>14, RecountsFormed
  <2> QED
    BY <1>7, <1>8, <1>14, <2>1, SameCarries, CarriesTransitive
<1> QED
  BY <1>6, <1>15, <1>23, <1>24, <1>25, <1>26, <1>27, RecountedStep

LEMMA UnvoteStep ==
    ASSUME Formed(Current), Polled, now \in Nat, NEW a \in Names, NEW v \in Validators,
           Unvote(a, v), UNCHANGED now
    PROVE  Polls(Current, Current') /\ Carries(Current, Current') /\ Polled'
<1>1. PICK l : l = Unproxied(a)
  OBVIOUS
<1>4. PICK B, n : /\ B = {b \in l.ballots : ~(b.account = a /\ b.validator = v)}
                  /\ n = l.acc[a].validators_voted_for - 1
  OBVIOUS
<1>5. PICK m : m = Reweighted(l, a, B, n)
  OBVIOUS
<1>6. acc[a].exists /\ v \in VotedFor(l, a) /\ Becomes(m)
  BY <1>1, <1>4, <1>5 DEF Unvote
<1>7. SameVotes(Current, l, a) /\ Carries(Current, l)
  BY <1>1, <1>6, UnproxiedSame
<1>8. Formed(l) /\ Grows(Current, l) /\ l \in Ledgers
  BY <1>7, RecountsFormed DEF SameVotes
<1>9. l.ballots = ballots /\ l.acc[a].validators_voted_for = acc[a].validators_voted_for
  BY <1>7 DEF SameVotes, Recounts, Current
<1>10. l.acc[a].exists
  BY <1>6, <1>8 DEF Grows, Current
<1>12. Castable(l, ballots) /\ Castable(l, B)
  BY <1>4, <1>8, <1>9, BallotsCastable
<1>16. PICK V : V = {b \in ballots : b.account = a}
  OBVIOUS
<1>17. acc[a].validators_voted_for = Cardinality(V)
  BY <1>16 DEF Polled, Counted, VotesOf, Current
<1>18. PICK x \in V : x.validator = v
  BY <1>6, <1>9, <1>16 DEF VotedFor, VotesOf
<1>19. IsFiniteSet(V)
  BY <1>12, <1>16, FS_Subset DEF Castable
<1>20. {b \in B : b.account = a} = V \ {x}
  <2>1. \A b \in V : b.validator = v => b = x
    BY <1>16, <1>18 DEF Polled, Counted, Current
  <2> QED
    BY <1>4, <1>9, <1>16, <1>18, <2>1
<1>22. Cardinality(V \ {x}) = Cardinality(V) - 1
  BY <1>18, <1>19, FS_RemoveElement
<1>21. IsFiniteSet(V \ {x})
  BY <1>19, FS_Subset
<1>11. n \in Nat
  <2>1. Cardinality(V \ {x}) \in Nat
    BY <1>21, FS_CardinalityType
  <2> QED
    BY <1>4, <1>9, <1>17, <1>22, <2>1
<1>14. Recounts(l, m, a, B, n) /\ SameStakes(l, m)
  BY <1>5, <1>8, <1>10, <1>11, <1>12, ReweightedRecounts
<1>15. Recounts(Current, m, a, B, n)
  BY <1>7, <1>14, SameVotesThen
<1>23. n = Cardinality({b \in B : b.account = a})
  BY <1>4, <1>9, <1>17, <1>20, <1>22
<1>24. {b \in B : b.account # a} = {b \in ballots : b.account # a}
  BY <1>4, <1>9
<1>25. \A b, c \in B : b.account = a /\ c.account = a /\ b.validator = c.validator => b = c
  BY <1>4, <1>9 DEF Polled, Counted, Current
<1>26. \A b \in B : b.account = a => b.block <= now
  BY <1>4, <1>9 DEF Polled, BallotsPast
<1>27. Carries(Current, m)
  <2>1. m \in Ledgers
    BY <1>14, RecountsFormed
  <2> QED
    BY <1>7, <1>8, <1>14, <2>1, SameCarries, CarriesTransitive
<1> QED
  BY <1>6, <1>15, <1>23, <1>24, <1>25, <1>26, <1>27, RecountedStep

(* The votes of an account are cleared.                                    *)
LEMMA ClearVotesAs ==
    ASSUME NEW l \in Ledgers, NEW a \in Names
    PROVE  ClearVotes(l, a) = SetWeight(SetVotes(l, a, l.ballots \ VotesOf(l, a), 0), a, 0)
BY DEF ClearVotes, SetWeight, SetVotes, SetCount, SetBallots, Ledgers

LEMMA ClearVotesRecounts ==
    ASSUME NEW l, Formed(l), NEW a \in Names, l.acc[a].exists, NEW B, B = l.ballots \ VotesOf(l, a),
           Castable(l, B), NEW m, m = ClearVotes(l, a)
    PROVE  Recounts(l, m, a, B, 0) /\ SameStakes(l, m)
<1>1. PICK k : k = SetVotes(l, a, B, 0)
  OBVIOUS
<1>2. Recounts(l, k, a, B, 0)
  BY <1>1, VotesSet
<1>3. Formed(k) /\ k \in Ledgers /\ k.acc[a].exists
  BY <1>2, RecountsFormed DEF Grows
<1>4. m = SetWeight(k, a, 0)
  BY <1>1, ClearVotesAs DEF Formed
<1>5. 0 \in Int
  OBVIOUS
<1>6. SameVotes(k, m, a)
  BY <1>3, <1>4, <1>5, WeightSame
<1>7. SameStakes(l, k) /\ SameStakes(k, m)
  BY <1>1, <1>3, <1>4, SetVotesStakes, WeightStakes DEF Formed
<1>8. SameStakes(l, m)
  BY <1>7, SameStakesTransitive
<1>9. Recounts(l, m, a, B, 0)
  BY <1>2, <1>6, ThenSameVotes
<1> QED
  BY <1>8, <1>9

LEMMA ProxyStep ==
    ASSUME Formed(Current), Polled, NEW a \in Users, NEW p, p \in Names \cup {Nobody},
           AccountValidatorProxy(a, p), UNCHANGED now
    PROVE  Polls(Current, Current') /\ Carries(Current, Current') /\ Polled'
<1>0. Current \in Ledgers /\ Current.ballots = ballots /\ Current.acc = acc
  BY DEF Formed, Current
<1>9. a \in Names /\ \A b \in {Null, Anonymous, Treasury} : b # a
  BY AccountsAssumption
<1>1. PICK freed : freed = WithdrawStakes(Current, a)
  OBVIOUS
<1>2. acc[a].exists
  BY DEF AccountValidatorProxy
<1>3. SameVotes(Current, freed, a)
  BY <1>0, <1>1, <1>2, <1>9, WithdrawStakesSame
<1>4. Formed(freed) /\ Grows(Current, freed)
  BY <1>3, RecountsFormed DEF SameVotes
<1>5. freed.acc[a].exists /\ freed.ballots = ballots
  BY <1>0, <1>2, <1>3, <1>4, <1>9 DEF Grows, SameVotes, Recounts
<1>6. Counted(Current) /\ BallotsPast
  BY DEF Polled
<1>7. CASE p = Nobody
  <2>1. PICK m : m = SetProxy(freed, a, Nobody)
    OBVIOUS
  <2>2. Becomes(m)
    BY <1>1, <1>7, <2>1 DEF AccountValidatorProxy, SetProxy
  <2>3. SameVotes(freed, m, a)
    BY <1>4, <1>5, <1>9, <2>1, ProxySame
  <2>4. PICK n : n = acc[a].validators_voted_for
    OBVIOUS
  <2>5. Recounts(Current, m, a, ballots, n)
    BY <1>0, <1>3, <1>9, <2>3, <2>4, ThenSameVotes DEF SameVotes
  <2>6. n = Cardinality({b \in ballots : b.account = a})
    BY <1>0, <1>6, <1>9, <2>4 DEF Counted, VotesOf
  <2>7. \A b, c \in ballots : b.account = a /\ c.account = a /\ b.validator = c.validator => b = c
    BY <1>0, <1>6 DEF Counted
  <2>8. \A b \in ballots : b.account = a => b.block <= now
    BY <1>6 DEF BallotsPast
  <2>9. Carries(Current, m)
    BY <1>0, <1>1, <1>2, <1>9, <2>1, ProxyRemoved DEF Carries
  <2> QED
    BY <1>9, <2>2, <2>5, <2>6, <2>7, <2>8, <2>9, RecountedStep
<1>8. CASE p # Nobody
  <2>1. PICK B : B = ballots \ VotesOf(freed, a)
    OBVIOUS
  <2>2. Castable(freed, B)
    BY <1>4, <2>1, BallotsCastable
  <2>3. PICK k : k = ClearVotes(freed, a)
    OBVIOUS
  <2>4. Recounts(freed, k, a, B, 0) /\ SameStakes(freed, k)
    BY <1>4, <1>5, <1>9, <2>1, <2>2, <2>3, ClearVotesRecounts
  <2>5. Formed(k) /\ Grows(freed, k)
    BY <2>4, RecountsFormed
  <2>6. acc[p].exists /\ p \in Names
    BY <1>8 DEF AccountValidatorProxy
  <2>7. k.acc[a].exists /\ k.acc[p].exists
    BY <1>0, <1>4, <1>5, <1>9, <2>5, <2>6 DEF Grows
  <2>8. PICK moved : moved = SetProxy(k, a, p)
    OBVIOUS
  <2>9. SameVotes(k, moved, a)
    BY <1>9, <2>5, <2>6, <2>7, <2>8, ProxySame
  <2>10. Formed(moved) /\ Grows(k, moved)
    BY <2>9, RecountsFormed DEF SameVotes
  <2>11. moved.acc[a].exists
    BY <1>9, <2>7, <2>10 DEF Grows
  <2>12. PICK d : d = StakesOf(Current, a)
    OBVIOUS
  <2>13. d \in [0..ProxyDepth -> Int] /\ \A i \in 0..ProxyDepth : d[i] = StakeAt(Current, a, i)
    BY <1>0, <1>9, <2>12, StakesOfType
  <2>14. PICK m : m = AdjustProxied(moved, a, d)
    OBVIOUS
  <2>15. SameVotes(moved, m, a)
    BY <1>9, <2>10, <2>11, <2>13, <2>14, AdjustProxiedSame
  <2>16. moved = [ClearVotes(freed, a) EXCEPT !.acc[a].proxy = p]
    BY <2>3, <2>8 DEF SetProxy
  <2>17. Becomes(m)
    BY <1>1, <1>8, <2>12, <2>14, <2>16 DEF AccountValidatorProxy
  <2>18. Recounts(Current, k, a, B, 0)
    BY <1>3, <1>9, <2>4, SameVotesThen
  <2>19. Recounts(Current, moved, a, B, 0)
    BY <1>9, <2>9, <2>18, ThenSameVotes
  <2>20. Recounts(Current, m, a, B, 0)
    BY <1>9, <2>15, <2>19, ThenSameVotes
  <2>21. \A b \in B : b.account # a
    BY <1>5, <2>1 DEF VotesOf
  <2>22. {b \in B : b.account # a} = {b \in ballots : b.account # a}
    BY <1>5, <2>1 DEF VotesOf
  <2>23. {b \in B : b.account = a} = {}
    BY <2>21
  <2>24. 0 = Cardinality({b \in B : b.account = a})
    BY <2>23, FS_EmptySet
  <2>25. ASSUME Proxied(Current) PROVE Proxied(m)
    <3>1. /\ CountedAs(freed, a, Zeros) /\ SameProxies(Current, freed)
          /\ \A i \in 0..ProxyDepth : StakeAt(freed, a, i) = StakeAt(Current, a, i)
      BY <1>0, <1>1, <1>2, <1>9, <2>25, StakesWithdrawn
    <3>2. \A b \in Names : /\ k.acc[b].proxy = freed.acc[b].proxy
                           /\ k.acc[b].vesting_shares = freed.acc[b].vesting_shares
                           /\ k.acc[b].proxied_vsf_votes = freed.acc[b].proxied_vsf_votes
      BY <2>4 DEF SameStakes
    <3>3. freed \in Ledgers /\ k \in Ledgers /\ moved \in Ledgers /\ Linked(moved)
      BY <1>4, <2>5, <2>10 DEF Formed
    <3>4. CountedAs(k, a, Zeros)
      BY <1>9, <3>1, <3>2, <3>3, CountedFrame
    <3>5. /\ CountedAs(moved, a, Zeros) /\ moved.acc[a].proxy = p
          /\ \A b \in Names \ {a} : moved.acc[b].proxy = k.acc[b].proxy
          /\ \A i \in 0..ProxyDepth : StakeAt(moved, a, i) = StakeAt(k, a, i)
      BY <1>9, <2>5, <2>6, <2>7, <2>8, <3>4, ProxySet
    <3>6. \A b \in Names \ {a} : moved.acc[b].proxy = Current.acc[b].proxy
      BY <3>1, <3>2, <3>5 DEF SameProxies
    <3>7. ASSUME NEW i \in 0..ProxyDepth PROVE StakeAt(moved, a, i) = StakeAt(Current, a, i)
      <4>1. StakeAt(k, a, i) = StakeAt(freed, a, i)
        BY <1>9, <3>2 DEF StakeAt
      <4> QED
        BY <3>1, <3>5, <4>1
    <3>8. \A i \in 1..ProxyDepth : d[i - 1] = StakeAt(moved, a, i - 1)
      BY <2>13, <3>7, ZerosType
    <3>9. Direct(moved)
      BY <1>9, <2>25, <3>6, AccountsAssumption DEF Direct, Proxied
    <3>10. Ranked(moved)
      <4>1. p # a /\ ProxyAccepted(a, p)
        BY <1>8 DEF AccountValidatorProxy
      <4>2. PICK q : q = ProxyAfter(Current, p)
        OBVIOUS
      <4>3. PICK C : C = {q[i] : i \in 0..ProxyDepth} \ {Nobody}
        OBVIOUS
      <4>4. /\ a \notin {q[i] : i \in 1..ProxyDepth}
            /\ Cardinality(C) > 1 => Cardinality(C) + 1 <= ProxyDepth
        BY <4>1, <4>2, <4>3 DEF ProxyAccepted
      <4>5. Ranked(Current)
        BY <2>25 DEF Proxied
      <4> QED
        BY <1>0, <1>9, <2>6, <3>5, <3>6, <4>1, <4>2, <4>3, <4>4, <4>5, ProxyRanked
    <3> QED
      BY <1>9, <2>11, <2>13, <2>14, <3>3, <3>5, <3>8, <3>9, <3>10, StakesGiven
  <2>26. Carries(Current, m)
    BY <2>25 DEF Carries
  <2> QED
    BY <1>9, <2>17, <2>20, <2>21, <2>22, <2>24, <2>26, RecountedStep
<1> QED
  BY <1>7, <1>8

LEMMA VotingOperationStep ==
    ASSUME Formed(Current), Polled, now \in Nat, VotingOperation
    PROVE  Polls(Current, Current') /\ Carries(Current, Current') /\ Polled'
<1>1. Users \subseteq Names
  BY AccountsAssumption
<1>2. UNCHANGED now
  BY DEF VotingOperation, OnlyVesting
<1>3. PICK a \in Users : \/ \E b \in Users \cup {Nobody} : AccountValidatorProxy(a, b)
                         \/ \E v \in Validators : Vote(a, v) \/ Unvote(a, v)
  BY DEF VotingOperation
<1>4. CASE \E b \in Users \cup {Nobody} : AccountValidatorProxy(a, b)
  <2>1. PICK b \in Users \cup {Nobody} : AccountValidatorProxy(a, b)
    BY <1>4
  <2>2. b \in Names \cup {Nobody} /\ a \in Names
    BY <1>1
  <2> QED
    BY <1>2, <2>1, <2>2, ProxyStep
<1>5. CASE \E v \in Validators : Vote(a, v) \/ Unvote(a, v)
  BY <1>1, <1>2, <1>5, VoteStep, UnvoteStep
<1> QED
  BY <1>3, <1>4, <1>5

----------------------------------------------------------------------------
(* The invariant of the ledger.                                            *)

(* The accounts: every share has an owner and is enough for what was lent  *)
(* and withdrawn; the proxies count the stakes as they are; the            *)
(* committee's own account owes nothing.                                   *)
Core(l) == Sound(l) /\ Covered(l) /\ Proxied(l) /\ l.acc[Treasury].balance >= 0

(* The objects, family by family, against the accounts they refer to.      *)
Families ==
    /\ AwardsInv /\ Polled /\ LoansBacked /\ RoutesBacked
    /\ EscrowsBacked /\ InvitesTyped /\ MarketBacked /\ RequestsBacked
    /\ SubParties /\ ProposalPayers

LedgerInv ==
    /\ PhaseType /\ ProposalInv /\ EscrowInv /\ SubInv
    /\ Core(Current) /\ Families

(* Tokens beyond the supply, those in escrows and invites included.        *)
Excess == Surplus(Current) + EscrowTokens + InviteTokens

----------------------------------------------------------------------------
(* What a family needs of a step that leaves its objects alone.            *)
LEMMA AwardsFrame ==
    ASSUME AwardsInv, UNCHANGED awardShares,
           Current'.dgp.total_reward_shares = Current.dgp.total_reward_shares
    PROVE  AwardsInv'
BY DEF AwardsInv, RewardSharesAddUp, Current

LEMMA EscrowsFrame ==
    ASSUME EscrowsBacked, UNCHANGED escrows, Grows(Current, Current')
    PROVE  EscrowsBacked' /\ EscrowTokens' = EscrowTokens
<1>1. \A e \in EscrowIds : escrows[e] \in EscrowRecords
  BY DEF EscrowsBacked, EscrowsTyped, EscrowRecords
<1>2. \A e \in EscrowIds : Honest(Current', escrows[e])
  BY <1>1, HonestGrows DEF EscrowsBacked
<1>3. \A e \in EscrowIds : Honest(Current', escrows[e]) => Honest(Current, escrows[e])'
  BY DEF Honest
<1>4. EscrowsTyped'
  BY DEF EscrowsBacked, EscrowsTyped
<1>5. EscrowTokens' = EscrowTokens
  BY DEF EscrowTokens
<1> QED
  BY <1>2, <1>3, <1>4, <1>5 DEF EscrowsBacked

LEMMA InvitesFrame ==
    ASSUME InvitesTyped, UNCHANGED invites
    PROVE  InvitesTyped' /\ InviteTokens' = InviteTokens
BY DEF InvitesTyped, InviteTokens

LEMMA RequestsFrame ==
    ASSUME RequestsBacked, UNCHANGED committeeVars, Grows(Current, Current')
    PROVE  RequestsBacked'
<1>1. UNCHANGED <<requests, requestCount>> /\ Live' = Live
  BY DEF committeeVars, Live
<1>2. \A r \in Live : requests[r] \in Requests /\ Granted(Current, requests[r])
  BY RequestOfStatus DEF RequestsBacked, Live
<1>3. \A r \in Live : Granted(Current', requests[r])
  BY <1>2, GrantedGrows
<1>4. \A r \in Live : Granted(Current', requests[r]) => Granted(Current, requests[r])'
  BY <1>1 DEF Granted
<1>5. RequestsTyped'
  BY <1>1 DEF RequestsBacked, RequestsTyped
<1> QED
  BY <1>1, <1>3, <1>4, <1>5 DEF RequestsBacked

LEMMA SubPartiesFrame ==
    ASSUME SubParties, UNCHANGED subs, Grows(Current, Current')
    PROVE  SubParties'
<1>1. Users \subseteq Names
  BY AccountsAssumption
<1>2. \A a \in Names : acc[a].exists => acc'[a].exists
  BY DEF Grows, Current
<1>3. \A k \in Users \X Users : k[1] \in Names /\ k[2] \in Names
  BY <1>1
<1> QED
  BY <1>2, <1>3 DEF SubParties

LEMMA PayersFrame ==
    ASSUME ProposalsTyped, ProposalPayers, UNCHANGED proposals, Grows(Current, Current')
    PROVE  ProposalPayers'
<1>1. \A a \in Names : acc[a].exists => acc'[a].exists
  BY DEF Grows, Current
<1>2. SameOps
  BY DEF SameOps
<1> QED
  BY <1>1, <1>2, PayersStay

(* All families whose objects a step leaves alone, when it keeps the       *)
(* fields F of the accounts.                                               *)
Framed(F) ==
    /\ UNCHANGED routes => RoutesBacked'
    /\ UNCHANGED escrows => EscrowsBacked' /\ EscrowTokens' = EscrowTokens
    /\ UNCHANGED invites => InvitesTyped' /\ InviteTokens' = InviteTokens
    /\ UNCHANGED committeeVars => RequestsBacked'
    /\ UNCHANGED subs => SubParties'
    /\ UNCHANGED proposals => ProposalPayers'
    /\ UNCHANGED <<delegations, expirations>> /\ LoanFields \subseteq F => LoansBacked'
    /\ UNCHANGED sale /\ "reserved_balance" \in F => MarketBacked'

LEMMA Frames ==
    ASSUME LedgerInv, Grows(Current, Current'), NEW F, Keeps(Current, Current', F)
    PROVE  Framed(F)
<1>1. Families /\ ProposalsTyped
  BY DEF LedgerInv, ProposalInv
<1>2. UNCHANGED routes => RoutesBacked'
  BY <1>1, RoutesFrame DEF Families
<1>3. UNCHANGED escrows => EscrowsBacked' /\ EscrowTokens' = EscrowTokens
  BY <1>1, EscrowsFrame DEF Families
<1>4. UNCHANGED invites => InvitesTyped' /\ InviteTokens' = InviteTokens
  BY <1>1, InvitesFrame DEF Families
<1>5. UNCHANGED committeeVars => RequestsBacked'
  BY <1>1, RequestsFrame DEF Families
<1>6. UNCHANGED subs => SubParties'
  BY <1>1, SubPartiesFrame DEF Families
<1>7. UNCHANGED proposals => ProposalPayers'
  BY <1>1, PayersFrame DEF Families
<1>8. ASSUME UNCHANGED <<delegations, expirations>>, LoanFields \subseteq F
      PROVE  LoansBacked'
  <2>1. Keeps(Current, Current', LoanFields)
    BY <1>8 DEF Keeps
  <2> QED
    BY <1>1, <1>8, <2>1, LoansFrame DEF Families
<1>9. ASSUME UNCHANGED sale, "reserved_balance" \in F
      PROVE  MarketBacked'
  <2>1. Keeps(Current, Current', {"reserved_balance"})
    BY <1>9 DEF Keeps
  <2> QED
    BY <1>1, <1>9, <2>1, MarketFrame DEF Families
<1> QED
  BY <1>2, <1>3, <1>4, <1>5, <1>6, <1>7, <1>8, <1>9 DEF Framed

(* A step that keeps the fields F and adds d tokens to the accounts.       *)
Settled(F, d) == Core(Current') /\ Framed(F) /\ Surplus(Current') = Surplus(Current) + d

(* The time does not go back.                                              *)
TimeGoes == now \in Nat /\ now' \in Nat /\ now' >= now

LEMMA SettledBy ==
    ASSUME LedgerInv, NEW F, NEW d, Moves(Current, Current', d), Keeps(Current, Current', F),
           Saves(Current, Current'), Covered(Current')
    PROVE  Settled(F, d)
<1>1. Core(Current) /\ Grows(Current, Current') /\ Formed(Current')
  BY DEF LedgerInv, Moves, Shifts
<1>2. Sound(Current')
  BY <1>1, MovesSound DEF Core
<1>3. Treasury \in Names /\ Current \in Ledgers /\ Current' \in Ledgers
  BY <1>1, AccountsAssumption DEF Core, Sound, Formed
<1>4. PICK i, j : i = Current.acc[Treasury].balance /\ j = Current'.acc[Treasury].balance
  OBVIOUS
<1>5. i \in Int /\ j \in Int
  BY <1>3, <1>4, AccountTypes
<1>6. i >= 0 /\ j >= i
  BY <1>1, <1>4 DEF Core, Saves
<1>7. j >= 0
  BY <1>5, <1>6
<1>11. Proxied(Current')
  BY <1>1 DEF Moves, Carries, Core
<1>8. Core(Current')
  BY <1>2, <1>4, <1>7, <1>11 DEF Core
<1>9. Framed(F)
  BY <1>1, Frames
<1>10. Surplus(Current') = Surplus(Current) + d
  BY DEF Moves, Shifts
<1> QED
  BY <1>8, <1>9, <1>10 DEF Settled

LEMMA StillPolled ==
    ASSUME LedgerInv, TimeGoes, NEW F, Keeps(Current, Current', F),
           "validators_voted_for" \in F, Current'.ballots = Current.ballots
    PROVE  Polled'
<1>1. Polled /\ Formed(Current)
  BY DEF LedgerInv, Families, Core, Sound
<1>2. PICK m : m = Current'
  OBVIOUS
<1>3. m.ballots = ballots
  BY <1>2 DEF Current
<1>4. Keeps(Current, m, {"validators_voted_for"})
  BY <1>2 DEF Keeps
<1> QED
  BY <1>1, <1>2, <1>3, <1>4, PolledFrame DEF TimeGoes

LEMMA SteadyFieldsInclude ==
    /\ LoanFields \subseteq SteadyFields /\ "reserved_balance" \in SteadyFields
    /\ "validators_voted_for" \in SteadyFields
    /\ LoanFields \subseteq TradeFields /\ "validators_voted_for" \in TradeFields
    /\ "reserved_balance" \in SteadyFields \ LoanFields
    /\ "validators_voted_for" \in SteadyFields \ LoanFields
    /\ LoanFields \subseteq SteadyFields \ WithdrawFields
    /\ "reserved_balance" \in SteadyFields \ WithdrawFields
    /\ "validators_voted_for" \in SteadyFields \ WithdrawFields
    /\ LoanFields \subseteq PollFields /\ "reserved_balance" \in PollFields
    /\ LoanFields \subseteq AccountFields \ DrainedFields
    /\ "reserved_balance" \in AccountFields \ DrainedFields
    /\ "validators_voted_for" \in AccountFields \ DrainedFields
BY DEF LoanFields, SteadyFields, TradeFields, WithdrawFields, PollFields, DrainedFields,
   AccountFields

LEMMA RewardsSettle ==
    ASSUME LedgerInv, TimeGoes, NEW r, NEW d, Rewards(Current, Current', r, d)
    PROVE  /\ Settled(SteadyFields, d) /\ Polled'
           /\ r = 0 /\ UNCHANGED awardShares => AwardsInv'
<1>1. Covered(Current')
  BY RewardsCovered DEF LedgerInv, Core, Sound
<1>2. Moves(Current, Current', d) /\ Keeps(Current, Current', SteadyFields) /\ Saves(Current, Current')
  BY DEF Rewards
<1>3. Settled(SteadyFields, d)
  BY <1>1, <1>2, SettledBy
<1>4. Polled'
  BY <1>2, StillPolled, SteadyFieldsInclude DEF Rewards
<1>5. ASSUME r = 0, UNCHANGED awardShares
      PROVE  AwardsInv'
  <2>1. PICK s : s = Current.dgp.total_reward_shares
    OBVIOUS
  <2>2. Current \in Ledgers
    BY DEF LedgerInv, Core, Sound, Formed
  <2>3. s \in Nat
    BY <2>1, <2>2, TotalTypes
  <2>4. Current'.dgp.total_reward_shares = s
    BY <1>5, <2>1, <2>3 DEF Rewards
  <2> QED
    BY <1>5, <2>1, <2>4, AwardsFrame DEF LedgerInv, Families
<1> QED
  BY <1>3, <1>4, <1>5

LEMMA TradesSettle ==
    ASSUME LedgerInv, TimeGoes, NEW x, NEW y, Trades(Current, Current', x, y),
           UNCHANGED awardShares
    PROVE  Settled(TradeFields, 0) /\ Polled' /\ AwardsInv'
<1>1. Covered(Current')
  BY TradesCovered DEF LedgerInv, Core, Sound
<1>2. Moves(Current, Current', 0) /\ Keeps(Current, Current', TradeFields) /\ Saves(Current, Current')
  BY DEF Trades
<1>3. Settled(TradeFields, 0)
  BY <1>1, <1>2, SettledBy
<1>4. Polled'
  BY <1>2, StillPolled, SteadyFieldsInclude DEF Trades
<1>5. AwardsInv'
  BY AwardsFrame DEF Trades, LedgerInv, Families
<1> QED
  BY <1>3, <1>4, <1>5

LEMMA LoansSettle ==
    ASSUME LedgerInv, TimeGoes, LoanMoves, UNCHANGED awardShares
    PROVE  Settled(SteadyFields \ LoanFields, 0) /\ Polled' /\ AwardsInv' /\ LoansBacked'
<1>1. PICK a \in Users, b \in Names, x \in Int, y \in Int :
          Affordable(a, x) /\ Lends(Current, Current', a, x, b, y)
  BY DEF LoanMoves
<1>2. Covered(Current')
  BY <1>1, LendsCovered DEF LedgerInv, Core, Sound
<1>3. /\ Moves(Current, Current', 0) /\ Keeps(Current, Current', SteadyFields \ LoanFields)
      /\ Saves(Current, Current') /\ Current'.ballots = Current.ballots
      /\ Current'.dgp.total_reward_shares = Current.dgp.total_reward_shares
  BY <1>1 DEF Lends, LendsFor
<1>4. PICK F : F = SteadyFields \ LoanFields
  OBVIOUS
<1>5. Settled(F, 0)
  BY <1>2, <1>3, <1>4, SettledBy
<1>6. Polled'
  BY <1>3, <1>4, StillPolled, SteadyFieldsInclude
<1>7. AwardsInv'
  BY <1>3, AwardsFrame DEF LedgerInv, Families
<1> QED
  BY <1>4, <1>5, <1>6, <1>7 DEF LoanMoves

LEMMA WithdrawsSettle ==
    ASSUME LedgerInv, TimeGoes, Withdraws(Current, Current'), Covered(Current'),
           UNCHANGED awardShares
    PROVE  Settled(SteadyFields \ WithdrawFields, 0) /\ Polled' /\ AwardsInv'
<1>3. /\ Moves(Current, Current', 0) /\ Keeps(Current, Current', SteadyFields \ WithdrawFields)
      /\ Saves(Current, Current') /\ Current'.ballots = Current.ballots
      /\ Current'.dgp.total_reward_shares = Current.dgp.total_reward_shares
  BY DEF Withdraws
<1>4. PICK F : F = SteadyFields \ WithdrawFields
  OBVIOUS
<1>5. Settled(F, 0)
  BY <1>3, <1>4, SettledBy
<1>6. Polled'
  BY <1>3, <1>4, StillPolled, SteadyFieldsInclude
<1>7. AwardsInv'
  BY <1>3, AwardsFrame DEF LedgerInv, Families
<1> QED
  BY <1>4, <1>5, <1>6, <1>7

LEMMA PollsSettle ==
    ASSUME LedgerInv, Polls(Current, Current'), Carries(Current, Current'), UNCHANGED awardShares
    PROVE  Settled(PollFields, 0) /\ AwardsInv'
<1>1. /\ Moves(Current, Current', 0) /\ Keeps(Current, Current', PollFields)
      /\ Saves(Current, Current') /\ Current'.dgp = Current.dgp
      /\ \A a \in Names : Current'.acc[a].vesting_shares = Current.acc[a].vesting_shares
  BY DEF Polls, Moves
<1>2. Formed(Current) /\ Formed(Current') /\ Covered(Current)
  BY <1>1 DEF LedgerInv, Core, Sound, Moves, Shifts
<1>3. \A a \in Names : Current'.acc[a].vesting_shares >= Current.acc[a].vesting_shares
  BY <1>1, <1>2, AccountTypes DEF Formed
<1>4. SolventFields \subseteq PollFields
  BY DEF SolventFields, WithdrawFields, PollFields, SteadyFields
<1>5. Covered(Current')
  BY <1>1, <1>2, <1>3, <1>4, CoveredSteady
<1>6. Settled(PollFields, 0)
  BY <1>1, <1>5, SettledBy
<1>7. AwardsInv'
  BY <1>1, AwardsFrame DEF LedgerInv, Families
<1> QED
  BY <1>6, <1>7

LEMMA DrainsSettle ==
    ASSUME LedgerInv, TimeGoes, Drains(Current, Current'), Current'.acc[Treasury].balance = 0,
           UNCHANGED awardShares
    PROVE  Settled(AccountFields \ DrainedFields, 0) /\ Polled' /\ AwardsInv'
<1>1. /\ Moves(Current, Current', 0) /\ KeepsBut(Current, Current', DrainedFields)
      /\ Current'.ballots = Current.ballots
      /\ Current'.dgp.total_reward_shares = Current.dgp.total_reward_shares
  BY DEF Drains
<1>2. PICK F : F = AccountFields \ DrainedFields
  OBVIOUS
<1>3. Keeps(Current, Current', F)
  BY <1>1, <1>2 DEF KeepsBut
<1>4. Sound(Current) /\ Covered(Current) /\ Grows(Current, Current')
  BY <1>1 DEF LedgerInv, Core, Moves, Shifts
<1>5. Covered(Current')
  BY <1>4, DrainsCovered DEF Sound
<1>11. Proxied(Current')
  BY <1>1 DEF LedgerInv, Core, Moves, Carries
<1>6. Core(Current')
  BY <1>1, <1>4, <1>5, <1>11, MovesSound DEF Core
<1>7. Framed(F)
  BY <1>3, <1>4, Frames
<1>8. Settled(F, 0)
  BY <1>1, <1>6, <1>7 DEF Settled, Moves, Shifts
<1>9. Polled'
  BY <1>1, <1>2, <1>3, StillPolled, SteadyFieldsInclude
<1>10. AwardsInv'
  BY <1>1, AwardsFrame DEF LedgerInv, Families
<1> QED
  BY <1>2, <1>8, <1>9, <1>10

----------------------------------------------------------------------------
(* Every step of the ledger.                                               *)

(* The invariant of accounts and objects holds again, and d tokens more    *)
(* than the supply are there.                                              *)
Balances(d) == Core(Current') /\ Families' /\ Excess' = Excess + d

LEMMA ExcessParts ==
    ASSUME LedgerInv
    PROVE  Surplus(Current) \in Int /\ EscrowTokens \in Int /\ InviteTokens \in Int
<1>1. Current \in Ledgers /\ EscrowsBacked /\ InvitesTyped
  BY DEF LedgerInv, Core, Sound, Formed, Families
<1>2. Surplus(Current) \in Int
  BY <1>1, SumTypes
<1>3. EscrowTokens \in Int
  <2>1. PICK f : f = [d \in EscrowIds |-> EscrowPart(escrows[d])]
    OBVIOUS
  <2>2. \A d \in EscrowIds : escrows[d] \in EscrowRecords
    BY <1>1 DEF EscrowsBacked, EscrowsTyped, EscrowRecords
  <2>3. f \in [EscrowIds -> Int]
    BY <2>1, <2>2, EscrowRecordTypes
  <2>4. EscrowTokens = SumFunction(f)
    BY <2>1 DEF EscrowTokens, EscrowPart
  <2> QED
    BY <2>3, <2>4, EscrowAssumption, SumOfInts
<1>4. InviteTokens \in Int
  <2>1. PICK f : f = [j \in InviteKeys |-> invites[j].balance]
    OBVIOUS
  <2>2. \A x \in Invites : x.balance \in Int
    BY DEF Invites
  <2>3. f \in [InviteKeys -> Int]
    BY <1>1, <2>1, <2>2 DEF InvitesTyped
  <2>4. InviteTokens = SumFunction(f)
    BY <2>1 DEF InviteTokens
  <2> QED
    BY <2>3, <2>4, InvitesAssumption, SumOfInts
<1> QED
  BY <1>2, <1>3, <1>4

(* The tokens of a step: d to the accounts, i out of the escrows, j out of *)
(* the invites.                                                            *)
LEMMA ExcessMoves ==
    ASSUME LedgerInv, NEW F, NEW d, d \in Int, Settled(F, d), NEW i, i \in Int, NEW j, j \in Int,
           EscrowTokens' = EscrowTokens - i, InviteTokens' = InviteTokens - j
    PROVE  Excess' = Excess + (d - i - j)
<1>1. PICK s, t, u : s = Surplus(Current) /\ t = EscrowTokens /\ u = InviteTokens
  OBVIOUS
<1>2. s \in Int /\ t \in Int /\ u \in Int
  BY <1>1, ExcessParts
<1>3. Surplus(Current') = s + d
  BY <1>1 DEF Settled
<1>4. Surplus(Current') = Surplus(Current)'
  BY DEF Surplus, AccountTokens, FundTokens
<1>5. Excess' = (s + d) + (t - i) + (u - j)
  BY <1>1, <1>3, <1>4 DEF Excess
<1>6. Excess = s + t + u
  BY <1>1 DEF Excess
<1> QED
  BY <1>2, <1>5, <1>6

LEMMA StayingTokens ==
    ASSUME LedgerInv, NEW F, NEW d, d \in Int, Settled(F, d), UNCHANGED <<escrows, invites>>
    PROVE  Excess' = Excess + d
<1>1. EscrowTokens' = EscrowTokens - 0 /\ InviteTokens' = InviteTokens - 0
  BY ExcessParts DEF Settled, Framed
<1>2. Excess' = Excess + (d - 0 - 0)
  BY <1>1, ExcessMoves
<1> QED
  BY <1>2

LEMMA FormedNow == ASSUME LedgerInv PROVE Formed(Current) /\ now \in Nat
BY DEF LedgerInv, Core, Sound, PhaseType

LEMMA SameTime == ASSUME LedgerInv, UNCHANGED now PROVE TimeGoes
BY DEF LedgerInv, PhaseType, TimeGoes

(* Payments and their like, by the family of the step.                     *)
LEMMA PaymentBalances ==
    ASSUME LedgerInv, OnlyVesting, UNCHANGED vestingVars, Rewards(Current, Current', 0, 0)
    PROVE  Balances(0)
<1>1. UNCHANGED <<routes, delegations, expirations, awardShares, escrows, invites, sale, subs,
                  proposals, now>> /\ UNCHANGED committeeVars
  BY DEF OnlyVesting, vestingVars, marketVars, subscriptionVars, proposalVars, committeeVars
<1>2. Settled(SteadyFields, 0) /\ Polled' /\ AwardsInv'
  BY <1>1, SameTime, RewardsSettle
<1>3. Families'
  BY <1>1, <1>2, SteadyFieldsInclude DEF Settled, Framed, Families
<1>4. Excess' = Excess + 0
  BY <1>1, <1>2, StayingTokens
<1> QED
  BY <1>2, <1>3, <1>4 DEF Balances, Settled

LEMMA AwardBalances ==
    ASSUME LedgerInv, OnlyAwards, NEW r, NEW d, d \in Int, Rewards(Current, Current', r, d),
           AwardsInv'
    PROVE  Balances(d)
<1>1. UNCHANGED <<routes, delegations, expirations, escrows, invites, sale, subs,
                  proposals, now>> /\ UNCHANGED committeeVars
  BY DEF OnlyAwards, vestingVars, marketVars, subscriptionVars, proposalVars, committeeVars
<1>2. Settled(SteadyFields, d) /\ Polled'
  BY <1>1, SameTime, RewardsSettle
<1>3. Families'
  BY <1>1, <1>2, SteadyFieldsInclude DEF Settled, Framed, Families
<1>4. Excess' = Excess + d
  BY <1>1, <1>2, StayingTokens
<1> QED
  BY <1>2, <1>3, <1>4 DEF Balances, Settled

LEMMA EscrowBalances ==
    ASSUME LedgerInv, OnlyEscrows, NEW d, d \in Int, EscrowMoves(d)
    PROVE  Balances(0)
<1>1. UNCHANGED <<routes, delegations, expirations, awardShares, invites, sale, subs,
                  proposals, now>> /\ UNCHANGED committeeVars
  BY DEF OnlyEscrows, vestingVars, marketVars, subscriptionVars, proposalVars, committeeVars
<1>2. Rewards(Current, Current', 0, d) /\ EscrowTokens' = EscrowTokens - d /\ EscrowsBacked'
  BY DEF EscrowMoves
<1>3. Settled(SteadyFields, d) /\ Polled' /\ AwardsInv'
  BY <1>1, <1>2, SameTime, RewardsSettle
<1>4. Families'
  BY <1>1, <1>2, <1>3, SteadyFieldsInclude DEF Settled, Framed, Families
<1>5. InviteTokens' = InviteTokens - 0
  BY <1>1, <1>3, ExcessParts DEF Settled, Framed
<1>6. Excess' = Excess + (d - d - 0)
  BY <1>2, <1>3, <1>5, ExcessMoves
<1>7. Excess' = Excess + 0
  BY <1>6
<1> QED
  BY <1>3, <1>4, <1>7 DEF Balances, Settled

LEMMA InviteBalances ==
    ASSUME LedgerInv, OnlyInvites, NEW d, d \in Int, InviteMoves(d)
    PROVE  Balances(0)
<1>1. UNCHANGED <<routes, delegations, expirations, awardShares, escrows, sale, subs,
                  proposals, now>> /\ UNCHANGED committeeVars
  BY DEF OnlyInvites, vestingVars, marketVars, subscriptionVars, proposalVars, committeeVars
<1>2. Rewards(Current, Current', 0, d) /\ InviteTokens' = InviteTokens - d /\ InvitesTyped'
  BY DEF InviteMoves
<1>3. Settled(SteadyFields, d) /\ Polled' /\ AwardsInv'
  BY <1>1, <1>2, SameTime, RewardsSettle
<1>4. Families'
  BY <1>1, <1>2, <1>3, SteadyFieldsInclude DEF Settled, Framed, Families
<1>5. EscrowTokens' = EscrowTokens - 0
  BY <1>1, <1>3, ExcessParts DEF Settled, Framed
<1>6. Excess' = Excess + (d - 0 - d)
  BY <1>2, <1>3, <1>5, ExcessMoves
<1>7. Excess' = Excess + 0
  BY <1>6
<1> QED
  BY <1>3, <1>4, <1>7 DEF Balances, Settled

LEMMA MarketBalances ==
    ASSUME LedgerInv, OnlyMarket, MarketMoves
    PROVE  Balances(0)
<1>1. UNCHANGED <<routes, delegations, expirations, awardShares, escrows, invites, subs,
                  proposals, now>> /\ UNCHANGED committeeVars
  BY DEF OnlyMarket, vestingVars, subscriptionVars, proposalVars, committeeVars
<1>2. MarketBacked'
  BY DEF MarketMoves
<1>3. PICK x, y \in Auctions : Trades(Current, Current', x, y)
  BY DEF MarketMoves
<1>4. Settled(TradeFields, 0) /\ Polled' /\ AwardsInv'
  BY <1>1, <1>3, SameTime, TradesSettle
<1>5. Families'
  BY <1>1, <1>2, <1>4, SteadyFieldsInclude DEF Settled, Framed, Families
<1>6. Excess' = Excess + 0
  BY <1>1, <1>4, StayingTokens
<1> QED
  BY <1>4, <1>5, <1>6 DEF Balances, Settled

LEMMA CommitteeBalances ==
    ASSUME LedgerInv, OnlyCommittee, Rewards(Current, Current', 0, 0), RequestsBacked'
    PROVE  Balances(0)
<1>1. UNCHANGED <<routes, delegations, expirations, awardShares, escrows, invites, sale, subs,
                  proposals, now>>
  BY DEF OnlyCommittee, vestingVars, marketVars, subscriptionVars, proposalVars
<1>2. Settled(SteadyFields, 0) /\ Polled' /\ AwardsInv'
  BY <1>1, SameTime, RewardsSettle
<1>3. Families'
  BY <1>1, <1>2, SteadyFieldsInclude DEF Settled, Framed, Families
<1>4. Excess' = Excess + 0
  BY <1>1, <1>2, StayingTokens
<1> QED
  BY <1>2, <1>3, <1>4 DEF Balances, Settled

LEMMA SubscriptionBalances ==
    ASSUME LedgerInv, OnlySubscriptions, Rewards(Current, Current', 0, 0), SubParties'
    PROVE  Balances(0)
<1>1. UNCHANGED <<routes, delegations, expirations, awardShares, escrows, invites, sale,
                  proposals, now>> /\ UNCHANGED committeeVars
  BY DEF OnlySubscriptions, vestingVars, marketVars, committeeVars, proposalVars
<1>2. Settled(SteadyFields, 0) /\ Polled' /\ AwardsInv'
  BY <1>1, SameTime, RewardsSettle
<1>3. Families'
  BY <1>1, <1>2, SteadyFieldsInclude DEF Settled, Framed, Families
<1>4. Excess' = Excess + 0
  BY <1>1, <1>2, StayingTokens
<1> QED
  BY <1>2, <1>3, <1>4 DEF Balances, Settled

LEMMA ProposalBalances ==
    ASSUME LedgerInv, OnlyProposals, Rewards(Current, Current', 0, 0), ProposalPayers'
    PROVE  Balances(0)
<1>1. UNCHANGED <<routes, delegations, expirations, awardShares, escrows, invites, sale,
                  subs, now>> /\ UNCHANGED committeeVars
  BY DEF OnlyProposals, vestingVars, marketVars, committeeVars, subscriptionVars
<1>2. Settled(SteadyFields, 0) /\ Polled' /\ AwardsInv'
  BY <1>1, SameTime, RewardsSettle
<1>3. Families'
  BY <1>1, <1>2, SteadyFieldsInclude DEF Settled, Framed, Families
<1>4. Excess' = Excess + 0
  BY <1>1, <1>2, StayingTokens
<1> QED
  BY <1>2, <1>3, <1>4 DEF Balances, Settled

(* Loans, withdrawals, routes and votes.                                   *)
LEMMA LoanBalances ==
    ASSUME LedgerInv, OnlyVesting, UNCHANGED routes, LoanMoves
    PROVE  Balances(0)
<1>1. UNCHANGED <<routes, awardShares, escrows, invites, sale, subs, proposals, now>>
      /\ UNCHANGED committeeVars
  BY DEF OnlyVesting, marketVars, subscriptionVars, proposalVars, committeeVars
<1>2. Settled(SteadyFields \ LoanFields, 0) /\ Polled' /\ AwardsInv' /\ LoansBacked'
  BY <1>1, SameTime, LoansSettle
<1>3. Families'
  BY <1>1, <1>2, SteadyFieldsInclude DEF Settled, Framed, Families
<1>4. Excess' = Excess + 0
  BY <1>1, <1>2, StayingTokens
<1> QED
  BY <1>2, <1>3, <1>4 DEF Balances, Settled

LEMMA WithdrawalBalances ==
    ASSUME LedgerInv, OnlyVesting, UNCHANGED vestingVars, Withdraws(Current, Current'),
           Covered(Current')
    PROVE  Balances(0)
<1>1. UNCHANGED <<routes, delegations, expirations, awardShares, escrows, invites, sale, subs,
                  proposals, now>> /\ UNCHANGED committeeVars
  BY DEF OnlyVesting, vestingVars, marketVars, subscriptionVars, proposalVars, committeeVars
<1>2. Settled(SteadyFields \ WithdrawFields, 0) /\ Polled' /\ AwardsInv'
  BY <1>1, SameTime, WithdrawsSettle
<1>3. Families'
  BY <1>1, <1>2, SteadyFieldsInclude DEF Settled, Framed, Families
<1>4. Excess' = Excess + 0
  BY <1>1, <1>2, StayingTokens
<1> QED
  BY <1>2, <1>3, <1>4 DEF Balances, Settled

LEMMA RouteBalances ==
    ASSUME LedgerInv, OnlyVesting, UNCHANGED <<delegations, expirations>>, UNCHANGED accountVars,
           RoutesBacked'
    PROVE  Balances(0)
<1>1. UNCHANGED <<delegations, expirations, awardShares, escrows, invites, sale, subs,
                  proposals, now>> /\ UNCHANGED committeeVars
  BY DEF OnlyVesting, marketVars, subscriptionVars, proposalVars, committeeVars
<1>2. Rewards(Current, Current', 0, 0)
  BY FormedNow, UnchangedStep
<1>3. Settled(SteadyFields, 0) /\ Polled' /\ AwardsInv'
  BY <1>1, <1>2, SameTime, RewardsSettle
<1>4. Families'
  BY <1>1, <1>3, SteadyFieldsInclude DEF Settled, Framed, Families
<1>5. Excess' = Excess + 0
  BY <1>1, <1>3, StayingTokens
<1> QED
  BY <1>3, <1>4, <1>5 DEF Balances, Settled

LEMMA VotingBalances ==
    ASSUME LedgerInv, OnlyVesting, UNCHANGED vestingVars, Polls(Current, Current'),
           Carries(Current, Current'), Polled'
    PROVE  Balances(0)
<1>1. UNCHANGED <<routes, delegations, expirations, awardShares, escrows, invites, sale, subs,
                  proposals, now>> /\ UNCHANGED committeeVars
  BY DEF OnlyVesting, vestingVars, marketVars, subscriptionVars, proposalVars, committeeVars
<1>2. Settled(PollFields, 0) /\ AwardsInv'
  BY <1>1, PollsSettle
<1>3. Families'
  BY <1>1, <1>2, SteadyFieldsInclude DEF Settled, Framed, Families
<1>4. Excess' = Excess + 0
  BY <1>1, <1>2, StayingTokens
<1> QED
  BY <1>2, <1>3, <1>4 DEF Balances, Settled

(* A fixed award that pays more than was asked for.                        *)
OvershootingAward ==
    \E a \in Actors, b, c \in Users, p \in Percents, w \in Weights, n \in Tokens :
        FixedAward(a, b, n, p, c, w) /\ Overshoots(a, n, p, w)

(* The inputs of the operations.                                           *)
LEMMA Inputs ==
    /\ Users \subseteq Names /\ Actors \subseteq Users /\ Actors \subseteq Names
    /\ Producers \subseteq Validators
    /\ \A n \in Tokens : n \in Nat /\ n \in Int
    /\ \A p \in Percents : p \in Nat /\ p \in Int /\ p \in 0..Full
    /\ \A w \in Weights : w \in 0..Full
    /\ Null \in Names /\ Anonymous \in Names /\ Treasury \in Names
BY AccountsAssumption, LedgerAssumption

LEMMA AwardsClaimed ==
    ASSUME LedgerInv, NEW r, r \in Nat, NEW d, Rewards(Current, Current', r, d), Claims(r)
    PROVE  AwardsInv'
<1>1. AwardsInv /\ Current \in Ledgers /\ now \in Nat
  BY FormedNow DEF LedgerInv, Families, Formed
<1>2. dgp'.total_reward_shares = dgp.total_reward_shares + r
  BY DEF Rewards, Current
<1>3. dgp.total_reward_shares \in Nat
  BY <1>1, TotalTypes DEF Current
<1>4. awardShares \in AwardObjects /\ dgp.total_reward_shares = RsharesOf(awardShares)
  BY <1>1 DEF AwardsInv, RewardSharesAddUp, RsharesOf
<1>5. CASE r = 0 /\ UNCHANGED awardShares
  <2>1. dgp'.total_reward_shares = dgp.total_reward_shares
    BY <1>2, <1>3, <1>5
  <2> QED
    BY <1>1, <1>5, <2>1 DEF AwardsInv, RewardSharesAddUp
<1>6. CASE r > 0 /\ Claimed(r)
  <2>1. PICK x : x = [rshares |-> r, expires |-> now + RegenTime]
    OBVIOUS
  <2>2. x \in AwardObject /\ x.rshares = r
    BY <1>1, <2>1, AccountsAssumption DEF AwardObject
  <2>3. awardShares' = Append(awardShares, x)
    BY <1>6, <2>1 DEF Claimed
  <2>4. awardShares' \in AwardObjects /\ RsharesOf(awardShares') = RsharesOf(awardShares) + r
    BY <1>4, <2>2, <2>3, RsharesAppended
  <2>5. dgp'.total_reward_shares = RsharesOf(awardShares')
    BY <1>2, <1>4, <2>4
  <2> QED
    BY <2>4, <2>5 DEF AwardsInv, RewardSharesAddUp, RsharesOf
<1> QED
  BY <1>5, <1>6 DEF Claims

LEMMA VestingOperationStep ==
    ASSUME LedgerInv, VestingOperation
    PROVE  Balances(0)
<1>1. OnlyVesting
  BY DEF VestingOperation
<1>2. PICK a \in Users, b \in Users \cup {Null, Anonymous, Treasury}, n \in Tokens :
          \/ Transfer(a, b, n)
          \/ TransferToVesting(a, b, n)
          \/ \E new \in Fresh : TransferAnonymous(a, new, n)
  BY DEF VestingOperation
<1>3. b \in Names /\ n \in Nat
  BY Inputs
<1>4. CASE Transfer(a, b, n)
  <2>1. Rewards(Current, Current', 0, 0)
    BY <1>3, <1>4, FormedNow, TransferStep
  <2>2. UNCHANGED vestingVars
    BY <1>4 DEF Transfer
  <2> QED
    BY <1>1, <2>1, <2>2, PaymentBalances
<1>5. CASE TransferToVesting(a, b, n)
  <2>1. Rewards(Current, Current', 0, 0)
    BY <1>3, <1>5, FormedNow, TransferToVestingStep
  <2>2. UNCHANGED vestingVars
    BY <1>5 DEF TransferToVesting
  <2> QED
    BY <1>1, <2>1, <2>2, PaymentBalances
<1>6. CASE \E new \in Fresh : TransferAnonymous(a, new, n)
  <2>1. PICK new \in Names : TransferAnonymous(a, new, n)
    BY <1>6 DEF Fresh
  <2>2. Rewards(Current, Current', 0, 0)
    BY <1>3, <2>1, FormedNow, TransferAnonymousStep
  <2>3. UNCHANGED vestingVars
    BY <2>1 DEF TransferAnonymous
  <2> QED
    BY <1>1, <2>2, <2>3, PaymentBalances
<1> QED
  BY <1>2, <1>4, <1>5, <1>6

LEMMA StakeOperationStep ==
    ASSUME LedgerInv, StakeOperation
    PROVE  Balances(0)
<1>1. OnlyVesting
  BY DEF StakeOperation
<1>2. LoansBacked /\ RoutesBacked
  BY DEF LedgerInv, Families
<1>3. CASE \E a \in Actors, b \in Users, n \in Tokens \cup {0} : DelegateVestingShares(a, b, n)
  <2>1. PICK a \in Users, b \in Names, n \in Nat : DelegateVestingShares(a, b, n)
    BY <1>3, Inputs
  <2>2. LoanMoves
    BY <1>2, <2>1, FormedNow, DelegateStep
  <2>3. UNCHANGED routes
    BY <2>1 DEF DelegateVestingShares
  <2> QED
    BY <1>1, <2>2, <2>3, LoanBalances
<1>4. CASE \E a \in Actors, n \in Tokens \cup {0}, new \in Fresh, s \in Tokens :
               AccountCreate(a, new, n, s)
  <2>1. PICK a \in Users, n \in Nat, new \in Names, s \in Nat : AccountCreate(a, new, n, s)
    BY <1>4, Inputs DEF Fresh
  <2>2. LoanMoves
    BY <1>2, <2>1, FormedNow, AccountCreateStep
  <2>3. UNCHANGED routes
    BY <2>1 DEF AccountCreate
  <2> QED
    BY <1>1, <2>2, <2>3, LoanBalances
<1>5. CASE \E a \in Actors, b \in Users \cup {Null}, p \in Percents \cup {0},
              auto \in BOOLEAN : SetWithdrawVestingRoute(a, b, p, auto)
  <2>0. 0 \in 0..Full
    BY AccountsAssumption
  <2>1. PICK a \in Users, b \in Names, p \in 0..Full, auto \in BOOLEAN :
            SetWithdrawVestingRoute(a, b, p, auto)
    BY <1>5, <2>0, Inputs
  <2>2. RoutesBacked' /\ UNCHANGED accountVars
    BY <1>2, <2>1, SetRouteStep
  <2>3. UNCHANGED <<delegations, expirations>>
    BY <2>1 DEF SetWithdrawVestingRoute
  <2> QED
    BY <1>1, <2>2, <2>3, RouteBalances
<1> QED
  BY <1>3, <1>4, <1>5 DEF StakeOperation

LEMMA WithdrawOperationStep ==
    ASSUME LedgerInv, WithdrawOperation
    PROVE  Balances(0)
<1>1. OnlyVesting
  BY DEF WithdrawOperation
<1>2. PICK a \in Users, n \in Nat : WithdrawVesting(a, n)
  BY Inputs DEF WithdrawOperation
<1>3. Covered(Current)
  BY DEF LedgerInv, Core
<1>4. Withdraws(Current, Current') /\ Covered(Current')
  BY <1>2, <1>3, FormedNow, WithdrawVestingStep
<1>5. UNCHANGED vestingVars
  BY <1>2 DEF WithdrawVesting
<1> QED
  BY <1>1, <1>4, <1>5, WithdrawalBalances

LEMMA VotingOperationBalances ==
    ASSUME LedgerInv, VotingOperation
    PROVE  Balances(0)
<1>1. OnlyVesting /\ UNCHANGED vestingVars
  BY DEF VotingOperation
<1>2. Polls(Current, Current') /\ Carries(Current, Current') /\ Polled'
  BY FormedNow, VotingOperationStep DEF LedgerInv, Families
<1> QED
  BY <1>1, <1>2, VotingBalances

LEMMA AwardOperationStep ==
    ASSUME LedgerInv, AwardOperation
    PROVE  \E d \in Nat : Balances(d) /\ (~OvershootingAward => d = 0)
<1>1. OnlyAwards
  BY DEF AwardOperation
<1>2. PICK a \in Actors, b \in Users, c \in Users, p \in Percents, w \in Weights :
          \/ Award(a, b, p, c, w)
          \/ \E n \in Tokens : FixedAward(a, b, n, p, c, w)
  BY DEF AwardOperation
<1>3. /\ a \in Names /\ b \in Names /\ c \in Names /\ p \in Nat /\ p \in Int /\ w \in 0..Full
  BY Inputs
<1>4. CASE Award(a, b, p, c, w)
  <2>1. PICK r \in Nat : Rewards(Current, Current', r, 0) /\ Claims(r)
    BY <1>3, <1>4, FormedNow, AwardStep
  <2>2. AwardsInv'
    BY <2>1, AwardsClaimed
  <2>3. 0 \in Int
    OBVIOUS
  <2>4. Balances(0)
    BY <1>1, <2>1, <2>2, <2>3, AwardBalances
  <2> QED
    BY <2>4
<1>5. CASE \E n \in Tokens : FixedAward(a, b, n, p, c, w)
  <2>1. PICK n \in Tokens : FixedAward(a, b, n, p, c, w)
    BY <1>5
  <2>2. n \in Nat
    BY Inputs
  <2>3. PICK r \in Nat, d \in Nat :
           /\ Rewards(Current, Current', r, d) /\ Claims(r)
           /\ ~Overshoots(a, n, p, w) => d = 0
    BY <1>3, <2>1, <2>2, FormedNow, FixedAwardStep
  <2>4. AwardsInv'
    BY <2>3, AwardsClaimed
  <2>5. d \in Int
    OBVIOUS
  <2>6. Balances(d)
    BY <1>1, <2>3, <2>4, <2>5, AwardBalances
  <2>7. ~OvershootingAward => d = 0
    BY <2>1, <2>3 DEF OvershootingAward
  <2> QED
    BY <2>6, <2>7
<1> QED
  BY <1>2, <1>4, <1>5

(* Every operation.                                                        *)
LEMMA OperationStep ==
    ASSUME LedgerInv, LedgerOperation
    PROVE  \E d \in Nat : Balances(d) /\ (~OvershootingAward => d = 0)
<1>0. /\ Formed(Current) /\ now \in Nat /\ PhaseType
      /\ EscrowsBacked /\ InvitesTyped /\ MarketBacked /\ RequestsBacked /\ SubParties
      /\ ProposalPayers /\ SubsTyped /\ ProposalsTyped
  BY FormedNow DEF LedgerInv, Families, SubInv, ProposalInv
<1>1. CASE VestingOperation
  BY <1>1, VestingOperationStep
<1>2. CASE StakeOperation
  BY <1>2, StakeOperationStep
<1>3. CASE WithdrawOperation
  BY <1>3, WithdrawOperationStep
<1>4. CASE VotingOperation
  BY <1>4, VotingOperationBalances
<1>5. CASE AwardOperation
  BY <1>5, AwardOperationStep
<1>6. CASE EscrowOperation /\ OnlyEscrows
  BY <1>0, <1>6, EscrowOperationStep, EscrowBalances
<1>7. CASE InviteOperation /\ OnlyInvites
  BY <1>0, <1>7, InviteOperationStep, InviteBalances
<1>8. CASE SaleOperation /\ OnlyMarket
  BY <1>0, <1>8, SaleOperationStep, MarketBalances
<1>9. CASE PurchaseOperation /\ OnlyMarket
  BY <1>0, <1>9, PurchaseOperationStep, MarketBalances
<1>10. CASE SubaccountOperation /\ OnlyMarket
  BY <1>0, <1>10, SubaccountOperationStep, MarketBalances
<1>11. CASE RecoveryOperation /\ OnlyMarket
  BY <1>0, <1>11, RecoveryOperationStep, MarketBalances
<1>12. CASE CommitteeOperation /\ OnlyCommittee
  BY <1>0, <1>12, CommitteeOperationStep, CommitteeBalances
<1>13. CASE SubscriptionOperation /\ OnlySubscriptions
  BY <1>0, <1>13, SubscriptionOperationStep, SubscriptionBalances
<1>14. CASE ProposalOperation /\ OnlyProposals
  BY <1>0, <1>14, ProposalOperationStep, ProposalBalances
<1> QED
  BY <1>1, <1>2, <1>3, <1>4, <1>5, <1>6, <1>7, <1>8, <1>9, <1>10, <1>11, <1>12, <1>13, <1>14,
     Operations

----------------------------------------------------------------------------
(* The steps of a block.                                                   *)
LEMMA IdleBalances ==
    ASSUME LedgerInv, TimeGoes, UNCHANGED accountVars,
           UNCHANGED <<vestingVars, awardShares, escrows, invites, marketVars, committeeVars,
                       subscriptionVars, proposalVars>>
    PROVE  Balances(0)
<1>1. UNCHANGED <<routes, delegations, expirations, awardShares, escrows, invites, sale, subs,
                  proposals>> /\ UNCHANGED committeeVars
  BY DEF vestingVars, marketVars, subscriptionVars, proposalVars, committeeVars
<1>2. Rewards(Current, Current', 0, 0)
  BY FormedNow, UnchangedStep
<1>3. Settled(SteadyFields, 0) /\ Polled' /\ AwardsInv'
  BY <1>1, <1>2, RewardsSettle
<1>4. Families'
  BY <1>1, <1>3, SteadyFieldsInclude DEF Settled, Framed, Families
<1>5. Excess' = Excess + 0
  BY <1>1, <1>3, StayingTokens
<1> QED
  BY <1>3, <1>4, <1>5 DEF Balances, Settled

LEMMA NextBlockStep ==
    ASSUME LedgerInv, NextBlock
    PROVE  Balances(0)
<1>1. TimeGoes
  BY FormedNow DEF NextBlock, TimeGoes
<1> QED
  BY <1>1, IdleBalances DEF NextBlock

LEMMA EndBlockStep ==
    ASSUME LedgerInv, EndBlock
    PROVE  Balances(0)
<1>1. TimeGoes
  BY SameTime DEF EndBlock
<1> QED
  BY <1>1, IdleBalances DEF EndBlock

LEMMA ExpireRecoveriesStep ==
    ASSUME LedgerInv, ExpireRecoveries
    PROVE  Balances(0)
<1>1. OnlyMarket /\ UNCHANGED accountVars /\ UNCHANGED sale
  BY DEF ExpireRecoveries, accountVars
<1>2. MarketMoves
  BY <1>1, FormedNow, MarketIdleStep DEF LedgerInv, Families
<1> QED
  BY <1>1, <1>2, MarketBalances

LEMMA ClearClosedStep ==
    ASSUME LedgerInv, ClearClosed
    PROVE  Balances(0)
<1>1. UNCHANGED <<routes, delegations, expirations, escrows, sale, subs, proposals, now>>
  BY DEF ClearClosed, vestingVars, marketVars, subscriptionVars, proposalVars
<1>2. ClearUsedInvites /\ ClearClosedRequests /\ ExpireAwardShares
  BY DEF ClearClosed
<1>3. InvitesTyped' /\ InviteTokens' = InviteTokens
  BY <1>2, ClearUsedInvitesStep DEF LedgerInv, Families
<1>4. AwardsInv' /\ \E r \in Int : Rewards(Current, Current', r, 0)
  BY <1>2, FormedNow, ExpireAwardSharesStep DEF LedgerInv, Families
<1>5. PICK r \in Int : Rewards(Current, Current', r, 0)
  BY <1>4
<1>6. Settled(SteadyFields, 0) /\ Polled'
  BY <1>1, <1>5, SameTime, RewardsSettle
<1>7. Grows(Current, Current')
  BY <1>5, RewardsGrows
<1>8. RequestsBacked'
  BY <1>2, <1>7, ClearClosedRequestsStep DEF LedgerInv, Families
<1>9. Families'
  BY <1>1, <1>3, <1>4, <1>6, <1>8, SteadyFieldsInclude DEF Settled, Framed, Families
<1>10. InviteTokens' = InviteTokens - 0 /\ EscrowTokens' = EscrowTokens - 0
  BY <1>1, <1>3, <1>6, ExcessParts DEF Settled, Framed
<1>11. Excess' = Excess + (0 - 0 - 0)
  BY <1>6, <1>10, ExcessMoves
<1>12. Excess' = Excess + 0
  BY <1>11
<1> QED
  BY <1>6, <1>9, <1>12 DEF Balances, Settled

LEMMA ClearSpecialStep ==
    ASSUME LedgerInv, ClearSpecial
    PROVE  Balances(0)
<1>1. OnlyAwards /\ ClearSpecialAccounts
  BY DEF ClearSpecial
<1>2. PICK m : m = ClaimCommittee(Burn(Burn(Current, Null), Anonymous))
  OBVIOUS
<1>3. Becomes(m) /\ UNCHANGED awardShares
  BY <1>1, <1>2 DEF ClearSpecialAccounts
<1>4. Sound(Current) /\ Current.acc[Treasury].balance >= 0
  BY DEF LedgerInv, Core
<1>5. Drains(Current, m) /\ m.acc[Treasury].balance = 0
  BY <1>2, <1>4, SpecialDrains
<1>6. m \in Ledgers
  BY <1>5, LedgerOfMoves DEF Drains
<1>7. Current' = m
  BY <1>3, <1>6, BecomesNext
<1>8. UNCHANGED <<routes, delegations, expirations, awardShares, escrows, invites, sale, subs,
                  proposals, now>> /\ UNCHANGED committeeVars
  BY <1>1, <1>3 DEF OnlyAwards, vestingVars, marketVars, subscriptionVars, proposalVars,
                    committeeVars
<1>9. Settled(AccountFields \ DrainedFields, 0) /\ Polled' /\ AwardsInv'
  BY <1>5, <1>7, <1>8, SameTime, DrainsSettle
<1>10. Families'
  BY <1>8, <1>9, SteadyFieldsInclude DEF Settled, Framed, Families
<1>11. Excess' = Excess + 0
  BY <1>8, <1>9, StayingTokens
<1> QED
  BY <1>9, <1>10, <1>11 DEF Balances, Settled

LEMMA BlockBalances ==
    ASSUME LedgerInv, BlockStep, now < Never
    PROVE  Balances(0)
<1>0. /\ Formed(Current) /\ now \in Nat /\ PhaseType /\ Sound(Current) /\ Covered(Current)
      /\ EscrowsBacked /\ InvitesTyped /\ MarketBacked /\ RequestsBacked /\ SubParties
      /\ ProposalPayers /\ SubsTyped /\ ProposalsTyped /\ LoansBacked /\ RoutesBacked
      /\ BallotsPast /\ AwardsInv
  BY FormedNow DEF LedgerInv, Families, SubInv, ProposalInv, Core, Polled
<1>1. CASE NextBlock
  BY <1>1, NextBlockStep
<1>2. CASE ClearProposals
  <2>1. ExpireProposal /\ OnlyProposals
    BY <1>2 DEF ClearProposals
  <2> QED
    BY <1>0, <2>1, ExpireProposalStep, ProposalBalances
<1>3. CASE ClearDelegations
  <2>1. ClearExpiredDelegation /\ OnlyVesting
    BY <1>3 DEF ClearDelegations
  <2>2. UNCHANGED routes
    BY <2>1 DEF ClearExpiredDelegation
  <2> QED
    BY <1>0, <2>1, <2>2, ClearExpiredStep, LoanBalances
<1>4. CASE ClearClosed
  BY <1>4, ClearClosedStep
<1>5. CASE PayProducer
  <2>1. OnlyAwards
    BY <1>5 DEF PayProducer
  <2>2. PICK v \in Validators : ProcessFunds(v)
    BY <1>5, Inputs DEF PayProducer
  <2>3. Rewards(Current, Current', 0, 0) /\ UNCHANGED awardShares
    BY <1>0, <2>2, ProcessFundsStep DEF ProcessFunds
  <2>4. AwardsInv'
    BY <2>1, <2>3, SameTime, RewardsSettle DEF OnlyAwards
  <2> QED
    BY <2>1, <2>3, <2>4, AwardBalances
<1>6. CASE PayStakeholders
  <2>1. OnlyAwards /\ EpochDistribution
    BY <1>6 DEF PayStakeholders
  <2>2. Rewards(Current, Current', 0, 0) /\ UNCHANGED awardShares
    BY <1>0, <2>1, EpochDistributionStep DEF EpochDistribution
  <2>3. AwardsInv'
    BY <2>1, <2>2, SameTime, RewardsSettle DEF OnlyAwards
  <2> QED
    BY <2>1, <2>2, <2>3, AwardBalances
<1>7. CASE PayWithdrawals
  <2>1. ProcessVestingWithdrawal /\ OnlyVesting
    BY <1>7 DEF PayWithdrawals
  <2>2. Withdraws(Current, Current') /\ Covered(Current')
    BY <1>0, <2>1, WithdrawalStep
  <2>3. UNCHANGED vestingVars
    BY <2>1 DEF ProcessVestingWithdrawal
  <2> QED
    BY <2>1, <2>2, <2>3, WithdrawalBalances
<1>8. CASE ExpireRecoveries
  BY <1>8, ExpireRecoveriesStep
<1>9. CASE ExpireEscrows
  <2>1. ExpireEscrow /\ OnlyEscrows
    BY <1>9 DEF ExpireEscrows
  <2> QED
    BY <1>0, <2>1, ExpireEscrowStep, EscrowBalances
<1>10. CASE EndAuctions
  <2>1. AuctionExpiration /\ OnlyMarket
    BY <1>10 DEF EndAuctions
  <2> QED
    BY <1>0, <2>1, AuctionExpirationStep, MarketBalances
<1>11. CASE ClearSpecial
  BY <1>11, ClearSpecialStep
<1>12. CASE ConcludeRequests
  <2>1. ConcludeRequest /\ OnlyCommittee
    BY <1>12 DEF ConcludeRequests
  <2>2. EffectiveNat
    BY <1>0, CoveredEffective
  <2> QED
    BY <1>0, <2>1, <2>2, ConcludeRequestStep, CommitteeBalances
<1>13. CASE PayInstalments
  <2>1. PayRequests /\ OnlyCommittee
    BY <1>13 DEF PayInstalments
  <2> QED
    BY <1>0, <2>1, PayRequestsStep, CommitteeBalances
<1>14. CASE RenewSubscription
  <2>1. ProcessSubscription /\ OnlySubscriptions
    BY <1>14 DEF RenewSubscription
  <2> QED
    BY <1>0, <2>1, ProcessSubscriptionStep, SubscriptionBalances
<1>15. CASE EndBlock
  BY <1>15, EndBlockStep
<1> QED
  BY <1>1, <1>2, <1>3, <1>4, <1>5, <1>6, <1>7, <1>8, <1>9, <1>10, <1>11, <1>12, <1>13, <1>14,
     <1>15 DEF BlockStep

(* The invariant is inductive; only an overshooting award adds tokens.     *)
LEMMA LedgerStep ==
    ASSUME LedgerInv, LedgerNext
    PROVE  LedgerInv' /\ \E d \in Nat : Excess' = Excess + d /\ (~OvershootingAward => d = 0)
<1>1. PhaseType' /\ ProposalInv' /\ EscrowInv' /\ SubInv'
  BY PhaseSteps, ProposalStep, EscrowStep, SubStep DEF LedgerInv
<1>2. PICK d \in Nat : Balances(d) /\ (~OvershootingAward => d = 0)
  <2>1. CASE LedgerOperation
    BY <2>1, OperationStep
  <2>2. CASE BlockStep
    <3>1. now < Never
      BY DEF LedgerInv, SubInv
    <3> QED
      BY <2>2, <3>1, BlockBalances
  <2> QED
    BY <2>1, <2>2 DEF LedgerNext
<1>3. Core(Current') /\ Families' /\ Excess' = Excess + d
  BY <1>2 DEF Balances
<1>5. Proxied(Current') = Proxied(Current)'
  BY DEF Proxied, Tallied, Ranked, RankedBy, Direct, BroughtTo, Brought, StakeAt
<1>4. Core(Current') = Core(Current)'
  BY <1>5 DEF Core, Sound, Formed, Covered, Gap, AccountShares, Priced, Linked, Absent, Staffed, Cast
<1> QED
  BY <1>1, <1>2, <1>3, <1>4 DEF LedgerInv

----------------------------------------------------------------------------
(* The chain at its start.                                                 *)

(* A function that is zero outside of a part of its domain.                *)
LEMMA SumOfPart ==
    ASSUME NEW S, IsFiniteSet(S), NEW A \in SUBSET S, NEW f \in [A -> Nat], NEW g \in [S -> Int],
           \A x \in S : g[x] = IF x \in A THEN f[x] ELSE 0
    PROVE  SumFunction(g) = SumFunction(f)
<1>1. IsFiniteSet(A) /\ IsFiniteSet(S \ A)
  BY FS_Subset
<1>2. SumFunctionOnSet(g, S) = SumFunctionOnSet(g, A) + SumFunctionOnSet(g, S \ A)
  BY SumSplit
<1>3. SumFunctionOnSet(g, A) = SumFunctionOnSet(f, A)
  BY <1>1, SumSame
<1>4. PICK z : z = [x \in S \ A |-> 0]
  OBVIOUS
<1>5. SumFunctionOnSet(g, S \ A) = SumFunctionOnSet(z, S \ A)
  BY <1>1, <1>4, SumSame
<1>6. SumFunction(z) = 0
  BY <1>1, <1>4, SumOfZeros
<1>7. /\ SumFunction(g) = SumFunctionOnSet(g, S)
      /\ SumFunction(f) = SumFunctionOnSet(f, A)
      /\ SumFunction(z) = SumFunctionOnSet(z, S \ A)
  BY <1>4 DEF SumFunction
<1>8. SumFunctionOnSet(f, A) \in Int
  BY <1>1, SumInt
<1> QED
  BY <1>2, <1>3, <1>5, <1>6, <1>7, <1>8

(* An account of the start owns tokens and shares, and nothing else.       *)
Endowed(x, e, n, s) ==
    /\ x \in Account /\ x.exists = e /\ x.balance = n /\ x.vesting_shares = s
    /\ x.reserved_balance = 0 /\ x.delegated_vesting_shares = 0
    /\ x.received_vesting_shares = 0 /\ x.next_vesting_withdrawal = Never
    /\ x.to_withdraw = 0 /\ x.withdrawn = 0 /\ x.proxy = Nobody
    /\ x.validators_voted_for = 0 /\ \A i \in 1..ProxyDepth : x.proxied_vsf_votes[i] = 0
    /\ ~e => x = NoAccount

Endow(x, n, s) == [x EXCEPT !.balance = n, !.vesting_shares = s]

Endows(x, y, n, s) ==
    /\ y \in Account /\ y.balance = n /\ y.vesting_shares = s
    /\ \A f \in AccountFields \ {"balance", "vesting_shares"} : y[f] = x[f]

LEMMA EndowType ==
    ASSUME NEW x \in Account, NEW n, n \in Nat, NEW s, s \in Nat, NEW y, y = Endow(x, n, s)
    PROVE  Endows(x, y, n, s)
<1>1. DOMAIN x = AccountFields
  BY FieldsOfAccounts
<1>2. n \in Int
  OBVIOUS
<1>3. y \in Account
  BY <1>2 DEF Endow, Account
<1> QED
  BY <1>1, <1>3 DEF Endow, Endows, AccountFields

LEMMA NewIsEndowed ==
    ASSUME NEW n \in Nat, NEW s \in Nat
    PROVE  /\ Endowed(Endow(NewAccount(0), n, s), TRUE, n, s)
           /\ Endowed(NoAccount, FALSE, 0, 0)
<1>1. /\ NewAccount(0) \in Account /\ NewAccount(0).exists
      /\ NoAccount \in Account /\ ~NoAccount.exists
      /\ \A f \in AccountFields \ {"exists", "last_vote_time"} : NoAccount[f] = NewAccount(0)[f]
  BY NewAccountType
<1>2. PICK x, y : x = NewAccount(0) /\ y = Endow(x, n, s)
  OBVIOUS
<1>0. x \in Account /\ y = Endow(x, n, s)
  BY <1>1, <1>2
<1>9. Endows(x, y, n, s)
  BY <1>0, EndowType
<1>3. /\ y \in Account /\ y.balance = n /\ y.vesting_shares = s
      /\ \A f \in AccountFields \ {"balance", "vesting_shares"} : y[f] = x[f]
  BY <1>9 DEF Endows
<1>4. /\ x.balance = 0 /\ x.vesting_shares = 0
      /\ x.reserved_balance = 0 /\ x.delegated_vesting_shares = 0
      /\ x.received_vesting_shares = 0 /\ x.next_vesting_withdrawal = Never
      /\ x.to_withdraw = 0 /\ x.withdrawn = 0 /\ x.proxy = Nobody
      /\ x.validators_voted_for = 0 /\ x.exists = TRUE
  BY <1>2 DEF NewAccount
<1>10. \A i \in 1..ProxyDepth : x.proxied_vsf_votes[i] = 0
  BY <1>2 DEF NewAccount
<1>5. Endowed(y, TRUE, n, s)
  <2>1. y.proxied_vsf_votes = x.proxied_vsf_votes
    BY <1>3 DEF AccountFields
  <2> QED
    BY <1>3, <1>4, <1>10, <2>1 DEF Endowed, AccountFields
<1>6. NoAccount.exists = FALSE
  BY <1>1 DEF Account
<1>7. /\ NoAccount.balance = 0 /\ NoAccount.vesting_shares = 0
      /\ NoAccount.reserved_balance = 0 /\ NoAccount.delegated_vesting_shares = 0
      /\ NoAccount.received_vesting_shares = 0 /\ NoAccount.next_vesting_withdrawal = Never
      /\ NoAccount.to_withdraw = 0 /\ NoAccount.withdrawn = 0 /\ NoAccount.proxy = Nobody
      /\ NoAccount.validators_voted_for = 0
  BY <1>1, <1>2, <1>4 DEF AccountFields
<1>11. NoAccount.proxied_vsf_votes = x.proxied_vsf_votes
  BY <1>1, <1>2 DEF AccountFields
<1>8. Endowed(NoAccount, FALSE, 0, 0)
  BY <1>1, <1>6, <1>7, <1>10, <1>11 DEF Endowed
<1> QED
  BY <1>2, <1>5, <1>8

(* The ledger of the start.                                                *)
Given(f, c, a) == IF a \in c THEN f[a] ELSE 0

Genesis(c, b, s, f, r, w) ==
    /\ \A a \in Names : Endowed(acc[a], a \in c, Given(b, c, a), Given(s, c, a))
    /\ dgp.current_supply = SumFunction(b) + f + r
    /\ dgp.total_vesting_fund = f /\ dgp.total_vesting_shares = SumFunction(s)
    /\ dgp.total_reward_fund = r /\ dgp.committee_fund = 0
    /\ \A v \in Validators : val[v].pending_stakeholder_reward = 0
    /\ ballots = {} /\ awardShares = w
    /\ dgp.total_reward_shares = RsharesOf(w)
    /\ Current \in Ledgers

Endowments(c, b, s, f, r, w) ==
    /\ c \subseteq Names /\ b \in [c -> Nat] /\ s \in [c -> Nat] /\ f \in Nat /\ r \in Nat
    /\ Validators \cup {Null, Anonymous, Treasury} \subseteq c
    /\ f = 0 <=> SumFunction(s) = 0
    /\ w \in AwardObjects

LEMMA GenesisLedger ==
    ASSUME NEW c, NEW b, NEW s, NEW f, NEW r, NEW q \in [Validators -> 0..Full], NEW w,
           Endowments(c, b, s, f, r, w), StartFrom(c, b, s, f, r, q, w)
    PROVE  Genesis(c, b, s, f, r, w)
<1>0. /\ acc = [a \in Names |->
            IF a \notin c THEN NoAccount
            ELSE [NewAccount(0) EXCEPT !.balance = b[a], !.vesting_shares = s[a]]]
      /\ dgp = [current_supply |-> SumFunction(b) + f + r,
                total_vesting_fund |-> f,
                total_vesting_shares |-> SumFunction(s),
                total_reward_fund |-> r,
                total_reward_shares |-> SumFunction([i \in DOMAIN w |-> w[i].rshares]),
                committee_fund |-> 0]
      /\ val = [v \in Validators |-> [votes |-> 0, pending_stakeholder_reward |-> 0,
                                      sharing_rate |-> q[v]]]
      /\ ballots = {} /\ awardShares = w
  BY Zenon DEF StartFrom
<1>1. /\ c \subseteq Names /\ b \in [c -> Nat] /\ s \in [c -> Nat] /\ f \in Nat /\ r \in Nat
      /\ w \in AwardObjects /\ IsFiniteSet(c)
  BY AccountsAssumption, FS_Subset DEF Endowments
<1>2. SumFunction(b) \in Nat /\ SumFunction(s) \in Nat
  BY <1>1, SumOfNats
<1>3. RsharesOf(w) \in Nat
  BY <1>1, RsharesNat
<1>4. ASSUME NEW a \in Names
      PROVE  Endowed(acc[a], a \in c, Given(b, c, a), Given(s, c, a))
  <2>1. CASE a \in c
    <3>1. b[a] \in Nat /\ s[a] \in Nat
      BY <1>1, <2>1
    <3>2. acc[a] = Endow(NewAccount(0), b[a], s[a])
      BY <1>0, <2>1, Zenon DEF Endow
    <3>3. Given(b, c, a) = b[a] /\ Given(s, c, a) = s[a]
      BY <2>1 DEF Given
    <3>4. (a \in c) = TRUE
      BY <2>1
    <3>5. Endowed(Endow(NewAccount(0), b[a], s[a]), TRUE, b[a], s[a])
      BY <3>1, NewIsEndowed
    <3> QED
      BY <3>2, <3>3, <3>4, <3>5
  <2>2. CASE a \notin c
    <3>1. acc[a] = NoAccount
      BY <1>0, <2>2, Zenon
    <3>2. Given(b, c, a) = 0 /\ Given(s, c, a) = 0
      BY <2>2 DEF Given
    <3>3. (a \in c) = FALSE
      BY <2>2
    <3>4. Endowed(NoAccount, FALSE, 0, 0)
      BY NewIsEndowed
    <3> QED
      BY <3>1, <3>2, <3>3, <3>4
  <2> QED
    BY <2>1, <2>2
<1>5. dgp.total_reward_shares = RsharesOf(w)
  BY <1>0 DEF RsharesOf
<1>6. /\ dgp.current_supply = SumFunction(b) + f + r
      /\ dgp.total_vesting_fund = f /\ dgp.total_vesting_shares = SumFunction(s)
      /\ dgp.total_reward_fund = r /\ dgp.committee_fund = 0
  BY <1>0
<1>7. /\ \A v \in Validators : val[v].pending_stakeholder_reward = 0
      /\ val \in [Validators -> ValidatorObject]
  <2>1. ASSUME NEW v \in Validators
        PROVE  val[v].pending_stakeholder_reward = 0 /\ val[v] \in ValidatorObject
    <3>1. PICK k : k = q[v]
      OBVIOUS
    <3>2. val[v] = [votes |-> 0, pending_stakeholder_reward |-> 0, sharing_rate |-> k]
      BY <1>0, <3>1, Zenon
    <3>3. k \in 0..Full
      BY <3>1
    <3> QED
      BY <3>2, <3>3 DEF ValidatorObject
  <2>2. val = [v \in Validators |-> val[v]]
    BY <1>0, Zenon
  <2> QED
    BY <2>1, <2>2
<1>8. dgp \in Totals
  <2>1. PICK x, y, z : x = SumFunction(b) /\ y = SumFunction(s) /\ z = RsharesOf(w)
    OBVIOUS
  <2>2. dgp = [current_supply |-> x + f + r, total_vesting_fund |-> f,
               total_vesting_shares |-> y, total_reward_fund |-> r,
               total_reward_shares |-> z, committee_fund |-> 0]
    BY <1>0, <2>1, Zenon DEF RsharesOf
  <2>3. x + f + r \in Int /\ y \in Nat /\ z \in Nat /\ f \in Nat /\ r \in Nat
    BY <1>1, <1>2, <1>3, <2>1
  <2> QED
    BY <2>2, <2>3 DEF Totals
<1>9. acc \in [Names -> Account]
  <2>1. \A a \in Names : acc[a] \in Account
    BY <1>4 DEF Endowed
  <2>2. DOMAIN acc = Names /\ acc = [a \in DOMAIN acc |-> acc[a]]
    BY <1>0, Zenon
  <2> QED
    BY <2>1, <2>2
<1>10. Current \in Ledgers
  BY <1>0, <1>7, <1>8, <1>9 DEF Ledgers, Current
<1> QED
  BY <1>0, <1>4, <1>5, <1>6, <1>7, <1>10 DEF Genesis

LEMMA GenesisExists ==
    ASSUME LedgerInit
    PROVE  \E c, b, s, f, r, w : Endowments(c, b, s, f, r, w) /\ Genesis(c, b, s, f, r, w)
<1>0. PICK c \in SUBSET Names, f \in Nat, r \in Nat, q \in [Validators -> 0..Full],
           w \in Seq([rshares : Nat, expires : 0..RegenTime]) :
          \E b, s \in [c -> Nat] :
              /\ Validators \cup {Null, Anonymous, Treasury} \subseteq c
              /\ f = 0 <=> SumFunction(s) = 0
              /\ StartFrom(c, b, s, f, r, q, w)
  BY Zenon DEF LedgerInit
<1>1. PICK b \in [c -> Nat], s \in [c -> Nat] :
          /\ Validators \cup {Null, Anonymous, Treasury} \subseteq c
          /\ f = 0 <=> SumFunction(s) = 0
          /\ StartFrom(c, b, s, f, r, q, w)
  BY <1>0
<1>2. w \in AwardObjects
  <2>1. [rshares : Nat, expires : 0..RegenTime] \subseteq AwardObject
    BY DEF AwardObject
  <2>2. Seq([rshares : Nat, expires : 0..RegenTime]) =
            UNION {[1..n -> [rshares : Nat, expires : 0..RegenTime]] : n \in Nat}
    BY SeqDef, Zenon
  <2>3. PICK n \in Nat : w \in [1..n -> [rshares : Nat, expires : 0..RegenTime]]
    BY <1>0, <2>2, Zenon
  <2>4. w \in [1..n -> AwardObject]
    BY <2>1, <2>3
  <2>5. AwardObjects = UNION {[1..k -> AwardObject] : k \in Nat}
    BY SeqDef, Zenon DEF AwardObjects
  <2> QED
    BY <2>4, <2>5
<1>3. Endowments(c, b, s, f, r, w)
  BY <1>1, <1>2, Zenon DEF Endowments
<1> QED
  BY <1>1, <1>3, GenesisLedger

LEMMA GenesisSums ==
    ASSUME NEW c, NEW b, NEW s, NEW f, NEW r, NEW w,
           Endowments(c, b, s, f, r, w), Genesis(c, b, s, f, r, w)
    PROVE  Gap(Current) = 0 /\ Surplus(Current) = 0
<1>1. /\ c \in SUBSET Names /\ b \in [c -> Nat] /\ s \in [c -> Nat] /\ IsFiniteSet(Names)
      /\ IsFiniteSet(c) /\ IsFiniteSet(Validators) /\ f \in Nat /\ r \in Nat
  BY AccountsAssumption, FS_Subset DEF Endowments
<1>2. ASSUME NEW a \in Names
      PROVE  /\ acc[a].balance + acc[a].reserved_balance = Given(b, c, a)
             /\ acc[a].vesting_shares = Given(s, c, a)
             /\ Given(b, c, a) \in Int /\ Given(s, c, a) \in Int
  <2>1. Endowed(acc[a], a \in c, Given(b, c, a), Given(s, c, a))
    BY DEF Genesis
  <2>2. Given(b, c, a) \in Int /\ Given(s, c, a) \in Int
    BY <1>1 DEF Given
  <2> QED
    BY <2>1, <2>2 DEF Endowed
<1>3. AccountTokens(Current) = SumFunction(b)
  <2>1. PICK g : g = [a \in Names |-> Current.acc[a].balance + Current.acc[a].reserved_balance]
    OBVIOUS
  <2>2. g \in [Names -> Int] /\ \A a \in Names : g[a] = IF a \in c THEN b[a] ELSE 0
    BY <1>2, <2>1 DEF Given, Current
  <2>3. SumFunction(g) = SumFunction(b)
    BY <1>1, <2>2, SumOfPart
  <2> QED
    BY <2>1, <2>3 DEF AccountTokens
<1>4. AccountShares(Current) = SumFunction(s)
  <2>1. PICK g : g = [a \in Names |-> Current.acc[a].vesting_shares]
    OBVIOUS
  <2>2. g \in [Names -> Int] /\ \A a \in Names : g[a] = IF a \in c THEN s[a] ELSE 0
    BY <1>2, <2>1 DEF Given, Current
  <2>3. SumFunction(g) = SumFunction(s)
    BY <1>1, <2>2, SumOfPart
  <2> QED
    BY <2>1, <2>3 DEF AccountShares
<1>5. SumFunction([v \in Validators |-> Current.val[v].pending_stakeholder_reward]) = 0
  <2>1. PICK g : g = [v \in Validators |-> Current.val[v].pending_stakeholder_reward]
    OBVIOUS
  <2>2. g \in [Validators -> Int] /\ \A v \in Validators : g[v] = 0
    BY <2>1 DEF Genesis, Current
  <2> QED
    BY <1>1, <2>1, <2>2, SumOfZeros
<1>6. SumFunction(b) \in Nat /\ SumFunction(s) \in Nat
  BY <1>1, SumOfNats
<1>7. /\ Current.dgp.current_supply = SumFunction(b) + f + r
      /\ Current.dgp.total_vesting_fund = f /\ Current.dgp.total_vesting_shares = SumFunction(s)
      /\ Current.dgp.total_reward_fund = r /\ Current.dgp.committee_fund = 0
  BY DEF Genesis, Current
<1>8. FundTokens(Current) = f + r + 0 + 0
  BY <1>1, <1>5, <1>7 DEF FundTokens
<1> QED
  BY <1>1, <1>3, <1>4, <1>6, <1>7, <1>8 DEF Gap, Surplus

(* No account has a proxy yet.                                             *)
LEMMA NoProxies ==
    ASSUME NEW l \in Ledgers, \A a \in Names : l.acc[a].proxy = Nobody,
           \A a \in Names, d \in 1..ProxyDepth : l.acc[a].proxied_vsf_votes[d] = 0
    PROVE  Proxied(l)
<1>1. ASSUME NEW a \in Names, NEW d \in 1..ProxyDepth
      PROVE  SumFunction(BroughtTo(l, a, d)) = 0
  <2>1. PICK f \in [Names -> Int] : f = BroughtTo(l, a, d)
    BY BroughtInt
  <2>3. a # Nobody
    BY AccountsAssumption
  <2>4. \A b \in Names : Brought(l, b, a, d) = 0
    BY <2>3 DEF Brought
  <2>2. \A b \in Names : f[b] = 0
    BY <2>1, <2>4, BroughtInt
  <2> QED
    BY <2>1, <2>2, AccountsAssumption, SumOfZeros
<1>2. Tallied(l)
  BY <1>1 DEF Tallied
<1>3. PICK r : r = [a \in Names |-> 0]
  OBVIOUS
<1>4. RankedBy(l, r)
  BY <1>3 DEF RankedBy
<1>5. Direct(l)
  BY AccountsAssumption DEF Direct
<1> QED
  BY <1>2, <1>4, <1>5 DEF Proxied, Ranked

LEMMA GenesisCore ==
    ASSUME NEW c, NEW b, NEW s, NEW f, NEW r, NEW w,
           Endowments(c, b, s, f, r, w), Genesis(c, b, s, f, r, w)
    PROVE  Core(Current) /\ Polled
<1>1. \A a \in Names : Endowed(acc[a], a \in c, Given(b, c, a), Given(s, c, a))
  BY DEF Genesis
<1>2. Current.acc = acc /\ Current.dgp = dgp /\ Current.ballots = {} /\ Current \in Ledgers
  BY DEF Genesis, Current
<1>3. \A a \in Validators \cup {Null, Anonymous, Treasury} : a \in Names /\ acc[a].exists
  BY <1>1, AccountsAssumption DEF Endowments, Endowed
<1>4. Formed(Current)
  <2>1. Priced(Current)
    BY DEF Genesis, Endowments, Priced, Current
  <2>2. Linked(Current) /\ Absent(Current)
    BY <1>1, <1>2 DEF Linked, Absent, Endowed
  <2>3. Staffed(Current)
    BY <1>2, <1>3 DEF Staffed
  <2>4. Cast(Current)
    BY <1>2, FS_EmptySet DEF Cast
  <2> QED
    BY <1>2, <2>1, <2>2, <2>3, <2>4 DEF Formed
<1>5. Gap(Current) = 0
  BY GenesisSums
<1>6. Covered(Current)
  <2> SUFFICES ASSUME NEW a \in Names PROVE Solvent(a, acc[a])
    BY <1>2 DEF Covered
  <2>1. Endowed(acc[a], a \in c, Given(b, c, a), Given(s, c, a))
    BY <1>1
  <2>2. acc[a].vesting_shares \in Nat
    BY <1>2, AccountTypes
  <2> QED
    BY <2>1, <2>2 DEF Endowed, Solvent
<1>7. Current.acc[Treasury].balance >= 0
  <2>1. Treasury \in Names /\ Treasury \in c
    BY AccountsAssumption DEF Endowments
  <2>2. acc[Treasury].balance = b[Treasury] /\ b[Treasury] \in Nat
    BY <1>1, <2>1 DEF Endowed, Given, Endowments
  <2> QED
    BY <1>2, <2>2
<1>8. Polled
  <2>1. BallotsPast
    BY DEF BallotsPast, Genesis
  <2>2. ASSUME NEW a \in Names
        PROVE  Current.acc[a].validators_voted_for = Cardinality(VotesOf(Current, a))
    <3>1. VotesOf(Current, a) = {}
      BY <1>2 DEF VotesOf
    <3> QED
      BY <1>1, <1>2, <3>1, FS_EmptySet DEF Endowed
  <2>3. Counted(Current)
    BY <1>2, <2>2 DEF Counted
  <2> QED
    BY <2>1, <2>3 DEF Polled
<1>9. Proxied(Current)
  BY <1>1, <1>2, NoProxies DEF Endowed
<1> QED
  BY <1>4, <1>5, <1>6, <1>7, <1>8, <1>9 DEF Core, Sound

(* No objects yet: nothing is lent, reserved, or set aside.                *)
LEMMA GenesisLoans ==
    ASSUME VestingInit, \A a \in Names : acc[a].delegated_vesting_shares = 0
                                         /\ acc[a].received_vesting_shares = 0
    PROVE  LoansBacked /\ RoutesBacked
<1>0. /\ routes = [a \in Users |-> [b \in Names |-> NoRoute]]
      /\ delegations = [a \in Users |-> [b \in Names |-> NoDelegation]]
      /\ expirations = <<>>
  BY DEF VestingInit
<1>1. IsFiniteSet(Names) /\ IsFiniteSet(Users) /\ Users \subseteq Names
  BY AccountsAssumption, FS_Subset
<1>2. LoansTyped
  <2>1. NoDelegation \in Loan
    BY DEF NoDelegation, Loan
  <2>2. expirations \in Returns
    BY <1>0, EmptySeq DEF Returns
  <2> QED
    BY <1>0, <2>1, <2>2 DEF LoansTyped
<1>3. \A a \in Users, b \in Names : delegations[a][b].vesting_shares = 0
  BY <1>0 DEF NoDelegation
<1>4. ASSUME NEW a \in Users PROVE DelegatedBy(a) = 0
  <2>1. PICK g : g = [b \in Names |-> delegations[a][b].vesting_shares]
    OBVIOUS
  <2>2. g \in [Names -> Int] /\ \A b \in Names : g[b] = 0
    BY <1>3, <2>1
  <2>3. SumFunction(g) = 0
    BY <1>1, <2>2, SumOfZeros
  <2>4. PICK h : h = [i \in DOMAIN expirations |->
                        IF expirations[i].delegator = a
                        THEN expirations[i].vesting_shares ELSE 0]
    OBVIOUS
  <2>5. DOMAIN h = {}
    BY <1>0, <2>4
  <2>6. SumFunction(h) = 0
    BY <2>5, SumOfNone
  <2> QED
    BY <2>1, <2>3, <2>4, <2>6 DEF DelegatedBy
<1>5. ASSUME NEW b \in Names PROVE DelegatedTo(b) = 0
  <2>1. PICK g : g = [a \in Users |-> delegations[a][b].vesting_shares]
    OBVIOUS
  <2>2. g \in [Users -> Int] /\ \A a \in Users : g[a] = 0
    BY <1>3, <2>1
  <2>3. SumFunction(g) = 0
    BY <1>1, <2>2, SumOfZeros
  <2> QED
    BY <2>1, <2>3 DEF DelegatedTo
<1>6. DelegationsAddUp
  BY <1>1, <1>4, <1>5 DEF DelegationsAddUp
<1>7. LoansBacked
  BY <1>0, <1>2, <1>6 DEF LoansBacked
<1>8. routes \in [Users -> [Names -> Route]]
  <2>1. NoRoute \in Route
    BY AccountsAssumption DEF NoRoute, Route
  <2> QED
    BY <1>0, <2>1
<1>9. ASSUME NEW a \in Users PROVE RoutedPercent(routes, a) <= Full
  <2>1. RoutesFrom(routes, a) = {}
    BY <1>0 DEF RoutesFrom
  <2>2. PICK g : g = [b \in RoutesFrom(routes, a) |-> routes[a][b].percent]
    OBVIOUS
  <2>3. SumFunction(g) = 0
    BY <2>1, <2>2, SumOfNone
  <2>4. RoutedPercent(routes, a) = 0
    BY <2>2, <2>3 DEF RoutedPercent
  <2> QED
    BY <2>4, AccountsAssumption
<1>10. \A a \in Users, b \in Names : routes[a][b] = NoRoute
  BY <1>0
<1> QED
  BY <1>7, <1>8, <1>9, <1>10 DEF RoutesBacked

LEMMA GenesisMarket ==
    ASSUME MarketInit, \A a \in Names : acc[a].reserved_balance = 0
    PROVE  MarketBacked
<1>0. sale = [a \in Names |-> NoSale] /\ IsFiniteSet(Names)
  BY AccountsAssumption DEF MarketInit
<1>1. SalesTyped
  <2>1. NoAuction \in Auctions
    BY DEF NoAuction, Auctions
  <2>2. NoSale \in Sales
    BY <2>1 DEF NoSale, Sales
  <2> QED
    BY <1>0, <2>2 DEF SalesTyped
<1>2. NoAuction.current_bid = 0 /\ NoAuction.current_bidder = Nobody
  BY DEF NoAuction
<1>3. /\ NoSale.auction = NoAuction
      /\ ~NoSale.account_on_sale /\ ~NoSale.subaccount_on_sale
  BY DEF NoSale
<1>4. \A a \in Names : Payable(Current, sale[a])
  BY <1>0, <1>2, <1>3 DEF Payable
<1>5. ASSUME NEW b \in Names
      PROVE  acc[b].reserved_balance =
                SumFunction([a \in Names |-> IF sale[a].auction.current_bidder = b
                                             THEN sale[a].auction.current_bid ELSE 0])
  <2>1. PICK g : g = [a \in Names |-> IF sale[a].auction.current_bidder = b
                                      THEN sale[a].auction.current_bid ELSE 0]
    OBVIOUS
  <2>2. g \in [Names -> Int] /\ \A a \in Names : g[a] = 0
    BY <1>0, <1>2, <1>3, <2>1
  <2>3. SumFunction(g) = 0
    BY <1>0, <2>2, SumOfZeros
  <2> QED
    BY <2>1, <2>3
<1> QED
  BY <1>1, <1>4, <1>5 DEF MarketBacked, BidsReserved

LEMMA GenesisObjects ==
    ASSUME LedgerInit
    PROVE  /\ EscrowsBacked /\ InvitesTyped /\ RequestsBacked /\ SubParties /\ ProposalPayers
           /\ EscrowTokens = 0 /\ InviteTokens = 0
<1>0. /\ escrows = [e \in EscrowIds |-> NoEscrow]
      /\ invites = [k \in InviteKeys |-> NoInvite]
      /\ requests = [q \in RequestIds |-> NoRequest] /\ requestCount = 0
      /\ subs = [k \in Users \X Users |-> NoSub]
      /\ proposals = [p \in ProposalIds |-> NoProposal]
  BY InitObjects DEF EscrowInit, InvitesInit, CommitteeInit, SubscriptionInit, ProposalInit
<1>1. EscrowsBacked
  BY <1>0 DEF EscrowsBacked, EscrowsTyped, Honest, NoEscrow
<1>2. InvitesTyped
  <2>1. NoInvite \in Invites
    BY DEF NoInvite, Invites
  <2> QED
    BY <1>0, <2>1 DEF InvitesTyped
<1>3. RequestsBacked
  <2>1. Live = {}
    BY <1>0 DEF Live, NoRequest
  <2> QED
    BY <1>0, <2>1 DEF RequestsBacked, RequestsTyped
<1>4. SubParties /\ ProposalPayers
  BY <1>0 DEF SubParties, ProposalPayers, NoSub, NoProposal
<1>5. EscrowTokens = 0
  <2>1. PICK g : g = [e \in EscrowIds |->
                        IF escrows[e].open
                        THEN escrows[e].token_balance + escrows[e].pending_fee ELSE 0]
    OBVIOUS
  <2>2. g \in [EscrowIds -> Int] /\ \A e \in EscrowIds : g[e] = 0
    BY <1>0, <2>1 DEF NoEscrow
  <2>3. SumFunction(g) = 0
    BY <2>2, EscrowAssumption, SumOfZeros
  <2> QED
    BY <2>1, <2>3 DEF EscrowTokens
<1>6. InviteTokens = 0
  <2>1. PICK g : g = [k \in InviteKeys |-> invites[k].balance]
    OBVIOUS
  <2>2. g \in [InviteKeys -> Int] /\ \A k \in InviteKeys : g[k] = 0
    BY <1>0, <2>1 DEF NoInvite
  <2>3. SumFunction(g) = 0
    BY <2>2, InvitesAssumption, SumOfZeros
  <2> QED
    BY <2>1, <2>3 DEF InviteTokens
<1> QED
  BY <1>1, <1>2, <1>3, <1>4, <1>5, <1>6

LEMMA LedgerStart ==
    ASSUME LedgerInit
    PROVE  LedgerInv /\ Excess = 0
<1>1. PICK c, b, s, f, r, w : Endowments(c, b, s, f, r, w) /\ Genesis(c, b, s, f, r, w)
  BY GenesisExists
<1>2. Core(Current) /\ Polled /\ Gap(Current) = 0 /\ Surplus(Current) = 0
  BY <1>1, GenesisCore, GenesisSums
<1>3. \A a \in Names : Endowed(acc[a], a \in c, Given(b, c, a), Given(s, c, a))
  BY <1>1 DEF Genesis
<1>4. \A a \in Names : /\ acc[a].delegated_vesting_shares = 0
                       /\ acc[a].received_vesting_shares = 0
                       /\ acc[a].reserved_balance = 0
  BY <1>3 DEF Endowed
<1>5. LoansBacked /\ RoutesBacked /\ MarketBacked
  BY <1>4, InitObjects, GenesisLoans, GenesisMarket
<1>6. AwardsInv
  BY <1>1 DEF AwardsInv, RewardSharesAddUp, Genesis, Endowments, RsharesOf
<1>7. Families
  BY <1>2, <1>5, <1>6, GenesisObjects DEF Families
<1>8. PhaseType /\ ProposalInv /\ EscrowInv /\ SubInv
  BY ProposalStart, EscrowStart, SubStart
<1>9. Excess = 0
  BY <1>2, GenesisObjects DEF Excess
<1> QED
  BY <1>2, <1>7, <1>8, <1>9 DEF LedgerInv

LEMMA LedgerIdle ==
    ASSUME LedgerInv, UNCHANGED ledgerVars
    PROVE  LedgerInv' /\ Excess' = Excess
<1>1. /\ UNCHANGED accountVars /\ UNCHANGED now
      /\ UNCHANGED <<vestingVars, awardShares, escrows, invites, marketVars, committeeVars,
                     subscriptionVars, proposalVars>>
  BY DEF ledgerVars
<1>2. TimeGoes
  BY <1>1, SameTime
<1>3. Balances(0)
  BY <1>1, <1>2, IdleBalances
<1>4. (PhaseType /\ ProposalInv /\ EscrowInv /\ SubInv)'
  BY ProposalIdle, EscrowIdle, SubIdle DEF LedgerInv
<1>5. Excess \in Int
  BY ExcessParts DEF Excess
<1> QED
  BY <1>3, <1>4, <1>5 DEF Balances, LedgerInv

(***************************************************************************)
(* What every operation and every phase of a block finds and leaves: typed *)
(* accounts and objects, shares and tokens that cover what was lent, bid,  *)
(* set aside and promised (chain_evaluator.cpp, database::_apply_block).   *)
(***************************************************************************)
THEOREM LedgerInvariant == LedgerSpec => []LedgerInv
<1>1. LedgerInit => LedgerInv
  BY LedgerStart
<1>2. LedgerInv /\ [LedgerNext]_ledgerVars => LedgerInv'
  BY LedgerStep, LedgerIdle
<1> QED
  BY <1>1, <1>2, PTL DEF LedgerSpec

(***************************************************************************)
(* The shares of the accounts add up to the total that the share price is  *)
(* computed from: create_vesting, withdrawals and burning change both      *)
(* sides by as much, whatever their divisions leave over.                  *)
(***************************************************************************)
THEOREM SharesCorrect == LedgerSpec => []SharesAddUp
<1>1. LedgerInv => SharesAddUp
  <2> SUFFICES ASSUME LedgerInv PROVE SharesAddUp
    OBVIOUS
  <2>1. Current \in Ledgers /\ Gap(Current) = 0
    BY DEF LedgerInv, Core, Sound, Formed
  <2>2. Current.dgp.total_vesting_shares \in Nat /\ AccountShares(Current) \in Nat
    BY <2>1, TotalTypes, SumTypes
  <2> QED
    BY <2>1, <2>2 DEF Gap, SharesAddUp, Current
<1> QED
  BY <1>1, LedgerInvariant, PTL

(***************************************************************************)
(* The shares that compete for the reward fund add up to those of the      *)
(* awards that are not forgotten yet (claim_rshare_award,                  *)
(* expire_award_shares_processing).                                        *)
(***************************************************************************)
THEOREM RewardSharesCorrect == LedgerSpec => []RewardSharesAddUp
<1>1. LedgerInv => RewardSharesAddUp
  BY DEF LedgerInv, Families, AwardsInv
<1> QED
  BY <1>1, LedgerInvariant, PTL

(***************************************************************************)
(* What an account has lent agrees with the delegation objects and the     *)
(* returns under way, what it has borrowed with the delegations to it, in  *)
(* any order of delegating, taking back and expiring.                      *)
(***************************************************************************)
THEOREM DelegationsCorrect == LedgerSpec => []DelegationsAddUp
<1>1. LedgerInv => DelegationsAddUp
  BY DEF LedgerInv, Families, LoansBacked
<1> QED
  BY <1>1, LedgerInvariant, PTL

(***************************************************************************)
(* No share is lent that is also to be paid out (available_vesting_shares),*)
(* in any order of delegating, taking back, withdrawing and paying out.    *)
(***************************************************************************)
THEOREM LentSharesAreThere == LedgerSpec => []SharesBacked
<1>1. LedgerInv => SharesBacked
  BY CoveredShares DEF LedgerInv, Core, Sound
<1> QED
  BY <1>1, LedgerInvariant, PTL

(***************************************************************************)
(* What an account has reserved is the sum of its standing bids: raising,  *)
(* outbidding, changing and cancelling an offer, a sale at the price and   *)
(* the end of an auction give back every bid but the last.                 *)
(***************************************************************************)
THEOREM BidsCorrect == LedgerSpec => []BidsReserved
<1>1. LedgerInv => BidsReserved
  BY BidsAreReserved DEF LedgerInv, Families
<1> QED
  BY <1>1, LedgerInvariant, PTL

(***************************************************************************)
(* Every standing bid is in an auction that will end and be paid to        *)
(* somebody (account_on_auction_expiration).                               *)
(***************************************************************************)
THEOREM AuctionsCorrect == LedgerSpec => []AuctionsCanEnd
<1>1. LedgerInv => AuctionsCanEnd
  BY BidsAreReserved DEF LedgerInv, Families
<1> QED
  BY <1>1, LedgerInvariant, PTL

(***************************************************************************)
(* The committee fund is never overdrawn, and what a request was granted   *)
(* is what it was paid and what is left of it, to the last instalment.     *)
(***************************************************************************)
THEOREM CommitteeCorrect == LedgerSpec => []FundCoversRequests
<1>1. LedgerInv => FundCoversRequests
  BY FundCovers DEF LedgerInv, Families, Core, Sound
<1> QED
  BY <1>1, LedgerInvariant, PTL

(* Nobody votes twice for a validator, and an account counts its votes.    *)
VotesCounted == Counted(Current)

(***************************************************************************)
(* validators_voted_for is the number of an account's validator_vote       *)
(* objects, no two of them for one validator, although proxies clear the   *)
(* votes of an account and withdrawals change what they weigh.             *)
(***************************************************************************)
THEOREM VotesCorrect == LedgerSpec => []VotesCounted
<1>1. LedgerInv => VotesCounted
  BY DEF LedgerInv, Families, Polled, VotesCounted
<1> QED
  BY <1>1, LedgerInvariant, PTL

(***************************************************************************)
(* What an account holds as proxied votes is the stake of the accounts     *)
(* that reach it through their proxies, distance by distance, in whatever  *)
(* order proxies are set, moved and cleared and stakes change              *)
(* (adjust_proxied_validator_votes); and validators_voted_for is the       *)
(* number of its votes.                                                    *)
(***************************************************************************)
THEOREM ProxiesCorrect == LedgerSpec => []ProxiesAddUp
<1>1. ASSUME LedgerInv PROVE ProxiesAddUp
  <2>1. Current \in Ledgers /\ Tallied(Current) /\ Counted(Current) /\ Current.acc = acc
    BY <1>1 DEF LedgerInv, Core, Sound, Formed, Proxied, Families, Polled, Current
  <2>2. PICK after : after = [b \in Names |-> ProxyAfter(Current, b)]
    OBVIOUS
  <2>3. ASSUME NEW a \in Names, NEW d \in 1..ProxyDepth
        PROVE  acc[a].proxied_vsf_votes[d] =
                  SumFunction([b \in Names |->
                      IF after[b][d] = a THEN acc[b].vesting_shares ELSE 0])
    <3>1. acc[a].proxied_vsf_votes[d] = SumFunction(Reaching(Current, d, a))
      BY <2>1, ProxiedStakes
    <3>2. Reaching(Current, d, a)
             = [b \in Names |-> IF after[b][d] = a THEN acc[b].vesting_shares ELSE 0]
      BY <2>1, <2>2 DEF Reaching
    <3> QED
      BY <3>1, <3>2
  <2>4. \A a \in Names : acc[a].validators_voted_for = Cardinality(VotesOf(Current, a))
    BY <2>1 DEF Counted
  <2> QED
    BY <2>2, <2>3, <2>4 DEF ProxiesAddUp
<1> QED
  BY <1>1, LedgerInvariant, PTL

----------------------------------------------------------------------------
(* The supply.                                                             *)

(* Whatever is set aside is still there.                                   *)
SupplyCovered ==
    AccountTokens(Current) + FundTokens(Current) + EscrowTokens + InviteTokens
        >= dgp.current_supply

LEMMA SupplyOfExcess ==
    ASSUME LedgerInv
    PROVE  /\ Excess \in Int
           /\ SupplyConserved <=> Excess = 0
           /\ SupplyCovered <=> Excess >= 0
<1>1. Current \in Ledgers /\ Current.dgp = dgp
  BY DEF LedgerInv, Core, Sound, Formed, Current
<1>2. EscrowTokens \in Int /\ InviteTokens \in Int
  BY ExcessParts
<1>3. /\ AccountTokens(Current) \in Int /\ FundTokens(Current) \in Int
      /\ dgp.current_supply \in Int
  BY <1>1, SumTypes, TotalTypes
<1>4. PICK x, f, e, i, s :
          /\ x = AccountTokens(Current) /\ f = FundTokens(Current) /\ e = EscrowTokens
          /\ i = InviteTokens /\ s = dgp.current_supply
  OBVIOUS
<1>5. /\ Excess = x + f - s + e + i
      /\ SupplyConserved <=> x + f + e + i = s
      /\ SupplyCovered <=> x + f + e + i >= s
  BY <1>1, <1>4, Zenon DEF Excess, Surplus, SupplyConserved, SupplyCovered
<1>6. x \in Int /\ f \in Int /\ e \in Int /\ i \in Int /\ s \in Int
  BY <1>2, <1>3, <1>4
<1> QED
  BY <1>5, <1>6

LEMMA SupplyStep ==
    ASSUME LedgerInv, [LedgerNext]_ledgerVars
    PROVE  \E d \in Nat : Excess' = Excess + d /\ (~OvershootingAward => d = 0)
<1>1. CASE LedgerNext
  BY <1>1, LedgerStep
<1>2. CASE UNCHANGED ledgerVars
  <2>1. Excess' = Excess /\ Excess \in Int
    BY <1>2, LedgerIdle, SupplyOfExcess
  <2> QED
    BY <2>1
<1> QED
  BY <1>1, <1>2

(* The chain without awards that pay more than was asked for.              *)
ExactSpec == LedgerInit /\ [][LedgerNext /\ ~OvershootingAward]_ledgerVars

(***************************************************************************)
(* The balances, the bids, the escrows, the invites and the funds add up   *)
(* to current_supply after every operation and every phase of a block,     *)
(* through all roundings, unless a fixed award pays its beneficiary a part *)
(* of more than its amount (fixed_award_evaluator).                        *)
(***************************************************************************)
THEOREM SupplyCorrect == ExactSpec => []SupplyConserved
<1> DEFINE Inv == LedgerInv /\ Excess = 0
<1>1. LedgerInit => Inv
  BY LedgerStart
<1>2. Inv /\ [LedgerNext /\ ~OvershootingAward]_ledgerVars => Inv'
  <2> SUFFICES ASSUME Inv, [LedgerNext /\ ~OvershootingAward]_ledgerVars PROVE Inv'
    OBVIOUS
  <2>1. CASE UNCHANGED ledgerVars
    BY <2>1, LedgerIdle
  <2>2. CASE LedgerNext /\ ~OvershootingAward
    BY <2>2, LedgerStep
  <2> QED
    BY <2>1, <2>2
<1>3. Inv => SupplyConserved
  BY SupplyOfExcess
<1> QED
  BY <1>1, <1>2, <1>3, PTL DEF ExactSpec

(***************************************************************************)
(* No step loses a token, not even a division that leaves something over:  *)
(* what there is always covers current_supply.                             *)
(***************************************************************************)
THEOREM SupplyIsCovered == LedgerSpec => []SupplyCovered
<1> DEFINE Inv == LedgerInv /\ Excess >= 0
<1>1. LedgerInit => Inv
  BY LedgerStart
<1>2. Inv /\ [LedgerNext]_ledgerVars => Inv'
  <2> SUFFICES ASSUME Inv, [LedgerNext]_ledgerVars PROVE Inv'
    OBVIOUS
  <2>1. LedgerInv'
    BY LedgerStep, LedgerIdle
  <2>2. Excess \in Int
    BY SupplyOfExcess
  <2> QED
    BY <2>1, <2>2, SupplyStep
<1>3. Inv => SupplyCovered
  BY SupplyOfExcess
<1> QED
  BY <1>1, <1>2, <1>3, PTL DEF LedgerSpec

(***************************************************************************)
(* Tokens beyond the supply come from nowhere but a fixed award that pays  *)
(* its beneficiary a part of more than its amount.                         *)
(***************************************************************************)
THEOREM OnlyAwardsAddTokens ==
    LedgerSpec => [][Excess' # Excess => OvershootingAward]_ledgerVars
<1>1. LedgerInv /\ [LedgerNext]_ledgerVars
          => [Excess' # Excess => OvershootingAward]_ledgerVars
  <2> SUFFICES ASSUME LedgerInv, [LedgerNext]_ledgerVars, ~OvershootingAward
               PROVE  Excess' = Excess
    OBVIOUS
  <2> QED
    BY SupplyStep, SupplyOfExcess
<1> QED
  BY <1>1, LedgerInvariant, PTL DEF LedgerSpec

----------------------------------------------------------------------------
(* What the operations of a proposal do to the balances.                   *)

LEMMA AdjustedBalance ==
    ASSUME NEW l \in Ledgers, NEW b \in Names, NEW d, d \in Int, NEW m, m = AdjustBalance(l, b, d)
    PROVE  /\ m \in Ledgers
           /\ \A a \in Names : m.acc[a].balance = l.acc[a].balance + Extra(a, b, d)
<1>1. PICK x : x = l.acc[b]
  OBVIOUS
<1>2. x \in Account /\ x.balance \in Int
  BY <1>1, AccountTypes
<1>3. PICK new : new = WithBalance(x, x.balance + d)
  OBVIOUS
<1>4. m = SetAccount(l, b, new)
  BY <1>1, <1>3 DEF AdjustBalance, Ledgers, SetAccount, WithBalance
<1>5. new \in Account /\ new.balance = x.balance + d
  BY <1>2, <1>3, BalanceReplaced
<1>6. /\ m \in Ledgers
      /\ m.acc[b] = new /\ \A a \in Names : a # b => m.acc[a] = l.acc[a]
  BY <1>4, <1>5, OneAccount
<1>7. \A a \in Names : l.acc[a].balance \in Int
  BY AccountTypes
<1> QED
  BY <1>1, <1>5, <1>6, <1>7 DEF Extra

Term(op, a) ==
    (IF op.to = a THEN op.amount ELSE 0) - (IF op.from = a THEN op.amount ELSE 0)

LEMMA TransferredBalance ==
    ASSUME NEW l \in Ledgers, NEW op \in TransferOps, NEW a \in Names
    PROVE  /\ Transferred(l, op).acc[a].balance = l.acc[a].balance + Term(op, a)
           /\ Term(op, a) \in Int /\ l.acc[a].balance \in Int
<1>1. PICK f, t, n, k : f = op.from /\ t = op.to /\ n = op.amount /\ k = 0 - n
  OBVIOUS
<1>2. f \in Names /\ t \in Names /\ n \in Int /\ k \in Int /\ -n = k
  BY <1>1, UsersNamed DEF TransferOps
<1>3. PICK m, z : m = AdjustBalance(l, f, k) /\ z = AdjustBalance(m, t, n)
  OBVIOUS
<1>4. /\ m \in Ledgers
      /\ m.acc[a].balance = l.acc[a].balance + Extra(a, f, k)
  BY <1>2, <1>3, AdjustedBalance
<1>5. z.acc[a].balance = m.acc[a].balance + Extra(a, t, n)
  BY <1>2, <1>3, <1>4, AdjustedBalance
<1>6. z = Transferred(l, op)
  BY <1>1, <1>2, <1>3 DEF Transferred
<1>7. l.acc[a].balance \in Int
  BY AccountTypes
<1>8. Term(op, a) = Extra(a, t, n) + Extra(a, f, k)
  BY <1>1, <1>2 DEF Term, Extra
<1>9. Extra(a, t, n) \in Int /\ Extra(a, f, k) \in Int
  BY <1>2 DEF Extra
<1> QED
  BY <1>4, <1>5, <1>6, <1>7, <1>8, <1>9

(* The balances after the operations, all of which were applied.           *)
LEMMA AppliedBalances ==
    ASSUME Formed(Current), NEW ops \in Seq(TransferOps), \A a \in Payers(ops) : acc[a].exists,
           Applied(ops).ok, NEW a \in Names
    PROVE  Applied(ops).ledger.acc[a].balance = acc[a].balance + NetOf(ops, a)
<1>1. PICK p : Pushes(p, ops)
  BY AppliedPushes
<1>2. PICK N : N = Len(ops)
  OBVIOUS
<1>3. N \in Nat /\ DOMAIN ops = 1..N /\ \A i \in 1..N : ops[i] \in TransferOps
  BY <1>2
<1>4. /\ p[0] = [ok |-> TRUE, ledger |-> Current]
      /\ \A i \in 1..N : p[i] = PushOp(p[i - 1], ops[i])
      /\ \A i \in 0..N : p[i] \in Outcomes(Current)
      /\ Applied(ops) = p[N]
  BY <1>1, <1>2 DEF Pushes
<1>5. \A i \in 0..N : p[i].ledger \in Ledgers /\ p[i].ok \in BOOLEAN
  BY <1>4 DEF Outcomes, PaidLedgers
<1>6. PICK h : h = [i \in 1..N |-> Term(ops[i], a)]
  OBVIOUS
<1>7. h \in [1..N -> Int] /\ \A i \in 1..N : h[i] = Term(ops[i], a)
  <2>1. \A i \in 1..N : Term(ops[i], a) \in Int
    BY <1>3, <1>5, <1>4, TransferredBalance DEF TransferOps, Term
  <2> QED
    BY <1>6, <2>1
<1>8. NetOf(ops, a) = SumFunctionOnSet(h, 1..N)
  BY <1>3, <1>6, Zenon DEF NetOf, SumFunction, Term
<1> DEFINE AddsUp(i) == p[i].ok => p[i].ledger.acc[a].balance =
                              acc[a].balance + SumFunctionOnSet(h, 1..i)
           B == {i \in 0..N : ~AddsUp(i)}
<1>9. B = {}
  <2> SUFFICES ASSUME B # {} PROVE FALSE
    OBVIOUS
  <2>0. B \subseteq Nat
    BY <1>3
  <2>1. PICK i \in B : \A j \in B : i <= j
    <3> HIDE DEF B
    <3> QED  BY <2>0, LeastExists
  <2>2. i \in 0..N /\ ~AddsUp(i)
    OBVIOUS
  <2>3. CASE i = 0
    <3>1. p[0].ledger = Current
      BY <1>4
    <3>2. SumFunctionOnSet(h, 1..0) = 0
      <4>1. 1..0 = {}
        OBVIOUS
      <4> QED
        BY <4>1, SumEmpty
    <3>3. Current \in Ledgers /\ Current.acc = acc
      BY DEF Formed, Current
    <3>4. acc[a].balance \in Int
      BY <3>3, AccountTypes
    <3> QED
      BY <2>2, <2>3, <3>1, <3>2, <3>3, <3>4
  <2>4. CASE i # 0
    <3>1. i \in 1..N /\ i - 1 \in 0..N /\ ~(i <= i - 1)
      BY <1>3, <2>2, <2>4
    <3>2. AddsUp(i - 1)
      BY <2>1, <3>1
    <3>3. PICK l, op : l = p[i - 1].ledger /\ op = ops[i]
      OBVIOUS
    <3>4. p[i].ok /\ p[i] = PushOp(p[i - 1], ops[i])
      BY <1>4, <2>2, <3>1
    <3>5. p[i - 1].ok /\ p[i].ledger = Transferred(l, op)
      <4>1. PICK v : v = p[i - 1]
        OBVIOUS
      <4>2. PICK w : w = p[i]
        OBVIOUS
      <4>3. w.ok /\ w = PushOp(v, op) /\ l = v.ledger
        BY <3>3, <3>4, <4>1, <4>2
      <4>4. v.ok /\ w.ledger = Transferred(l, op)
        BY <4>3 DEF PushOp
      <4> QED
        BY <4>1, <4>2, <4>4
    <3>6. /\ p[i].ledger.acc[a].balance = l.acc[a].balance + Term(op, a)
          /\ Term(op, a) \in Int
      <4>1. l \in Ledgers /\ op \in TransferOps
        BY <1>3, <1>5, <3>1, <3>3
      <4> QED
        BY <3>5, <4>1, TransferredBalance
    <3>7. SumFunctionOnSet(h, 1..i) = h[i] + SumFunctionOnSet(h, 1..(i - 1))
      <4>0. 1..i \subseteq 1..N /\ i \in 1..i /\ 1 \in Int /\ i \in Int
        BY <1>3, <3>1
      <4>4. IsFiniteSet(1..i)
        BY <4>0, FS_Interval
      <4>1. IsFiniteSet(1..i) /\ i \in 1..i /\ \A x \in 1..i : h[x] \in Int
        BY <1>7, <4>0, <4>4
      <4>2. SumFunctionOnSet(h, 1..i) = h[i] + SumFunctionOnSet(h, (1..i) \ {i})
        BY <4>1, SumRemove, SMTT(40)
      <4>3. (1..i) \ {i} = 1..(i - 1)
        BY <3>1
      <4> QED
        BY <4>2, <4>3
    <3>8. SumFunctionOnSet(h, 1..(i - 1)) \in Int
      <4>0. 1..(i - 1) \subseteq 1..N /\ 1 \in Int /\ i - 1 \in Int
        BY <1>3, <3>1
      <4>4. IsFiniteSet(1..(i - 1))
        BY <4>0, FS_Interval
      <4>1. IsFiniteSet(1..(i - 1)) /\ \A x \in 1..(i - 1) : h[x] \in Int
        BY <1>7, <4>0, <4>4
      <4> QED
        BY <4>1, SumInt
    <3>9. l.acc[a].balance = acc[a].balance + SumFunctionOnSet(h, 1..(i - 1))
      BY <3>2, <3>3, <3>5
    <3>10. h[i] = Term(op, a)
      BY <1>7, <3>1, <3>3
    <3>11. acc[a].balance \in Int
      <4>1. Current \in Ledgers /\ Current.acc = acc
        BY DEF Formed, Current
      <4> QED
        BY <4>1, AccountTypes
    <3> QED
      BY <2>2, <3>6, <3>7, <3>8, <3>9, <3>10, <3>11
  <2> QED
    BY <2>3, <2>4
<1>10. N \in 0..N
  BY <1>3
<1>11. AddsUp(N)
  BY <1>9, <1>10
<1> QED
  BY <1>4, <1>8, <1>11

(***************************************************************************)
(* A proposal that expires moves nothing, or every one of its transfers    *)
(* with the approval of everyone it charges: push_proposal applies them    *)
(* within one undo session.                                                *)
(***************************************************************************)
THEOREM ProposalsExecuteWhole == LedgerSpec => ProposalsAllOrNothing
<1> DEFINE Whole(p) ==
        /\ ~proposals'[p].open
        /\ Payers(proposals[p].ops) \subseteq proposals[p].approvals
        /\ \A a \in Names :
              acc'[a].balance = acc[a].balance + NetOf(proposals[p].ops, a)
<1>1. LedgerInv /\ [LedgerNext]_ledgerVars
          => [phase # 0 /\ acc' # acc => \E p \in DueProposals : Whole(p)]_proposals
  <2> SUFFICES ASSUME LedgerInv, [LedgerNext]_ledgerVars, proposals' # proposals,
                      phase # 0, acc' # acc
               PROVE  \E p \in DueProposals : Whole(p)
    BY Zenon
  <2>1. LedgerNext /\ PhaseType
    BY DEF ledgerVars, proposalVars, LedgerInv
  <2>2. ClearProposals
    BY <2>1, ProposalFrame DEF proposalVars, NextBlock
  <2>3. PICK p \in DueProposals :
            /\ RemoveProposal(p)
            /\ IF IsAuthorized(proposals[p]) /\ Applied(proposals[p].ops).ok
               THEN Becomes(Applied(proposals[p].ops).ledger) ELSE UNCHANGED accountVars
    BY <2>2, Zenon DEF ClearProposals, ExpireProposal
  <2>4. PICK ops : ops = proposals[p].ops
    OBVIOUS
  <2>5. /\ IsAuthorized(proposals[p]) /\ Applied(ops).ok
        /\ Becomes(Applied(ops).ledger)
    BY <2>3, <2>4 DEF accountVars
  <2>6. p \in ProposalIds /\ proposals[p].open /\ ProposalsTyped
    BY DEF DueProposals, LedgerInv, ProposalInv
  <2>7. ops \in Seq(TransferOps) /\ \A a \in Payers(ops) : acc[a].exists
    BY <2>4, <2>6, PayersAreUsers DEF LedgerInv, Families, ProposalPayers
  <2>8. \A a \in Names : acc'[a].balance = acc[a].balance + NetOf(ops, a)
    <3>1. Formed(Current)
      BY DEF LedgerInv, Core, Sound
    <3> QED
      BY <2>5, <2>7, <3>1, AppliedBalances DEF Becomes
  <2>9. ~proposals'[p].open
    BY <2>3, <2>6 DEF RemoveProposal, ProposalsTyped, NoProposal
  <2> QED
    BY <2>4, <2>5, <2>8, <2>9 DEF IsAuthorized
<1>2. LedgerSpec => [][phase # 0 /\ acc' # acc => \E p \in DueProposals : Whole(p)]_proposals
  BY <1>1, LedgerInvariant, PTL DEF LedgerSpec
<1> QED
  BY <1>2 DEF ProposalsAllOrNothing
=============================================================================
