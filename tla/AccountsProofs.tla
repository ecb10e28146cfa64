--------------------------- MODULE AccountsProofs ---------------------------
(***************************************************************************)
(* What the helpers of database.cpp that move tokens and shares preserve.  *)
(***************************************************************************)
EXTENDS Accounts, NumberSets, TLAPS

Stakes == [1..ProxyDepth -> Int]

Account ==
    [exists : BOOLEAN, balance : Int, reserved_balance : Int, vesting_shares : Nat,
     delegated_vesting_shares : Int, received_vesting_shares : Int,
     vesting_withdraw_rate : Nat, next_vesting_withdrawal : Nat,
     to_withdraw : Nat, withdrawn : Nat, energy : Int, last_vote_time : Nat,
     proxy : Names \cup {Nobody}, proxied_vsf_votes : Stakes,
     validators_voted_for : Nat, validators_vote_weight : Int]

Totals ==
    [current_supply : Int, total_vesting_fund : Nat, total_vesting_shares : Nat,
     total_reward_fund : Nat, total_reward_shares : Nat, committee_fund : Nat]

ValidatorObject ==
    [votes : Int, pending_stakeholder_reward : Nat, sharing_rate : 0..Full]

Ballot == [account : Names, validator : Validators, block : Nat]

Ledgers ==
    [acc : [Names -> Account], dgp : Totals, val : [Validators -> ValidatorObject],
     ballots : SUBSET Ballot]

AccountFields ==
    {"exists", "balance", "reserved_balance", "vesting_shares", "delegated_vesting_shares",
     "received_vesting_shares", "vesting_withdraw_rate", "next_vesting_withdrawal",
     "to_withdraw", "withdrawn", "energy", "last_vote_time", "proxy", "proxied_vsf_votes",
     "validators_voted_for", "validators_vote_weight"}

LEMMA FieldsOfAccounts ==
    ASSUME NEW x \in Account
    PROVE  DOMAIN x = AccountFields
BY DEF Account, AccountFields

LEMMA StakesReplaced ==
    ASSUME NEW x \in Account, NEW c \in Stakes
    PROVE  [x EXCEPT !.proxied_vsf_votes = c] \in Account
BY DEF Account

(* Only votes change: the stakes that are proxied, the weights, the votes  *)
(* of the validators.                                                      *)
VotesOnly(l, m) ==
    /\ m \in Ledgers /\ m.dgp = l.dgp /\ m.ballots = l.ballots
    /\ \A v \in Validators :
          m.val[v].pending_stakeholder_reward = l.val[v].pending_stakeholder_reward
    /\ \A a \in Names :
          /\ \A f \in AccountFields \ {"proxied_vsf_votes", "validators_vote_weight"} :
                m.acc[a][f] = l.acc[a][f]
          /\ ~l.acc[a].exists => m.acc[a] = l.acc[a]

LEMMA VotesOnlyReflexive == ASSUME NEW l \in Ledgers PROVE VotesOnly(l, l)
BY DEF VotesOnly

LEMMA VotesOnlyTransitive ==
    ASSUME NEW l, NEW m, NEW n, VotesOnly(l, m), VotesOnly(m, n)
    PROVE  VotesOnly(l, n)
<1>1. \A a \in Names : m.acc[a].exists = l.acc[a].exists
  BY DEF VotesOnly, AccountFields
<1> QED
  BY <1>1 DEF VotesOnly

LEMMA TruncDivInt ==
    ASSUME NEW d \in Int, NEW n \in Nat \ {0}
    PROVE  TruncDiv(d, n) \in Int
BY DEF TruncDiv

LEMMA AddVotesOnly ==
    ASSUME NEW l \in Ledgers, NEW vs, NEW delta \in Int
    PROVE  VotesOnly(l, AddVotes(l, vs, delta))
<1> DEFINE val2 == [v \in Validators |->
                      IF v \in vs THEN [l.val[v] EXCEPT !.votes = Max({@ + delta, 0})]
                      ELSE l.val[v]]
           m == [l EXCEPT !.val = val2]
<1>1. AddVotes(l, vs, delta) = m
  BY DEF AddVotes
<1>2. ASSUME NEW v \in Validators
      PROVE  /\ val2[v] \in ValidatorObject
             /\ val2[v].pending_stakeholder_reward = l.val[v].pending_stakeholder_reward
  <2>1. l.val[v] \in ValidatorObject
    BY DEF Ledgers
  <2>2. Max({l.val[v].votes + delta, 0}) \in Int
    BY <2>1, MaxOfTwo DEF ValidatorObject
  <2> QED
    BY <2>1, <2>2 DEF ValidatorObject
<1>3. val2 \in [Validators -> ValidatorObject]
  BY <1>2
<1> HIDE DEF val2
<1>4. m \in Ledgers /\ m.acc = l.acc /\ m.dgp = l.dgp /\ m.ballots = l.ballots /\ m.val = val2
  BY <1>3 DEF Ledgers
<1> HIDE DEF m
<1> QED
  BY <1>1, <1>2, <1>4 DEF VotesOnly

(* One account is replaced, or the totals are.                             *)
SetAccount(l, a, new) == [l EXCEPT !.acc[a] = new]
SetTotals(l, new) == [l EXCEPT !.dgp = new]

LEMMA OneAccount ==
    ASSUME NEW l \in Ledgers, NEW a \in Names, NEW new \in Account,
           NEW m, m = SetAccount(l, a, new)
    PROVE  /\ m \in Ledgers
           /\ m.dgp = l.dgp /\ m.val = l.val /\ m.ballots = l.ballots
           /\ m.acc[a] = new
           /\ \A b \in Names : b # a => m.acc[b] = l.acc[b]
BY DEF Ledgers, SetAccount

LEMMA OneTotals ==
    ASSUME NEW l \in Ledgers, NEW new \in Totals, NEW m, m = SetTotals(l, new)
    PROVE  /\ m \in Ledgers
           /\ m.dgp = new /\ m.val = l.val /\ m.ballots = l.ballots /\ m.acc = l.acc
BY DEF Ledgers, SetTotals

(* A change of the weight of an account.                                   *)
SetWeight(l, a, w) == [l EXCEPT !.acc[a].validators_vote_weight = w]

LEMMA WeightOnly ==
    ASSUME NEW l \in Ledgers, NEW a \in Names, l.acc[a].exists, NEW w, w \in Int,
           NEW m, m = SetWeight(l, a, w)
    PROVE  VotesOnly(l, m)
<1>0. l.acc \in [Names -> Account] /\ l.acc[a] \in Account
  BY DEF Ledgers
<1>1. PICK new : new = [l.acc[a] EXCEPT !.validators_vote_weight = w]
  OBVIOUS
<1>2. /\ new \in Account
      /\ \A f \in DOMAIN l.acc[a] \ {"validators_vote_weight"} : new[f] = l.acc[a][f]
  BY <1>0, <1>1 DEF Account
<1>3. m = SetAccount(l, a, new)
  BY <1>1 DEF Ledgers, SetAccount, SetWeight
<1>4. /\ m \in Ledgers
      /\ m.dgp = l.dgp /\ m.val = l.val /\ m.ballots = l.ballots
      /\ m.acc[a] = new
      /\ \A b \in Names : b # a => m.acc[b] = l.acc[b]
  BY <1>2, <1>3, OneAccount
<1>5. \A b \in Names : ~l.acc[b].exists => m.acc[b] = l.acc[b]
  BY <1>4
<1>6. \A b \in Names : \A f \in AccountFields \ {"validators_vote_weight"} :
         m.acc[b][f] = l.acc[b][f]
  BY <1>0, <1>2, <1>4, FieldsOfAccounts
<1> QED
  BY <1>4, <1>5, <1>6 DEF VotesOnly

LEMMA AdjustVotesOnly ==
    ASSUME NEW l \in Ledgers, NEW a \in Names, l.acc[a].exists, NEW delta, delta \in Int
    PROVE  VotesOnly(l, AdjustVotes(l, a, delta))
<1> DEFINE n == l.acc[a].validators_voted_for
           w == l.acc[a].validators_vote_weight
           fair == TruncDiv(delta, n)
           m == SetWeight(l, a, w + fair)
<1>1. n \in Nat /\ w \in Int
  BY DEF Ledgers, Account
<1>2. CASE n = 0
  <2>1. AdjustVotes(l, a, delta) = l
    BY <1>2 DEF AdjustVotes
  <2> QED
    BY <2>1, VotesOnlyReflexive
<1>3. CASE n # 0
  <2>1. fair \in Int
    BY <1>1, <1>3, TruncDivInt
  <2>2. AdjustVotes(l, a, delta) = AddVotes(m, VotedFor(l, a), fair)
    BY <1>3 DEF AdjustVotes, SetWeight
  <2> HIDE DEF fair
  <2>3. VotesOnly(l, m)
    BY <1>1, <2>1, WeightOnly
  <2> HIDE DEF m
  <2>4. VotesOnly(m, AddVotes(m, VotedFor(l, a), fair))
    BY <2>1, <2>3, AddVotesOnly DEF VotesOnly
  <2> QED
    BY <2>2, <2>3, <2>4, VotesOnlyTransitive
<1> QED
  BY <1>2, <1>3

(* The chain of proxies above an account.                                  *)
LEMMA ProxyChain ==
    ASSUME NEW l \in Ledgers, NEW a \in Names
    PROVE  /\ ProxyAfter(l, a) \in [0..ProxyDepth -> Names \cup {Nobody}]
           /\ ProxyAfter(l, a)[0] = a
           /\ \A i \in 1..ProxyDepth : i - 1 \in 0..ProxyDepth
           /\ \A i \in 1..ProxyDepth :
                 ProxyAfter(l, a)[i] = IF ProxyAfter(l, a)[i - 1] = Nobody THEN Nobody
                                       ELSE l.acc[ProxyAfter(l, a)[i - 1]].proxy
<1> DEFINE L == Names \cup {Nobody}
           f == [i \in 1..ProxyDepth |-> [x \in L |->
                   IF x = Nobody THEN Nobody ELSE l.acc[x].proxy]]
           Chain(g) == g = [i \in 0..ProxyDepth |->
                              IF i = 0 THEN a
                              ELSE IF g[i - 1] = Nobody THEN Nobody
                              ELSE l.acc[g[i - 1]].proxy]
<1>0. ProxyDepth \in Nat
  BY AccountsAssumption
<1>1. \A n \in Names : l.acc[n].proxy \in L
  BY DEF Ledgers, Account
<1>2. f \in [1..ProxyDepth -> [L -> L]]
  BY <1>1
<1>3. \A i \in 1..ProxyDepth, x \in L :
         f[i][x] = IF x = Nobody THEN Nobody ELSE l.acc[x].proxy
  OBVIOUS
<1>3a. a \in L
  OBVIOUS
<1>a. \A i \in 1..ProxyDepth : i # 0 /\ i - 1 \in 0..ProxyDepth
  BY <1>0
<1> HIDE DEF f, L, Chain
<1>4. PICK g \in [0..ProxyDepth -> L] :
         g[0] = a /\ \A i \in 1..ProxyDepth : g[i] = f[i][g[i - 1]]
  <2>1. ProxyDepth \in Nat /\ a \in L /\ f \in [1..ProxyDepth -> [L -> L]]
    BY <1>0, <1>2, <1>3a
  <2>2. \E g : Runs(g, f, a, ProxyDepth, L)
    BY <2>1, IntervalRecursion
  <2> QED
    BY <2>2 DEF Runs
<1>5. \A i \in 1..ProxyDepth : g[i - 1] \in L
  BY <1>4, <1>a
<1>b. \A i \in 0..ProxyDepth : i # 0 => i \in 1..ProxyDepth
  BY <1>0
<1>6. Chain(g)
  <2>1. ASSUME NEW i \in 0..ProxyDepth
        PROVE  g[i] = IF i = 0 THEN a
                ELSE IF g[i - 1] = Nobody THEN Nobody
                ELSE l.acc[g[i - 1]].proxy
    BY <1>3, <1>4, <1>5, <1>b
  <2> QED
    BY <1>4, <2>1 DEF Chain
<1>7. ProxyAfter(l, a) = CHOOSE h : Chain(h)
  BY DEF ProxyAfter, Chain
<1>8. Chain(CHOOSE h : Chain(h))
  BY <1>6
<1>9. PICK p : p = ProxyAfter(l, a) /\ Chain(p)
  BY <1>7, <1>8
<1>10. p[0] = a /\ DOMAIN p = 0..ProxyDepth
  BY <1>0, <1>9 DEF Chain
<1>11. ASSUME NEW i \in 1..ProxyDepth
       PROVE  p[i] = IF p[i - 1] = Nobody THEN Nobody ELSE l.acc[p[i - 1]].proxy
  <2>1. i \in 0..ProxyDepth /\ i # 0
    BY <1>0
  <2> QED
    BY <1>9, <2>1 DEF Chain
<1>12. p = [i \in 0..ProxyDepth |-> p[i]]
  BY <1>9 DEF Chain
<1> DEFINE B == {i \in 0..ProxyDepth : p[i] \notin L}
<1>13. B = {}
  <2> SUFFICES ASSUME B # {} PROVE FALSE
    OBVIOUS
  <2>0. B \subseteq Nat
    BY <1>0
  <2>1. PICK i \in B : \A j \in B : i <= j
    <3> HIDE DEF B
    <3> QED  BY <2>0, LeastExists
  <2>2. i # 0
    BY <1>10, <1>3a
  <2>3. i \in 1..ProxyDepth
    BY <1>0, <2>2
  <2>4. i - 1 \in 0..ProxyDepth /\ ~(i <= i - 1)
    BY <1>0, <2>3
  <2>5. p[i - 1] \in L
    BY <2>1, <2>4
  <2>6. p[i] \in L
    BY <1>1, <1>11, <2>3, <2>5 DEF L
  <2> QED
    BY <2>6
<1>14. p \in [0..ProxyDepth -> L]
  BY <1>12, <1>13
<1> QED
  BY <1>9, <1>10, <1>11, <1>14, <1>a DEF L

(* Nobody's proxy is an account that does not exist.                       *)
Linked(l) ==
    \A a \in Names : l.acc[a].proxy # Nobody => l.acc[l.acc[a].proxy].exists

LEMMA ProxyChainExists ==
    ASSUME NEW l \in Ledgers, Linked(l), NEW a \in Names, NEW i \in 1..ProxyDepth,
           ProxyAfter(l, a)[i] # Nobody
    PROVE  l.acc[ProxyAfter(l, a)[i]].exists
<1> DEFINE p == ProxyAfter(l, a)
<1>1. p \in [0..ProxyDepth -> Names \cup {Nobody}] /\ i - 1 \in 0..ProxyDepth
  BY ProxyChain
<1>2. p[i] = IF p[i - 1] = Nobody THEN Nobody ELSE l.acc[p[i - 1]].proxy
  BY ProxyChain
<1> HIDE DEF p
<1>3. p[i - 1] \in Names /\ p[i] = l.acc[p[i - 1]].proxy
  BY <1>1, <1>2 DEF p
<1> QED
  BY <1>3 DEF Linked, p

LEMMA AdjustProxiedOnly ==
    ASSUME NEW l \in Ledgers, Linked(l), NEW a \in Names, l.acc[a].exists,
           NEW delta \in [0..ProxyDepth -> Int]
    PROVE  VotesOnly(l, AdjustProxied(l, a, delta))
<1> DEFINE p == ProxyAfter(l, a)
           distance(n) == CHOOSE d \in 1..ProxyDepth : p[d] = n
           Last(d) == p[d] # Nobody /\ \A e \in (d + 1)..ProxyDepth : p[e] = Nobody
           last == CHOOSE d \in 0..ProxyDepth : Last(d)
           carry(n) == [i \in 1..ProxyDepth |->
                           l.acc[n].proxied_vsf_votes[i]
                             + IF i >= distance(n) THEN delta[i - distance(n)] ELSE 0]
           acc2 == [n \in Names |->
                      IF n \notin {p[d] : d \in 1..ProxyDepth} THEN l.acc[n]
                      ELSE [l.acc[n] EXCEPT !.proxied_vsf_votes = carry(n)]]
           m == [l EXCEPT !.acc = acc2]
           sum == SumFunctionOnSet(delta, 0..(ProxyDepth - last))
<1>0. ProxyDepth \in Nat
  BY AccountsAssumption
<1>1. p \in [0..ProxyDepth -> Names \cup {Nobody}] /\ p[0] = a
  BY ProxyChain
<1>2. AdjustProxied(l, a, delta)
         = IF l.acc[p[last]].proxy # Nobody THEN m
           ELSE AdjustVotes(m, p[last], sum)
  BY DEF AdjustProxied
<1>e. \A d \in 1..ProxyDepth : p[d] # Nobody => l.acc[p[d]].exists
  BY ProxyChainExists
<1> HIDE DEF p
<1>3. last \in 0..ProxyDepth /\ p[last] # Nobody
  <2> DEFINE T == {d \in 0..ProxyDepth : p[d] # Nobody}
  <2>1. T \subseteq Nat /\ 0 \in T /\ \A d \in T : d <= ProxyDepth
    BY <1>0, <1>1, AccountsAssumption
  <2>2. PICK d \in T : \A e \in T : e <= d
    <3> HIDE DEF T
    <3> QED  BY <1>0, <2>1, GreatestExists
  <2>3. \A e \in (d + 1)..ProxyDepth : e \in 0..ProxyDepth /\ ~(e <= d)
    BY <1>0, <2>2
  <2>4. d \in 0..ProxyDepth /\ Last(d)
    BY <2>2, <2>3
  <2> HIDE DEF Last
  <2>5. last \in 0..ProxyDepth /\ Last(last)
    BY <2>4
  <2> QED
    BY <2>5 DEF Last
<1>4. p[last] \in Names /\ l.acc[p[last]].exists
  <2>1. p[last] \in Names
    BY <1>1, <1>3
  <2>2. last # 0 => last \in 1..ProxyDepth
    BY <1>0, <1>3
  <2> HIDE DEF last
  <2> QED
    BY <1>1, <1>3, <1>e, <2>1, <2>2
<1>5. sum \in Int
  <2>1. IsFiniteSet(0..(ProxyDepth - last))
    BY <1>0, <1>3, FS_Interval
  <2>2. \A x \in 0..(ProxyDepth - last) : delta[x] \in Int
    BY <1>0, <1>3
  <2> HIDE DEF last
  <2> QED
    BY <2>1, <2>2, SumInt
<1> HIDE DEF last, Last
<1>6. ASSUME NEW n \in Names, n \in {p[d] : d \in 1..ProxyDepth}
      PROVE  carry(n) \in [1..ProxyDepth -> Int] /\ l.acc[n].exists
  <2>1. distance(n) \in 1..ProxyDepth /\ p[distance(n)] = n
    BY <1>6
  <2>2. l.acc[n].proxied_vsf_votes \in [1..ProxyDepth -> Int]
    BY DEF Ledgers, Account, Stakes
  <2>3. ASSUME NEW i \in 1..ProxyDepth
        PROVE  carry(n)[i] \in Int
    <3>1. i >= distance(n) => i - distance(n) \in 0..ProxyDepth
      BY <1>0, <2>1
    <3> DEFINE c == IF i >= distance(n) THEN delta[i - distance(n)] ELSE 0
    <3>2. carry(n)[i] = l.acc[n].proxied_vsf_votes[i] + c
      OBVIOUS
    <3> HIDE DEF distance, carry
    <3>3. c \in Int
      BY <3>1
    <3>4. l.acc[n].proxied_vsf_votes[i] \in Int
      BY <2>2
    <3> HIDE DEF c
    <3> QED
      BY <3>2, <3>3, <3>4
  <2>4. l.acc[n].exists
    BY <1>e, <2>1, AccountsAssumption
  <2> QED
    BY <2>3, <2>4
<1> HIDE DEF carry
<1>7. ASSUME NEW n \in Names
      PROVE  /\ acc2[n] \in Account
             /\ \A f \in DOMAIN l.acc[n] \ {"proxied_vsf_votes"} : acc2[n][f] = l.acc[n][f]
             /\ ~l.acc[n].exists => acc2[n] = l.acc[n]
  <2>1. l.acc[n] \in Account
    BY DEF Ledgers
  <2>2. CASE n \in {p[d] : d \in 1..ProxyDepth}
    <3>1. acc2[n] = [l.acc[n] EXCEPT !.proxied_vsf_votes = carry(n)]
      BY <2>2
    <3>2. carry(n) \in [1..ProxyDepth -> Int] /\ l.acc[n].exists
      BY <1>6, <2>2
    <3> HIDE DEF acc2
    <3>3. acc2[n] \in Account
      <4> DEFINE c == carry(n)
      <4>1. c \in Stakes /\ acc2[n] = [l.acc[n] EXCEPT !.proxied_vsf_votes = c]
        BY <3>1, <3>2 DEF Stakes
      <4> HIDE DEF c
      <4> QED  BY <2>1, <4>1, StakesReplaced
    <3>4. \A f \in DOMAIN l.acc[n] \ {"proxied_vsf_votes"} : acc2[n][f] = l.acc[n][f]
      BY <2>1, <3>1, <3>2 DEF Account
    <3> QED
      BY <3>2, <3>3, <3>4
  <2>3. CASE n \notin {p[d] : d \in 1..ProxyDepth}
    <3>1. acc2[n] = l.acc[n]
      BY <2>3
    <3> HIDE DEF acc2
    <3> QED
      BY <2>1, <3>1
  <2> QED
    BY <2>2, <2>3
<1>8. acc2 \in [Names -> Account]
  BY <1>7
<1> HIDE DEF acc2
<1>9. m \in Ledgers /\ m.acc = acc2 /\ m.dgp = l.dgp /\ m.val = l.val /\ m.ballots = l.ballots
  BY <1>8 DEF Ledgers
<1> HIDE DEF m
<1>10. VotesOnly(l, m)
  <2>1. \A n \in Names : l.acc[n] \in Account
    BY DEF Ledgers
  <2>2. \A n \in Names : DOMAIN l.acc[n] = AccountFields
    BY <2>1, FieldsOfAccounts
  <2> QED
    BY <1>7, <1>9, <2>2 DEF VotesOnly
<1>11. m.acc[p[last]].exists
  BY <1>4, <1>10 DEF VotesOnly, AccountFields
<1>12. VotesOnly(m, AdjustVotes(m, p[last], sum))
  <2> HIDE DEF sum
  <2> QED  BY <1>4, <1>5, <1>9, <1>11, AdjustVotesOnly
<1> HIDE DEF sum
<1> QED
  BY <1>2, <1>10, <1>12, VotesOnlyTransitive

LEMMA AdjustStakeVotesOnly ==
    ASSUME NEW l \in Ledgers, Linked(l), NEW a \in Names, l.acc[a].exists,
           NEW delta, delta \in Int
    PROVE  VotesOnly(l, AdjustStakeVotes(l, a, delta))
<1> DEFINE d == [i \in 0..ProxyDepth |-> IF i = 0 THEN delta ELSE 0]
<1>1. d \in [0..ProxyDepth -> Int]
  OBVIOUS
<1> HIDE DEF d
<1>2. VotesOnly(l, AdjustProxied(l, a, d))
  BY <1>1, AdjustProxiedOnly
<1> QED
  BY <1>2 DEF AdjustStakeVotes, d

LEMMA AccountTypes ==
    ASSUME NEW l \in Ledgers, NEW a \in Names
    PROVE  /\ l.acc[a] \in Account
           /\ l.acc[a].exists \in BOOLEAN
           /\ l.acc[a].balance \in Int
           /\ l.acc[a].reserved_balance \in Int
           /\ l.acc[a].vesting_shares \in Nat
           /\ l.acc[a].delegated_vesting_shares \in Int
           /\ l.acc[a].received_vesting_shares \in Int
           /\ l.acc[a].vesting_withdraw_rate \in Nat
           /\ l.acc[a].next_vesting_withdrawal \in Nat
           /\ l.acc[a].to_withdraw \in Nat
           /\ l.acc[a].withdrawn \in Nat
           /\ l.acc[a].energy \in Int
           /\ l.acc[a].last_vote_time \in Nat
           /\ l.acc[a].proxy \in Names \cup {Nobody}
           /\ l.acc[a].proxied_vsf_votes \in Stakes
           /\ l.acc[a].validators_voted_for \in Nat
           /\ l.acc[a].validators_vote_weight \in Int
<1>1. l.acc[a] \in Account
  BY DEF Ledgers
<1> QED
  BY <1>1 DEF Account

----------------------------------------------------------------------------
(* Stakes and the proxies that count them.                                 *)

(* The stake i proxies below an account, its own for i = 0.                *)
StakeAt(l, a, i) ==
    IF i = 0 THEN l.acc[a].vesting_shares ELSE l.acc[a].proxied_vsf_votes[i]

(* What each account brings to c, when c counts stakes at distance d.      *)
Brought(l, b, c, d) == IF l.acc[b].proxy = c THEN StakeAt(l, b, d - 1) ELSE 0
BroughtTo(l, c, d) == [b \in Names |-> Brought(l, b, c, d)]

(* The proxies count every stake as it is ...                              *)
Tallied(l) ==
    \A c \in Names, d \in 1..ProxyDepth :
        l.acc[c].proxied_vsf_votes[d] = SumFunction(BroughtTo(l, c, d))

(* ... or all but those of a, which they count as e.                       *)
OthersBring(l, a, c, d) == SumFunctionOnSet(BroughtTo(l, c, d), Names \ {a})
CountedAs(l, a, e) ==
    \A c \in Names, d \in 1..ProxyDepth :
        l.acc[c].proxied_vsf_votes[d]
            = OthersBring(l, a, c, d) + IF l.acc[a].proxy = c THEN e[d - 1] ELSE 0

(* No account is behind itself: the accounts can be ranked below their     *)
(* proxies.                                                                *)
RankedBy(l, r) ==
    /\ r \in [Names -> Nat]
    /\ \A a \in Names : l.acc[a].proxy # Nobody => r[a] < r[l.acc[a].proxy]
Ranked(l) == \E r : RankedBy(l, r)

(* The special accounts sign nothing, and have no proxy.                   *)
Direct(l) == \A a \in {Null, Anonymous, Treasury} : l.acc[a].proxy = Nobody

Proxied(l) == Tallied(l) /\ Ranked(l) /\ Direct(l)

LEMMA StakeInt ==
    ASSUME NEW l \in Ledgers, NEW a \in Names, NEW d \in 1..ProxyDepth
    PROVE  StakeAt(l, a, d) \in Int /\ StakeAt(l, a, d - 1) \in Int
<1>1. l.acc[a].vesting_shares \in Int
  BY AccountTypes
<1>3. \A i \in 1..ProxyDepth : l.acc[a].proxied_vsf_votes[i] \in Int
  BY AccountTypes DEF Stakes
<1>2. d # 0 /\ (d - 1 = 0 \/ d - 1 \in 1..ProxyDepth)
  BY AccountsAssumption
<1> QED
  BY <1>1, <1>2, <1>3 DEF StakeAt

LEMMA BroughtInt ==
    ASSUME NEW l \in Ledgers, NEW c \in Names, NEW d \in 1..ProxyDepth
    PROVE  /\ BroughtTo(l, c, d) \in [Names -> Int]
           /\ \A b \in Names : BroughtTo(l, c, d)[b] = Brought(l, b, c, d)
           /\ SumFunction(BroughtTo(l, c, d)) \in Int
           /\ \A a \in Names : OthersBring(l, a, c, d) \in Int
<1>1. \A b \in Names : Brought(l, b, c, d) \in Int
  BY StakeInt DEF Brought
<1>2. /\ BroughtTo(l, c, d) \in [Names -> Int]
      /\ \A b \in Names : BroughtTo(l, c, d)[b] = Brought(l, b, c, d)
  BY <1>1 DEF BroughtTo
<1>3. PICK f \in [Names -> Int] : f = BroughtTo(l, c, d)
  BY <1>2
<1>4. SumFunction(f) \in Int
  BY AccountsAssumption, SumOfInts
<1>5. ASSUME NEW a \in Names PROVE SumFunctionOnSet(f, Names \ {a}) \in Int
  <2>1. IsFiniteSet(Names \ {a})
    BY AccountsAssumption, FS_Subset
  <2> QED
    BY <2>1, SumInt
<1> QED
  BY <1>2, <1>3, <1>4, <1>5 DEF OthersBring

LEMMA OneCounted ==
    ASSUME NEW l \in Ledgers, NEW a \in Names, NEW c \in Names, NEW d \in 1..ProxyDepth
    PROVE  SumFunction(BroughtTo(l, c, d)) = OthersBring(l, a, c, d) + Brought(l, a, c, d)
<1>1. PICK f \in [Names -> Int] : f = BroughtTo(l, c, d)
  BY BroughtInt
<1>2. DOMAIN f = Names /\ \A b \in Names : f[b] \in Int
  OBVIOUS
<1>3. SumFunctionOnSet(f, Names) = f[a] + SumFunctionOnSet(f, Names \ {a})
  BY <1>2, AccountsAssumption, SumRemove
<1>4. SumFunction(f) = SumFunctionOnSet(f, Names)
  BY <1>2 DEF SumFunction
<1>5. f[a] = Brought(l, a, c, d) /\ f[a] \in Int /\ OthersBring(l, a, c, d) \in Int
  BY <1>1, BroughtInt
<1>6. OthersBring(l, a, c, d) = SumFunctionOnSet(f, Names \ {a})
  BY <1>1 DEF OthersBring
<1> QED
  BY <1>1, <1>3, <1>4, <1>5, <1>6

(* All stakes are counted as they are when those of one account are.       *)
LEMMA TalliedAs ==
    ASSUME NEW l \in Ledgers, NEW a \in Names, NEW e,
           \A d \in 1..ProxyDepth : e[d - 1] = StakeAt(l, a, d - 1)
    PROVE  Tallied(l) <=> CountedAs(l, a, e)
<1>1. ASSUME NEW c \in Names, NEW d \in 1..ProxyDepth
      PROVE  SumFunction(BroughtTo(l, c, d))
                = OthersBring(l, a, c, d) + IF l.acc[a].proxy = c THEN e[d - 1] ELSE 0
  BY OneCounted DEF Brought
<1> QED
  BY <1>1 DEF Tallied, CountedAs

(* What is counted of the others depends on their proxies and stakes.      *)
LEMMA SameCounted ==
    ASSUME NEW l \in Ledgers, NEW m \in Ledgers, NEW a \in Names,
           NEW c \in Names, NEW d \in 1..ProxyDepth,
           \A b \in Names \ {a} : Brought(m, b, c, d) = Brought(l, b, c, d)
    PROVE  OthersBring(m, a, c, d) = OthersBring(l, a, c, d)
<1>1. PICK f \in [Names -> Int], g \in [Names -> Int] :
          f = BroughtTo(l, c, d) /\ g = BroughtTo(m, c, d)
  BY BroughtInt
<1>2. \A b \in Names \ {a} : f[b] \in Int /\ f[b] = g[b]
  BY <1>1, BroughtInt
<1>3. IsFiniteSet(Names \ {a})
  BY AccountsAssumption, FS_Subset
<1>4. SumFunctionOnSet(f, Names \ {a}) = SumFunctionOnSet(g, Names \ {a})
  <2> DEFINE S == Names \ {a}
  <2>1. IsFiniteSet(S) /\ \A x \in S : f[x] \in Int /\ f[x] = g[x]
    BY <1>2, <1>3
  <2> HIDE DEF S
  <2>2. SumFunctionOnSet(f, S) = SumFunctionOnSet(g, S)
    BY <2>1, SumSame
  <2> QED
    BY <2>2 DEF S
<1> QED
  BY <1>1, <1>4 DEF OthersBring

(* The other accounts bring what they brought.                             *)
LEMMA CountedFrame ==
    ASSUME NEW l \in Ledgers, NEW m \in Ledgers, NEW a \in Names, NEW e,
           CountedAs(l, a, e),
           \A b \in Names : m.acc[b].proxied_vsf_votes = l.acc[b].proxied_vsf_votes,
           \A b \in Names \ {a} : /\ m.acc[b].proxy = l.acc[b].proxy
                                  /\ m.acc[b].vesting_shares = l.acc[b].vesting_shares,
           \/ m.acc[a].proxy = l.acc[a].proxy
           \/ \A d \in 1..ProxyDepth : e[d - 1] = 0
    PROVE  CountedAs(m, a, e)
<1> SUFFICES ASSUME NEW c \in Names, NEW d \in 1..ProxyDepth
             PROVE  m.acc[c].proxied_vsf_votes[d]
                       = OthersBring(m, a, c, d) + IF m.acc[a].proxy = c THEN e[d - 1] ELSE 0
  BY DEF CountedAs
<1>1. \A b \in Names \ {a} : Brought(m, b, c, d) = Brought(l, b, c, d)
  BY DEF Brought, StakeAt
<1>2. OthersBring(m, a, c, d) = OthersBring(l, a, c, d)
  BY <1>1, SameCounted
<1>3. l.acc[c].proxied_vsf_votes[d]
         = OthersBring(l, a, c, d) + IF l.acc[a].proxy = c THEN e[d - 1] ELSE 0
  BY DEF CountedAs
<1> QED
  BY <1>2, <1>3

(* Nothing the proxies depend on has changed.                              *)
SameStakes(l, m) ==
    \A a \in Names : /\ m.acc[a].proxy = l.acc[a].proxy
                     /\ m.acc[a].vesting_shares = l.acc[a].vesting_shares
                     /\ m.acc[a].proxied_vsf_votes = l.acc[a].proxied_vsf_votes

LEMMA SameTally ==
    ASSUME NEW l \in Ledgers, NEW m \in Ledgers, Tallied(l), SameStakes(l, m)
    PROVE  Tallied(m)
<1> SUFFICES ASSUME NEW c \in Names, NEW d \in 1..ProxyDepth
             PROVE  m.acc[c].proxied_vsf_votes[d] = SumFunction(BroughtTo(m, c, d))
  BY DEF Tallied
<1>1. \A b \in Names : Brought(m, b, c, d) = Brought(l, b, c, d)
  BY DEF Brought, StakeAt, SameStakes
<1>2. BroughtTo(m, c, d) = BroughtTo(l, c, d)
  BY <1>1 DEF BroughtTo
<1> QED
  BY <1>2 DEF Tallied, SameStakes

SameProxies(l, m) == \A a \in Names : m.acc[a].proxy = l.acc[a].proxy

LEMMA SameRanks ==
    ASSUME NEW l, NEW m, SameProxies(l, m)
    PROVE  (Ranked(l) => Ranked(m)) /\ (Direct(l) => Direct(m))
<1>1. \A r : RankedBy(l, r) => RankedBy(m, r)
  BY DEF RankedBy, SameProxies
<1> QED
  BY <1>1, AccountsAssumption DEF Ranked, Direct, SameProxies

(* The ranks rise along a chain of proxies.                                *)
LEMMA ChainRises ==
    ASSUME NEW l \in Ledgers, NEW r, RankedBy(l, r), NEW a \in Names,
           NEW p, p = ProxyAfter(l, a), NEW i \in 0..ProxyDepth, NEW j \in 0..ProxyDepth,
           i < j, p[j] # Nobody
    PROVE  p[i] \in Names /\ p[j] \in Names /\ r[p[i]] < r[p[j]]
<1>0. ProxyDepth \in Nat
  BY AccountsAssumption
<1>1. /\ p \in [0..ProxyDepth -> Names \cup {Nobody}]
      /\ \A k \in 1..ProxyDepth :
            p[k] = IF p[k - 1] = Nobody THEN Nobody ELSE l.acc[p[k - 1]].proxy
  BY ProxyChain
<1>2. ASSUME NEW k \in 1..ProxyDepth, p[k] # Nobody
      PROVE  /\ p[k - 1] \in Names /\ p[k] \in Names /\ r[p[k - 1]] < r[p[k]]
             /\ r[p[k - 1]] \in Nat /\ r[p[k]] \in Nat
  <2>1. k - 1 \in 0..ProxyDepth /\ k \in 0..ProxyDepth
    BY <1>0
  <2>2. p[k - 1] \in Names \cup {Nobody} /\ p[k] \in Names \cup {Nobody}
    BY <1>1, <2>1
  <2>3. p[k] = IF p[k - 1] = Nobody THEN Nobody ELSE l.acc[p[k - 1]].proxy
    BY <1>1
  <2>4. p[k - 1] \in Names /\ p[k] \in Names /\ p[k] = l.acc[p[k - 1]].proxy
    BY <1>2, <2>2, <2>3
  <2> QED
    BY <1>2, <2>4 DEF RankedBy
<1> DEFINE Good(k) == p[i] \in Names /\ p[k] \in Names /\ r[p[i]] < r[p[k]]
           B == {k \in 0..ProxyDepth : i < k /\ p[k] # Nobody /\ ~Good(k)}
<1>3. B = {}
  <2> SUFFICES ASSUME B # {} PROVE FALSE
    OBVIOUS
  <2>0. B \subseteq Nat
    BY <1>0
  <2>1. PICK k \in B : \A n \in B : k <= n
    <3> HIDE DEF B
    <3> QED  BY <2>0, LeastExists
  <2>2. k \in 1..ProxyDepth /\ k - 1 \in 0..ProxyDepth /\ ~(k <= k - 1) /\ (k - 1 = i \/ i < k - 1)
    BY <1>0, <2>1
  <2>3. /\ p[k - 1] \in Names /\ p[k] \in Names /\ r[p[k - 1]] < r[p[k]]
        /\ r[p[k - 1]] \in Nat /\ r[p[k]] \in Nat
    BY <1>2, <2>1, <2>2
  <2>4. CASE k - 1 = i
    BY <2>1, <2>3, <2>4
  <2>5. CASE i < k - 1
    <3>1. p[k - 1] # Nobody
      BY <2>3, AccountsAssumption
    <3>2. Good(k - 1)
      BY <2>1, <2>2, <2>5, <3>1
    <3>3. r[p[i]] \in Nat
      BY <3>2 DEF RankedBy
    <3>4. Good(k)
      BY <2>3, <3>2, <3>3
    <3> QED
      BY <2>1, <3>4
  <2> QED
    BY <2>2, <2>4, <2>5
<1> QED
  BY <1>3

(* What adjust_proxied_validator_votes adds to an account at distance k.   *)
Carried(k, delta, i) == IF i >= k THEN delta[i - k] ELSE 0

SameProxied(l, m) == \A a \in Names : m.acc[a].proxied_vsf_votes = l.acc[a].proxied_vsf_votes

LEMMA AdjustVotesKeeps ==
    ASSUME NEW l \in Ledgers, NEW a, NEW delta
    PROVE  SameProxied(l, AdjustVotes(l, a, delta))
<1> DEFINE n == l.acc[a].validators_voted_for
           w == l.acc[a].validators_vote_weight + TruncDiv(delta, n)
           m == SetWeight(l, a, w)
<1>1. CASE n = 0
  BY <1>1 DEF AdjustVotes, SameProxied
<1>2. CASE n # 0
  <2>1. AdjustVotes(l, a, delta) = AddVotes(m, VotedFor(l, a), TruncDiv(delta, n))
    BY <1>2 DEF AdjustVotes, SetWeight
  <2> HIDE DEF w
  <2>2. \A b \in Names : m.acc[b].proxied_vsf_votes = l.acc[b].proxied_vsf_votes
    BY DEF SetWeight, Ledgers, Account
  <2>3. DOMAIN m = DOMAIN l
    BY DEF SetWeight
  <2>4. AddVotes(m, VotedFor(l, a), TruncDiv(delta, n)).acc = m.acc
    BY <2>3 DEF AddVotes, Ledgers
  <2> QED
    BY <2>1, <2>2, <2>4 DEF SameProxied
<1> QED
  BY <1>1, <1>2

LEMMA AdjustedStakes ==
    ASSUME NEW l \in Ledgers, Linked(l), NEW r, RankedBy(l, r), NEW a \in Names,
           l.acc[a].exists, NEW delta \in [0..ProxyDepth -> Int],
           NEW m, m = AdjustProxied(l, a, delta), NEW p, p = ProxyAfter(l, a)
    PROVE  /\ m \in Ledgers
           /\ \A n \in Names : /\ m.acc[n].proxy = l.acc[n].proxy
                               /\ m.acc[n].vesting_shares = l.acc[n].vesting_shares
                               /\ n \notin {p[k] : k \in 1..ProxyDepth} =>
                                     m.acc[n].proxied_vsf_votes = l.acc[n].proxied_vsf_votes
           /\ \A k \in 1..ProxyDepth, i \in 1..ProxyDepth : p[k] # Nobody =>
                 m.acc[p[k]].proxied_vsf_votes[i]
                    = l.acc[p[k]].proxied_vsf_votes[i] + Carried(k, delta, i)
<1> DEFINE distance(n) == CHOOSE d \in 1..ProxyDepth : p[d] = n
           Last(d) == p[d] # Nobody /\ \A e \in (d + 1)..ProxyDepth : p[e] = Nobody
           last == CHOOSE d \in 0..ProxyDepth : Last(d)
           carry(n) == [i \in 1..ProxyDepth |->
                           l.acc[n].proxied_vsf_votes[i]
                             + IF i >= distance(n) THEN delta[i - distance(n)] ELSE 0]
           acc2 == [n \in Names |->
                      IF n \notin {p[d] : d \in 1..ProxyDepth} THEN l.acc[n]
                      ELSE [l.acc[n] EXCEPT !.proxied_vsf_votes = carry(n)]]
           q == [l EXCEPT !.acc = acc2]
           sum == SumFunctionOnSet(delta, 0..(ProxyDepth - last))
<1>1. VotesOnly(l, m)
  BY AdjustProxiedOnly
<1>2. m \in Ledgers /\ \A n \in Names : /\ m.acc[n].proxy = l.acc[n].proxy
                                        /\ m.acc[n].vesting_shares = l.acc[n].vesting_shares
  BY <1>1 DEF VotesOnly, AccountFields
<1>3. m = IF l.acc[p[last]].proxy # Nobody THEN q ELSE AdjustVotes(q, p[last], sum)
  BY DEF AdjustProxied
<1> HIDE DEF last, sum
<1>4. \A n \in Names \ {p[k] : k \in 1..ProxyDepth} : acc2[n] = l.acc[n]
  OBVIOUS
<1>5. ASSUME NEW k \in 1..ProxyDepth, p[k] # Nobody
      PROVE  /\ p[k] \in Names /\ distance(p[k]) = k
             /\ acc2[p[k]] = [l.acc[p[k]] EXCEPT !.proxied_vsf_votes = carry(p[k])]
  <2>1. p \in [0..ProxyDepth -> Names \cup {Nobody}] /\ k \in 0..ProxyDepth
    BY ProxyChain, AccountsAssumption
  <2>2. p[k] \in Names
    BY <1>5, <2>1
  <2>3. ASSUME NEW d \in 1..ProxyDepth, p[d] = p[k]
        PROVE  d = k
    <3>1. d \in 0..ProxyDepth
      BY AccountsAssumption
    <3>2. d < k => r[p[d]] < r[p[k]]
      BY <1>5, <2>1, <3>1, ChainRises
    <3>3. k < d => r[p[k]] < r[p[d]]
      BY <1>5, <2>1, <2>3, <3>1, ChainRises
    <3>4. r[p[k]] \in Nat
      BY <2>2 DEF RankedBy
    <3> QED
      BY <2>3, <3>2, <3>3, <3>4
  <2> QED
    BY <2>2, <2>3
<1> HIDE DEF distance
<1>6. ASSUME NEW k \in 1..ProxyDepth, p[k] # Nobody
      PROVE  /\ carry(p[k]) \in Stakes
             /\ \A i \in 1..ProxyDepth :
                   carry(p[k])[i] = l.acc[p[k]].proxied_vsf_votes[i] + Carried(k, delta, i)
  <2>1. l.acc[p[k]].proxied_vsf_votes \in [1..ProxyDepth -> Int] /\ ProxyDepth \in Nat
    BY <1>5, <1>6, AccountTypes, AccountsAssumption DEF Stakes
  <2>2. \A i \in 1..ProxyDepth :
           carry(p[k])[i] = l.acc[p[k]].proxied_vsf_votes[i] + Carried(k, delta, i)
    BY <1>5, <1>6 DEF Carried
  <2>3. ASSUME NEW i \in 1..ProxyDepth PROVE Carried(k, delta, i) \in Int
    <3>1. i >= k => i - k \in 0..ProxyDepth
      BY <2>1
    <3> QED
      BY <3>1 DEF Carried
  <2>4. ASSUME NEW i \in 1..ProxyDepth
        PROVE  l.acc[p[k]].proxied_vsf_votes[i] + Carried(k, delta, i) \in Int
    <3>1. PICK y \in Int : y = l.acc[p[k]].proxied_vsf_votes[i]
      BY <2>1
    <3>2. PICK z \in Int : z = Carried(k, delta, i)
      BY <2>3
    <3> QED
      BY <3>1, <3>2
  <2>5. carry(p[k]) = [i \in 1..ProxyDepth |->
           l.acc[p[k]].proxied_vsf_votes[i] + Carried(k, delta, i)]
    BY <1>5, <1>6 DEF Carried
  <2> QED
    BY <2>2, <2>4, <2>5 DEF Stakes
<1> HIDE DEF carry
<1>7. ASSUME NEW n \in Names
      PROVE  /\ acc2[n] \in Account
             /\ n \notin {p[k] : k \in 1..ProxyDepth} => acc2[n] = l.acc[n]
             /\ \A k \in 1..ProxyDepth : p[k] = n => acc2[n].proxied_vsf_votes = carry(n)
  <2>1. l.acc[n] \in Account
    BY DEF Ledgers
  <2>2. CASE n \notin {p[k] : k \in 1..ProxyDepth}
    BY <1>4, <2>1, <2>2
  <2>3. CASE n \in {p[k] : k \in 1..ProxyDepth}
    <3>1. PICK k \in 1..ProxyDepth : p[k] = n
      BY <2>3
    <3>2. p[k] # Nobody
      BY <3>1, AccountsAssumption
    <3>3. PICK c \in Stakes : c = carry(n)
      BY <1>6, <3>1, <3>2
    <3>4. acc2[n] = [l.acc[n] EXCEPT !.proxied_vsf_votes = c]
      BY <1>5, <3>1, <3>2, <3>3
    <3>5. acc2[n] \in Account
      BY <2>1, <3>4, StakesReplaced
    <3>6. acc2[n].proxied_vsf_votes = c
      BY <2>1, <3>4 DEF Account
    <3> QED
      BY <2>3, <3>3, <3>5, <3>6
  <2> QED
    BY <2>2, <2>3
<1>8. acc2 \in [Names -> Account]
  BY <1>7
<1> HIDE DEF acc2
<1>9. q \in Ledgers /\ q.acc = acc2
  BY <1>8 DEF Ledgers
<1> HIDE DEF q
<1>10. SameProxied(q, m)
  BY <1>3, <1>9, AdjustVotesKeeps DEF SameProxied
<1>11. \A n \in Names : m.acc[n].proxied_vsf_votes = acc2[n].proxied_vsf_votes
  BY <1>9, <1>10 DEF SameProxied
<1>12. ASSUME NEW n \in Names, n \notin {p[k] : k \in 1..ProxyDepth}
       PROVE  m.acc[n].proxied_vsf_votes = l.acc[n].proxied_vsf_votes
  BY <1>7, <1>11, <1>12
<1>13. ASSUME NEW k \in 1..ProxyDepth, NEW i \in 1..ProxyDepth, p[k] # Nobody
       PROVE  m.acc[p[k]].proxied_vsf_votes[i]
                 = l.acc[p[k]].proxied_vsf_votes[i] + Carried(k, delta, i)
  <2>1. p[k] \in Names
    BY <1>5, <1>13
  <2>2. m.acc[p[k]].proxied_vsf_votes = carry(p[k])
    BY <1>7, <1>11, <2>1
  <2> QED
    BY <1>6, <1>13, <2>2
<1> QED
  BY <1>2, <1>12, <1>13

(* Of the accounts that have c as their proxy, at most one is on a chain   *)
(* that reaches c.                                                         *)
LEMMA ChainEnters ==
    ASSUME NEW l \in Ledgers, NEW r, RankedBy(l, r), NEW a \in Names,
           NEW p, p = ProxyAfter(l, a), NEW k \in 1..ProxyDepth, p[k] # Nobody,
           NEW j \in 0..ProxyDepth, p[j] # Nobody, l.acc[p[j]].proxy = p[k]
    PROVE  j = k - 1
<1>0. ProxyDepth \in Nat /\ k \in 0..ProxyDepth
  BY AccountsAssumption
<1>1. /\ p \in [0..ProxyDepth -> Names \cup {Nobody}]
      /\ \A i \in 1..ProxyDepth :
            p[i] = IF p[i - 1] = Nobody THEN Nobody ELSE l.acc[p[i - 1]].proxy
  BY ProxyChain
<1>2. p[j] \in Names /\ p[k] \in Names
  BY <1>0, <1>1
<1>3. r[p[j]] < r[p[k]] /\ r[p[j]] \in Nat /\ r[p[k]] \in Nat
  BY <1>2 DEF RankedBy
<1>4. j < k
  <2>1. j = k => FALSE
    BY <1>3
  <2>2. k < j => r[p[k]] < r[p[j]]
    BY <1>0, ChainRises
  <2> QED
    BY <1>0, <1>3, <2>1, <2>2
<1>5. j + 1 \in 1..ProxyDepth /\ (j + 1) - 1 = j /\ j + 1 \in 0..ProxyDepth
  BY <1>0, <1>4
<1>6. p[j + 1] = p[k]
  BY <1>1, <1>5
<1>7. j + 1 < k => FALSE
  <2>1. j + 1 < k => r[p[j + 1]] < r[p[k]]
    BY <1>0, <1>5, ChainRises
  <2> QED
    BY <1>3, <1>6, <2>1
<1> QED
  BY <1>0, <1>4, <1>7

(* What is counted of the others when one of them brings more.             *)
LEMMA OneBrings ==
    ASSUME NEW l \in Ledgers, NEW m \in Ledgers, NEW a \in Names,
           NEW c \in Names, NEW d \in 1..ProxyDepth, NEW b \in Names \ {a}, NEW x, x \in Int,
           Brought(m, b, c, d) = Brought(l, b, c, d) + x,
           \A n \in Names \ {a} : n # b => Brought(m, n, c, d) = Brought(l, n, c, d)
    PROVE  OthersBring(m, a, c, d) = OthersBring(l, a, c, d) + x
<1>0. PICK S : S = Names \ {a}
  OBVIOUS
<1>1. PICK f \in [Names -> Int], g \in [Names -> Int] :
          f = BroughtTo(l, c, d) /\ g = BroughtTo(m, c, d)
  BY BroughtInt
<1>2. \A n \in S : f[n] \in Int /\ g[n] \in Int
  BY <1>0, <1>1
<1>3. IsFiniteSet(S) /\ b \in S
  BY <1>0, <1>1, AccountsAssumption, FS_Subset
<1>4. g[b] = f[b] + x /\ \A n \in S \ {b} : g[n] = f[n]
  BY <1>0, <1>1, BroughtInt
<1>5. SumFunctionOnSet(g, S) = SumFunctionOnSet(f, S) - f[b] + g[b]
  BY <1>2, <1>3, <1>4, SumChange
<1>6. SumFunctionOnSet(f, S) \in Int /\ f[b] \in Int
  BY <1>2, <1>3, SumInt
<1>7. SumFunctionOnSet(g, S) = SumFunctionOnSet(f, S) + x
  BY <1>4, <1>5, <1>6
<1> QED
  BY <1>0, <1>1, <1>7 DEF OthersBring

(* adjust_proxied_validator_votes: the proxies of a count delta more.      *)
LEMMA AdjustedCounts ==
    ASSUME NEW l \in Ledgers, Linked(l), NEW r, RankedBy(l, r), NEW a \in Names,
           l.acc[a].exists, NEW delta \in [0..ProxyDepth -> Int],
           NEW m, m = AdjustProxied(l, a, delta), NEW e \in [0..ProxyDepth -> Int],
           CountedAs(l, a, e), NEW f,
           \A d \in 1..ProxyDepth : f[d - 1] = e[d - 1] + delta[d - 1]
    PROVE  CountedAs(m, a, f)
<1> DEFINE p == ProxyAfter(l, a)
<1>0. ProxyDepth \in Nat
  BY AccountsAssumption
<1>1. /\ p \in [0..ProxyDepth -> Names \cup {Nobody}] /\ p[0] = a
      /\ \A i \in 1..ProxyDepth :
            p[i] = IF p[i - 1] = Nobody THEN Nobody ELSE l.acc[p[i - 1]].proxy
  BY ProxyChain
<1> HIDE DEF p
<1>2. /\ m \in Ledgers
      /\ \A n \in Names : /\ m.acc[n].proxy = l.acc[n].proxy
                          /\ m.acc[n].vesting_shares = l.acc[n].vesting_shares
                          /\ n \notin {p[k] : k \in 1..ProxyDepth} =>
                                m.acc[n].proxied_vsf_votes = l.acc[n].proxied_vsf_votes
      /\ \A k \in 1..ProxyDepth, i \in 1..ProxyDepth : p[k] # Nobody =>
            m.acc[p[k]].proxied_vsf_votes[i]
               = l.acc[p[k]].proxied_vsf_votes[i] + Carried(k, delta, i)
  BY AdjustedStakes DEF p
<1>3. ASSUME NEW n \in Names, n # a, NEW c \in Names, l.acc[n].proxy = c, NEW d \in 1..ProxyDepth,
             Brought(m, n, c, d) # Brought(l, n, c, d)
      PROVE  \E j \in 1..ProxyDepth : p[j] = n /\ j < d
  <2>1. StakeAt(m, n, d - 1) # StakeAt(l, n, d - 1)
    BY <1>2, <1>3 DEF Brought
  <2>2. d - 1 # 0 /\ d - 1 \in 1..ProxyDepth
    BY <1>0, <1>2, <2>1 DEF StakeAt
  <2>3. m.acc[n].proxied_vsf_votes[d - 1] # l.acc[n].proxied_vsf_votes[d - 1]
    BY <2>1, <2>2 DEF StakeAt
  <2>4. PICK j \in 1..ProxyDepth : p[j] = n
    BY <1>2, <2>3
  <2>5. m.acc[n].proxied_vsf_votes[d - 1]
           = l.acc[n].proxied_vsf_votes[d - 1] + Carried(j, delta, d - 1)
    BY <1>2, <2>2, <2>4, AccountsAssumption
  <2>6. l.acc[n].proxied_vsf_votes[d - 1] \in Int
    BY <2>2, AccountTypes DEF Stakes
  <2>7. d - 1 >= j
    BY <2>3, <2>5, <2>6 DEF Carried
  <2> QED
    BY <1>0, <2>4, <2>7
<1> SUFFICES ASSUME NEW c \in Names, NEW d \in 1..ProxyDepth
             PROVE  m.acc[c].proxied_vsf_votes[d]
                       = OthersBring(m, a, c, d) + IF m.acc[a].proxy = c THEN f[d - 1] ELSE 0
  BY DEF CountedAs
<1>4. l.acc[c].proxied_vsf_votes[d]
         = OthersBring(l, a, c, d) + IF l.acc[a].proxy = c THEN e[d - 1] ELSE 0
  BY DEF CountedAs
<1>5. /\ l.acc[c].proxied_vsf_votes[d] \in Int /\ OthersBring(l, a, c, d) \in Int
      /\ OthersBring(m, a, c, d) \in Int
  BY <1>2, AccountTypes, BroughtInt DEF Stakes
<1>6. e[d - 1] \in Int /\ delta[d - 1] \in Int /\ f[d - 1] = e[d - 1] + delta[d - 1]
  BY <1>0
<1>7. c # Nobody
  BY AccountsAssumption
<1>8. 1 \in 1..ProxyDepth /\ p[1] = l.acc[a].proxy
  BY <1>1, AccountsAssumption
<1>9. CASE c \notin {p[k] : k \in 1..ProxyDepth}
  <2>1. ASSUME NEW n \in Names \ {a}
        PROVE  Brought(m, n, c, d) = Brought(l, n, c, d)
    <3> SUFFICES ASSUME Brought(m, n, c, d) # Brought(l, n, c, d) PROVE FALSE
      OBVIOUS
    <3>1. l.acc[n].proxy = c
      BY <1>2 DEF Brought
    <3>2. PICK j \in 1..ProxyDepth : p[j] = n /\ j < d
      BY <1>3, <3>1
    <3>3. j + 1 \in 1..ProxyDepth /\ (j + 1) - 1 = j
      BY <1>0, <3>2
    <3>4. p[j + 1] = c
      BY <1>1, <3>1, <3>2, <3>3, AccountsAssumption
    <3> QED
      BY <1>9, <3>3, <3>4
  <2>2. OthersBring(m, a, c, d) = OthersBring(l, a, c, d)
    BY <1>2, <2>1, SameCounted
  <2>3. l.acc[a].proxy # c /\ m.acc[a].proxy # c
    BY <1>2, <1>8, <1>9
  <2> QED
    BY <1>2, <1>4, <1>9, <2>2, <2>3
<1>10. ASSUME NEW k \in 1..ProxyDepth, p[k] = c
       PROVE  m.acc[c].proxied_vsf_votes[d]
                       = OthersBring(m, a, c, d) + IF m.acc[a].proxy = c THEN f[d - 1] ELSE 0
  <2>1. m.acc[c].proxied_vsf_votes[d] = l.acc[c].proxied_vsf_votes[d] + Carried(k, delta, d)
    BY <1>2, <1>7, <1>10
  <2>2. ASSUME NEW n \in Names \ {a}, Brought(m, n, c, d) # Brought(l, n, c, d)
        PROVE  n = p[k - 1] /\ k # 1
    <3>1. l.acc[n].proxy = c
      BY <1>2, <2>2 DEF Brought
    <3>2. PICK j \in 1..ProxyDepth : p[j] = n /\ j < d
      BY <1>3, <2>2, <3>1
    <3>a. j \in 0..ProxyDepth /\ p[j] # Nobody /\ p[k] # Nobody /\ l.acc[p[j]].proxy = p[k]
      BY <1>0, <1>7, <1>10, <3>1, <3>2, AccountsAssumption
    <3>3. j = k - 1
      BY <3>a, ChainEnters DEF p
    <3> QED
      BY <3>2, <3>3
  <2>3. CASE k = 1
    <3>1. l.acc[a].proxy = c /\ m.acc[a].proxy = c
      BY <1>2, <1>8, <1>10, <2>3
    <3>2. OthersBring(m, a, c, d) = OthersBring(l, a, c, d)
      BY <1>2, <2>2, <2>3, SameCounted
    <3>3. Carried(k, delta, d) = delta[d - 1]
      BY <2>3 DEF Carried
    <3> QED
      BY <1>4, <1>5, <1>6, <2>1, <3>1, <3>2, <3>3
  <2>4. CASE k # 1
    <3>1. /\ k - 1 \in 1..ProxyDepth /\ k - 1 \in 0..ProxyDepth /\ k - 1 # 0
          /\ k \in 0..ProxyDepth /\ 0 \in 0..ProxyDepth
      BY <1>0, <2>4
    <3>2. p[k - 1] # Nobody /\ p[k - 1] \in Names /\ l.acc[p[k - 1]].proxy = c
      BY <1>1, <1>7, <1>10, <3>1
    <3>3. p[k - 1] # a
      <4>1. 0 < k - 1 /\ r[p[0]] < r[p[k - 1]]
        BY <3>1, <3>2, ChainRises DEF p
      <4>2. r[a] \in Nat
        BY DEF RankedBy
      <4> QED
        BY <1>1, <4>1, <4>2
    <3>4. l.acc[a].proxy # c /\ m.acc[a].proxy # c
      <4>a. p[0] # Nobody /\ p[k] # Nobody /\ (l.acc[a].proxy = c => l.acc[p[0]].proxy = p[k])
        BY <1>1, <1>7, <1>10, AccountsAssumption
      <4>1. l.acc[a].proxy = c => 0 = k - 1
        BY <3>1, <4>a, ChainEnters DEF p
      <4> QED
        BY <1>2, <3>1, <4>1
    <3>5. Brought(m, p[k - 1], c, d) = Brought(l, p[k - 1], c, d) + Carried(k, delta, d)
      <4>1. CASE d = 1
        <5>1. Carried(k, delta, d) = 0
          BY <2>4, <4>1 DEF Carried
        <5>2. Brought(m, p[k - 1], c, d) = Brought(l, p[k - 1], c, d)
          BY <1>2, <3>2, <4>1 DEF Brought, StakeAt
        <5>3. Brought(l, p[k - 1], c, d) \in Int
          BY <3>2, StakeInt DEF Brought
        <5> QED
          BY <5>1, <5>2, <5>3
      <4>2. CASE d # 1
        <5>1. d - 1 \in 1..ProxyDepth /\ d - 1 # 0
          BY <1>0, <4>2
        <5>2. m.acc[p[k - 1]].proxied_vsf_votes[d - 1]
                 = l.acc[p[k - 1]].proxied_vsf_votes[d - 1] + Carried(k - 1, delta, d - 1)
          BY <1>2, <3>1, <3>2, <5>1
        <5>3. Carried(k - 1, delta, d - 1) = Carried(k, delta, d)
          <6>1. (d - 1 >= k - 1 <=> d >= k) /\ (d - 1) - (k - 1) = d - k
            BY <1>0
          <6> QED
            BY <6>1 DEF Carried
        <5> QED
          BY <1>2, <3>2, <5>1, <5>2, <5>3 DEF Brought, StakeAt
      <4> QED
        BY <4>1, <4>2
    <3>6. Carried(k, delta, d) \in Int
      <4>1. d >= k => d - k \in 0..ProxyDepth
        BY <1>0
      <4> QED
        BY <4>1 DEF Carried
    <3>7. OthersBring(m, a, c, d) = OthersBring(l, a, c, d) + Carried(k, delta, d)
      <4>1. PICK b \in Names \ {a} : b = p[k - 1]
        BY <3>2, <3>3
      <4>2. \A n \in Names \ {a} : n # b => Brought(m, n, c, d) = Brought(l, n, c, d)
        BY <2>2, <4>1
      <4> QED
        BY <1>2, <3>5, <3>6, <4>1, <4>2, OneBrings
    <3> QED
      BY <1>4, <1>5, <2>1, <3>4, <3>6, <3>7
  <2> QED
    BY <2>3, <2>4
<1> QED
  BY <1>9, <1>10

(* An account is not among its own proxies: its own stakes stay.           *)
LEMMA OwnStakesStay ==
    ASSUME NEW l \in Ledgers, Linked(l), NEW r, RankedBy(l, r), NEW a \in Names,
           l.acc[a].exists, NEW delta \in [0..ProxyDepth -> Int],
           NEW m, m = AdjustProxied(l, a, delta)
    PROVE  \A i \in 0..ProxyDepth : StakeAt(m, a, i) = StakeAt(l, a, i)
<1> DEFINE p == ProxyAfter(l, a)
<1>1. p[0] = a /\ r[a] \in Nat /\ 0 \in 0..ProxyDepth
  BY ProxyChain, AccountsAssumption DEF RankedBy
<1>2. a \notin {p[k] : k \in 1..ProxyDepth}
  <2> SUFFICES ASSUME NEW k \in 1..ProxyDepth, p[k] = a PROVE FALSE
    OBVIOUS
  <2>1. k \in 0..ProxyDepth /\ 0 < k /\ p[k] # Nobody
    BY AccountsAssumption
  <2>2. r[p[0]] < r[p[k]]
    BY <1>1, <2>1, ChainRises
  <2> QED
    BY <1>1, <2>2
<1>3. /\ m.acc[a].vesting_shares = l.acc[a].vesting_shares
      /\ m.acc[a].proxied_vsf_votes = l.acc[a].proxied_vsf_votes
  BY <1>2, AdjustedStakes
<1> QED
  BY <1>3 DEF StakeAt

Zeros == [i \in 0..ProxyDepth |-> 0]

LEMMA ZerosType ==
    /\ Zeros \in [0..ProxyDepth -> Int]
    /\ \A d \in 1..ProxyDepth : d - 1 \in 0..ProxyDepth /\ Zeros[d - 1] = 0
<1>1. \A d \in 1..ProxyDepth : d - 1 \in 0..ProxyDepth
  BY AccountsAssumption
<1> QED
  BY <1>1 DEF Zeros

LEMMA OwnStakes ==
    ASSUME NEW l \in Ledgers, NEW a \in Names
    PROVE  \E e \in [0..ProxyDepth -> Int] :
              \A i \in 0..ProxyDepth : e[i] = StakeAt(l, a, i)
<1>1. ASSUME NEW i \in 0..ProxyDepth
      PROVE  StakeAt(l, a, i) \in Int
  <2>1. i = 0 => StakeAt(l, a, i) = l.acc[a].vesting_shares
    BY DEF StakeAt
  <2>2. i # 0 => i \in 1..ProxyDepth
    BY AccountsAssumption
  <2> QED
    BY <2>1, <2>2, StakeInt, AccountTypes
<1> DEFINE e == [i \in 0..ProxyDepth |-> StakeAt(l, a, i)]
<1>2. e \in [0..ProxyDepth -> Int] /\ \A i \in 0..ProxyDepth : e[i] = StakeAt(l, a, i)
  BY <1>1
<1> QED
  BY <1>2

(* The stakes of a are taken from its proxies, as when it leaves them ...  *)
LEMMA StakesTaken ==
    ASSUME NEW l \in Ledgers, Linked(l), Proxied(l), NEW a \in Names, l.acc[a].exists,
           NEW delta \in [0..ProxyDepth -> Int],
           \A d \in 1..ProxyDepth : delta[d - 1] = -StakeAt(l, a, d - 1),
           NEW m, m = AdjustProxied(l, a, delta)
    PROVE  /\ CountedAs(m, a, Zeros) /\ SameProxies(l, m)
           /\ \A i \in 0..ProxyDepth : StakeAt(m, a, i) = StakeAt(l, a, i)
<1>1. PICK r : RankedBy(l, r)
  BY DEF Proxied, Ranked
<1>2. PICK e \in [0..ProxyDepth -> Int] : \A i \in 0..ProxyDepth : e[i] = StakeAt(l, a, i)
  BY OwnStakes
<1>3. \A d \in 1..ProxyDepth : e[d - 1] = StakeAt(l, a, d - 1)
  BY <1>2, ZerosType
<1>4. CountedAs(l, a, e)
  BY <1>3, TalliedAs DEF Proxied
<1>5. \A d \in 1..ProxyDepth : Zeros[d - 1] = e[d - 1] + delta[d - 1]
  <2> TAKE d \in 1..ProxyDepth
  <2>1. e[d - 1] \in Int /\ delta[d - 1] = -e[d - 1] /\ Zeros[d - 1] = 0
    BY <1>3, ZerosType
  <2> QED
    BY <2>1
<1>6. CountedAs(m, a, Zeros)
  BY <1>1, <1>4, <1>5, AdjustedCounts
<1>7. SameProxies(l, m)
  BY <1>1, AdjustedStakes DEF SameProxies
<1> QED
  BY <1>1, <1>6, <1>7, OwnStakesStay

(* ... and given to them, as when it takes a new one.                      *)
LEMMA StakesGiven ==
    ASSUME NEW l \in Ledgers, Linked(l), Ranked(l), Direct(l), NEW a \in Names, l.acc[a].exists,
           CountedAs(l, a, Zeros), NEW delta \in [0..ProxyDepth -> Int],
           \A d \in 1..ProxyDepth : delta[d - 1] = StakeAt(l, a, d - 1),
           NEW m, m = AdjustProxied(l, a, delta)
    PROVE  Proxied(m)
<1>1. PICK r : RankedBy(l, r)
  BY DEF Ranked
<1>2. \A d \in 1..ProxyDepth : delta[d - 1] = Zeros[d - 1] + delta[d - 1]
  <2> TAKE d \in 1..ProxyDepth
  <2>1. delta[d - 1] \in Int /\ Zeros[d - 1] = 0
    BY ZerosType
  <2> QED
    BY <2>1
<1>3. CountedAs(m, a, delta)
  BY <1>1, <1>2, ZerosType, AdjustedCounts
<1>4. \A i \in 0..ProxyDepth : StakeAt(m, a, i) = StakeAt(l, a, i)
  BY <1>1, OwnStakesStay
<1>5. \A d \in 1..ProxyDepth : delta[d - 1] = StakeAt(m, a, d - 1)
  BY <1>4, ZerosType
<1>6. m \in Ledgers /\ SameProxies(l, m)
  BY <1>1, AdjustedStakes DEF SameProxies
<1>7. Tallied(m)
  BY <1>3, <1>5, <1>6, TalliedAs
<1> QED
  BY <1>6, <1>7, SameRanks DEF Proxied

(* An account without a proxy is counted by none.                          *)
LEMMA ProxyLeft ==
    ASSUME NEW l \in Ledgers, NEW a \in Names, CountedAs(l, a, Zeros), l.acc[a].proxy = Nobody
    PROVE  Tallied(l)
<1>1. PICK e \in [0..ProxyDepth -> Int] : \A i \in 0..ProxyDepth : e[i] = StakeAt(l, a, i)
  BY OwnStakes
<1>2. \A c \in Names : c # Nobody
  BY AccountsAssumption
<1>3. CountedAs(l, a, e)
  BY <1>2 DEF CountedAs
<1>4. \A d \in 1..ProxyDepth : e[d - 1] = StakeAt(l, a, d - 1)
  BY <1>1, ZerosType
<1> QED
  BY <1>3, <1>4, TalliedAs

(* A change of the shares of an account that its proxies are told of.      *)
LEMMA SharesReported ==
    ASSUME NEW l \in Ledgers, Proxied(l), NEW a \in Names, NEW q \in Ledgers, Linked(q),
           q.acc[a].exists, SameProxies(l, q), SameProxied(l, q),
           \A b \in Names \ {a} : q.acc[b].vesting_shares = l.acc[b].vesting_shares,
           NEW x, x \in Int, q.acc[a].vesting_shares = l.acc[a].vesting_shares + x,
           NEW m, m = AdjustStakeVotes(q, a, x)
    PROVE  Proxied(m)
<1>1. PICK r : RankedBy(q, r)
  BY SameRanks DEF Proxied, Ranked
<1>2. PICK e \in [0..ProxyDepth -> Int] : \A i \in 0..ProxyDepth : e[i] = StakeAt(l, a, i)
  BY OwnStakes
<1>3. \A d \in 1..ProxyDepth : e[d - 1] = StakeAt(l, a, d - 1)
  BY <1>2, ZerosType
<1>4. CountedAs(l, a, e)
  BY <1>3, TalliedAs DEF Proxied
<1>5. CountedAs(q, a, e)
  BY <1>4, CountedFrame DEF SameProxies, SameProxied
<1>6. PICK delta \in [0..ProxyDepth -> Int] :
          delta = [i \in 0..ProxyDepth |-> IF i = 0 THEN x ELSE 0]
  <2> DEFINE g == [i \in 0..ProxyDepth |-> IF i = 0 THEN x ELSE 0]
  <2>1. g \in [0..ProxyDepth -> Int]
    OBVIOUS
  <2> QED
    BY <2>1
<1>7. m = AdjustProxied(q, a, delta)
  BY <1>6 DEF AdjustStakeVotes
<1>8. \A d \in 1..ProxyDepth : StakeAt(m, a, d - 1) = e[d - 1] + delta[d - 1]
  <2> TAKE d \in 1..ProxyDepth
  <2>1. d - 1 \in 0..ProxyDepth
    BY ZerosType
  <2>2. StakeAt(m, a, d - 1) = StakeAt(q, a, d - 1)
    BY <1>1, <1>7, <2>1, OwnStakesStay
  <2>3. e[d - 1] = StakeAt(l, a, d - 1) /\ e[d - 1] \in Int
    BY <1>2, <2>1
  <2>4. delta[d - 1] = IF d - 1 = 0 THEN x ELSE 0
    BY <1>6, <2>1
  <2> QED
    BY <2>2, <2>3, <2>4 DEF StakeAt, SameProxied
<1>9. PICK f : f = [i \in 0..ProxyDepth |-> e[i] + delta[i]]
  OBVIOUS
<1>10. \A d \in 1..ProxyDepth : f[d - 1] = e[d - 1] + delta[d - 1]
  BY <1>9, ZerosType
<1>11. CountedAs(m, a, f)
  BY <1>1, <1>5, <1>7, <1>10, AdjustedCounts
<1>12. m \in Ledgers /\ SameProxies(q, m)
  BY <1>1, <1>7, AdjustedStakes DEF SameProxies
<1>13. Tallied(m)
  BY <1>8, <1>10, <1>11, <1>12, TalliedAs
<1>14. Ranked(m) /\ Direct(m)
  BY <1>12, SameRanks DEF Proxied
<1> QED
  BY <1>13, <1>14 DEF Proxied

(* A new proxy whose chain ends before ProxyDepth and does not lead back   *)
(* puts no account behind itself.                                          *)
LEMMA ProxyRanked ==
    ASSUME NEW l \in Ledgers, Ranked(l), NEW a \in Names, NEW q \in Names, q # a,
           NEW p, p = ProxyAfter(l, q), a \notin {p[i] : i \in 1..ProxyDepth},
           NEW C, C = {p[i] : i \in 0..ProxyDepth} \ {Nobody},
           Cardinality(C) > 1 => Cardinality(C) + 1 <= ProxyDepth,
           NEW m, m.acc[a].proxy = q,
           \A b \in Names \ {a} : m.acc[b].proxy = l.acc[b].proxy
    PROVE  Ranked(m)
<1>0. ProxyDepth \in Nat \ {0} /\ Nobody \notin Names /\ IsFiniteSet(Names)
  BY AccountsAssumption
<1>1. PICK r : RankedBy(l, r)
  BY DEF Ranked
<1>2. /\ p \in [0..ProxyDepth -> Names \cup {Nobody}] /\ p[0] = q
      /\ \A i \in 1..ProxyDepth :
            p[i] = IF p[i - 1] = Nobody THEN Nobody ELSE l.acc[p[i - 1]].proxy
  BY ProxyChain
<1>3. C \subseteq Names /\ IsFiniteSet(C) /\ q \in C /\ a \notin C
  <2>1. C \subseteq Names
    BY <1>2
  <2>2. q \in C
    BY <1>0, <1>2
  <2>3. a \notin C
    <3> SUFFICES ASSUME NEW i \in 0..ProxyDepth, p[i] = a PROVE FALSE
      OBVIOUS
    <3>1. i # 0
      BY <1>2
    <3>2. i \in 1..ProxyDepth
      BY <1>0, <3>1
    <3> QED
      BY <3>2
  <2> QED
    BY <1>0, <2>1, <2>2, <2>3, FS_Subset
<1>4. p[ProxyDepth] = Nobody
  <2> SUFFICES ASSUME p[ProxyDepth] # Nobody PROVE FALSE
    OBVIOUS
  <2>1. ProxyDepth \in 0..ProxyDepth
    BY <1>0
  <2>2. ASSUME NEW i \in 0..ProxyDepth PROVE p[i] \in C
    <3>1. i = ProxyDepth \/ i < ProxyDepth
      BY <1>0
    <3>2. i < ProxyDepth => p[i] \in Names
      BY <1>1, <2>1, ChainRises
    <3> QED
      BY <1>0, <3>1, <3>2
  <2>3. ASSUME NEW i \in 0..ProxyDepth, NEW j \in 0..ProxyDepth, i < j PROVE p[i] # p[j]
    <3>1. r[p[i]] < r[p[j]] /\ r[p[i]] \in Nat
      BY <1>1, <1>3, <2>2, <2>3, ChainRises DEF RankedBy
    <3> QED
      BY <3>1
  <2>4. p \in Injection(0..ProxyDepth, C)
    <3>1. p \in [0..ProxyDepth -> C]
      BY <1>2, <2>2
    <3>2. ASSUME NEW i \in 0..ProxyDepth, NEW j \in 0..ProxyDepth, p[i] = p[j] PROVE i = j
      <4>1. ~(i < j) /\ ~(j < i)
        BY <2>3, <3>2
      <4> QED
        BY <4>1
    <3> QED
      BY <3>1, <3>2 DEF Injection, IsInjective
  <2>5. Cardinality(0..ProxyDepth) <= Cardinality(C)
    BY <1>3, <2>4, FS_Injection
  <2>6. Cardinality(0..ProxyDepth) = ProxyDepth + 1
    BY <1>0, FS_Interval
  <2>7. Cardinality(C) \in Nat
    BY <1>3, FS_CardinalityType
  <2> QED
    BY <1>0, <2>5, <2>6, <2>7
<1>5. ASSUME NEW c \in C, l.acc[c].proxy # Nobody
      PROVE  l.acc[c].proxy \in C
  <2>1. PICK i \in 0..ProxyDepth : p[i] = c
    OBVIOUS
  <2>2. i # ProxyDepth
    BY <1>4, <2>1
  <2>3. i + 1 \in 1..ProxyDepth /\ (i + 1) - 1 = i /\ i + 1 \in 0..ProxyDepth
    BY <1>0, <2>2
  <2>4. p[i + 1] = l.acc[c].proxy
    BY <1>2, <2>1, <2>3
  <2> QED
    BY <1>5, <2>3, <2>4
<1>6. r \in [Names -> Nat]
  BY <1>1 DEF RankedBy
<1>7. PICK k \in Nat : k = SumFunction(r) /\ \A b \in Names : r[b] <= k
  BY <1>0, <1>6, SumOfNats
<1>8. PICK s : s = [b \in Names |-> IF b \in C THEN r[b] + k + 1 ELSE r[b]]
  OBVIOUS
<1>9. s \in [Names -> Nat]
  BY <1>6, <1>7, <1>8
<1>10. ASSUME NEW b \in Names, m.acc[b].proxy # Nobody
       PROVE  s[b] < s[m.acc[b].proxy]
  <2>1. CASE b = a
    <3>1. s[b] = r[a] /\ s[m.acc[b].proxy] = r[q] + k + 1
      BY <1>3, <1>8, <2>1
    <3>2. r[a] <= k /\ r[a] \in Nat /\ r[q] \in Nat
      BY <1>6, <1>7
    <3> QED
      BY <1>7, <3>1, <3>2
  <2>2. CASE b # a
    <3>1. PICK c : c = l.acc[b].proxy /\ c = m.acc[b].proxy
      BY <2>2
    <3>2. c \in Names /\ r[b] < r[c]
      BY <1>1, <1>10, <3>1, AccountTypes DEF RankedBy
    <3>3. b \in C => c \in C
      BY <1>5, <1>10, <3>1
    <3>4. s[b] = (IF b \in C THEN r[b] + k + 1 ELSE r[b]) /\ s[c] = (IF c \in C THEN r[c] + k + 1 ELSE r[c])
      BY <1>8, <3>2
    <3>5. r[b] \in Nat /\ r[c] \in Nat
      BY <1>6, <3>2
    <3>6. s[b] < s[c]
      BY <1>7, <3>2, <3>3, <3>4, <3>5
    <3> QED
      BY <3>1, <3>6
  <2> QED
    BY <2>1, <2>2
<1>11. RankedBy(m, s)
  BY <1>9, <1>10 DEF RankedBy
<1> QED
  BY <1>11 DEF Ranked

(* The stakes that reach a after d proxies.                                *)
Reaching(l, d, a) ==
    [b \in Names |-> IF ProxyAfter(l, b)[d] = a THEN l.acc[b].vesting_shares ELSE 0]

LEMMA ReachingInt ==
    ASSUME NEW l \in Ledgers, NEW d, NEW a
    PROVE  /\ Reaching(l, d, a) \in [Names -> Int]
           /\ \A b \in Names : Reaching(l, d, a)[b]
                 = IF ProxyAfter(l, b)[d] = a THEN l.acc[b].vesting_shares ELSE 0
BY AccountTypes DEF Reaching

(* What the items of R credited to n by w add up to.                       *)
Credit(R, w, v, n) == SumFunction([r \in R |-> IF w[r] = n THEN v[r] ELSE 0])
Credits(N, R, w, v) == [n \in N |-> Credit(R, w, v, n)]

LEMMA SumOfCredits ==
    ASSUME NEW N, NEW R, IsFiniteSet(N), IsFiniteSet(R),
           NEW w \in [R -> N], NEW v \in [R -> Int]
    PROVE  SumFunction(Credits(N, R, w, v)) = SumFunction(v)
BY SumExchange DEF Credit, Credits

LEMMA ReachingNext ==
    ASSUME NEW l \in Ledgers, NEW a \in Names, NEW d \in 1..ProxyDepth, d # 1,
           \A c \in Names : l.acc[c].proxied_vsf_votes[d - 1] = SumFunction(Reaching(l, d - 1, c))
    PROVE  SumFunction(BroughtTo(l, a, d)) = SumFunction(Reaching(l, d, a))
<1>0. d - 1 # 0 /\ d - 1 \in 1..ProxyDepth /\ d - 1 \in 0..ProxyDepth
      /\ Nobody \notin Names /\ IsFiniteSet(Names)
  BY AccountsAssumption
<1>1. \A b \in Names :
         /\ ProxyAfter(l, b)[d - 1] \in Names \cup {Nobody}
         /\ ProxyAfter(l, b)[d] = IF ProxyAfter(l, b)[d - 1] = Nobody THEN Nobody
                                  ELSE l.acc[ProxyAfter(l, b)[d - 1]].proxy
  BY <1>0, ProxyChain
<1>2. PICK t : t = [b \in Names |-> ProxyAfter(l, b)[d - 1]]
  OBVIOUS
<1>3. PICK w : w = [b \in Names |-> IF t[b] = Nobody THEN a ELSE t[b]]
  OBVIOUS
<1>4. w \in [Names -> Names]
  BY <1>1, <1>2, <1>3
<1>5. PICK v \in [Names -> Int] : v = Reaching(l, d, a)
  BY ReachingInt
<1>6. \A b \in Names : v[b] = IF t[b] # Nobody /\ l.acc[t[b]].proxy = a
                             THEN l.acc[b].vesting_shares ELSE 0
  BY <1>0, <1>1, <1>2, <1>5, ReachingInt
<1>7. ASSUME NEW c \in Names
      PROVE  Brought(l, c, a, d) = Credit(Names, w, v, c)
  <2> DEFINE z == [b \in Names |-> IF w[b] = c THEN v[b] ELSE 0]
  <2>1. Credit(Names, w, v, c) = SumFunction(z)
    BY DEF Credit
  <2>2. CASE l.acc[c].proxy = a
    <3>1. \A b \in Names : z[b] = IF ProxyAfter(l, b)[d - 1] = c THEN l.acc[b].vesting_shares ELSE 0
      BY <1>0, <1>2, <1>3, <1>6, <2>2
    <3>2. z = Reaching(l, d - 1, c)
      BY <3>1 DEF Reaching
    <3> QED
      BY <1>0, <2>1, <2>2, <3>2 DEF Brought, StakeAt
  <2>3. CASE l.acc[c].proxy # a
    <3>1. z \in [Names -> Int] /\ \A b \in Names : z[b] = 0
      BY <1>0, <1>2, <1>3, <1>6, <2>3
    <3> HIDE DEF z
    <3>2. SumFunction(z) = 0
      BY <1>0, <3>1, SumOfZeros
    <3> QED
      BY <2>1, <2>3, <3>2 DEF Brought
  <2> QED
    BY <2>2, <2>3
<1>8. BroughtTo(l, a, d) = Credits(Names, Names, w, v)
  BY <1>7 DEF BroughtTo, Credits
<1>9. SumFunction(Credits(Names, Names, w, v)) = SumFunction(v)
  BY <1>0, <1>4, SumOfCredits
<1> QED
  BY <1>5, <1>8, <1>9

LEMMA ProxiedStakes ==
    ASSUME NEW l \in Ledgers, Tallied(l), NEW a \in Names, NEW d \in 1..ProxyDepth
    PROVE  l.acc[a].proxied_vsf_votes[d] = SumFunction(Reaching(l, d, a))
<1> DEFINE Reached(k) == \A c \in Names :
              l.acc[c].proxied_vsf_votes[k] = SumFunction(Reaching(l, k, c))
           B == {k \in 1..ProxyDepth : ~Reached(k)}
<1>1. B = {}
  <2> SUFFICES ASSUME B # {} PROVE FALSE
    OBVIOUS
  <2>0. B \subseteq Nat
    BY AccountsAssumption
  <2>1. PICK k \in B : \A n \in B : k <= n
    <3> HIDE DEF B
    <3> QED  BY <2>0, LeastExists
  <2>2. k \in 1..ProxyDepth
    OBVIOUS
  <2> SUFFICES ASSUME NEW c \in Names
               PROVE  l.acc[c].proxied_vsf_votes[k] = SumFunction(Reaching(l, k, c))
    OBVIOUS
  <2>3. l.acc[c].proxied_vsf_votes[k] = SumFunction(BroughtTo(l, c, k))
    BY <2>2 DEF Tallied
  <2>4. CASE k = 1
    <3>1. \A b \in Names : ProxyAfter(l, b)[1] = l.acc[b].proxy
      <4> TAKE b \in Names
      <4>1. 1 \in 1..ProxyDepth /\ 1 - 1 = 0 /\ b # Nobody
        BY AccountsAssumption
      <4> QED
        BY <4>1, ProxyChain
    <3>2. \A b \in Names : Brought(l, b, c, 1)
                              = IF ProxyAfter(l, b)[1] = c THEN l.acc[b].vesting_shares ELSE 0
      BY <3>1 DEF Brought, StakeAt
    <3>3. BroughtTo(l, c, 1) = Reaching(l, 1, c)
      BY <3>2 DEF BroughtTo, Reaching
    <3> QED
      BY <2>3, <2>4, <3>3
  <2>5. CASE k # 1
    <3>1. k - 1 \in 1..ProxyDepth /\ ~(k <= k - 1)
      BY <2>2, <2>5, AccountsAssumption
    <3>2. Reached(k - 1)
      BY <2>1, <3>1
    <3> QED
      BY <2>2, <2>3, <2>5, <3>2, ReachingNext
  <2> QED
    BY <2>4, <2>5
<1> QED
  BY <1>1

----------------------------------------------------------------------------
(* Well-formed ledgers, and payments between them.                         *)

(* Shares have a price as soon as there are any.                           *)
Priced(l) == l.dgp.total_vesting_fund = 0 <=> l.dgp.total_vesting_shares = 0

(* An account that does not exist holds nothing.                           *)
Absent(l) == \A a \in Names : ~l.acc[a].exists => l.acc[a] = NoAccount

(* The validators and the special accounts exist from the start.           *)
Staffed(l) == \A a \in Validators \cup {Null, Anonymous, Treasury} : l.acc[a].exists

(* Votes are of accounts that exist.                                       *)
Cast(l) == IsFiniteSet(l.ballots) /\ \A b \in l.ballots : l.acc[b.account].exists

Formed(l) ==
    l \in Ledgers /\ Priced(l) /\ Linked(l) /\ Absent(l) /\ Staffed(l) /\ Cast(l)

SteadyFields ==
    {"reserved_balance", "delegated_vesting_shares", "received_vesting_shares",
     "vesting_withdraw_rate", "next_vesting_withdrawal", "to_withdraw", "withdrawn",
     "proxy", "validators_voted_for"}

(* Nothing is taken from the account of the committee but by its fund.     *)
Saves(l, m) == m.acc[Treasury].balance >= l.acc[Treasury].balance
MayTake(a, d) == a # Treasury \/ d >= 0

(* Accounts stay, no shares leave one, and its bids, loans, withdrawal and *)
(* votes are what they were.                                               *)
Steady(l, m) ==
    /\ m.ballots = l.ballots /\ Saves(l, m)
    /\ m.dgp.total_reward_shares = l.dgp.total_reward_shares
    /\ \A a \in Names :
          /\ l.acc[a].exists => m.acc[a].exists
          /\ m.acc[a].vesting_shares >= l.acc[a].vesting_shares
          /\ \A f \in SteadyFields : m.acc[a][f] = l.acc[a][f]
          /\ ~m.acc[a].exists => m.acc[a] = l.acc[a]

(* Shares of the total that no account owns, tokens in the ledger beyond   *)
(* the supply.                                                             *)
Gap(l) == l.dgp.total_vesting_shares - AccountShares(l)
Surplus(l) == AccountTokens(l) + FundTokens(l) - l.dgp.current_supply

Books(l, m, d) ==
    Formed(m) /\ Steady(l, m) /\ Gap(m) = Gap(l) /\ Surplus(m) = Surplus(l) + d

(* And the proxies count all stakes, if they did before.                   *)
Carries(l, m) == Proxied(l) => Proxied(m)

Pays(l, m, d) == Books(l, m, d) /\ Carries(l, m)

LEMMA TotalTypes ==
    ASSUME NEW l \in Ledgers
    PROVE  /\ l.dgp \in Totals
           /\ l.dgp.current_supply \in Int
           /\ l.dgp.total_vesting_fund \in Nat
           /\ l.dgp.total_vesting_shares \in Nat
           /\ l.dgp.total_reward_fund \in Nat
           /\ l.dgp.total_reward_shares \in Nat
           /\ l.dgp.committee_fund \in Nat
BY DEF Ledgers, Totals

LEMMA SumTypes ==
    ASSUME NEW l \in Ledgers
    PROVE  /\ AccountTokens(l) \in Int /\ FundTokens(l) \in Int /\ AccountShares(l) \in Nat
           /\ Gap(l) \in Int /\ Surplus(l) \in Int
           /\ \A a \in Names : l.acc[a].vesting_shares <= AccountShares(l)
<1> DEFINE t == [a \in Names |-> l.acc[a].balance + l.acc[a].reserved_balance]
           s == [a \in Names |-> l.acc[a].vesting_shares]
           r == [v \in Validators |-> l.val[v].pending_stakeholder_reward]
<1>0. IsFiniteSet(Names) /\ IsFiniteSet(Validators)
  BY AccountsAssumption, FS_Subset
<1>1. t \in [Names -> Int] /\ s \in [Names -> Nat]
  BY AccountTypes
<1>2. r \in [Validators -> Int]
  BY DEF Ledgers, ValidatorObject
<1>3. \A a \in Names : s[a] = l.acc[a].vesting_shares
  OBVIOUS
<1> HIDE DEF t, s, r
<1>4. SumFunction(t) \in Int /\ SumFunction(r) \in Int /\ SumFunction(s) \in Nat
  BY <1>0, <1>1, <1>2, SumOfInts, SumOfNats
<1>5. \A a \in Names : s[a] <= SumFunction(s)
  BY <1>0, <1>1, SumOfNats
<1>6. AccountTokens(l) = SumFunction(t) /\ AccountShares(l) = SumFunction(s)
  BY DEF AccountTokens, AccountShares, t, s
<1>7. PICK n \in Int : n = SumFunction(r)
  BY <1>4
<1>8. FundTokens(l) = l.dgp.total_vesting_fund + l.dgp.total_reward_fund
                        + l.dgp.committee_fund + n
  BY <1>7 DEF FundTokens, r
<1>9. FundTokens(l) \in Int
  BY <1>8, TotalTypes
<1>10. AccountTokens(l) \in Int /\ AccountShares(l) \in Nat
  BY <1>4, <1>6
<1>11. Gap(l) \in Int /\ Surplus(l) \in Int
  BY <1>9, <1>10, TotalTypes DEF Gap, Surplus
<1> QED
  BY <1>3, <1>5, <1>6, <1>9, <1>10, <1>11

LEMMA SavesSame ==
    ASSUME NEW l \in Ledgers, NEW m, m.acc[Treasury].balance = l.acc[Treasury].balance
    PROVE  Saves(l, m)
BY AccountTypes, AccountsAssumption DEF Saves

LEMMA SteadyForms ==
    ASSUME NEW l, Formed(l), NEW m \in Ledgers, Priced(m), Steady(l, m)
    PROVE  Formed(m)
<1>1. \A a \in Names : m.acc[a].proxy = l.acc[a].proxy
  BY DEF Steady, SteadyFields
<1>2. Linked(m)
  <2> SUFFICES ASSUME NEW a \in Names, m.acc[a].proxy # Nobody
               PROVE  m.acc[m.acc[a].proxy].exists
    BY DEF Linked
  <2>1. l.acc[l.acc[a].proxy].exists
    BY <1>1 DEF Formed, Linked
  <2>2. l.acc[a].proxy \in Names
    BY <1>1, AccountTypes DEF Formed
  <2> QED
    BY <1>1, <2>1, <2>2 DEF Steady
<1>3. Absent(m)
  BY DEF Formed, Absent, Steady
<1>4. Staffed(m)
  BY AccountsAssumption DEF Formed, Staffed, Steady
<1>5. Cast(m)
  <2>1. \A b \in l.ballots : b.account \in Names
    BY DEF Formed, Ledgers, Ballot
  <2> QED
    BY <2>1 DEF Formed, Cast, Steady
<1> QED
  BY <1>2, <1>3, <1>4, <1>5 DEF Formed

LEMMA SteadyTransitive ==
    ASSUME NEW l \in Ledgers, NEW m \in Ledgers, NEW n \in Ledgers,
           Steady(l, m), Steady(m, n)
    PROVE  Steady(l, n)
<1>1. ASSUME NEW a \in Names
      PROVE  /\ l.acc[a].exists => n.acc[a].exists
             /\ \A f \in SteadyFields : n.acc[a][f] = l.acc[a][f]
  BY DEF Steady
<1>2. ASSUME NEW a \in Names, ~n.acc[a].exists
      PROVE  n.acc[a] = l.acc[a]
  BY <1>2 DEF Steady
<1>3. ASSUME NEW a \in Names
      PROVE  n.acc[a].vesting_shares >= l.acc[a].vesting_shares
  BY AccountTypes DEF Steady
<1>4. Saves(l, n)
  <2>1. /\ l.acc[Treasury].balance \in Int /\ m.acc[Treasury].balance \in Int
        /\ n.acc[Treasury].balance \in Int
    BY AccountTypes, AccountsAssumption
  <2> QED
    BY <2>1 DEF Steady, Saves
<1> QED
  BY <1>1, <1>2, <1>3, <1>4 DEF Steady

(* What leaves stakes and proxies alone.                                   *)
LEMMA SameCarries ==
    ASSUME NEW l \in Ledgers, NEW m \in Ledgers, SameStakes(l, m)
    PROVE  Carries(l, m)
<1>1. SameProxies(l, m)
  BY DEF SameStakes, SameProxies
<1> QED
  BY <1>1, SameTally, SameRanks DEF Carries, Proxied

LEMMA SameAccounts ==
    ASSUME NEW l \in Ledgers, NEW m \in Ledgers, m.acc = l.acc
    PROVE  Carries(l, m)
BY SameCarries DEF SameStakes

(* Nobody counts the shares of an account that has no proxy.               *)
LEMMA DirectCarries ==
    ASSUME NEW l \in Ledgers, NEW m \in Ledgers, NEW a \in Names, l.acc[a].proxy = Nobody,
           SameProxies(l, m), SameProxied(l, m),
           \A b \in Names \ {a} : m.acc[b].vesting_shares = l.acc[b].vesting_shares
    PROVE  Carries(l, m)
<1> SUFFICES ASSUME Proxied(l) PROVE Proxied(m)
  BY DEF Carries
<1>1. \A c \in Names : c # Nobody
  BY AccountsAssumption
<1>2. ASSUME NEW c \in Names, NEW d \in 1..ProxyDepth
      PROVE  m.acc[c].proxied_vsf_votes[d] = SumFunction(BroughtTo(m, c, d))
  <2>1. \A b \in Names : Brought(m, b, c, d) = Brought(l, b, c, d)
    BY <1>1 DEF Brought, StakeAt, SameProxies, SameProxied
  <2>2. BroughtTo(m, c, d) = BroughtTo(l, c, d)
    BY <2>1 DEF BroughtTo
  <2> QED
    BY <2>2 DEF Proxied, Tallied, SameProxied
<1>3. Tallied(m)
  BY <1>2 DEF Tallied
<1> QED
  BY <1>3, SameRanks DEF Proxied

LEMMA CarriesTransitive ==
    ASSUME NEW l, NEW m, NEW n, Carries(l, m), Carries(m, n)
    PROVE  Carries(l, n)
BY DEF Carries

LEMMA BooksTransitive ==
    ASSUME NEW l, Formed(l), NEW m, NEW n, NEW d, d \in Int, NEW e, e \in Int,
           Books(l, m, d), Books(m, n, e)
    PROVE  Books(l, n, d + e)
<1>1. l \in Ledgers /\ m \in Ledgers /\ n \in Ledgers
  BY DEF Formed, Books
<1>2. Steady(l, n)
  BY <1>1, SteadyTransitive DEF Books
<1>3. PICK s \in Int : s = Surplus(l)
  BY <1>1, SumTypes
<1>4. Surplus(n) = s + d + e
  BY <1>3 DEF Books
<1>5. Surplus(n) = Surplus(l) + (d + e)
  BY <1>3, <1>4
<1> QED
  BY <1>2, <1>5 DEF Books

LEMMA PaysTransitive ==
    ASSUME NEW l, Formed(l), NEW m, NEW n, NEW d, d \in Int, NEW e, e \in Int,
           Pays(l, m, d), Pays(m, n, e)
    PROVE  Pays(l, n, d + e)
BY BooksTransitive, CarriesTransitive DEF Pays

LEMMA PaysNothing ==
    ASSUME NEW l, Formed(l)
    PROVE  Pays(l, l, 0)
<1>1. l \in Ledgers
  BY DEF Formed
<1>2. Steady(l, l)
  BY <1>1, AccountTypes, SavesSame DEF Steady
<1>3. Surplus(l) = Surplus(l) + 0
  BY <1>1, SumTypes
<1> QED
  BY <1>2, <1>3 DEF Pays, Books, Carries

(* What the sums of the ledger make of a change of one account.            *)
LEMMA OneAccountSums ==
    ASSUME NEW l \in Ledgers, NEW a \in Names, NEW new \in Account,
           NEW m \in Ledgers, m.dgp = l.dgp, m.val = l.val, m.acc[a] = new,
           \A b \in Names : b # a => m.acc[b] = l.acc[b]
    PROVE  /\ Gap(m) = Gap(l) + l.acc[a].vesting_shares - new.vesting_shares
           /\ Surplus(m) = Surplus(l) + (new.balance + new.reserved_balance)
                              - (l.acc[a].balance + l.acc[a].reserved_balance)
<1> DEFINE t(n) == [b \in Names |-> n.acc[b].balance + n.acc[b].reserved_balance]
           s(n) == [b \in Names |-> n.acc[b].vesting_shares]
<1>0. IsFiniteSet(Names)
  BY AccountsAssumption
<1>1. /\ t(l) \in [Names -> Int] /\ t(m) \in [Names -> Int]
      /\ s(l) \in [Names -> Int] /\ s(m) \in [Names -> Int]
  BY AccountTypes
<1>2. /\ \A b \in Names \ {a} : t(m)[b] = t(l)[b] /\ s(m)[b] = s(l)[b]
      /\ s(l)[a] = l.acc[a].vesting_shares /\ s(m)[a] = new.vesting_shares
      /\ t(l)[a] = l.acc[a].balance + l.acc[a].reserved_balance
      /\ t(m)[a] = new.balance + new.reserved_balance
  OBVIOUS
<1>3. /\ AccountTokens(l) = SumFunction(t(l)) /\ AccountTokens(m) = SumFunction(t(m))
      /\ AccountShares(l) = SumFunction(s(l)) /\ AccountShares(m) = SumFunction(s(m))
  BY DEF AccountTokens, AccountShares
<1> HIDE DEF t, s
<1>4. AccountTokens(m) = AccountTokens(l) - t(l)[a] + t(m)[a]
  BY <1>0, <1>1, <1>2, <1>3, SumChanged
<1>5. AccountShares(m) = AccountShares(l) - s(l)[a] + s(m)[a]
  BY <1>0, <1>1, <1>2, <1>3, SumChanged
<1>6. t(l)[a] \in Int /\ t(m)[a] \in Int /\ s(l)[a] \in Int /\ s(m)[a] \in Int
  BY <1>1
<1>7. FundTokens(m) = FundTokens(l)
  BY DEF FundTokens
<1>8. AccountTokens(l) \in Int /\ FundTokens(l) \in Int /\ AccountShares(l) \in Int
      /\ l.dgp.total_vesting_shares \in Int /\ l.dgp.current_supply \in Int
  BY SumTypes, TotalTypes
<1>9. Gap(m) = Gap(l) + s(l)[a] - s(m)[a]
  BY <1>5, <1>6, <1>8 DEF Gap
<1>10. Surplus(m) = Surplus(l) + t(m)[a] - t(l)[a]
  BY <1>4, <1>6, <1>7, <1>8 DEF Surplus
<1> QED
  BY <1>2, <1>9, <1>10

(* A change of the totals alone.                                           *)
LEMMA TotalsSums ==
    ASSUME NEW l \in Ledgers, NEW m \in Ledgers, m.acc = l.acc, m.val = l.val
    PROVE  /\ Gap(m) = Gap(l) + m.dgp.total_vesting_shares - l.dgp.total_vesting_shares
           /\ Surplus(m) = Surplus(l)
                 + (m.dgp.total_vesting_fund + m.dgp.total_reward_fund
                       + m.dgp.committee_fund - m.dgp.current_supply)
                 - (l.dgp.total_vesting_fund + l.dgp.total_reward_fund
                       + l.dgp.committee_fund - l.dgp.current_supply)
<1> DEFINE r(n) == SumFunction([v \in Validators |-> n.val[v].pending_stakeholder_reward])
<1>1. AccountTokens(m) = AccountTokens(l) /\ AccountShares(m) = AccountShares(l)
      /\ r(m) = r(l)
  BY DEF AccountTokens, AccountShares
<1>2. r(l) \in Int
  <2> DEFINE f == [v \in Validators |-> l.val[v].pending_stakeholder_reward]
  <2>1. f \in [Validators -> Int] /\ IsFiniteSet(Validators)
    BY AccountsAssumption, FS_Subset DEF Ledgers, ValidatorObject
  <2> HIDE DEF f
  <2>2. SumFunction(f) \in Int
    BY <2>1, SumOfInts
  <2> QED
    BY <2>2 DEF f
<1>3. /\ FundTokens(m) = m.dgp.total_vesting_fund + m.dgp.total_reward_fund
                           + m.dgp.committee_fund + r(m)
      /\ FundTokens(l) = l.dgp.total_vesting_fund + l.dgp.total_reward_fund
                           + l.dgp.committee_fund + r(l)
  BY DEF FundTokens
<1> HIDE DEF r
<1>4. PICK n \in Int, t \in Int, s \in Int :
          n = r(l) /\ t = AccountTokens(l) /\ s = AccountShares(l)
  BY <1>2, SumTypes
<1>5. Gap(m) = Gap(l) + m.dgp.total_vesting_shares - l.dgp.total_vesting_shares
  BY <1>1, <1>4, TotalTypes DEF Gap
<1>6. /\ Surplus(m) = t + (m.dgp.total_vesting_fund + m.dgp.total_reward_fund
                           + m.dgp.committee_fund + n) - m.dgp.current_supply
      /\ Surplus(l) = t + (l.dgp.total_vesting_fund + l.dgp.total_reward_fund
                           + l.dgp.committee_fund + n) - l.dgp.current_supply
  BY <1>1, <1>3, <1>4 DEF Surplus
<1> QED
  BY <1>4, <1>5, <1>6, TotalTypes

(* A change of votes alone.                                                *)
LEMMA VotesOnlyBooks ==
    ASSUME NEW l, Formed(l), NEW m, VotesOnly(l, m)
    PROVE  /\ Books(l, m, 0)
           /\ \A a \in Names : m.acc[a].vesting_shares = l.acc[a].vesting_shares
<1>0. l \in Ledgers /\ m \in Ledgers
  BY DEF Formed, VotesOnly
<1>1. \A a \in Names : /\ m.acc[a].balance = l.acc[a].balance
                       /\ m.acc[a].reserved_balance = l.acc[a].reserved_balance
                       /\ m.acc[a].vesting_shares = l.acc[a].vesting_shares
                       /\ m.acc[a].exists = l.acc[a].exists
  BY DEF VotesOnly, AccountFields
<1>2. AccountTokens(m) = AccountTokens(l) /\ AccountShares(m) = AccountShares(l)
  BY <1>1 DEF AccountTokens, AccountShares
<1>3. FundTokens(m) = FundTokens(l)
  BY DEF FundTokens, VotesOnly
<1>4. Gap(m) = Gap(l) /\ Surplus(m) = Surplus(l)
  BY <1>2, <1>3 DEF Gap, Surplus, VotesOnly
<1>5. Steady(l, m)
  <2>1. \A a \in Names : m.acc[a].vesting_shares >= l.acc[a].vesting_shares
    BY <1>0, <1>1, AccountTypes
  <2>2. \A f \in SteadyFields :
            f \in AccountFields \ {"proxied_vsf_votes", "validators_vote_weight"}
    BY DEF SteadyFields, AccountFields
  <2>3. Saves(l, m)
    BY <1>0, <1>1, AccountTypes, AccountsAssumption DEF Saves
  <2> QED
    BY <1>1, <2>1, <2>2, <2>3 DEF Steady, VotesOnly
<1>6. Priced(m)
  BY DEF Formed, Priced, VotesOnly
<1>7. Formed(m)
  BY <1>0, <1>5, <1>6, SteadyForms
<1>8. Surplus(m) = Surplus(l) + 0
  BY <1>0, <1>4, SumTypes
<1> QED
  BY <1>1, <1>4, <1>5, <1>7, <1>8 DEF Books

(* A change of the balance, the energy and the like of one account.        *)
LEMMA AccountPays ==
    ASSUME NEW l, Formed(l), NEW a \in Names, l.acc[a].exists, NEW new \in Account,
           new.exists, new.vesting_shares = l.acc[a].vesting_shares,
           new.proxied_vsf_votes = l.acc[a].proxied_vsf_votes,
           \A f \in SteadyFields : new[f] = l.acc[a][f],
           MayTake(a, new.balance - l.acc[a].balance),
           NEW m, m = SetAccount(l, a, new)
    PROVE  Pays(l, m, new.balance - l.acc[a].balance)
<1>0. l \in Ledgers
  BY DEF Formed
<1>1. /\ m \in Ledgers /\ m.dgp = l.dgp /\ m.val = l.val /\ m.ballots = l.ballots
      /\ m.acc[a] = new /\ \A b \in Names : b # a => m.acc[b] = l.acc[b]
  BY <1>0, OneAccount
<1>2. /\ Gap(m) = Gap(l) + l.acc[a].vesting_shares - new.vesting_shares
      /\ Surplus(m) = Surplus(l) + (new.balance + new.reserved_balance)
                              - (l.acc[a].balance + l.acc[a].reserved_balance)
  BY <1>0, <1>1, OneAccountSums
<1>3. new.reserved_balance = l.acc[a].reserved_balance
  BY DEF SteadyFields
<1>4. /\ new.balance \in Int /\ l.acc[a].balance \in Int
      /\ l.acc[a].reserved_balance \in Int /\ l.acc[a].vesting_shares \in Int
      /\ Gap(l) \in Int /\ Surplus(l) \in Int
  BY <1>0, <1>1, AccountTypes, SumTypes
<1>5. Gap(m) = Gap(l) /\ Surplus(m) = Surplus(l) + (new.balance - l.acc[a].balance)
  BY <1>2, <1>3, <1>4
<1>6. Steady(l, m)
  <2>1. \A b \in Names : l.acc[b].vesting_shares >= l.acc[b].vesting_shares
    BY <1>0, AccountTypes
  <2>2. Saves(l, m)
    <3>1. CASE a # Treasury
      BY <1>0, <1>1, <3>1, SavesSame, AccountsAssumption
    <3>2. CASE new.balance - l.acc[a].balance >= 0 /\ a = Treasury
      BY <1>1, <1>4, <3>2 DEF Saves
    <3> QED
      BY <3>1, <3>2 DEF MayTake
  <2> QED
    BY <1>1, <2>1, <2>2 DEF Steady
<1>7. Priced(m)
  BY <1>1 DEF Formed, Priced
<1>8. Formed(m)
  BY <1>1, <1>6, <1>7, SteadyForms
<1>9. SameStakes(l, m)
  BY <1>1 DEF SameStakes, SteadyFields
<1>10. Carries(l, m)
  BY <1>0, <1>1, <1>9, SameCarries
<1> QED
  BY <1>5, <1>6, <1>8, <1>10 DEF Pays, Books

WithBalance(x, n) == [x EXCEPT !.balance = n]
WithEnergy(x, e, t) == [x EXCEPT !.energy = e, !.last_vote_time = t]
SetEnergy(l, a, e, t) == [l EXCEPT !.acc[a].energy = e, !.acc[a].last_vote_time = t]

LEMMA BalanceReplaced ==
    ASSUME NEW x \in Account, NEW n, n \in Int, NEW y, y = WithBalance(x, n)
    PROVE  /\ y \in Account /\ y.balance = n
           /\ \A f \in AccountFields \ {"balance"} : y[f] = x[f]
BY DEF Account, AccountFields, WithBalance

LEMMA EnergyReplaced ==
    ASSUME NEW x \in Account, NEW e \in Int, NEW t \in Nat,
           NEW y, y = WithEnergy(x, e, t)
    PROVE  /\ y \in Account
           /\ \A f \in AccountFields \ {"energy", "last_vote_time"} : y[f] = x[f]
BY DEF Account, AccountFields, WithEnergy

LEMMA AdjustBalancePays ==
    ASSUME NEW l, Formed(l), NEW a \in Names, l.acc[a].exists, NEW d, d \in Int,
           MayTake(a, d), NEW m, m = AdjustBalance(l, a, d)
    PROVE  /\ Pays(l, m, d)
           /\ \A b \in Names : m.acc[b].exists = l.acc[b].exists
<1>0. l \in Ledgers
  BY DEF Formed
<1>1. PICK x : x = l.acc[a]
  OBVIOUS
<1>2. x \in Account /\ x.balance \in Int
  BY <1>0, <1>1, AccountTypes
<1>3. PICK new : new = WithBalance(x, x.balance + d)
  OBVIOUS
<1>4. m = SetAccount(l, a, new)
  BY <1>0, <1>1, <1>3 DEF AdjustBalance, Ledgers, SetAccount, WithBalance
<1>5. /\ new \in Account /\ new.balance = x.balance + d
      /\ \A f \in AccountFields \ {"balance"} : new[f] = x[f]
  BY <1>2, <1>3, BalanceReplaced
<1>6. /\ new.exists = x.exists /\ new.vesting_shares = x.vesting_shares
      /\ new.proxied_vsf_votes = x.proxied_vsf_votes
      /\ \A f \in SteadyFields : new[f] = x[f]
  BY <1>5 DEF AccountFields, SteadyFields
<1>8. new.balance - x.balance = d
  BY <1>2, <1>5
<1>7. Pays(l, m, new.balance - x.balance)
  <2>1. MayTake(a, new.balance - l.acc[a].balance)
    BY <1>1, <1>8
  <2> QED
    BY <1>1, <1>4, <1>5, <1>6, <2>1, AccountPays
<1>9. m.acc[a] = new /\ \A b \in Names : b # a => m.acc[b] = l.acc[b]
  BY <1>0, <1>4, <1>5, OneAccount
<1> QED
  BY <1>1, <1>6, <1>7, <1>8, <1>9

LEMMA EnergyPays ==
    ASSUME NEW l, Formed(l), NEW a \in Names, l.acc[a].exists,
           NEW e \in Int, NEW t \in Nat, NEW m, m = SetEnergy(l, a, e, t)
    PROVE  /\ Pays(l, m, 0)
           /\ \A b \in Names : /\ m.acc[b].vesting_shares = l.acc[b].vesting_shares
                               /\ m.acc[b].exists = l.acc[b].exists
                               /\ m.acc[b].balance = l.acc[b].balance
                               /\ m.acc[b].proxied_vsf_votes = l.acc[b].proxied_vsf_votes
           /\ m.dgp = l.dgp /\ m.val = l.val
<1>0. l \in Ledgers
  BY DEF Formed
<1>1. PICK x : x = l.acc[a]
  OBVIOUS
<1>2. x \in Account /\ x.balance \in Int
  BY <1>0, <1>1, AccountTypes
<1>3. PICK new : new = WithEnergy(x, e, t)
  OBVIOUS
<1>4. m = SetAccount(l, a, new)
  BY <1>0, <1>1, <1>3 DEF Ledgers, SetAccount, SetEnergy, WithEnergy
<1>5. /\ new \in Account
      /\ \A f \in AccountFields \ {"energy", "last_vote_time"} : new[f] = x[f]
  BY <1>2, <1>3, EnergyReplaced
<1>6. /\ new.exists = x.exists /\ new.vesting_shares = x.vesting_shares
      /\ new.balance = x.balance /\ new.proxied_vsf_votes = x.proxied_vsf_votes
      /\ \A f \in SteadyFields : new[f] = x[f]
  BY <1>5 DEF AccountFields, SteadyFields
<1>8. new.balance - x.balance = 0
  BY <1>2, <1>6
<1>7. Pays(l, m, new.balance - x.balance)
  <2>1. MayTake(a, new.balance - l.acc[a].balance)
    BY <1>1, <1>8 DEF MayTake
  <2> QED
    BY <1>1, <1>4, <1>5, <1>6, <2>1, AccountPays
<1>9. /\ m.acc[a] = new /\ \A b \in Names : b # a => m.acc[b] = l.acc[b]
      /\ m.dgp = l.dgp /\ m.val = l.val
  BY <1>0, <1>4, <1>5, OneAccount
<1> QED
  BY <1>1, <1>6, <1>7, <1>8, <1>9

LEMMA CurrentEnergyInt ==
    ASSUME NEW l \in Ledgers, NEW a \in Names, now \in Nat
    PROVE  CurrentEnergy(l, a) \in Int
<1> DEFINE gained == (Full * (now - l.acc[a].last_vote_time)) \div RegenTime
<1>1. Full \in Nat /\ RegenTime \in Nat \ {0}
  BY AccountsAssumption
<1>2. l.acc[a].last_vote_time \in Nat /\ l.acc[a].energy \in Int
  BY AccountTypes
<1>3. gained \in Int
  <2>1. PICK n \in Int : n = Full * (now - l.acc[a].last_vote_time)
    BY <1>1, <1>2
  <2>2. n \div RegenTime \in Int
    BY <1>1
  <2> QED
    BY <2>1, <2>2
<1> HIDE DEF gained
<1>4. CurrentEnergy(l, a) = Min({l.acc[a].energy + gained, Full})
  BY DEF CurrentEnergy, gained
<1> QED
  BY <1>1, <1>2, <1>3, <1>4, MinOfTwo

LEMMA RecalcEnergyPays ==
    ASSUME NEW l, Formed(l), NEW a \in Names, l.acc[a].exists, NEW shares, shares \in Int,
           now \in Nat, NEW m, m = RecalcEnergy(l, a, shares)
    PROVE  /\ Pays(l, m, 0)
           /\ \A b \in Names : /\ m.acc[b].vesting_shares = l.acc[b].vesting_shares
                               /\ m.acc[b].exists = l.acc[b].exists
                               /\ m.acc[b].balance = l.acc[b].balance
                               /\ m.acc[b].proxied_vsf_votes = l.acc[b].proxied_vsf_votes
           /\ m.dgp = l.dgp /\ m.val = l.val
<1> DEFINE s == EffectiveShares(l, a)
           e == Max({CurrentEnergy(l, a) - (Full * shares) \div s, -Full})
<1>0. l \in Ledgers
  BY DEF Formed
<1>1. s \in Int
  BY <1>0, AccountTypes DEF EffectiveShares
<1>2. CASE s <= 0
  <2>1. m = l
    BY <1>2 DEF RecalcEnergy
  <2> QED
    BY <2>1, PaysNothing
<1>3. CASE ~(s <= 0)
  <2>1. m = SetEnergy(l, a, e, now)
    BY <1>3 DEF RecalcEnergy, SetEnergy
  <2>2. s \in Nat \ {0}
    BY <1>1, <1>3
  <2>3. PICK n \in Int : n = Full * shares
    BY AccountsAssumption
  <2> HIDE DEF s
  <2>4. n \div s \in Int
    BY <2>2
  <2>5. e = Max({CurrentEnergy(l, a) - n \div s, -Full})
    BY <2>3
  <2>6. CurrentEnergy(l, a) - n \div s \in Int /\ -Full \in Int
    BY <1>0, <2>4, CurrentEnergyInt, AccountsAssumption
  <2>7. e \in Int
    BY <2>5, <2>6, MaxOfTwo
  <2> HIDE DEF e
  <2> QED
    BY <2>1, <2>7, EnergyPays
<1> QED
  BY <1>2, <1>3

WithFund(t, n) == [t EXCEPT !.committee_fund = n]

LEMMA PayCommitteePays ==
    ASSUME NEW l, Formed(l), NEW n, n \in Nat, NEW m, m = PayCommittee(l, n)
    PROVE  Pays(l, m, n) /\ m.acc = l.acc
<1>0. l \in Ledgers
  BY DEF Formed
<1>1. PICK t : t = l.dgp
  OBVIOUS
<1>2. /\ t \in Totals /\ t.committee_fund \in Nat
      /\ t.current_supply \in Int /\ t.total_vesting_fund \in Nat
      /\ t.total_reward_fund \in Nat /\ t.total_vesting_shares \in Nat
  BY <1>0, <1>1, TotalTypes
<1>3. PICK new : new = WithFund(t, t.committee_fund + n)
  OBVIOUS
<1>4. m = SetTotals(l, new)
  BY <1>0, <1>1, <1>3 DEF PayCommittee, SetTotals, WithFund, Ledgers
<1>5. /\ new \in Totals /\ new.committee_fund = t.committee_fund + n
      /\ new.current_supply = t.current_supply
      /\ new.total_vesting_fund = t.total_vesting_fund
      /\ new.total_vesting_shares = t.total_vesting_shares
      /\ new.total_reward_fund = t.total_reward_fund
      /\ new.total_reward_shares = t.total_reward_shares
  BY <1>2, <1>3 DEF WithFund, Totals
<1>6. /\ m \in Ledgers
      /\ m.dgp = new /\ m.val = l.val /\ m.ballots = l.ballots /\ m.acc = l.acc
  BY <1>0, <1>4, <1>5, OneTotals
<1>7. /\ Gap(m) = Gap(l) + new.total_vesting_shares - t.total_vesting_shares
      /\ Surplus(m) = Surplus(l)
            + (new.total_vesting_fund + new.total_reward_fund
                  + new.committee_fund - new.current_supply)
            - (t.total_vesting_fund + t.total_reward_fund
                  + t.committee_fund - t.current_supply)
  BY <1>0, <1>1, <1>6, TotalsSums
<1>8. Gap(l) \in Int /\ Surplus(l) \in Int
  BY <1>0, SumTypes
<1>9. Gap(m) = Gap(l) /\ Surplus(m) = Surplus(l) + n
  BY <1>2, <1>5, <1>7, <1>8
<1>10. Steady(l, m)
  BY <1>0, <1>1, <1>5, <1>6, AccountTypes, SavesSame DEF Steady
<1>11. Priced(m)
  BY <1>1, <1>5, <1>6 DEF Formed, Priced
<1> QED
  BY <1>0, <1>6, <1>9, <1>10, <1>11, SteadyForms, SameAccounts DEF Pays, Books

(* A new account takes the place of one that does not exist.               *)
OpenAccount(l, a, t) == [l EXCEPT !.acc[a] = NewAccount(t)]

Blank(e, t, s) ==
    [exists |-> e, balance |-> 0, reserved_balance |-> 0,
     vesting_shares |-> 0, delegated_vesting_shares |-> 0,
     received_vesting_shares |-> 0, vesting_withdraw_rate |-> 0,
     next_vesting_withdrawal |-> Never, to_withdraw |-> 0, withdrawn |-> 0,
     energy |-> Full, last_vote_time |-> t, proxy |-> Nobody, proxied_vsf_votes |-> s,
     validators_voted_for |-> 0, validators_vote_weight |-> 0]

LEMMA BlankType ==
    ASSUME NEW e \in BOOLEAN, NEW t, t \in Nat, NEW s \in Stakes
    PROVE  Blank(e, t, s) \in Account /\ Blank(e, t, s).exists = e
<1>1. Nobody \in Names \cup {Nobody} /\ Never \in Nat /\ Full \in Int
  BY AccountsAssumption
<1> QED
  BY <1>1 DEF Account, Blank

LEMMA BlankFields ==
    ASSUME NEW e, NEW t, NEW s, NEW d, NEW u
    PROVE  \A f \in AccountFields \ {"exists", "last_vote_time"} :
              Blank(e, t, s)[f] = Blank(d, u, s)[f]
BY DEF AccountFields, Blank

WithoutAccount(x) == [x EXCEPT !.exists = FALSE]

LEMMA ExistsReplaced ==
    ASSUME NEW x \in Account, NEW y, y = WithoutAccount(x)
    PROVE  y \in Account /\ ~y.exists /\ \A f \in AccountFields \ {"exists"} : y[f] = x[f]
BY DEF Account, AccountFields, WithoutAccount

LEMMA NewAccountType ==
    ASSUME NEW t, t \in Nat
    PROVE  /\ NewAccount(t) \in Account /\ NewAccount(t).exists
           /\ NoAccount \in Account /\ ~NoAccount.exists
           /\ \A f \in AccountFields \ {"exists", "last_vote_time"} :
                 NoAccount[f] = NewAccount(t)[f]
<1>1. PICK s : s = [i \in 1..ProxyDepth |-> 0]
  OBVIOUS
<1>2. s \in Stakes
  BY <1>1 DEF Stakes
<1>3. NewAccount(t) = Blank(TRUE, t, s)
  BY <1>1 DEF NewAccount, Blank
<1>4. NewAccount(0) = Blank(TRUE, 0, s)
  BY <1>1 DEF NewAccount, Blank
<1>5. NoAccount = WithoutAccount(NewAccount(0))
  BY DEF NoAccount, WithoutAccount
<1>6. /\ NewAccount(t) \in Account /\ NewAccount(t).exists = TRUE
      /\ NewAccount(0) \in Account
  BY <1>2, <1>3, <1>4, BlankType
<1>7. /\ NoAccount \in Account /\ ~NoAccount.exists
      /\ \A f \in AccountFields \ {"exists"} : NoAccount[f] = NewAccount(0)[f]
  BY <1>5, <1>6, ExistsReplaced
<1>8. \A f \in AccountFields \ {"exists", "last_vote_time"} :
         NewAccount(0)[f] = NewAccount(t)[f]
  <2>1. \A f \in AccountFields \ {"exists", "last_vote_time"} :
           Blank(TRUE, 0, s)[f] = Blank(TRUE, t, s)[f]
    BY BlankFields
  <2> QED
    BY <1>3, <1>4, <2>1
<1> QED
  BY <1>6, <1>7, <1>8

LEMMA OpenAccountPays ==
    ASSUME NEW l, Formed(l), NEW a \in Names, ~l.acc[a].exists, NEW t, t \in Nat,
           NEW m, m = OpenAccount(l, a, t)
    PROVE  /\ Pays(l, m, 0) /\ m.acc[a].exists /\ m.dgp = l.dgp
           /\ \A b \in Names : l.acc[b].exists => m.acc[b] = l.acc[b]
           /\ m.acc[a].balance = l.acc[a].balance
<1>0. l \in Ledgers
  BY DEF Formed
<1>1. PICK new : new = NewAccount(t)
  OBVIOUS
<1>2. m = SetAccount(l, a, new)
  BY <1>1 DEF OpenAccount, SetAccount
<1>3. /\ new \in Account /\ new.exists
      /\ \A f \in AccountFields \ {"exists", "last_vote_time"} : NoAccount[f] = new[f]
  BY <1>1, NewAccountType
<1>4. /\ m \in Ledgers /\ m.dgp = l.dgp /\ m.val = l.val /\ m.ballots = l.ballots
      /\ m.acc[a] = new /\ \A b \in Names : b # a => m.acc[b] = l.acc[b]
  BY <1>0, <1>2, <1>3, OneAccount
<1>5. l.acc[a] = NoAccount
  BY DEF Formed, Absent
<1>6. /\ new.balance = l.acc[a].balance /\ new.reserved_balance = l.acc[a].reserved_balance
      /\ new.vesting_shares = l.acc[a].vesting_shares
      /\ new.proxied_vsf_votes = l.acc[a].proxied_vsf_votes
      /\ \A f \in SteadyFields : new[f] = l.acc[a][f]
  BY <1>3, <1>5 DEF AccountFields, SteadyFields
<1>7. /\ Gap(m) = Gap(l) + l.acc[a].vesting_shares - new.vesting_shares
      /\ Surplus(m) = Surplus(l) + (new.balance + new.reserved_balance)
                              - (l.acc[a].balance + l.acc[a].reserved_balance)
  BY <1>0, <1>3, <1>4, OneAccountSums
<1>8. /\ l.acc[a].balance \in Int /\ l.acc[a].reserved_balance \in Int
      /\ l.acc[a].vesting_shares \in Int /\ Gap(l) \in Int /\ Surplus(l) \in Int
  BY <1>0, AccountTypes, SumTypes
<1>9. Gap(m) = Gap(l) /\ Surplus(m) = Surplus(l) + 0
  BY <1>6, <1>7, <1>8
<1>10. Steady(l, m)
  <2>1. \A b \in Names : l.acc[b].vesting_shares >= l.acc[b].vesting_shares
    BY <1>0, AccountTypes
  <2>2. Saves(l, m)
    BY <1>0, <1>4, <1>6, SavesSame, AccountsAssumption
  <2> QED
    BY <1>3, <1>4, <1>6, <2>1, <2>2 DEF Steady
<1>11. Priced(m)
  BY <1>4 DEF Formed, Priced
<1>12. Formed(m)
  BY <1>4, <1>10, <1>11, SteadyForms
<1>13. SameStakes(l, m)
  BY <1>4, <1>6 DEF SameStakes, SteadyFields
<1>14. Carries(l, m)
  BY <1>0, <1>4, <1>13, SameCarries
<1> QED
  BY <1>3, <1>4, <1>6, <1>9, <1>10, <1>12, <1>14 DEF Pays, Books

----------------------------------------------------------------------------
(* The price of shares.                                                    *)

LEMMA ToSharesNat ==
    ASSUME NEW l \in Ledgers, Priced(l), NEW n, n \in Nat
    PROVE  /\ ToShares(l, n) \in Nat
           /\ l.dgp.total_vesting_fund + n = 0
                 <=> l.dgp.total_vesting_shares + ToShares(l, n) = 0
<1>1. PICK F \in Nat, S \in Nat :
          F = l.dgp.total_vesting_fund /\ S = l.dgp.total_vesting_shares
  BY TotalTypes
<1>2. F = 0 <=> S = 0
  BY <1>1 DEF Priced
<1>3. CASE F = 0
  <2>1. ToShares(l, n) = n * 1000
    BY <1>1, <1>3 DEF ToShares, NoPrice
  <2> QED
    BY <1>1, <1>2, <1>3, <2>1
<1>4. CASE F # 0
  <2>1. ToShares(l, n) = (n * S) \div F
    BY <1>1, <1>2, <1>4 DEF ToShares, NoPrice
  <2>2. n * S \in Nat /\ F \in Nat \ {0}
    BY <1>4
  <2>3. PICK q \in Nat : q = (n * S) \div F
    BY <2>2, Quotient
  <2>4. ToShares(l, n) = q
    BY <2>1, <2>3
  <2>5. S # 0 /\ F + n # 0 /\ S + q # 0
    BY <1>2, <1>4
  <2> QED
    BY <1>1, <2>4, <2>5
<1> QED
  BY <1>3, <1>4

(* What some of the shares are worth can be taken out of the fund, and     *)
(* takes the last token with the last share.                               *)
LEMMA ToTokensNat ==
    ASSUME NEW l \in Ledgers, Priced(l), NEW n, n \in Nat, n <= l.dgp.total_vesting_shares
    PROVE  /\ ToTokens(l, n) \in Nat
           /\ ToTokens(l, n) <= l.dgp.total_vesting_fund
           /\ l.dgp.total_vesting_fund - ToTokens(l, n) = 0
                 <=> l.dgp.total_vesting_shares - n = 0
<1>1. PICK F \in Nat, S \in Nat :
          F = l.dgp.total_vesting_fund /\ S = l.dgp.total_vesting_shares
  BY TotalTypes
<1>2. (F = 0 <=> S = 0) /\ n <= S
  BY <1>1 DEF Priced
<1>3. CASE F = 0
  <2>1. ToTokens(l, n) = n \div 1000
    BY <1>1, <1>3 DEF ToTokens, NoPrice
  <2>2. n = 0
    BY <1>2, <1>3
  <2> QED
    BY <1>1, <1>2, <1>3, <2>1, <2>2
<1>4. CASE F # 0
  <2>1. ToTokens(l, n) = (n * F) \div S
    BY <1>1, <1>2, <1>4 DEF ToTokens, NoPrice
  <2>2. n * F \in Nat /\ S \in Nat \ {0}
    BY <1>2, <1>4
  <2>3. PICK q \in Nat : q = (n * F) \div S
    BY <2>2, Quotient
  <2>4. S * q <= n * F
    BY <2>2, <2>3, Quotient
  <2>5. n * F <= S * F
    <3>1. PICK k \in Nat : S = n + k
      <4>1. S - n \in Nat /\ S = n + (S - n)
        BY <1>2
      <4> QED  BY <4>1
    <3>2. S * F = n * F + k * F /\ k * F \in Nat
      BY <3>1
    <3> QED
      BY <2>2, <3>2
  <2>6. q <= F
    BY <2>2, <2>3, <2>5, QuotientAtMost
  <2>7. n = S => q = F
    <3>1. ASSUME n = S PROVE F <= q
      BY <2>2, <2>3, <3>1, QuotientAtLeast
    <3> QED
      BY <2>6, <3>1
  <2>8. ASSUME q = F PROVE n = S
    <3>1. S * F <= n * F
      BY <2>4, <2>8
    <3>2. SUFFICES ASSUME n < S PROVE FALSE
      BY <1>2
    <3>3. PICK k \in Nat : S = n + 1 + k
      <4>1. S - n - 1 \in Nat /\ S = n + 1 + (S - n - 1)
        BY <3>2
      <4> QED  BY <4>1
    <3>4. S * F = n * F + F + k * F /\ k * F \in Nat
      BY <3>3
    <3> QED
      BY <1>4, <2>2, <3>1, <3>4
  <2> QED
    BY <1>1, <1>2, <2>1, <2>3, <2>6, <2>7, <2>8
<1> QED
  BY <1>3, <1>4

WithShares(x, n) == [x EXCEPT !.vesting_shares = n]
WithStake(t, f, s) == [t EXCEPT !.total_vesting_fund = f, !.total_vesting_shares = s]

LEMMA SharesReplaced ==
    ASSUME NEW x \in Account, NEW n, n \in Nat, NEW y, y = WithShares(x, n)
    PROVE  /\ y \in Account /\ y.vesting_shares = n
           /\ \A f \in AccountFields \ {"vesting_shares"} : y[f] = x[f]
BY DEF Account, AccountFields, WithShares

LEMMA StakeReplaced ==
    ASSUME NEW t \in Totals, NEW f, NEW s, f \in Nat, s \in Nat,
           NEW u, u = WithStake(t, f, s)
    PROVE  /\ u \in Totals /\ u.total_vesting_fund = f /\ u.total_vesting_shares = s
           /\ u.current_supply = t.current_supply
           /\ u.total_reward_fund = t.total_reward_fund
           /\ u.total_reward_shares = t.total_reward_shares
           /\ u.committee_fund = t.committee_fund
BY DEF Totals, WithStake

(* What the validators have still to share stays.                          *)
SamePending(l, m) ==
    \A v \in Validators :
        m.val[v].pending_stakeholder_reward = l.val[v].pending_stakeholder_reward

LEMMA CreateVestingPays ==
    ASSUME NEW l, Formed(l), NEW a \in Names, l.acc[a].exists, NEW n, n \in Nat,
           NEW m, m = CreateVesting(l, a, n)
    PROVE  /\ Pays(l, m, n) /\ SamePending(l, m)
           /\ \A b \in Names : m.acc[b].balance = l.acc[b].balance
<1>0. l \in Ledgers /\ Priced(l)
  BY DEF Formed
<1>1. PICK s \in Nat : s = ToShares(l, n)
  BY <1>0, ToSharesNat
<1>2. PICK x, t : x = l.acc[a] /\ t = l.dgp
  OBVIOUS
<1>3. x \in Account /\ x.vesting_shares \in Nat /\ x.balance \in Int /\ x.reserved_balance \in Int
  BY <1>0, <1>2, AccountTypes
<1>4. /\ t \in Totals /\ t.committee_fund \in Nat
      /\ t.current_supply \in Int /\ t.total_vesting_fund \in Nat
      /\ t.total_reward_fund \in Nat /\ t.total_vesting_shares \in Nat
  BY <1>0, <1>2, TotalTypes
<1>5. PICK k \in Nat, g \in Nat, h \in Nat :
          /\ k = x.vesting_shares + s
          /\ g = t.total_vesting_fund + n
          /\ h = t.total_vesting_shares + s
  BY <1>3, <1>4
<1>a. PICK y, u : y = WithShares(x, k) /\ u = WithStake(t, g, h)
  OBVIOUS
<1>6. /\ y \in Account /\ y.vesting_shares = x.vesting_shares + s
      /\ \A f \in AccountFields \ {"vesting_shares"} : y[f] = x[f]
  <2>1. /\ y \in Account /\ y.vesting_shares = k
        /\ \A f \in AccountFields \ {"vesting_shares"} : y[f] = x[f]
    BY <1>3, <1>a, SharesReplaced
  <2> QED
    BY <1>5, <2>1
<1>7. /\ u \in Totals
      /\ u.total_vesting_fund = t.total_vesting_fund + n
      /\ u.total_vesting_shares = t.total_vesting_shares + s
      /\ u.current_supply = t.current_supply
      /\ u.total_reward_fund = t.total_reward_fund
      /\ u.total_reward_shares = t.total_reward_shares
      /\ u.committee_fund = t.committee_fund
  <2>1. /\ u \in Totals /\ u.total_vesting_fund = g /\ u.total_vesting_shares = h
        /\ u.current_supply = t.current_supply
        /\ u.total_reward_fund = t.total_reward_fund
        /\ u.total_reward_shares = t.total_reward_shares
        /\ u.committee_fund = t.committee_fund
    BY <1>4, <1>a, StakeReplaced
  <2> QED
    BY <1>5, <2>1
<1>8. PICK p, q : p = SetAccount(l, a, y) /\ q = SetTotals(p, u)
  OBVIOUS
<1>9. m = AdjustStakeVotes(q, a, s)
  BY <1>0, <1>1, <1>2, <1>5, <1>a, <1>8
     DEF CreateVesting, SetAccount, SetTotals, WithShares, WithStake, Ledgers
<1>10. /\ p \in Ledgers /\ p.dgp = l.dgp /\ p.val = l.val /\ p.ballots = l.ballots
       /\ p.acc[a] = y /\ \A b \in Names : b # a => p.acc[b] = l.acc[b]
  BY <1>0, <1>6, <1>8, OneAccount
<1>11. /\ q \in Ledgers /\ q.dgp = u /\ q.val = p.val /\ q.ballots = p.ballots
       /\ q.acc = p.acc
  BY <1>7, <1>8, <1>10, OneTotals
<1>12. /\ y.balance = x.balance /\ y.reserved_balance = x.reserved_balance
       /\ y.exists = x.exists /\ \A f \in SteadyFields : y[f] = x[f]
  BY <1>6 DEF AccountFields, SteadyFields
<1>13. Gap(q) = Gap(l) /\ Surplus(q) = Surplus(l) + n
  <2>1. /\ Gap(p) = Gap(l) + x.vesting_shares - y.vesting_shares
        /\ Surplus(p) = Surplus(l) + (y.balance + y.reserved_balance)
                              - (x.balance + x.reserved_balance)
    BY <1>0, <1>2, <1>6, <1>10, OneAccountSums
  <2>2. /\ Gap(q) = Gap(p) + u.total_vesting_shares - t.total_vesting_shares
        /\ Surplus(q) = Surplus(p)
              + (u.total_vesting_fund + u.total_reward_fund
                    + u.committee_fund - u.current_supply)
              - (t.total_vesting_fund + t.total_reward_fund
                    + t.committee_fund - t.current_supply)
    BY <1>2, <1>10, <1>11, TotalsSums
  <2>3. Gap(l) \in Int /\ Surplus(l) \in Int
    BY <1>0, SumTypes
  <2>4. Gap(p) = Gap(l) - s /\ Surplus(p) = Surplus(l)
    BY <1>3, <1>6, <1>12, <2>1, <2>3
  <2> QED
    BY <1>4, <1>7, <2>2, <2>3, <2>4
<1>14. Steady(l, q)
  <2>1. y.vesting_shares >= x.vesting_shares
    BY <1>3, <1>6
  <2>2. \A b \in Names : l.acc[b].vesting_shares >= l.acc[b].vesting_shares
    BY <1>0, AccountTypes
  <2>3. q.ballots = l.ballots /\ q.dgp.total_reward_shares = l.dgp.total_reward_shares
    BY <1>2, <1>7, <1>10, <1>11
  <2>4. ASSUME NEW b \in Names
        PROVE  /\ l.acc[b].exists => q.acc[b].exists
               /\ q.acc[b].vesting_shares >= l.acc[b].vesting_shares
               /\ \A f \in SteadyFields : q.acc[b][f] = l.acc[b][f]
               /\ ~q.acc[b].exists => q.acc[b] = l.acc[b]
    BY <1>2, <1>10, <1>11, <1>12, <2>1, <2>2
  <2>5. Saves(l, q)
    BY <1>0, <1>2, <1>10, <1>11, <1>12, SavesSame, AccountsAssumption
  <2> QED
    BY <2>3, <2>4, <2>5 DEF Steady
<1>15. Priced(q)
  BY <1>0, <1>1, <1>2, <1>7, <1>11, ToSharesNat DEF Priced
<1>16. Formed(q)
  BY <1>11, <1>14, <1>15, SteadyForms
<1>17. VotesOnly(q, m)
  <2>1. q.acc[a].exists
    BY <1>2, <1>10, <1>11, <1>12
  <2>2. Linked(q) /\ s \in Int
    BY <1>16 DEF Formed
  <2> QED
    BY <1>9, <1>11, <2>1, <2>2, AdjustStakeVotesOnly
<1>18. Books(q, m, 0)
  BY <1>16, <1>17, VotesOnlyBooks
<1>19. Books(l, q, n)
  BY <1>13, <1>14, <1>16 DEF Books
<1>20. Books(l, m, n + 0)
  BY <1>18, <1>19, BooksTransitive
<1>23. Carries(l, m)
  <2> SUFFICES ASSUME Proxied(l) PROVE Proxied(m)
    BY DEF Carries
  <2>1. q.acc[a].exists /\ Linked(q) /\ s \in Int
    BY <1>2, <1>10, <1>11, <1>12, <1>16 DEF Formed
  <2>2. y.proxied_vsf_votes = x.proxied_vsf_votes /\ y.proxy = x.proxy
    BY <1>6 DEF AccountFields
  <2>3. SameProxies(l, q) /\ SameProxied(l, q)
    BY <1>2, <1>10, <1>11, <2>2 DEF SameProxies, SameProxied
  <2>4. /\ \A b \in Names \ {a} : q.acc[b].vesting_shares = l.acc[b].vesting_shares
        /\ q.acc[a].vesting_shares = l.acc[a].vesting_shares + s
    BY <1>2, <1>6, <1>10, <1>11
  <2> QED
    BY <1>0, <1>9, <1>11, <2>1, <2>3, <2>4, SharesReported
<1>21. \A b \in Names : m.acc[b].balance = l.acc[b].balance
  <2>1. \A b \in Names : m.acc[b].balance = q.acc[b].balance
    BY <1>17 DEF VotesOnly, AccountFields
  <2> QED
    BY <1>2, <1>10, <1>11, <1>12, <2>1
<1>22. SamePending(l, m)
  BY <1>10, <1>11, <1>17 DEF VotesOnly, SamePending
<1>24. Books(l, m, n)
  BY <1>20
<1> QED
  BY <1>21, <1>22, <1>23, <1>24 DEF Pays

----------------------------------------------------------------------------
(* Changes that are more than a payment: tokens are moved, accounts stay.  *)
Grows(l, m) == \A a \in Names : l.acc[a].exists => m.acc[a].exists

Shifts(l, m, d) ==
    Formed(m) /\ Grows(l, m) /\ Gap(m) = Gap(l) /\ Surplus(m) = Surplus(l) + d

Moves(l, m, d) == Shifts(l, m, d) /\ Carries(l, m)

(* The fields of F are in no account what they were not before.            *)
Keeps(l, m, F) == \A a \in Names : \A f \in F : m.acc[a][f] = l.acc[a][f]
KeepsBut(l, m, g) == Keeps(l, m, AccountFields \ g)

LEMMA BooksShifts ==
    ASSUME NEW l, NEW m, NEW d, Books(l, m, d)
    PROVE  /\ Shifts(l, m, d) /\ Keeps(l, m, SteadyFields)
           /\ m.ballots = l.ballots /\ Saves(l, m)
           /\ m.dgp.total_reward_shares = l.dgp.total_reward_shares
           /\ \A a \in Names : m.acc[a].vesting_shares >= l.acc[a].vesting_shares
BY DEF Books, Shifts, Steady, Grows, Keeps

LEMMA PaysMoves ==
    ASSUME NEW l, NEW m, NEW d, Pays(l, m, d)
    PROVE  /\ Moves(l, m, d) /\ Keeps(l, m, SteadyFields)
           /\ m.ballots = l.ballots /\ Saves(l, m)
           /\ m.dgp.total_reward_shares = l.dgp.total_reward_shares
           /\ \A a \in Names : m.acc[a].vesting_shares >= l.acc[a].vesting_shares
BY BooksShifts DEF Pays, Moves

LEMMA ShiftsTransitive ==
    ASSUME NEW l, Formed(l), NEW m, NEW n, NEW d, d \in Int, NEW e, e \in Int,
           Shifts(l, m, d), Shifts(m, n, e)
    PROVE  Shifts(l, n, d + e)
<1>1. PICK s \in Int : s = Surplus(l)
  BY SumTypes DEF Formed
<1>2. Surplus(n) = s + d + e
  BY <1>1 DEF Shifts
<1>3. Surplus(n) = Surplus(l) + (d + e)
  BY <1>1, <1>2
<1> QED
  BY <1>3 DEF Shifts, Grows

LEMMA MovesTransitive ==
    ASSUME NEW l, Formed(l), NEW m, NEW n, NEW d, d \in Int, NEW e, e \in Int,
           Moves(l, m, d), Moves(m, n, e)
    PROVE  Moves(l, n, d + e)
BY ShiftsTransitive, CarriesTransitive DEF Moves

LEMMA FormsAgain ==
    ASSUME NEW l, Formed(l), NEW m \in Ledgers, Priced(m), m.ballots = l.ballots,
           Keeps(l, m, {"proxy"}), Grows(l, m),
           \A a \in Names : ~m.acc[a].exists => m.acc[a] = l.acc[a]
    PROVE  Formed(m)
<1>1. \A a \in Names : m.acc[a].proxy = l.acc[a].proxy
  BY DEF Keeps
<1>2. Linked(m)
  <2> SUFFICES ASSUME NEW a \in Names, m.acc[a].proxy # Nobody
               PROVE  m.acc[m.acc[a].proxy].exists
    BY DEF Linked
  <2>1. l.acc[l.acc[a].proxy].exists
    BY <1>1 DEF Formed, Linked
  <2>2. l.acc[a].proxy \in Names
    BY <1>1, AccountTypes DEF Formed
  <2> QED
    BY <1>1, <2>1, <2>2 DEF Grows
<1>3. Absent(m)
  BY DEF Formed, Absent, Grows
<1>4. Staffed(m)
  BY AccountsAssumption DEF Formed, Staffed, Grows
<1>5. Cast(m)
  <2>1. \A b \in l.ballots : b.account \in Names
    BY DEF Formed, Ledgers, Ballot
  <2> QED
    BY <2>1 DEF Formed, Cast, Grows
<1> QED
  BY <1>2, <1>3, <1>4, <1>5 DEF Formed

(* Some fields of one account are set.                                     *)
Differs(x, y, g) ==
    /\ g \subseteq AccountFields \ {"exists", "proxy", "vesting_shares", "proxied_vsf_votes"}
    /\ \A f \in AccountFields \ g : y[f] = x[f]

Changes(l, m, a, new, g) ==
    /\ Moves(l, m, (new.balance + new.reserved_balance)
                      - (l.acc[a].balance + l.acc[a].reserved_balance))
    /\ KeepsBut(l, m, g)
    /\ m.dgp = l.dgp /\ m.val = l.val /\ m.ballots = l.ballots
    /\ m.acc[a] = new /\ \A b \in Names : b # a => m.acc[b] = l.acc[b]

LEMMA FieldMoves ==
    ASSUME NEW l, Formed(l), NEW a \in Names, l.acc[a].exists, NEW g,
           NEW new \in Account, Differs(l.acc[a], new, g),
           NEW m, m = SetAccount(l, a, new)
    PROVE  Changes(l, m, a, new, g)
<1>0. l \in Ledgers
  BY DEF Formed
<1>1. /\ m \in Ledgers /\ m.dgp = l.dgp /\ m.val = l.val /\ m.ballots = l.ballots
      /\ m.acc[a] = new /\ \A b \in Names : b # a => m.acc[b] = l.acc[b]
  BY <1>0, OneAccount
<1>2. /\ Gap(m) = Gap(l) + l.acc[a].vesting_shares - new.vesting_shares
      /\ Surplus(m) = Surplus(l) + (new.balance + new.reserved_balance)
                              - (l.acc[a].balance + l.acc[a].reserved_balance)
  BY <1>0, <1>1, OneAccountSums
<1>3. /\ new.exists = l.acc[a].exists /\ new.vesting_shares = l.acc[a].vesting_shares
      /\ new.proxy = l.acc[a].proxy /\ new.proxied_vsf_votes = l.acc[a].proxied_vsf_votes
  BY DEF AccountFields, Differs
<1>4. /\ m.acc[a].balance \in Int /\ m.acc[a].reserved_balance \in Int
      /\ l.acc[a].balance \in Int
      /\ l.acc[a].reserved_balance \in Int /\ l.acc[a].vesting_shares \in Int
      /\ Gap(l) \in Int /\ Surplus(l) \in Int
  BY <1>0, <1>1, AccountTypes, SumTypes
<1>5. /\ Gap(m) = Gap(l)
      /\ Surplus(m) = Surplus(l) + ((new.balance + new.reserved_balance)
                              - (l.acc[a].balance + l.acc[a].reserved_balance))
  BY <1>1, <1>2, <1>3, <1>4
<1>6. KeepsBut(l, m, g)
  BY <1>1 DEF Keeps, KeepsBut, Differs
<1>7. Grows(l, m) /\ \A b \in Names : ~m.acc[b].exists => m.acc[b] = l.acc[b]
  BY <1>1, <1>3, SMTT(30), ZenonT(60) DEF Grows
<1>8. Keeps(l, m, {"proxy"})
  BY <1>1, <1>3 DEF Keeps
<1>9. Priced(m)
  BY <1>1 DEF Formed, Priced
<1>10. Formed(m)
  BY <1>1, <1>7, <1>8, <1>9, FormsAgain
<1>11. SameStakes(l, m)
  BY <1>1, <1>3 DEF SameStakes
<1>12. Carries(l, m)
  BY <1>0, <1>1, <1>11, SameCarries
<1> QED
  BY <1>1, <1>5, <1>6, <1>7, <1>10, <1>12 DEF Moves, Shifts, Changes

(* The shares an account has lent.                                          *)
WithLent(x, n) == [x EXCEPT !.delegated_vesting_shares = n]
SetLent(l, a, n) == [l EXCEPT !.acc[a].delegated_vesting_shares = n]

LEMMA LentReplaced ==
    ASSUME NEW x \in Account, NEW n, n \in Int,
           NEW y, y = WithLent(x, n)
    PROVE  /\ y \in Account /\ y.delegated_vesting_shares = n
           /\ \A f \in AccountFields \ {"delegated_vesting_shares"} : y[f] = x[f]
BY DEF Account, AccountFields, WithLent

LEMMA LentMoves ==
    ASSUME NEW l, Formed(l), NEW a \in Names, l.acc[a].exists,
           NEW n, n \in Int,
           NEW m, m = SetLent(l, a, n)
    PROVE  /\ Moves(l, m, 0) /\ KeepsBut(l, m, {"delegated_vesting_shares"})
           /\ m.dgp = l.dgp /\ m.val = l.val /\ m.ballots = l.ballots
           /\ m.acc[a].delegated_vesting_shares = n
           /\ \A b \in Names : b # a => m.acc[b] = l.acc[b]
<1>0. l \in Ledgers
  BY DEF Formed
<1>1. PICK x, new : x = l.acc[a] /\ new = WithLent(x, n)
  OBVIOUS
<1>2. x \in Account /\ x.balance \in Int /\ x.reserved_balance \in Int
  BY <1>0, <1>1, AccountTypes
<1>3. m = SetAccount(l, a, new)
  BY <1>0, <1>1 DEF Ledgers, SetAccount, SetLent, WithLent
<1>4. /\ new \in Account /\ new.delegated_vesting_shares = n
      /\ \A f \in AccountFields \ {"delegated_vesting_shares"} : new[f] = x[f]
  BY <1>1, <1>2, LentReplaced, SMTT(40)
<1>5. PICK g : g = {"delegated_vesting_shares"}
  OBVIOUS
<1>6. g \subseteq AccountFields \ {"exists", "proxy", "vesting_shares", "proxied_vsf_votes"}
  BY <1>5 DEF AccountFields
<1>7. new \in Account /\ Differs(l.acc[a], new, g)
  BY <1>1, <1>4, <1>5, <1>6 DEF Differs
<1>8. /\ Moves(l, m, (new.balance + new.reserved_balance)
                        - (l.acc[a].balance + l.acc[a].reserved_balance))
      /\ KeepsBut(l, m, g)
      /\ m.dgp = l.dgp /\ m.val = l.val /\ m.ballots = l.ballots
      /\ m.acc[a] = new /\ \A b \in Names : b # a => m.acc[b] = l.acc[b]
  <2>1. Changes(l, m, a, new, g)
    BY <1>3, <1>7, FieldMoves
  <2> QED
    BY <2>1 DEF Changes
<1>9. new.balance = x.balance /\ new.reserved_balance = x.reserved_balance
  BY <1>4 DEF AccountFields
<1>10. (new.balance + new.reserved_balance)
          - (l.acc[a].balance + l.acc[a].reserved_balance) = 0
  BY <1>1, <1>2, <1>9
<1> QED
  BY <1>4, <1>5, <1>8, <1>10

(* The shares an account has been lent.                                     *)
WithReceived(x, n) == [x EXCEPT !.received_vesting_shares = n]
SetReceived(l, a, n) == [l EXCEPT !.acc[a].received_vesting_shares = n]

LEMMA ReceivedReplaced ==
    ASSUME NEW x \in Account, NEW n, n \in Int,
           NEW y, y = WithReceived(x, n)
    PROVE  /\ y \in Account /\ y.received_vesting_shares = n
           /\ \A f \in AccountFields \ {"received_vesting_shares"} : y[f] = x[f]
BY DEF Account, AccountFields, WithReceived

LEMMA ReceivedMoves ==
    ASSUME NEW l, Formed(l), NEW a \in Names, l.acc[a].exists,
           NEW n, n \in Int,
           NEW m, m = SetReceived(l, a, n)
    PROVE  /\ Moves(l, m, 0) /\ KeepsBut(l, m, {"received_vesting_shares"})
           /\ m.dgp = l.dgp /\ m.val = l.val /\ m.ballots = l.ballots
           /\ m.acc[a].received_vesting_shares = n
           /\ \A b \in Names : b # a => m.acc[b] = l.acc[b]
<1>0. l \in Ledgers
  BY DEF Formed
<1>1. PICK x, new : x = l.acc[a] /\ new = WithReceived(x, n)
  OBVIOUS
<1>2. x \in Account /\ x.balance \in Int /\ x.reserved_balance \in Int
  BY <1>0, <1>1, AccountTypes
<1>3. m = SetAccount(l, a, new)
  BY <1>0, <1>1 DEF Ledgers, SetAccount, SetReceived, WithReceived
<1>4. /\ new \in Account /\ new.received_vesting_shares = n
      /\ \A f \in AccountFields \ {"received_vesting_shares"} : new[f] = x[f]
  BY <1>1, <1>2, ReceivedReplaced
<1>5. PICK g : g = {"received_vesting_shares"}
  OBVIOUS
<1>6. g \subseteq AccountFields \ {"exists", "proxy", "vesting_shares", "proxied_vsf_votes"}
  BY <1>5 DEF AccountFields
<1>7. new \in Account /\ Differs(l.acc[a], new, g)
  BY <1>1, <1>4, <1>5, <1>6 DEF Differs
<1>8. /\ Moves(l, m, (new.balance + new.reserved_balance)
                        - (l.acc[a].balance + l.acc[a].reserved_balance))
      /\ KeepsBut(l, m, g)
      /\ m.dgp = l.dgp /\ m.val = l.val /\ m.ballots = l.ballots
      /\ m.acc[a] = new /\ \A b \in Names : b # a => m.acc[b] = l.acc[b]
  <2>1. Changes(l, m, a, new, g)
    BY <1>3, <1>7, FieldMoves
  <2> QED
    BY <2>1 DEF Changes
<1>9. new.balance = x.balance /\ new.reserved_balance = x.reserved_balance
  BY <1>4 DEF AccountFields
<1>10. (new.balance + new.reserved_balance)
          - (l.acc[a].balance + l.acc[a].reserved_balance) = 0
  BY <1>1, <1>2, <1>9
<1> QED
  BY <1>4, <1>5, <1>8, <1>10

(* The withdrawal of an account.                                            *)
WithdrawFields == {"vesting_withdraw_rate", "next_vesting_withdrawal", "to_withdraw", "withdrawn"}

WithWithdrawal(x, r, t, n, k) ==
    [x EXCEPT !.vesting_withdraw_rate = r, !.next_vesting_withdrawal = t,
              !.to_withdraw = n, !.withdrawn = k]
SetWithdrawal(l, a, r, t, n, k) ==
    [l EXCEPT !.acc[a].vesting_withdraw_rate = r, !.acc[a].next_vesting_withdrawal = t,
              !.acc[a].to_withdraw = n, !.acc[a].withdrawn = k]

LEMMA WithdrawalReplaced ==
    ASSUME NEW x \in Account, NEW r, NEW t, NEW n, NEW k,
           r \in Nat, t \in Nat, n \in Nat, k \in Nat,
           NEW y, y = WithWithdrawal(x, r, t, n, k)
    PROVE  /\ y \in Account /\ y.vesting_withdraw_rate = r /\ y.next_vesting_withdrawal = t
           /\ y.to_withdraw = n /\ y.withdrawn = k
           /\ \A f \in AccountFields \ WithdrawFields : y[f] = x[f]
BY DEF Account, AccountFields, WithdrawFields, WithWithdrawal

LEMMA WithdrawalMoves ==
    ASSUME NEW l, Formed(l), NEW a \in Names, l.acc[a].exists,
           NEW r, NEW t, NEW n, NEW k, r \in Nat, t \in Nat, n \in Nat, k \in Nat,
           NEW m, m = SetWithdrawal(l, a, r, t, n, k)
    PROVE  /\ Moves(l, m, 0) /\ KeepsBut(l, m, WithdrawFields)
           /\ m.dgp = l.dgp /\ m.val = l.val /\ m.ballots = l.ballots
           /\ m.acc[a].vesting_withdraw_rate = r /\ m.acc[a].next_vesting_withdrawal = t
           /\ m.acc[a].to_withdraw = n /\ m.acc[a].withdrawn = k
           /\ \A b \in Names : b # a => m.acc[b] = l.acc[b]
<1>0. l \in Ledgers
  BY DEF Formed
<1>1. PICK x, new : x = l.acc[a] /\ new = WithWithdrawal(x, r, t, n, k)
  OBVIOUS
<1>2. x \in Account /\ x.balance \in Int /\ x.reserved_balance \in Int
  BY <1>0, <1>1, AccountTypes
<1>3. m = SetAccount(l, a, new)
  BY <1>0, <1>1, SMTT(30), ZenonT(60) DEF Ledgers, SetAccount, SetWithdrawal, WithWithdrawal
<1>4. /\ new \in Account /\ new.vesting_withdraw_rate = r /\ new.next_vesting_withdrawal = t
           /\ new.to_withdraw = n /\ new.withdrawn = k
      /\ \A f \in AccountFields \ WithdrawFields : new[f] = x[f]
  BY <1>1, <1>2, WithdrawalReplaced
<1>5. PICK g : g = WithdrawFields
  OBVIOUS
<1>6. g \subseteq AccountFields \ {"exists", "proxy", "vesting_shares", "proxied_vsf_votes"}
  BY <1>5 DEF AccountFields, WithdrawFields
<1>7. new \in Account /\ Differs(l.acc[a], new, g)
  BY <1>1, <1>4, <1>5, <1>6 DEF Differs
<1>8. /\ Moves(l, m, (new.balance + new.reserved_balance)
                        - (l.acc[a].balance + l.acc[a].reserved_balance))
      /\ KeepsBut(l, m, g)
      /\ m.dgp = l.dgp /\ m.val = l.val /\ m.ballots = l.ballots
      /\ m.acc[a] = new /\ \A b \in Names : b # a => m.acc[b] = l.acc[b]
  <2>1. Changes(l, m, a, new, g)
    BY <1>3, <1>7, FieldMoves
  <2> QED
    BY <2>1 DEF Changes
<1>9. new.balance = x.balance /\ new.reserved_balance = x.reserved_balance
  BY <1>4 DEF AccountFields, WithdrawFields
<1>10. (new.balance + new.reserved_balance)
          - (l.acc[a].balance + l.acc[a].reserved_balance) = 0
  BY <1>1, <1>2, <1>9
<1> QED
  BY <1>4, <1>5, <1>8, <1>10


(* The number of votes an account has cast.                                 *)
WithCount(x, n) == [x EXCEPT !.validators_voted_for = n]
SetCount(l, a, n) == [l EXCEPT !.acc[a].validators_voted_for = n]

LEMMA CountReplaced ==
    ASSUME NEW x \in Account, NEW n, n \in Nat,
           NEW y, y = WithCount(x, n)
    PROVE  /\ y \in Account /\ y.validators_voted_for = n
           /\ \A f \in AccountFields \ {"validators_voted_for"} : y[f] = x[f]
BY DEF Account, AccountFields, WithCount

LEMMA CountMoves ==
    ASSUME NEW l, Formed(l), NEW a \in Names, l.acc[a].exists,
           NEW n, n \in Nat,
           NEW m, m = SetCount(l, a, n)
    PROVE  /\ Moves(l, m, 0) /\ KeepsBut(l, m, {"validators_voted_for"})
           /\ m.dgp = l.dgp /\ m.val = l.val /\ m.ballots = l.ballots
           /\ m.acc[a].validators_voted_for = n
           /\ \A b \in Names : b # a => m.acc[b] = l.acc[b]
<1>0. l \in Ledgers
  BY DEF Formed
<1>1. PICK x, new : x = l.acc[a] /\ new = WithCount(x, n)
  OBVIOUS
<1>2. x \in Account /\ x.balance \in Int /\ x.reserved_balance \in Int
  BY <1>0, <1>1, AccountTypes
<1>3. m = SetAccount(l, a, new)
  BY <1>0, <1>1 DEF Ledgers, SetAccount, SetCount, WithCount
<1>4. /\ new \in Account /\ new.validators_voted_for = n
      /\ \A f \in AccountFields \ {"validators_voted_for"} : new[f] = x[f]
  BY <1>1, <1>2, CountReplaced
<1>5. PICK g : g = {"validators_voted_for"}
  OBVIOUS
<1>6. g \subseteq AccountFields \ {"exists", "proxy", "vesting_shares", "proxied_vsf_votes"}
  BY <1>5 DEF AccountFields
<1>7. new \in Account /\ Differs(l.acc[a], new, g)
  BY <1>1, <1>4, <1>5, <1>6 DEF Differs
<1>8. /\ Moves(l, m, (new.balance + new.reserved_balance)
                        - (l.acc[a].balance + l.acc[a].reserved_balance))
      /\ KeepsBut(l, m, g)
      /\ m.dgp = l.dgp /\ m.val = l.val /\ m.ballots = l.ballots
      /\ m.acc[a] = new /\ \A b \in Names : b # a => m.acc[b] = l.acc[b]
  <2>1. Changes(l, m, a, new, g)
    BY <1>3, <1>7, FieldMoves
  <2> QED
    BY <2>1 DEF Changes
<1>9. new.balance = x.balance /\ new.reserved_balance = x.reserved_balance
  BY <1>4 DEF AccountFields
<1>10. (new.balance + new.reserved_balance)
          - (l.acc[a].balance + l.acc[a].reserved_balance) = 0
  BY <1>1, <1>2, <1>9
<1> QED
  BY <1>4, <1>5, <1>8, <1>10


(* The tokens an account has bid.                                           *)
WithReserved(x, n) == [x EXCEPT !.reserved_balance = n]
SetReserved(l, a, n) == [l EXCEPT !.acc[a].reserved_balance = n]

LEMMA ReservedReplaced ==
    ASSUME NEW x \in Account, NEW n, n \in Int,
           NEW y, y = WithReserved(x, n)
    PROVE  /\ y \in Account /\ y.reserved_balance = n
           /\ \A f \in AccountFields \ {"reserved_balance"} : y[f] = x[f]
BY DEF Account, AccountFields, WithReserved

LEMMA ReservedMoves ==
    ASSUME NEW l, Formed(l), NEW a \in Names, l.acc[a].exists,
           NEW n, n \in Int,
           NEW m, m = SetReserved(l, a, n)
    PROVE  /\ Moves(l, m, n - l.acc[a].reserved_balance) /\ KeepsBut(l, m, {"reserved_balance"})
           /\ m.dgp = l.dgp /\ m.val = l.val /\ m.ballots = l.ballots
           /\ m.acc[a].reserved_balance = n
           /\ \A b \in Names : b # a => m.acc[b] = l.acc[b]
<1>0. l \in Ledgers
  BY DEF Formed
<1>1. PICK x, new : x = l.acc[a] /\ new = WithReserved(x, n)
  OBVIOUS
<1>2. x \in Account /\ x.balance \in Int /\ x.reserved_balance \in Int
  BY <1>0, <1>1, AccountTypes
<1>3. m = SetAccount(l, a, new)
  BY <1>0, <1>1 DEF Ledgers, SetAccount, SetReserved, WithReserved
<1>4. /\ new \in Account /\ new.reserved_balance = n
      /\ \A f \in AccountFields \ {"reserved_balance"} : new[f] = x[f]
  BY <1>1, <1>2, ReservedReplaced
<1>5. PICK g : g = {"reserved_balance"}
  OBVIOUS
<1>6. g \subseteq AccountFields \ {"exists", "proxy", "vesting_shares", "proxied_vsf_votes"}
  BY <1>5 DEF AccountFields
<1>7. new \in Account /\ Differs(l.acc[a], new, g)
  BY <1>1, <1>4, <1>5, <1>6 DEF Differs
<1>8. /\ Moves(l, m, (new.balance + new.reserved_balance)
                        - (l.acc[a].balance + l.acc[a].reserved_balance))
      /\ KeepsBut(l, m, g)
      /\ m.dgp = l.dgp /\ m.val = l.val /\ m.ballots = l.ballots
      /\ m.acc[a] = new /\ \A b \in Names : b # a => m.acc[b] = l.acc[b]
  <2>1. Changes(l, m, a, new, g)
    BY <1>3, <1>7, FieldMoves
  <2> QED
    BY <2>1 DEF Changes
<1>9. new.balance = x.balance /\ new.reserved_balance = n
  BY <1>4 DEF AccountFields
<1>10. (new.balance + new.reserved_balance)
          - (l.acc[a].balance + l.acc[a].reserved_balance) = n - l.acc[a].reserved_balance
  BY <1>1, <1>2, <1>9
<1> QED
  BY <1>4, <1>5, <1>8, <1>10


(* The proxy of an account.                                                *)
WithProxy(x, p) == [x EXCEPT !.proxy = p]
SetProxy(l, a, p) == [l EXCEPT !.acc[a].proxy = p]

LEMMA ProxyReplaced ==
    ASSUME NEW x \in Account, NEW p, p \in Names \cup {Nobody}, NEW y, y = WithProxy(x, p)
    PROVE  /\ y \in Account /\ y.proxy = p
           /\ \A f \in AccountFields \ {"proxy"} : y[f] = x[f]
BY DEF Account, AccountFields, WithProxy

LEMMA ProxyShifts ==
    ASSUME NEW l, Formed(l), NEW a \in Names, l.acc[a].exists,
           NEW p, p \in Names \cup {Nobody}, p # Nobody => l.acc[p].exists,
           NEW m, m = SetProxy(l, a, p)
    PROVE  /\ Shifts(l, m, 0) /\ KeepsBut(l, m, {"proxy"})
           /\ m.dgp = l.dgp /\ m.val = l.val /\ m.ballots = l.ballots
           /\ m.acc[a].proxy = p
           /\ \A b \in Names : b # a => m.acc[b] = l.acc[b]
<1>0. l \in Ledgers
  BY DEF Formed
<1>1. PICK x, new : x = l.acc[a] /\ new = WithProxy(x, p)
  OBVIOUS
<1>2. /\ x \in Account /\ x.balance \in Int /\ x.reserved_balance \in Int
      /\ x.vesting_shares \in Int
  BY <1>0, <1>1, AccountTypes
<1>3. m = SetAccount(l, a, new)
  BY <1>0, <1>1 DEF Ledgers, SetAccount, SetProxy, WithProxy
<1>4. /\ new \in Account /\ new.proxy = p
      /\ \A f \in AccountFields \ {"proxy"} : new[f] = x[f]
  BY <1>1, <1>2, ProxyReplaced
<1>5. /\ m \in Ledgers /\ m.dgp = l.dgp /\ m.val = l.val /\ m.ballots = l.ballots
      /\ m.acc[a] = new /\ \A b \in Names : b # a => m.acc[b] = l.acc[b]
  BY <1>0, <1>3, <1>4, OneAccount
<1>6. /\ Gap(m) = Gap(l) + x.vesting_shares - new.vesting_shares
      /\ Surplus(m) = Surplus(l) + (new.balance + new.reserved_balance)
                              - (x.balance + x.reserved_balance)
  BY <1>0, <1>1, <1>4, <1>5, OneAccountSums
<1>7. /\ new.exists = x.exists /\ new.vesting_shares = x.vesting_shares
      /\ new.balance = x.balance /\ new.reserved_balance = x.reserved_balance
  BY <1>4 DEF AccountFields
<1>8. Gap(l) \in Int /\ Surplus(l) \in Int
  BY <1>0, SumTypes
<1>9. Gap(m) = Gap(l) /\ Surplus(m) = Surplus(l) + 0
  BY <1>2, <1>6, <1>7, <1>8
<1>10. KeepsBut(l, m, {"proxy"})
  BY <1>1, <1>4, <1>5 DEF Keeps, KeepsBut
<1>11. \A b \in Names : m.acc[b].exists = l.acc[b].exists
  BY <1>1, <1>5, <1>7
<1>12. Linked(m)
  <2> SUFFICES ASSUME NEW b \in Names, m.acc[b].proxy # Nobody
               PROVE  m.acc[m.acc[b].proxy].exists
    BY DEF Linked
  <2>1. CASE b = a
    BY <1>4, <1>5, <1>11, <2>1
  <2>2. CASE b # a
    <3>1. l.acc[b].proxy \in Names /\ m.acc[b].proxy = l.acc[b].proxy
      BY <1>0, <1>5, <2>2, AccountTypes
    <3>2. l.acc[l.acc[b].proxy].exists
      BY <3>1 DEF Formed, Linked
    <3> QED
      BY <1>11, <3>1, <3>2
  <2> QED
    BY <2>1, <2>2
<1>13. Absent(m)
  BY <1>1, <1>5, <1>11 DEF Formed, Absent
<1>14. Staffed(m)
  BY <1>11, AccountsAssumption DEF Formed, Staffed
<1>15. Cast(m)
  <2>1. \A b \in l.ballots : b.account \in Names
    BY <1>0 DEF Ledgers, Ballot
  <2> QED
    BY <1>5, <1>11, <2>1 DEF Formed, Cast
<1>16. Priced(m)
  BY <1>5 DEF Formed, Priced
<1> QED
  BY <1>4, <1>5, <1>9, <1>10, <1>11, <1>12, <1>13, <1>14, <1>15, <1>16 DEF Shifts, Grows, Formed

(* The votes that are cast.                                                *)
SetBallots(l, B) == [l EXCEPT !.ballots = B]

LEMMA BallotsMoves ==
    ASSUME NEW l, Formed(l), NEW B, B \in SUBSET Ballot, IsFiniteSet(B),
           \A b \in B : l.acc[b.account].exists, NEW m, m = SetBallots(l, B)
    PROVE  Moves(l, m, 0) /\ m.acc = l.acc /\ m.dgp = l.dgp /\ m.val = l.val /\ m.ballots = B
<1>0. l \in Ledgers
  BY DEF Formed
<1>1. m \in Ledgers /\ m.acc = l.acc /\ m.dgp = l.dgp /\ m.val = l.val /\ m.ballots = B
  BY <1>0 DEF SetBallots, Ledgers
<1>2. Gap(m) = Gap(l) /\ Surplus(m) = Surplus(l)
  BY <1>1 DEF Gap, Surplus, AccountShares, AccountTokens, FundTokens
<1>3. Surplus(m) = Surplus(l) + 0
  BY <1>0, <1>2, SumTypes
<1>4. Formed(m)
  BY <1>1 DEF Formed, Priced, Linked, Absent, Staffed, Cast
<1> QED
  BY <1>0, <1>1, <1>2, <1>3, <1>4, SameAccounts DEF Moves, Shifts, Grows


(* The totals, except for those of vesting.                                *)
Purse(t) == t.total_reward_fund + t.committee_fund - t.current_supply

SameStake(t, u) ==
    /\ u \in Totals
    /\ u.total_vesting_fund = t.total_vesting_fund
    /\ u.total_vesting_shares = t.total_vesting_shares

LEMMA TotalsMoves ==
    ASSUME NEW l, Formed(l), NEW u, SameStake(l.dgp, u), NEW m, m = SetTotals(l, u)
    PROVE  /\ Moves(l, m, Purse(u) - Purse(l.dgp))
           /\ m.acc = l.acc /\ m.dgp = u /\ m.val = l.val /\ m.ballots = l.ballots
<1>0. l \in Ledgers
  BY DEF Formed
<1>1. PICK t : t = l.dgp
  OBVIOUS
<1>2. /\ t.committee_fund \in Nat
      /\ t.current_supply \in Int /\ t.total_vesting_fund \in Nat
      /\ t.total_reward_fund \in Nat /\ t.total_vesting_shares \in Nat
  BY <1>0, <1>1, TotalTypes
<1>3. /\ u \in Totals /\ u.total_vesting_fund = t.total_vesting_fund
      /\ u.total_vesting_shares = t.total_vesting_shares
  BY <1>1 DEF SameStake
<1>4. u.committee_fund \in Nat /\ u.current_supply \in Int /\ u.total_reward_fund \in Nat
  BY <1>3 DEF Totals
<1>5. /\ m \in Ledgers
      /\ m.dgp = u /\ m.val = l.val /\ m.ballots = l.ballots /\ m.acc = l.acc
  BY <1>0, <1>3, OneTotals
<1>6. /\ Gap(m) = Gap(l) + u.total_vesting_shares - t.total_vesting_shares
      /\ Surplus(m) = Surplus(l)
            + (u.total_vesting_fund + u.total_reward_fund
                  + u.committee_fund - u.current_supply)
            - (t.total_vesting_fund + t.total_reward_fund
                  + t.committee_fund - t.current_supply)
  BY <1>0, <1>1, <1>5, TotalsSums
<1>7. Gap(l) \in Int /\ Surplus(l) \in Int
  BY <1>0, SumTypes
<1>8. Gap(m) = Gap(l) /\ Surplus(m) = Surplus(l) + (Purse(u) - Purse(t))
  BY <1>2, <1>3, <1>4, <1>6, <1>7 DEF Purse
<1>9. Priced(m)
  BY <1>1, <1>3, <1>5 DEF Formed, Priced
<1>10. Grows(l, m) /\ Keeps(l, m, {"proxy"})
       /\ \A a \in Names : ~m.acc[a].exists => m.acc[a] = l.acc[a]
  BY <1>5 DEF Grows, Keeps
<1>11. Formed(m)
  BY <1>5, <1>9, <1>10, FormsAgain
<1> QED
  BY <1>0, <1>1, <1>5, <1>8, <1>10, <1>11, SameAccounts DEF Moves, Shifts

(* What a validator has still to share.                                    *)
SetPending(l, v, n) == [l EXCEPT !.val[v].pending_stakeholder_reward = n]

LEMMA PendingMoves ==
    ASSUME NEW l, Formed(l), NEW v \in Validators, NEW n, n \in Nat,
           NEW m, m = SetPending(l, v, n)
    PROVE  /\ Moves(l, m, n - l.val[v].pending_stakeholder_reward)
           /\ m.acc = l.acc /\ m.dgp = l.dgp /\ m.ballots = l.ballots
<1>0. l \in Ledgers /\ l.val \in [Validators -> ValidatorObject]
  BY DEF Formed, Ledgers
<1>1. PICK x : x = l.val[v]
  OBVIOUS
<1>2. x \in ValidatorObject /\ x.pending_stakeholder_reward \in Nat
  BY <1>0, <1>1 DEF ValidatorObject
<1>3. PICK y : y = [x EXCEPT !.pending_stakeholder_reward = n]
  OBVIOUS
<1>4. y \in ValidatorObject /\ y.pending_stakeholder_reward = n
  BY <1>2, <1>3 DEF ValidatorObject
<1>5. PICK w : w = [l.val EXCEPT ![v] = y]
  OBVIOUS
<1>6. /\ w \in [Validators -> ValidatorObject] /\ w[v] = y
      /\ \A z \in Validators : z # v => w[z] = l.val[z]
  BY <1>0, <1>4, <1>5
<1>7. m = [l EXCEPT !.val = w]
  BY <1>1, <1>3, <1>5 DEF SetPending
<1>8. /\ m \in Ledgers /\ m.acc = l.acc /\ m.dgp = l.dgp /\ m.ballots = l.ballots
      /\ m.val = w
  BY <1>0, <1>6, <1>7 DEF Ledgers
<1> DEFINE r(p) == [z \in Validators |-> p.val[z].pending_stakeholder_reward]
<1>9. /\ r(l) \in [Validators -> Int] /\ r(m) \in [Validators -> Int]
      /\ r(l)[v] = x.pending_stakeholder_reward /\ r(m)[v] = n
      /\ \A z \in Validators \ {v} : r(m)[z] = r(l)[z]
  BY <1>0, <1>1, <1>4, <1>6, <1>8 DEF ValidatorObject
<1>10. /\ FundTokens(l) = l.dgp.total_vesting_fund + l.dgp.total_reward_fund
                            + l.dgp.committee_fund + SumFunction(r(l))
       /\ FundTokens(m) = m.dgp.total_vesting_fund + m.dgp.total_reward_fund
                            + m.dgp.committee_fund + SumFunction(r(m))
  BY DEF FundTokens
<1> HIDE DEF r
<1>11. IsFiniteSet(Validators)
  BY AccountsAssumption, FS_Subset
<1>12. SumFunction(r(m)) = SumFunction(r(l)) - r(l)[v] + r(m)[v]
  BY <1>9, <1>11, SumChanged
<1>13. PICK s \in Int : s = SumFunction(r(l))
  BY <1>9, <1>11, SumOfInts
<1>14. PICK b \in Int, c \in Int : b = AccountTokens(l) /\ c = AccountShares(l)
  BY <1>0, SumTypes
<1>15. AccountTokens(m) = b /\ AccountShares(m) = c
  BY <1>8, <1>14 DEF AccountTokens, AccountShares
<1>16. Gap(m) = Gap(l)
  BY <1>8, <1>14, <1>15 DEF Gap
<1>17. Surplus(m) = Surplus(l) + (n - x.pending_stakeholder_reward)
  BY <1>0, <1>2, <1>8, <1>9, <1>10, <1>12, <1>13, <1>14, <1>15, TotalTypes DEF Surplus
<1>18. Grows(l, m) /\ Keeps(l, m, {"proxy"})
       /\ \A a \in Names : ~m.acc[a].exists => m.acc[a] = l.acc[a]
  BY <1>8 DEF Grows, Keeps
<1>19. Priced(m)
  BY <1>8 DEF Formed, Priced
<1>20. Formed(m)
  BY <1>8, <1>18, <1>19, FormsAgain
<1> QED
  BY <1>0, <1>1, <1>8, <1>16, <1>17, <1>18, <1>20, SameAccounts DEF Moves, Shifts

(* An account and the totals change together.                              *)
Reshape(l, a, new, u) == SetTotals(SetAccount(l, a, new), u)

Reshapes(l, a, new, u) ==
    /\ new \in Account /\ u \in Totals
    /\ new.exists /\ new.proxy = l.acc[a].proxy
    /\ u.total_vesting_fund = 0 <=> u.total_vesting_shares = 0

ReshapedSums(l, m, a, new, u) ==
    /\ Formed(m) /\ Grows(l, m)
    /\ Gap(m) = Gap(l) + (l.acc[a].vesting_shares - new.vesting_shares)
                    + (u.total_vesting_shares - l.dgp.total_vesting_shares)
    /\ Surplus(m) = Surplus(l)
          + ((new.balance + new.reserved_balance)
                 - (l.acc[a].balance + l.acc[a].reserved_balance))
          + (u.total_vesting_fund - l.dgp.total_vesting_fund)
          + (Purse(u) - Purse(l.dgp))
    /\ m.dgp = u /\ m.val = l.val /\ m.ballots = l.ballots
    /\ m.acc[a] = new /\ \A b \in Names : b # a => m.acc[b] = l.acc[b]

LEMMA ReshapeForms ==
    ASSUME NEW l, Formed(l), NEW a \in Names, l.acc[a].exists, NEW new, NEW u,
           Reshapes(l, a, new, u), NEW m, m = Reshape(l, a, new, u)
    PROVE  ReshapedSums(l, m, a, new, u)
<1>0. l \in Ledgers
  BY DEF Formed
<1>1. PICK x, t, p : x = l.acc[a] /\ t = l.dgp /\ p = SetAccount(l, a, new)
  OBVIOUS
<1>2. /\ x.balance \in Int /\ x.reserved_balance \in Int /\ x.vesting_shares \in Int
      /\ t.committee_fund \in Int /\ t.current_supply \in Int /\ t.total_vesting_fund \in Int
      /\ t.total_reward_fund \in Int /\ t.total_vesting_shares \in Int
      /\ Gap(l) \in Int /\ Surplus(l) \in Int
  BY <1>0, <1>1, AccountTypes, TotalTypes, SumTypes
<1>3. /\ new \in Account /\ u \in Totals /\ new.exists /\ new.proxy = x.proxy
      /\ u.total_vesting_fund = 0 <=> u.total_vesting_shares = 0
  BY <1>1 DEF Reshapes
<1>4. /\ p \in Ledgers /\ p.dgp = t /\ p.val = l.val /\ p.ballots = l.ballots
      /\ p.acc[a] = new /\ \A b \in Names : b # a => p.acc[b] = l.acc[b]
  BY <1>0, <1>1, <1>3, OneAccount
<1>5. m = SetTotals(p, u)
  BY <1>1 DEF Reshape
<1>6. m \in Ledgers /\ m.dgp = u /\ m.val = p.val /\ m.ballots = p.ballots /\ m.acc = p.acc
  BY <1>3, <1>4, <1>5, OneTotals
<1>7. /\ new.balance \in Int /\ new.reserved_balance \in Int /\ new.vesting_shares \in Int
      /\ u.committee_fund \in Int /\ u.current_supply \in Int /\ u.total_vesting_fund \in Int
      /\ u.total_reward_fund \in Int /\ u.total_vesting_shares \in Int
  BY <1>4, <1>6, AccountTypes, TotalTypes
<1>8. /\ Gap(p) = Gap(l) + x.vesting_shares - new.vesting_shares
      /\ Surplus(p) = Surplus(l) + (new.balance + new.reserved_balance)
                            - (x.balance + x.reserved_balance)
  BY <1>0, <1>1, <1>3, <1>4, OneAccountSums
<1>9. /\ Gap(m) = Gap(p) + u.total_vesting_shares - t.total_vesting_shares
      /\ Surplus(m) = Surplus(p)
            + (u.total_vesting_fund + u.total_reward_fund
                  + u.committee_fund - u.current_supply)
            - (t.total_vesting_fund + t.total_reward_fund
                  + t.committee_fund - t.current_supply)
  BY <1>4, <1>6, TotalsSums
<1>10. Gap(m) = Gap(l) + (x.vesting_shares - new.vesting_shares)
                    + (u.total_vesting_shares - t.total_vesting_shares)
  BY <1>2, <1>7, <1>8, <1>9
<1>11. Surplus(m) = Surplus(l)
          + ((new.balance + new.reserved_balance) - (x.balance + x.reserved_balance))
          + (u.total_vesting_fund - t.total_vesting_fund) + (Purse(u) - Purse(t))
  BY <1>2, <1>7, <1>8, <1>9 DEF Purse
<1>12. Grows(l, m) /\ Keeps(l, m, {"proxy"})
       /\ \A b \in Names : ~m.acc[b].exists => m.acc[b] = l.acc[b]
  BY <1>1, <1>3, <1>4, <1>6 DEF Grows, Keeps
<1>13. Priced(m) /\ m.ballots = l.ballots
  BY <1>3, <1>4, <1>6 DEF Priced
<1>14. Formed(m)
  BY <1>6, <1>12, <1>13, FormsAgain
<1> QED
  BY <1>1, <1>4, <1>6, <1>10, <1>11, <1>12, <1>14 DEF ReshapedSums
=============================================================================
