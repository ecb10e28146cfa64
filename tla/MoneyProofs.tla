---------------------------- MODULE MoneyProofs -----------------------------
(***************************************************************************)
(* Tokens and shares under all operations and phases of a block: what each *)
(* step moves, and the invariants that follow.                             *)
(***************************************************************************)
EXTENDS LedgerProofs, SequenceTheorems

----------------------------------------------------------------------------
(* Operations that are payments.                                           *)

LEMMA PaidStep ==
    ASSUME Formed(Current), NEW m, NEW d, Pays(Current, m, d), Becomes(m)
    PROVE  Rewards(Current, Current', 0, d)
<1>1. Current' = m
  BY BecomesNext DEF Pays, Books, Formed
<1> QED
  BY <1>1, PaysRewards

LEMMA UnchangedStep ==
    ASSUME Formed(Current), UNCHANGED accountVars
    PROVE  Rewards(Current, Current', 0, 0)
<1>1. Current' = Current
  BY DEF accountVars, Current
<1> QED
  BY <1>1, PaysNothing, PaysRewards

(* Users sign for their own accounts.                                      *)
LEMMA UsersMayTake ==
    ASSUME NEW a \in Users, NEW d
    PROVE  MayTake(a, d) /\ a \in Names /\ a # Treasury
BY AccountsAssumption DEF MayTake

LEMMA MayGive ==
    ASSUME NEW a, NEW d, d \in Nat
    PROVE  MayTake(a, d)
BY DEF MayTake

LEMMA PaysExists ==
    ASSUME NEW l, NEW m, NEW d, Pays(l, m, d)
    PROVE  Formed(m) /\ \A a \in Names : l.acc[a].exists => m.acc[a].exists
BY DEF Pays, Books, Steady

LEMMA TransferPays ==
    ASSUME NEW l, Formed(l), NEW a \in Names, l.acc[a].exists, a # Treasury,
           NEW b \in Names, l.acc[b].exists, NEW n, n \in Int, MayTake(b, n),
           NEW m, m = AdjustBalance(AdjustBalance(l, a, -n), b, n)
    PROVE  Pays(l, m, 0)
<1>1. PICK d \in Int : d = -n
  OBVIOUS
<1>2. PICK k : k = AdjustBalance(l, a, d)
  OBVIOUS
<1>3. MayTake(a, d)
  BY DEF MayTake
<1>4. Pays(l, k, d)
  BY <1>2, <1>3, AdjustBalancePays
<1>5. Formed(k) /\ k.acc[b].exists
  BY <1>4, PaysExists
<1>6. m = AdjustBalance(k, b, n)
  BY <1>1, <1>2
<1>7. Pays(k, m, n)
  BY <1>5, <1>6, AdjustBalancePays
<1>8. Pays(l, m, d + n)
  BY <1>4, <1>7, PaysTransitive
<1>9. d + n = 0
  BY <1>1
<1> QED
  BY <1>8, <1>9

LEMMA FeePays ==
    ASSUME NEW l, Formed(l), NEW a \in Names, l.acc[a].exists, a # Treasury,
           NEW n, n \in Nat, NEW m, m = PayCommittee(AdjustBalance(l, a, -n), n)
    PROVE  Pays(l, m, 0)
<1>1. PICK d \in Int : d = -n
  OBVIOUS
<1>2. PICK k : k = AdjustBalance(l, a, d)
  OBVIOUS
<1>3. MayTake(a, d)
  BY DEF MayTake
<1>4. Pays(l, k, d)
  BY <1>2, <1>3, AdjustBalancePays
<1>5. Formed(k)
  BY <1>4, PaysExists
<1>6. m = PayCommittee(k, n)
  BY <1>1, <1>2
<1>7. Pays(k, m, n) /\ n \in Int
  BY <1>5, <1>6, PayCommitteePays
<1>8. Pays(l, m, d + n)
  BY <1>4, <1>7, PaysTransitive
<1>9. d + n = 0
  BY <1>1
<1> QED
  BY <1>8, <1>9

(* Tokens of one account become shares of another.                         *)
LEMMA VestPays ==
    ASSUME NEW l, Formed(l), NEW a \in Names, l.acc[a].exists, a # Treasury,
           NEW b \in Names, l.acc[b].exists, NEW n, n \in Nat,
           NEW m, m = CreateVesting(AdjustBalance(l, a, -n), b, n)
    PROVE  Pays(l, m, 0)
<1>1. PICK d \in Int : d = -n
  OBVIOUS
<1>2. PICK k : k = AdjustBalance(l, a, d)
  OBVIOUS
<1>3. MayTake(a, d)
  BY DEF MayTake
<1>4. Pays(l, k, d)
  BY <1>2, <1>3, AdjustBalancePays
<1>5. Formed(k) /\ k.acc[b].exists
  BY <1>4, PaysExists
<1>6. m = CreateVesting(k, b, n)
  BY <1>1, <1>2
<1>7. Pays(k, m, n) /\ n \in Int
  BY <1>5, <1>6, CreateVestingPays
<1>8. Pays(l, m, d + n)
  BY <1>4, <1>7, PaysTransitive
<1>9. d + n = 0
  BY <1>1
<1> QED
  BY <1>8, <1>9

(* A new account is opened for what an existing one pays.                  *)
LEMMA OpenAndVestPays ==
    ASSUME NEW l, Formed(l), NEW a \in Names, l.acc[a].exists, a # Treasury,
           NEW b \in Names, ~l.acc[b].exists, NEW n, n \in Nat, now \in Nat,
           NEW m, m = CreateVesting(AdjustBalance(CreateAccount(l, b), a, -n), b, n)
    PROVE  Pays(l, m, 0)
<1>1. PICK k : k = CreateAccount(l, b)
  OBVIOUS
<1>2. k = OpenAccount(l, b, now)
  BY <1>1 DEF CreateAccount, OpenAccount
<1>3. Pays(l, k, 0) /\ k.acc[b].exists
  BY <1>2, OpenAccountPays
<1>4. Formed(k) /\ k.acc[a].exists
  BY <1>3, PaysExists
<1>5. Pays(k, m, 0)
  BY <1>1, <1>3, <1>4, VestPays
<1>6. Pays(l, m, 0 + 0)
  BY <1>3, <1>5, PaysTransitive
<1> QED
  BY <1>6

LEMMA TransferStep ==
    ASSUME Formed(Current), NEW a \in Users, NEW b \in Names, NEW n, n \in Nat,
           Transfer(a, b, n)
    PROVE  Rewards(Current, Current', 0, 0)
<1>1. PICK l, m : l = Current /\ m = AdjustBalance(AdjustBalance(l, a, -n), b, n)
  OBVIOUS
<1>2. l.acc[a].exists /\ l.acc[b].exists /\ Becomes(m)
  BY <1>1 DEF Transfer, Current
<1>3. a \in Names /\ a # Treasury /\ MayTake(b, n) /\ n \in Int
  BY UsersMayTake, MayGive
<1>4. Pays(l, m, 0)
  BY <1>1, <1>2, <1>3, TransferPays
<1> QED
  BY <1>1, <1>2, <1>4, PaidStep

LEMMA TransferToVestingStep ==
    ASSUME Formed(Current), NEW a \in Users, NEW b \in Names, NEW n, n \in Nat,
           TransferToVesting(a, b, n)
    PROVE  Rewards(Current, Current', 0, 0)
<1>1. PICK l, m : l = Current /\ m = CreateVesting(AdjustBalance(l, a, -n), b, n)
  OBVIOUS
<1>2. l.acc[a].exists /\ l.acc[b].exists /\ Becomes(m)
  BY <1>1 DEF TransferToVesting, Current
<1>3. a \in Names /\ a # Treasury
  BY UsersMayTake
<1>4. Pays(l, m, 0)
  BY <1>1, <1>2, <1>3, VestPays
<1> QED
  BY <1>1, <1>2, <1>4, PaidStep

LEMMA TransferAnonymousStep ==
    ASSUME Formed(Current), now \in Nat, NEW a \in Users, NEW b \in Names, NEW n, n \in Nat,
           TransferAnonymous(a, b, n)
    PROVE  Rewards(Current, Current', 0, 0)
<1>1. PICK l, k, m : /\ l = Current
                     /\ k = AdjustBalance(AdjustBalance(l, a, -n), Anonymous, n)
                     /\ m = CreateVesting(AdjustBalance(CreateAccount(k, b), Anonymous, -n), b, n)
  OBVIOUS
<1>2. l.acc[a].exists /\ ~l.acc[b].exists /\ Becomes(m) /\ Formed(l)
  BY <1>1 DEF TransferAnonymous, Current
<1>3. /\ a \in Names /\ a # Treasury /\ MayTake(Anonymous, n) /\ n \in Int
      /\ Anonymous \in Names /\ Anonymous # Treasury
  BY UsersMayTake, MayGive, AccountsAssumption
<1>4. l.acc[Anonymous].exists
  BY <1>2 DEF Formed, Staffed
<1>5. Pays(l, k, 0)
  BY <1>1, <1>2, <1>3, <1>4, TransferPays
<1>6. Formed(k) /\ k.acc[Anonymous].exists
  BY <1>3, <1>4, <1>5, PaysExists
<1>7. ~k.acc[b].exists
  <2>1. PICK d \in Int : d = -n
    BY <1>3
  <2>2. PICK j : j = AdjustBalance(l, a, d)
    OBVIOUS
  <2>3. MayTake(a, d)
    BY <1>3 DEF MayTake
  <2>4. Pays(l, j, d) /\ \A x \in Names : j.acc[x].exists = l.acc[x].exists
    BY <1>2, <1>3, <2>2, <2>3, AdjustBalancePays
  <2>5. Formed(j) /\ j.acc[Anonymous].exists
    BY <1>3, <1>4, <2>4, PaysExists
  <2>6. k = AdjustBalance(j, Anonymous, n)
    BY <1>1, <2>1, <2>2
  <2>7. \A x \in Names : k.acc[x].exists = j.acc[x].exists
    BY <1>3, <2>5, <2>6, AdjustBalancePays
  <2> QED
    BY <1>2, <2>4, <2>7
<1>8. Pays(k, m, 0)
  BY <1>1, <1>3, <1>6, <1>7, OpenAndVestPays
<1>9. Pays(l, m, 0 + 0)
  BY <1>2, <1>5, <1>8, PaysTransitive
<1> QED
  BY <1>1, <1>2, <1>9, PaidStep

----------------------------------------------------------------------------
(* Escrows.                                                                *)

EscrowPart(x) == IF x.open THEN x.token_balance + x.pending_fee ELSE 0

(* The parties exist, and an escrow that both have approved owes no fee.   *)
Honest(l, x) ==
    x.open => /\ l.acc[x.from].exists /\ l.acc[x.to].exists /\ l.acc[x.agent].exists
              /\ x.to_approved /\ x.agent_approved => x.pending_fee = 0

EscrowsBacked == EscrowsTyped /\ \A e \in EscrowIds : Honest(Current, escrows[e])

EscrowRecords == {NoEscrow} \cup OpenEscrows

LEMMA EscrowRecordTypes ==
    ASSUME NEW x \in EscrowRecords
    PROVE  /\ EscrowPart(x) \in Nat
           /\ x = NoEscrow => EscrowPart(x) = 0
           /\ x.open => /\ x \in OpenEscrows /\ x.from \in Names /\ x.to \in Names
                        /\ x.agent \in Names /\ x.token_balance \in Nat
                        /\ x.pending_fee \in Nat
                        /\ EscrowPart(x) = x.token_balance + x.pending_fee
<1>1. CASE x = NoEscrow
  <2>1. ~x.open
    BY <1>1 DEF NoEscrow
  <2> QED
    BY <2>1 DEF EscrowPart
<1>2. CASE x \in OpenEscrows
  <2>1. x.open = TRUE
    BY <1>2 DEF OpenEscrows
  <2>2. x.from \in Names /\ x.to \in Names /\ x.agent \in Names
    BY <1>2 DEF OpenEscrows
  <2>3. x.token_balance \in Nat /\ x.pending_fee \in Nat
    BY <1>2 DEF OpenEscrows
  <2>4. EscrowPart(x) = x.token_balance + x.pending_fee
    BY <2>1 DEF EscrowPart
  <2>5. x # NoEscrow
    BY <2>1 DEF NoEscrow
  <2> QED
    BY <1>2, <2>2, <2>3, <2>4, <2>5
<1> QED
  BY <1>1, <1>2 DEF EscrowRecords

LEMMA HonestGrows ==
    ASSUME NEW l, NEW m, Grows(l, m), NEW x \in EscrowRecords, Honest(l, x)
    PROVE  Honest(m, x)
BY EscrowRecordTypes DEF Honest, Grows

LEMMA EscrowReplaced ==
    ASSUME EscrowsBacked, Grows(Current, Current'), NEW e \in EscrowIds,
           NEW new \in EscrowRecords, Honest(Current', new),
           escrows' = [escrows EXCEPT ![e] = new]
    PROVE  /\ EscrowsBacked'
           /\ EscrowTokens' = EscrowTokens - EscrowPart(escrows[e]) + EscrowPart(new)
           /\ EscrowTokens \in Int
<1>1. /\ escrows \in [EscrowIds -> EscrowRecords] /\ escrows' \in [EscrowIds -> EscrowRecords]
      /\ escrows'[e] = new /\ \A d \in EscrowIds : d # e => escrows'[d] = escrows[d]
  BY DEF EscrowsBacked, EscrowsTyped, EscrowRecords
<1>2. EscrowsBacked'
  <2>1. ASSUME NEW d \in EscrowIds PROVE Honest(Current', escrows'[d])
    <3>1. CASE d = e
      BY <1>1, <3>1
    <3>2. CASE d # e
      BY <1>1, <3>2, HonestGrows DEF EscrowsBacked
    <3> QED
      BY <3>1, <3>2
  <2>2. EscrowsTyped'
    BY <1>1 DEF EscrowsTyped, EscrowRecords
  <2> QED
    BY <2>1, <2>2 DEF EscrowsBacked
<1>3. PICK f, g : /\ f = [d \in EscrowIds |-> EscrowPart(escrows[d])]
                  /\ g = [d \in EscrowIds |-> EscrowPart(escrows'[d])]
  OBVIOUS
<1>4. /\ f \in [EscrowIds -> Int] /\ g \in [EscrowIds -> Int]
      /\ \A d \in EscrowIds \ {e} : g[d] = f[d]
      /\ f[e] = EscrowPart(escrows[e]) /\ g[e] = EscrowPart(new)
  BY <1>1, <1>3, EscrowRecordTypes
<1>5. SumFunction(g) = SumFunction(f) - f[e] + g[e]
  BY <1>4, EscrowAssumption, SumChanged
<1>6. EscrowTokens = SumFunction(f) /\ EscrowTokens' = SumFunction(g)
  BY <1>3 DEF EscrowTokens, EscrowPart
<1>7. SumFunction(f) \in Int
  BY <1>4, EscrowAssumption, SumOfInts
<1> QED
  BY <1>2, <1>4, <1>5, <1>6, <1>7

(* An operation on escrows moves d tokens to the accounts, out of the escrows. *)
EscrowMoves(d) ==
    Rewards(Current, Current', 0, d) /\ EscrowTokens' = EscrowTokens - d /\ EscrowsBacked'

LEMMA EscrowTransferStep ==
    ASSUME Formed(Current), EscrowsBacked, now \in Nat,
           NEW e \in EscrowIds, NEW a \in Users, NEW b \in Names, NEW c \in Names,
           NEW n, n \in Nat, NEW fee, fee \in Nat, NEW t, t \in Nat, NEW u, u \in Nat,
           EscrowTransfer(e, a, b, c, n, fee, t, u)
    PROVE  \E d \in Int : EscrowMoves(d)
<1>1. PICK l, d : l = Current /\ d = -(n + fee)
  OBVIOUS
<1>2. PICK m : m = AdjustBalance(l, a, d)
  OBVIOUS
<1>3. PICK x : x = [open |-> TRUE, from |-> a, to |-> b, agent |-> c,
                    token_balance |-> n, pending_fee |-> fee,
                    ratification_deadline |-> t, escrow_expiration |-> u,
                    to_approved |-> FALSE, agent_approved |-> FALSE, disputed |-> FALSE]
  OBVIOUS
<1>4. /\ ~escrows[e].open /\ l.acc[a].exists /\ l.acc[b].exists /\ l.acc[c].exists
      /\ Becomes(m) /\ escrows' = [escrows EXCEPT ![e] = x]
  BY <1>1, <1>2, <1>3 DEF EscrowTransfer, Current
<1>5. d \in Int /\ a \in Names /\ MayTake(a, d)
  BY <1>1, UsersMayTake
<1>6. Pays(l, m, d)
  BY <1>1, <1>2, <1>4, <1>5, AdjustBalancePays
<1>7. Rewards(Current, Current', 0, d)
  BY <1>1, <1>4, <1>6, PaidStep
<1>8. x \in OpenEscrows /\ EscrowPart(x) = n + fee
  BY <1>3, <1>5 DEF OpenEscrows, EscrowPart
<1>9. Grows(Current, Current')
  BY <1>7 DEF Rewards, Moves, Shifts
<1>10. Honest(Current', x)
  BY <1>1, <1>3, <1>4, <1>5, <1>9 DEF Honest, Grows
<1>11. EscrowPart(escrows[e]) = 0
  BY <1>4 DEF EscrowPart
<1>12. /\ EscrowsBacked' /\ EscrowTokens' = EscrowTokens - EscrowPart(escrows[e]) + EscrowPart(x)
       /\ EscrowTokens \in Int
  BY <1>4, <1>8, <1>9, <1>10, EscrowReplaced DEF EscrowRecords
<1>13. EscrowTokens' = EscrowTokens - d
  BY <1>1, <1>8, <1>11, <1>12
<1> QED
  BY <1>5, <1>7, <1>12, <1>13 DEF EscrowMoves

LEMMA OpenEscrowParts ==
    ASSUME EscrowsBacked, NEW e \in EscrowIds, escrows[e].open
    PROVE  /\ escrows[e] \in OpenEscrows
           /\ Current.acc[escrows[e].from].exists /\ Current.acc[escrows[e].to].exists
           /\ Current.acc[escrows[e].agent].exists
           /\ escrows[e].from \in Names /\ escrows[e].to \in Names /\ escrows[e].agent \in Names
           /\ escrows[e].token_balance \in Nat /\ escrows[e].pending_fee \in Nat
           /\ EscrowPart(escrows[e]) = escrows[e].token_balance + escrows[e].pending_fee
           /\ IsApproved(e) => escrows[e].pending_fee = 0
<1>1. escrows[e] \in EscrowRecords /\ Honest(Current, escrows[e])
  BY DEF EscrowsBacked, EscrowsTyped, EscrowRecords
<1> QED
  BY <1>1, EscrowRecordTypes DEF Honest, IsApproved

LEMMA EscrowRefundStep ==
    ASSUME Formed(Current), EscrowsBacked, NEW e \in EscrowIds, escrows[e].open,
           Becomes(Refund(e)), escrows' = [escrows EXCEPT ![e] = NoEscrow]
    PROVE  \E d \in Int : EscrowMoves(d)
<1>1. PICK l, d, a : /\ l = Current /\ d = escrows[e].token_balance + escrows[e].pending_fee
                     /\ a = escrows[e].from
  OBVIOUS
<1>2. PICK m : m = AdjustBalance(l, a, d)
  OBVIOUS
<1>3. d \in Nat /\ a \in Names /\ l.acc[a].exists /\ EscrowPart(escrows[e]) = d
  BY <1>1, OpenEscrowParts
<1>4. Becomes(m)
  BY <1>1, <1>2 DEF Refund
<1>5. MayTake(a, d) /\ d \in Int
  BY <1>3, MayGive
<1>6. Pays(l, m, d)
  BY <1>1, <1>2, <1>3, <1>5, AdjustBalancePays
<1>7. Rewards(Current, Current', 0, d)
  BY <1>1, <1>4, <1>6, PaidStep
<1>8. Grows(Current, Current')
  BY <1>7 DEF Rewards, Moves, Shifts
<1>9. NoEscrow \in EscrowRecords /\ Honest(Current', NoEscrow) /\ EscrowPart(NoEscrow) = 0
  BY DEF EscrowRecords, Honest, EscrowPart, NoEscrow
<1>10. /\ EscrowsBacked'
       /\ EscrowTokens' = EscrowTokens - EscrowPart(escrows[e]) + EscrowPart(NoEscrow)
       /\ EscrowTokens \in Int
  BY <1>8, <1>9, EscrowReplaced
<1>11. EscrowTokens' = EscrowTokens - d
  BY <1>3, <1>5, <1>9, <1>10
<1> QED
  BY <1>5, <1>7, <1>10, <1>11 DEF EscrowMoves

LEMMA EscrowDisputeStep ==
    ASSUME Formed(Current), EscrowsBacked, NEW e \in EscrowIds, EscrowDispute(e)
    PROVE  \E d \in Int : EscrowMoves(d)
<1>1. PICK x : x = [escrows[e] EXCEPT !.disputed = TRUE]
  OBVIOUS
<1>2. escrows[e].open /\ escrows' = [escrows EXCEPT ![e] = x] /\ UNCHANGED accountVars
  BY <1>1 DEF EscrowDispute, EscrowsBacked, EscrowsTyped
<1>3. Rewards(Current, Current', 0, 0)
  BY <1>2, UnchangedStep
<1>4. Grows(Current, Current')
  BY <1>3 DEF Rewards, Moves, Shifts
<1>5. escrows[e] \in OpenEscrows /\ Honest(Current, escrows[e])
  BY <1>2, OpenEscrowParts DEF EscrowsBacked
<1>6. /\ x \in OpenEscrows /\ EscrowPart(x) = EscrowPart(escrows[e]) /\ Honest(Current, x)
  BY <1>1, <1>5 DEF OpenEscrows, EscrowPart, Honest
<1>7. x \in EscrowRecords
  BY <1>6 DEF EscrowRecords
<1>8. Honest(Current', x)
  BY <1>4, <1>6, <1>7, HonestGrows
<1>9. /\ EscrowsBacked' /\ EscrowTokens' = EscrowTokens - EscrowPart(escrows[e]) + EscrowPart(x)
      /\ EscrowTokens \in Int
  BY <1>2, <1>4, <1>7, <1>8, EscrowReplaced
<1>10. EscrowPart(x) \in Int
  BY <1>7, EscrowRecordTypes
<1>11. EscrowTokens' = EscrowTokens - 0
  BY <1>6, <1>9, <1>10
<1> QED
  BY <1>3, <1>9, <1>11 DEF EscrowMoves

(* The answer of one party; with the last one the fee is paid.             *)
Answered(x, a) == [x EXCEPT !.to_approved = @ \/ a = x.to,
                            !.agent_approved = @ \/ a = x.agent]
FeePaid(x) == [x EXCEPT !.pending_fee = 0]
Agreed(x) == x.to_approved /\ x.agent_approved

LEMMA AnsweredType ==
    ASSUME NEW x \in OpenEscrows, NEW a, NEW y, y = Answered(x, a)
    PROVE  /\ y \in OpenEscrows /\ y.open /\ y.from = x.from /\ y.to = x.to
           /\ y.agent = x.agent /\ y.pending_fee = x.pending_fee
           /\ y.token_balance = x.token_balance
BY DEF OpenEscrows, Answered

LEMMA FeePaidType ==
    ASSUME NEW x \in OpenEscrows, NEW y, y = FeePaid(x)
    PROVE  /\ y \in OpenEscrows /\ y.open /\ y.from = x.from /\ y.to = x.to
           /\ y.agent = x.agent /\ y.pending_fee = 0
           /\ y.token_balance = x.token_balance
BY DEF OpenEscrows, FeePaid

LEMMA EscrowApproveStep ==
    ASSUME Formed(Current), EscrowsBacked, NEW e \in EscrowIds, NEW a, EscrowApprove(e, a)
    PROVE  \E d \in Int : EscrowMoves(d)
<1>1. PICK l, x, y : l = Current /\ x = escrows[e] /\ y = Answered(x, a)
  OBVIOUS
<1>2. escrows[e].open
  BY DEF EscrowApprove, MayAnswer
<1>3. /\ x \in OpenEscrows /\ x.agent \in Names /\ x.pending_fee \in Nat
      /\ EscrowPart(x) = x.token_balance + x.pending_fee /\ x.token_balance \in Nat
      /\ Honest(l, x) /\ l.acc[x.agent].exists
  BY <1>1, <1>2, OpenEscrowParts DEF EscrowsBacked
<1>4. /\ y \in OpenEscrows /\ y.open /\ y.from = x.from /\ y.to = x.to
      /\ y.agent = x.agent /\ y.pending_fee = x.pending_fee
      /\ y.token_balance = x.token_balance
  BY <1>1, <1>3, AnsweredType
<1>5. /\ escrows' = [escrows EXCEPT ![e] = IF Agreed(y) THEN FeePaid(y) ELSE y]
      /\ Becomes(IF Agreed(y) THEN AdjustBalance(l, y.agent, y.pending_fee) ELSE l)
  BY <1>1 DEF EscrowApprove, Agreed, FeePaid, Answered
<1>6. CASE Agreed(y)
  <2>1. PICK m, z, d, b : /\ d = x.pending_fee /\ b = x.agent
                          /\ m = AdjustBalance(l, b, d) /\ z = FeePaid(y)
    OBVIOUS
  <2>2. /\ z \in OpenEscrows /\ z.open /\ z.from = y.from /\ z.to = y.to
        /\ z.agent = y.agent /\ z.pending_fee = 0 /\ z.token_balance = y.token_balance
    BY <1>4, <2>1, FeePaidType
  <2>3. Becomes(m) /\ escrows' = [escrows EXCEPT ![e] = z]
    BY <1>4, <1>5, <1>6, <2>1
  <2>4. d \in Int /\ MayTake(b, d)
    BY <1>3, <2>1, MayGive
  <2>5. Pays(l, m, d)
    BY <1>1, <1>3, <2>1, <2>4, AdjustBalancePays
  <2>6. Rewards(Current, Current', 0, d)
    BY <1>1, <2>3, <2>5, PaidStep
  <2>7. Grows(Current, Current')
    BY <2>6 DEF Rewards, Moves, Shifts
  <2>8. Honest(l, z)
    BY <1>2, <1>1, <1>3, <1>4, <2>2 DEF Honest
  <2>9. z \in EscrowRecords
    BY <2>2 DEF EscrowRecords
  <2>10. Honest(Current', z)
    BY <1>1, <2>7, <2>8, <2>9, HonestGrows
  <2>11. /\ EscrowsBacked' /\ EscrowTokens' = EscrowTokens - EscrowPart(escrows[e]) + EscrowPart(z)
         /\ EscrowTokens \in Int
    BY <2>3, <2>7, <2>9, <2>10, EscrowReplaced
  <2>12. EscrowPart(z) = x.token_balance + 0
    BY <1>4, <2>2 DEF EscrowPart
  <2>13. EscrowTokens' = EscrowTokens - d
    BY <1>1, <1>3, <2>1, <2>11, <2>12
  <2> QED
    BY <2>4, <2>6, <2>11, <2>13 DEF EscrowMoves
<1>7. CASE ~Agreed(y)
  <2>1. Becomes(l) /\ escrows' = [escrows EXCEPT ![e] = y]
    BY <1>5, <1>7
  <2>2. Rewards(Current, Current', 0, 0)
    BY <1>1, <2>1, PaysNothing, PaidStep
  <2>3. Grows(Current, Current')
    BY <2>2 DEF Rewards, Moves, Shifts
  <2>4. Honest(l, y)
    BY <1>1, <1>2, <1>3, <1>4, <1>7 DEF Honest, Agreed
  <2>5. y \in EscrowRecords
    BY <1>4 DEF EscrowRecords
  <2>6. Honest(Current', y)
    BY <1>1, <2>3, <2>4, <2>5, HonestGrows
  <2>7. /\ EscrowsBacked' /\ EscrowTokens' = EscrowTokens - EscrowPart(escrows[e]) + EscrowPart(y)
        /\ EscrowTokens \in Int
    BY <2>1, <2>3, <2>5, <2>6, EscrowReplaced
  <2>8. EscrowPart(y) = EscrowPart(x) /\ EscrowPart(x) \in Int
    BY <1>3, <1>4 DEF EscrowPart
  <2>9. EscrowTokens' = EscrowTokens - 0
    BY <1>1, <2>7, <2>8
  <2> QED
    BY <2>2, <2>7, <2>9 DEF EscrowMoves
<1> QED
  BY <1>6, <1>7

Lowered(x, n) == [x EXCEPT !.token_balance = @ - n]

LEMMA LoweredType ==
    ASSUME NEW x \in OpenEscrows, NEW n, n \in Nat, x.token_balance >= n, NEW y, y = Lowered(x, n)
    PROVE  /\ y \in OpenEscrows /\ y.open /\ y.from = x.from /\ y.to = x.to
           /\ y.agent = x.agent /\ y.pending_fee = x.pending_fee
           /\ y.token_balance = x.token_balance - n
<1>1. x.token_balance \in Nat /\ x.token_balance - n \in Nat
  BY DEF OpenEscrows
<1> QED
  BY <1>1 DEF OpenEscrows, Lowered

LEMMA EscrowReleaseStep ==
    ASSUME Formed(Current), EscrowsBacked, NEW e \in EscrowIds, NEW a, NEW b \in Users,
           NEW n, n \in Nat, EscrowRelease(e, a, b, n)
    PROVE  \E d \in Int : EscrowMoves(d)
<1>1. PICK l, x, m, z : /\ l = Current /\ x = escrows[e]
                        /\ m = AdjustBalance(l, b, n)
                        /\ z = IF x.token_balance = n THEN NoEscrow ELSE Lowered(x, n)
  OBVIOUS
<1>2. /\ escrows[e].open /\ x.token_balance >= n /\ Becomes(m) /\ b \in {x.from, x.to}
      /\ escrows' = [escrows EXCEPT ![e] = z] /\ IsApproved(e)
  BY <1>1 DEF EscrowRelease, MayRelease, Lowered
<1>3. /\ x \in OpenEscrows /\ x.agent \in Names /\ x.pending_fee = 0
      /\ EscrowPart(x) = x.token_balance + x.pending_fee /\ x.token_balance \in Nat
      /\ Honest(l, x) /\ l.acc[x.from].exists /\ l.acc[x.to].exists
  BY <1>1, <1>2, OpenEscrowParts DEF EscrowsBacked
<1>4. b \in Names /\ MayTake(b, n) /\ n \in Int /\ l.acc[b].exists
  BY <1>2, <1>3, UsersMayTake
<1>5. Pays(l, m, n)
  BY <1>1, <1>4, AdjustBalancePays
<1>6. Rewards(Current, Current', 0, n)
  BY <1>1, <1>2, <1>5, PaidStep
<1>7. Grows(Current, Current')
  BY <1>6 DEF Rewards, Moves, Shifts
<1>8. z \in EscrowRecords /\ Honest(l, z) /\ EscrowPart(z) = x.token_balance - n
  <2>1. CASE x.token_balance = n
    BY <1>1, <2>1 DEF EscrowRecords, Honest, EscrowPart, NoEscrow
  <2>2. CASE x.token_balance # n
    <3>1. /\ z \in OpenEscrows /\ z.open /\ z.from = x.from /\ z.to = x.to
          /\ z.agent = x.agent /\ z.pending_fee = 0
          /\ z.token_balance = x.token_balance - n
      BY <1>1, <1>2, <1>3, <2>2, LoweredType
    <3>2. Honest(l, z)
      BY <1>1, <1>2, <1>3, <3>1 DEF Honest
    <3>3. EscrowPart(z) = x.token_balance - n
      BY <1>3, <3>1 DEF EscrowPart
    <3> QED
      BY <3>1, <3>2, <3>3 DEF EscrowRecords
  <2> QED
    BY <2>1, <2>2
<1>9. Honest(Current', z)
  BY <1>1, <1>7, <1>8, HonestGrows
<1>10. /\ EscrowsBacked' /\ EscrowTokens' = EscrowTokens - EscrowPart(escrows[e]) + EscrowPart(z)
       /\ EscrowTokens \in Int
  BY <1>2, <1>7, <1>8, <1>9, EscrowReplaced
<1>11. EscrowTokens' = EscrowTokens - n
  BY <1>1, <1>3, <1>8, <1>10
<1> QED
  BY <1>4, <1>6, <1>10, <1>11 DEF EscrowMoves

LEMMA EscrowOperationStep ==
    ASSUME Formed(Current), EscrowsBacked, now \in Nat, EscrowOperation
    PROVE  \E d \in Int : EscrowMoves(d)
<1>1. PICK e \in EscrowIds :
          \/ \E a, b \in Users, c \in Users \cup {Treasury}, n \in Tokens,
                fee \in Fees, d \in Periods :
                EscrowTransfer(e, a, b, c, n, fee, now + d, now + d + 1)
          \/ \E a \in Users \cup {Treasury} :
                EscrowApprove(e, a) \/ EscrowReject(e, a)
          \/ EscrowDispute(e)
          \/ \E a \in Users \cup {Treasury}, b \in Users, n \in Tokens :
                EscrowRelease(e, a, b, n)
  BY Zenon DEF EscrowOperation
<1>2. ASSUME NEW a \in Users, NEW b \in Users, NEW c \in Users \cup {Treasury},
             NEW n \in Tokens, NEW fee \in Fees, NEW d \in Periods,
             EscrowTransfer(e, a, b, c, n, fee, now + d, now + d + 1)
      PROVE  \E k \in Int : EscrowMoves(k)
  <2>1. PICK t, u : t = now + d /\ u = now + d + 1
    OBVIOUS
  <2>2. /\ b \in Names /\ c \in Names /\ n \in Nat /\ fee \in Nat /\ t \in Nat /\ u \in Nat
    BY <2>1, AccountsAssumption, LedgerAssumption
  <2>3. EscrowTransfer(e, a, b, c, n, fee, t, u)
    BY <1>2, <2>1
  <2> QED
    BY <2>2, <2>3, EscrowTransferStep
<1>3. ASSUME NEW a, EscrowReject(e, a) PROVE \E k \in Int : EscrowMoves(k)
  BY <1>3, EscrowRefundStep DEF EscrowReject, MayAnswer
<1>4. ASSUME NEW a, NEW b \in Users, NEW n \in Tokens, EscrowRelease(e, a, b, n)
      PROVE  \E k \in Int : EscrowMoves(k)
  <2>1. n \in Nat
    BY LedgerAssumption
  <2> QED
    BY <1>4, <2>1, EscrowReleaseStep
<1> QED
  BY <1>1, <1>2, <1>3, <1>4, EscrowApproveStep, EscrowDisputeStep

LEMMA ExpireEscrowStep ==
    ASSUME Formed(Current), EscrowsBacked, ExpireEscrow
    PROVE  \E d \in Int : EscrowMoves(d)
BY EscrowRefundStep DEF ExpireEscrow, DueEscrows

----------------------------------------------------------------------------
(* Invites.                                                                *)

Invites ==
    {x \in [status : {"none", "open", "used"}, creator : Names \cup {Nobody},
            balance : Nat, claim_time : Nat] :
        x.status # "open" => x.balance = 0}
InvitesTyped == invites \in [InviteKeys -> Invites]

LEMMA InviteReplaced ==
    ASSUME InvitesTyped, NEW k \in InviteKeys, NEW new \in Invites,
           invites' = [invites EXCEPT ![k] = new]
    PROVE  /\ InvitesTyped' /\ InviteTokens \in Int
           /\ InviteTokens' = InviteTokens - invites[k].balance + new.balance
<1>1. PICK f, g : /\ f = [j \in InviteKeys |-> invites[j].balance]
                  /\ g = [j \in InviteKeys |-> invites'[j].balance]
  OBVIOUS
<1>2. /\ invites' \in [InviteKeys -> Invites] /\ invites'[k] = new
      /\ \A j \in InviteKeys \ {k} : invites'[j] = invites[j]
  BY DEF InvitesTyped
<1>3. \A x \in Invites : x.balance \in Int
  BY DEF Invites
<1>4. f \in [InviteKeys -> Int] /\ g \in [InviteKeys -> Int]
  BY <1>1, <1>2, <1>3 DEF InvitesTyped
<1>5. SumFunction(g) = SumFunction(f) - f[k] + g[k]
  BY <1>1, <1>2, <1>4, InvitesAssumption, SumChanged
<1>6. SumFunction(f) \in Int
  BY <1>4, InvitesAssumption, SumOfInts
<1> QED
  BY <1>1, <1>2, <1>5, <1>6 DEF InviteTokens, InvitesTyped

(* An operation on invites moves d tokens to the accounts, out of the invites. *)
InviteMoves(d) ==
    Rewards(Current, Current', 0, d) /\ InviteTokens' = InviteTokens - d /\ InvitesTyped'

LEMMA CreateInviteStep ==
    ASSUME Formed(Current), InvitesTyped, NEW k \in InviteKeys, NEW a \in Users,
           NEW n, n \in Nat, CreateInvite(k, a, n)
    PROVE  \E d \in Int : InviteMoves(d)
<1>1. PICK l, d, new : /\ l = Current /\ d = -n
                       /\ new = [status |-> "open", creator |-> a, balance |-> n,
                                 claim_time |-> 0]
  OBVIOUS
<1>2. PICK m : m = AdjustBalance(l, a, d)
  OBVIOUS
<1>3. /\ invites[k] = NoInvite /\ l.acc[a].exists /\ Becomes(m)
      /\ invites' = [invites EXCEPT ![k] = new]
  BY <1>1, <1>2 DEF CreateInvite, Current
<1>4. d \in Int /\ a \in Names /\ MayTake(a, d)
  BY <1>1, UsersMayTake
<1>5. Pays(l, m, d)
  BY <1>1, <1>2, <1>3, <1>4, AdjustBalancePays
<1>6. Rewards(Current, Current', 0, d)
  BY <1>1, <1>3, <1>5, PaidStep
<1>7. new \in Invites /\ new.balance = n /\ invites[k].balance = 0
  BY <1>1, <1>3, <1>4 DEF Invites, NoInvite
<1>8. /\ InvitesTyped' /\ InviteTokens \in Int
      /\ InviteTokens' = InviteTokens - invites[k].balance + new.balance
  BY <1>3, <1>7, InviteReplaced
<1>9. InviteTokens' = InviteTokens - d
  BY <1>1, <1>7, <1>8
<1> QED
  BY <1>4, <1>6, <1>8, <1>9 DEF InviteMoves

(* The tokens behind a key go to an account.                               *)
LEMMA InviteUsedStep ==
    ASSUME Formed(Current), InvitesTyped, NEW k \in InviteKeys, now \in Nat,
           NEW m, Pays(Current, m, invites[k].balance), Becomes(m), Used(k)
    PROVE  \E d \in Int : InviteMoves(d)
<1>1. PICK d, new : /\ d = invites[k].balance
                    /\ new = [invites[k] EXCEPT !.status = "used", !.balance = 0,
                                                 !.claim_time = now]
  OBVIOUS
<1>2. invites' = [invites EXCEPT ![k] = new] /\ d \in Int
  BY <1>1 DEF Used, InvitesTyped, Invites
<1>3. Rewards(Current, Current', 0, d)
  BY <1>1, PaidStep
<1>4. new \in Invites /\ new.balance = 0
  BY <1>1 DEF InvitesTyped, Invites
<1>5. /\ InvitesTyped' /\ InviteTokens \in Int
      /\ InviteTokens' = InviteTokens - invites[k].balance + new.balance
  BY <1>2, <1>4, InviteReplaced
<1>6. InviteTokens' = InviteTokens - d
  BY <1>1, <1>2, <1>4, <1>5
<1> QED
  BY <1>2, <1>3, <1>5, <1>6 DEF InviteMoves

LEMMA InviteOperationStep ==
    ASSUME Formed(Current), InvitesTyped, now \in Nat, InviteOperation
    PROVE  \E d \in Int : InviteMoves(d)
<1>1. PICK k \in InviteKeys :
          \/ \E a \in Users, n \in Tokens : CreateInvite(k, a, n)
          \/ \E a \in Users : ClaimInviteBalance(k, a) \/ UseInviteBalance(k, a)
          \/ \E new \in Fresh : InviteRegistration(k, new)
  BY Zenon DEF InviteOperation
<1>2. PICK l, t : l = Current /\ t = invites[k].balance
  OBVIOUS
<1>3. t \in Nat /\ t \in Int
  BY <1>2 DEF InvitesTyped, Invites
<1>4. ASSUME NEW a \in Users, NEW n \in Tokens, CreateInvite(k, a, n)
      PROVE  \E d \in Int : InviteMoves(d)
  <2>1. n \in Nat
    BY LedgerAssumption
  <2> QED
    BY <1>4, <2>1, CreateInviteStep
<1>5. ASSUME NEW a \in Users, ClaimInviteBalance(k, a)
      PROVE  \E d \in Int : InviteMoves(d)
  <2>1. PICK m : m = AdjustBalance(l, a, t)
    OBVIOUS
  <2>2. l.acc[a].exists /\ Becomes(m) /\ Used(k)
    BY <1>2, <1>5, <2>1 DEF ClaimInviteBalance, Current
  <2>3. a \in Names /\ MayTake(a, t)
    BY UsersMayTake
  <2>4. Pays(l, m, t)
    BY <1>2, <1>3, <2>1, <2>2, <2>3, AdjustBalancePays
  <2> QED
    BY <1>2, <2>2, <2>4, InviteUsedStep
<1>6. ASSUME NEW a \in Users, UseInviteBalance(k, a)
      PROVE  \E d \in Int : InviteMoves(d)
  <2>1. PICK m : m = CreateVesting(l, a, t)
    OBVIOUS
  <2>2. l.acc[a].exists /\ Becomes(m) /\ Used(k)
    BY <1>2, <1>6, <2>1 DEF UseInviteBalance, Current
  <2>3. a \in Names
    BY UsersMayTake
  <2>4. Pays(l, m, t)
    BY <1>2, <1>3, <2>1, <2>2, <2>3, CreateVestingPays
  <2> QED
    BY <1>2, <2>2, <2>4, InviteUsedStep
<1>7. ASSUME NEW a \in Fresh, InviteRegistration(k, a)
      PROVE  \E d \in Int : InviteMoves(d)
  <2>1. PICK j, m : j = OpenAccount(l, a, 0) /\ m = CreateVesting(j, a, t)
    OBVIOUS
  <2>2. ~l.acc[a].exists /\ Becomes(m) /\ Used(k) /\ a \in Names /\ 0 \in Nat
    BY <1>2, <1>7, <2>1 DEF InviteRegistration, Current, OpenAccount, Fresh
  <2>3. Pays(l, j, 0) /\ j.acc[a].exists
    BY <1>2, <2>1, <2>2, OpenAccountPays
  <2>4. Formed(j)
    BY <2>3, PaysExists
  <2>5. Pays(j, m, t)
    BY <1>3, <2>1, <2>2, <2>3, <2>4, CreateVestingPays
  <2>6. Pays(l, m, 0 + t)
    BY <1>2, <1>3, <2>3, <2>5, PaysTransitive
  <2>7. 0 + t = t
    BY <1>3
  <2> QED
    BY <1>2, <2>2, <2>6, <2>7, InviteUsedStep
<1> QED
  BY <1>1, <1>4, <1>5, <1>6, <1>7


LEMMA ClearUsedInvitesStep ==
    ASSUME InvitesTyped, ClearUsedInvites
    PROVE  InvitesTyped' /\ InviteTokens' = InviteTokens
<1>1. NoInvite \in Invites /\ NoInvite.balance = 0
  BY DEF Invites, NoInvite
<1>2. \A x \in Invites : x.status = "used" => x.balance = 0
  BY DEF Invites
<1>3. InvitesTyped'
  BY <1>1 DEF ClearUsedInvites, InvitesTyped
<1>4. \A k \in InviteKeys : invites'[k].balance = invites[k].balance
  BY <1>1, <1>2 DEF ClearUsedInvites, InvitesTyped
<1>5. [k \in InviteKeys |-> invites'[k].balance] = [k \in InviteKeys |-> invites[k].balance]
  BY <1>4
<1> QED
  BY <1>3, <1>5 DEF InviteTokens

----------------------------------------------------------------------------
(* Subscriptions.                                                          *)

(* Who subscribes and who is paid have accounts.                           *)
SubParties ==
    \A k \in Users \X Users : subs[k].active => acc[k[1]].exists /\ acc[k[2]].exists

LEMMA RewardsGrows ==
    ASSUME NEW r, NEW d, Rewards(Current, Current', r, d)
    PROVE  /\ Grows(Current, Current') /\ Formed(Current')
           /\ \A a \in Names : acc[a].exists => acc'[a].exists
BY DEF Rewards, Moves, Shifts, Grows, Current

LEMMA PaidPays ==
    ASSUME Formed(Current), NEW s \in Users, acc[s].exists, NEW a \in Users, acc[a].exists,
           NEW n, n \in Int, NEW m, m = Paid(s, a, n), Becomes(m)
    PROVE  Rewards(Current, Current', 0, 0)
<1>1. PICK l : l = Current
  OBVIOUS
<1>2. m = AdjustBalance(AdjustBalance(l, s, -n), a, n)
  BY <1>1 DEF Paid
<1>3. l.acc[s].exists /\ l.acc[a].exists
  BY <1>1 DEF Current
<1>4. s \in Names /\ s # Treasury /\ a \in Names /\ MayTake(a, n)
  BY UsersMayTake
<1>5. Pays(l, m, 0)
  BY <1>1, <1>2, <1>3, <1>4, TransferPays
<1> QED
  BY <1>1, <1>5, PaidStep

LEMMA ChargedStep ==
    ASSUME Formed(Current), NEW a \in Users, acc[a].exists, NEW n, n \in Nat,
           Becomes(PayCommittee(AdjustBalance(Current, a, -n), n))
    PROVE  Rewards(Current, Current', 0, 0)
<1>1. PICK l, m : l = Current /\ m = PayCommittee(AdjustBalance(l, a, -n), n)
  OBVIOUS
<1>2. l.acc[a].exists /\ a \in Names /\ a # Treasury
  BY <1>1, UsersMayTake DEF Current
<1>3. Pays(l, m, 0)
  BY <1>1, <1>2, FeePays
<1> QED
  BY <1>1, <1>3, PaidStep

LEMMA OfferTypes ==
    ASSUME SubsTyped, NEW a \in Users, offers[a] # NoOffer
    PROVE  offers[a].amount \in Nat \ {0} /\ offers[a].levels \in Nat /\ offers[a].period \in Nat \ {0}
BY DEF SubsTyped, Offers

LEMMA SetPaidSubscriptionStep ==
    ASSUME Formed(Current), SubParties, NEW a \in Users, NEW levels, NEW n, NEW p,
           SetPaidSubscription(a, levels, n, p)
    PROVE  Rewards(Current, Current', 0, 0) /\ SubParties'
<1>1. acc[a].exists /\ UNCHANGED subs
  BY DEF SetPaidSubscription
<1>2. Rewards(Current, Current', 0, 0)
  <2>1. CASE offers[a] # NoOffer
    BY <2>1, UnchangedStep DEF SetPaidSubscription
  <2>2. CASE offers[a] = NoOffer
    BY <1>1, <2>2, SubscriptionsAssumption, ChargedStep DEF SetPaidSubscription
  <2> QED
    BY <2>1, <2>2
<1>3. \A b \in Names : acc[b].exists => acc'[b].exists
  BY <1>2, RewardsGrows
<1>4. Users \subseteq Names
  BY AccountsAssumption
<1> QED
  BY <1>1, <1>2, <1>3, <1>4 DEF SubParties

LEMMA PaidSubscribeStep ==
    ASSUME Formed(Current), SubsTyped, PhaseType, SubParties, NEW s \in Users, NEW a \in Users,
           NEW level, level \in Nat, NEW auto \in BOOLEAN, PaidSubscribe(s, a, level, auto)
    PROVE  Rewards(Current, Current', 0, 0) /\ SubParties'
<1>1. acc[s].exists /\ acc[a].exists /\ offers[a] # NoOffer
  BY DEF PaidSubscribe
<1>2. PICK price, k : price = offers[a].amount * level /\ k = <<s, a>>
  OBVIOUS
<1>3. price \in Int /\ k \in Users \X Users /\ k[1] = s /\ k[2] = a
  BY <1>1, <1>2, OfferTypes
<1>4. ASSUME Subscribe(s, a, level, auto) PROVE Rewards(Current, Current', 0, 0)
  <2>1. PICK m : m = Paid(s, a, price)
    OBVIOUS
  <2>2. Becomes(m)
    BY <1>2, <1>4, <2>1 DEF Subscribe
  <2> QED
    BY <1>1, <1>3, <2>1, <2>2, PaidPays
<1>5. ASSUME SwitchRenewal(s, a, level, auto) PROVE Rewards(Current, Current', 0, 0)
  BY <1>5, UnchangedStep DEF SwitchRenewal
<1>6. ASSUME ChangeModel(s, a, level, auto) PROVE Rewards(Current, Current', 0, 0)
  <2>1. PICK left, d : left = Remaining(subs[k]) /\ d = price - left
    OBVIOUS
  <2>2. subs[k].active
    BY <1>2, <1>6 DEF ChangeModel
  <2>3. left \in Int /\ d \in Int
    BY <1>3, <2>1, <2>2, RemainingInt
  <2>4. ASSUME left >= price PROVE Rewards(Current, Current', 0, 0)
    <3>1. UNCHANGED accountVars
      BY <1>2, <1>6, <2>1, <2>4 DEF ChangeModel
    <3> QED
      BY <3>1, UnchangedStep
  <2>5. ASSUME ~(left >= price) PROVE Rewards(Current, Current', 0, 0)
    <3>1. PICK m : m = Paid(s, a, d)
      OBVIOUS
    <3>2. Becomes(m)
      BY <1>2, <1>6, <2>1, <2>5, <3>1 DEF ChangeModel
    <3> QED
      BY <1>1, <2>3, <3>1, <3>2, PaidPays
  <2> QED
    BY <2>4, <2>5
<1>7. Rewards(Current, Current', 0, 0)
  BY <1>4, <1>5, <1>6 DEF PaidSubscribe
<1>8. \A b \in Names : acc[b].exists => acc'[b].exists
  BY <1>7, RewardsGrows
<1>9. \A j \in Users \X Users : j # k => subs'[j] = subs[j]
  <2>1. subs \in [Users \X Users -> {NoSub} \cup Subs]
    BY DEF SubsTyped
  <2>2. \E x : subs' = [subs EXCEPT ![k] = x]
    <3>1. CASE Subscribe(s, a, level, auto)
      BY <1>2, <3>1 DEF Subscribe
    <3>2. CASE SwitchRenewal(s, a, level, auto)
      BY <1>2, <3>2 DEF SwitchRenewal
    <3>3. CASE ChangeModel(s, a, level, auto)
      BY <1>2, <3>3 DEF ChangeModel
    <3> QED
      BY <3>1, <3>2, <3>3 DEF PaidSubscribe
  <2> QED
    BY <2>1, <2>2
<1>10. Users \subseteq Names
  BY AccountsAssumption
<1>11. SubParties'
  BY <1>1, <1>3, <1>8, <1>9, <1>10 DEF SubParties
<1> QED
  BY <1>7, <1>11

LEMMA SubscriptionOperationStep ==
    ASSUME Formed(Current), SubsTyped, PhaseType, SubParties, SubscriptionOperation
    PROVE  Rewards(Current, Current', 0, 0) /\ SubParties'
<1>1. \/ \E a \in Actors, l \in Levels, n \in Tokens, d \in Periods :
             SetPaidSubscription(a, l, n, d)
      \/ \E s \in Users, a \in Actors, l \in Levels, auto \in BOOLEAN :
             PaidSubscribe(s, a, l, auto)
  BY DEF SubscriptionOperation
<1>2. Actors \subseteq Users /\ Levels \subseteq Nat
  BY LedgerAssumption
<1> QED
  BY <1>1, <1>2, SetPaidSubscriptionStep, PaidSubscribeStep

LEMMA ProcessSubscriptionStep ==
    ASSUME Formed(Current), SubsTyped, PhaseType, now < Never, SubParties, ProcessSubscription
    PROVE  Rewards(Current, Current', 0, 0) /\ SubParties'
<1>1. PICK k \in DueSubs : Renew(k) \/ CloseSub(k)
  BY DEF ProcessSubscription
<1>2. subs \in [Users \X Users -> {NoSub} \cup Subs]
  BY DEF SubsTyped
<1>3. k \in Users \X Users /\ subs[k].next_time <= now
  BY <1>1, <1>2 DEF DueSubs
<1>4. subs[k].active
  <2>1. ~(Never <= now)
    BY AccountsAssumption DEF PhaseType
  <2> QED
    BY <1>3, <2>1 DEF SubsTyped
<1>5. acc[k[1]].exists /\ acc[k[2]].exists /\ offers[k[2]] # NoOffer
  BY <1>3, <1>4 DEF SubParties, SubsTyped
<1>6. ASSUME Renew(k) PROVE Rewards(Current, Current', 0, 0)
  <2>1. PICK n, m, level : /\ level = Min({subs[k].level, offers[k[2]].levels})
                           /\ n = offers[k[2]].amount * level /\ m = Paid(k[1], k[2], n)
    OBVIOUS
  <2>2. subs[k].level \in Int /\ offers[k[2]].levels \in Int /\ offers[k[2]].amount \in Int
    <3>1. subs[k] # NoSub
      BY <1>4 DEF NoSub
    <3>2. subs[k] \in Subs
      BY <1>2, <1>3, <3>1
    <3> QED
      BY <1>3, <1>5, <3>2, OfferTypes DEF Subs
  <2>3. n \in Int
    BY <2>1, <2>2, MinOfTwo
  <2>4. Becomes(m)
    BY <1>6, <2>1 DEF Renew, Renewal
  <2> QED
    BY <1>3, <1>5, <2>1, <2>3, <2>4, PaidPays
<1>7. ASSUME CloseSub(k) PROVE Rewards(Current, Current', 0, 0)
  BY <1>7, UnchangedStep DEF CloseSub
<1>8. Rewards(Current, Current', 0, 0)
  BY <1>1, <1>6, <1>7
<1>9. \A b \in Names : acc[b].exists => acc'[b].exists
  BY <1>8, RewardsGrows
<1>10. \A j \in Users \X Users : j # k => subs'[j] = subs[j]
  <2>1. CASE Renew(k)
    BY <1>2, <2>1 DEF Renew
  <2>2. CASE CloseSub(k)
    BY <1>2, <2>2 DEF CloseSub
  <2> QED
    BY <1>1, <2>1, <2>2
<1>11. Users \subseteq Names
  BY AccountsAssumption
<1>12. SubParties'
  BY <1>3, <1>5, <1>9, <1>10, <1>11 DEF SubParties
<1> QED
  BY <1>8, <1>12

----------------------------------------------------------------------------
(* Proposals.                                                              *)

PushOp(v, op) ==
    IF v.ok /\ v.ledger.acc[op.to].exists /\ v.ledger.acc[op.from].balance >= op.amount
    THEN [ok |-> TRUE, ledger |-> Transferred(v.ledger, op)]
    ELSE [ok |-> FALSE, ledger |-> v.ledger]

(* What the operations of a proposal may make of a ledger.                 *)
PaidLedgers(l) == {m \in Ledgers : Pays(l, m, 0)}
Outcomes(l) == [ok : BOOLEAN, ledger : PaidLedgers(l)]

LEMMA PushOpOutcome ==
    ASSUME NEW l, Formed(l), NEW op \in TransferOps, l.acc[op.from].exists, NEW v \in Outcomes(l)
    PROVE  PushOp(v, op) \in Outcomes(l)
<1>1. PICK m, a, b, n : m = v.ledger /\ a = op.from /\ b = op.to /\ n = op.amount
  OBVIOUS
<1>2. m \in Ledgers /\ Pays(l, m, 0)
  BY <1>1 DEF Outcomes, PaidLedgers
<1>3. a \in Users /\ b \in Users /\ n \in Nat /\ n \in Int
  BY <1>1 DEF TransferOps
<1>4. a \in Names /\ a # Treasury /\ b \in Names /\ MayTake(b, n)
  BY <1>3, UsersMayTake
<1>5. Formed(m) /\ m.acc[a].exists
  BY <1>1, <1>2, <1>4, PaysExists
<1>6. CASE m.acc[b].exists
  <2>1. PICK k : k = AdjustBalance(AdjustBalance(m, a, -n), b, n)
    OBVIOUS
  <2>2. Pays(m, k, 0)
    BY <1>3, <1>4, <1>5, <1>6, <2>1, TransferPays
  <2>3. Pays(l, k, 0 + 0) /\ 0 + 0 = 0
    BY <1>2, <2>2, PaysTransitive
  <2>4. k \in PaidLedgers(l)
    BY <2>2, <2>3 DEF PaidLedgers, Pays, Books, Formed
  <2>5. k = Transferred(v.ledger, op)
    BY <1>1, <2>1 DEF Transferred
  <2>6. [ok |-> TRUE, ledger |-> k] \in Outcomes(l)
    BY <2>4 DEF Outcomes
  <2>7. [ok |-> FALSE, ledger |-> v.ledger] \in Outcomes(l)
    BY DEF Outcomes
  <2> QED
    BY <2>5, <2>6, <2>7 DEF PushOp
<1>7. CASE ~m.acc[b].exists
  <2>1. [ok |-> FALSE, ledger |-> v.ledger] \in Outcomes(l)
    BY DEF Outcomes
  <2> QED
    BY <1>1, <1>7, <2>1 DEF PushOp
<1> QED
  BY <1>6, <1>7

(* What push_proposal has come to after each of the operations.            *)
Pushes(p, ops) ==
    /\ p[0] = [ok |-> TRUE, ledger |-> Current]
    /\ \A i \in 1..Len(ops) : p[i] = PushOp(p[i - 1], ops[i])
    /\ \A i \in 0..Len(ops) : p[i] \in Outcomes(Current)
    /\ Applied(ops) = p[Len(ops)]

LEMMA AppliedPushes ==
    ASSUME Formed(Current), NEW ops \in Seq(TransferOps), \A a \in Payers(ops) : acc[a].exists
    PROVE  \E p : Pushes(p, ops)
<1>1. PICK l, N, L, base : /\ l = Current /\ N = Len(ops) /\ L = Outcomes(l)
                           /\ base = [ok |-> TRUE, ledger |-> l]
  OBVIOUS
<1> DEFINE f == [i \in 1..N |-> [v \in L |-> PushOp(v, ops[i])]]
           Chain(g) == g = [i \in 0..N |-> IF i = 0 THEN base ELSE PushOp(g[i - 1], ops[i])]
<1>2. N \in Nat /\ \A i \in 1..N : ops[i] \in TransferOps
  BY <1>1
<1>3. base \in L
  BY <1>1, PaysNothing DEF Outcomes, PaidLedgers, Formed
<1>4. ASSUME NEW i \in 1..N, NEW v \in L PROVE PushOp(v, ops[i]) \in L
  <2>1. ops[i].from \in Payers(ops)
    BY <1>1 DEF Payers, ToSet
  <2>2. l.acc[ops[i].from].exists
    BY <1>1, <2>1 DEF Current
  <2> QED
    BY <1>1, <1>2, <2>2, PushOpOutcome
<1>5. f \in [1..N -> [L -> L]]
  BY <1>4
<1>6. \A i \in 1..N, v \in L : f[i][v] = PushOp(v, ops[i])
  OBVIOUS
<1>7. \A i \in 1..N : i # 0 /\ i - 1 \in 0..N /\ i \in 0..N
  BY <1>2
<1>8. \A i \in 0..N : i # 0 => i \in 1..N
  BY <1>2
<1> HIDE DEF f, Chain
<1>9. PICK g : Runs(g, f, base, N, L)
  BY <1>2, <1>3, <1>5, IntervalRecursion
<1>10. g \in [0..N -> L] /\ g[0] = base /\ \A i \in 1..N : g[i] = f[i][g[i - 1]]
  BY <1>9 DEF Runs
<1>11. Chain(g)
  <2>1. ASSUME NEW i \in 0..N PROVE g[i] = IF i = 0 THEN base ELSE PushOp(g[i - 1], ops[i])
    BY <1>6, <1>7, <1>8, <1>10
  <2> QED
    BY <1>10, <2>1 DEF Chain
<1>12. PICK p : p = CHOOSE h : Chain(h)
  OBVIOUS
<1>13. Chain(p)
  BY <1>11, <1>12
<1>14. Applied(ops) = p[N]
  BY <1>1, <1>12 DEF Applied, Chain, PushOp
<1>15. p[0] = base
  BY <1>2, <1>13 DEF Chain
<1>16. \A i \in 1..N : p[i] = PushOp(p[i - 1], ops[i])
  BY <1>7, <1>13 DEF Chain
<1> DEFINE B == {i \in 0..N : p[i] \notin L}
<1>17. B = {}
  <2> SUFFICES ASSUME B # {} PROVE FALSE
    OBVIOUS
  <2>0. B \subseteq Nat
    BY <1>2
  <2>1. PICK i \in B : \A j \in B : i <= j
    <3> HIDE DEF B
    <3> QED  BY <2>0, LeastExists
  <2>2. i # 0
    BY <1>3, <1>15
  <2>3. i \in 1..N
    BY <1>8, <2>2
  <2>4. i - 1 \in 0..N /\ ~(i <= i - 1)
    BY <1>2, <2>3
  <2>5. p[i - 1] \in L
    BY <2>1, <2>4
  <2>6. p[i] \in L
    BY <1>4, <1>16, <2>3, <2>5
  <2> QED
    BY <2>6
<1> QED
  BY <1>1, <1>14, <1>15, <1>16, <1>17 DEF Pushes

LEMMA AppliedPays ==
    ASSUME Formed(Current), NEW ops \in Seq(TransferOps), \A a \in Payers(ops) : acc[a].exists
    PROVE  Pays(Current, Applied(ops).ledger, 0)
<1>1. PICK p : Pushes(p, ops)
  BY AppliedPushes
<1>2. Len(ops) \in 0..Len(ops)
  OBVIOUS
<1> QED
  BY <1>1, <1>2 DEF Pushes, Outcomes, PaidLedgers

(* Whom the operations of a proposal charge has an account.                *)
ProposalPayers ==
    \A p \in ProposalIds : proposals[p].open => \A a \in Payers(proposals[p].ops) : acc[a].exists

(* The proposals that stay open keep their operations.                     *)
SameOps ==
    \A p \in ProposalIds : proposals'[p].open =>
        proposals[p].open /\ proposals'[p].ops = proposals[p].ops

LEMMA PayersAreUsers ==
    ASSUME ProposalsTyped, NEW p \in ProposalIds, proposals[p].open
    PROVE  proposals[p] \in OpenProposals /\ proposals[p].ops \in Seq(TransferOps)
           /\ Payers(proposals[p].ops) \subseteq Names
<1>1. proposals[p] # NoProposal
  BY DEF NoProposal
<1>2. proposals[p] \in OpenProposals
  BY <1>1 DEF ProposalsTyped
<1>3. PICK ops : ops = proposals[p].ops
  OBVIOUS
<1>4. ops \in Seq(TransferOps)
  BY <1>2, <1>3 DEF OpenProposals
<1>5. \A x \in ToSet(ops) : x \in TransferOps
  BY <1>4 DEF ToSet
<1>6. \A x \in TransferOps : x.from \in Names
  BY AccountsAssumption DEF TransferOps
<1>7. Payers(ops) \subseteq Names
  BY <1>5, <1>6 DEF Payers
<1> QED
  BY <1>2, <1>3, <1>4, <1>7

LEMMA PayersStay ==
    ASSUME ProposalsTyped, ProposalPayers, SameOps,
           \A a \in Names : acc[a].exists => acc'[a].exists
    PROVE  ProposalPayers'
<1>1. ASSUME NEW p \in ProposalIds, proposals'[p].open, NEW a \in Payers(proposals'[p].ops)
      PROVE  acc'[a].exists
  <2>1. proposals[p].open /\ a \in Payers(proposals[p].ops)
    BY <1>1 DEF SameOps
  <2>2. a \in Names
    BY <2>1, PayersAreUsers
  <2> QED
    BY <2>1, <2>2 DEF ProposalPayers
<1> QED
  BY <1>1 DEF ProposalPayers

LEMMA RemovedOps ==
    ASSUME ProposalsTyped, NEW p \in ProposalIds, RemoveProposal(p)
    PROVE  SameOps
BY DEF RemoveProposal, ProposalsTyped, SameOps, NoProposal

(* The proposal is executed, or not.                                       *)
LEMMA AppliedStep ==
    ASSUME Formed(Current), ProposalsTyped, ProposalPayers, NEW p \in ProposalIds,
           proposals[p].open, Becomes(Applied(proposals[p].ops).ledger)
    PROVE  Rewards(Current, Current', 0, 0)
<1>1. PICK ops : ops = proposals[p].ops
  OBVIOUS
<1>2. ops \in Seq(TransferOps) /\ \A a \in Payers(ops) : acc[a].exists
  BY <1>1, PayersAreUsers DEF ProposalPayers
<1>3. Pays(Current, Applied(ops).ledger, 0)
  BY <1>2, AppliedPays
<1> QED
  BY <1>1, <1>3, PaidStep

LEMMA ProposalCreateStep ==
    ASSUME Formed(Current), ProposalsTyped, ProposalPayers, NEW p \in ProposalIds,
           NEW author, NEW ops, NEW t, NEW u, ProposalCreate(p, author, ops, t, u)
    PROVE  Rewards(Current, Current', 0, 0) /\ ProposalPayers'
<1>1. UNCHANGED accountVars /\ \A a \in Payers(ops) : acc[a].exists
  BY DEF ProposalCreate
<1>2. acc' = acc
  BY <1>1 DEF accountVars
<1>3. Rewards(Current, Current', 0, 0)
  BY <1>1, UnchangedStep
<1>4. proposals'[p].ops = ops /\ \A q \in ProposalIds : q # p => proposals'[q] = proposals[q]
  BY DEF ProposalCreate, ProposalsTyped
<1>5. ProposalPayers'
  BY <1>1, <1>2, <1>4 DEF ProposalPayers
<1> QED
  BY <1>3, <1>5

LEMMA ProposalUpdateStep ==
    ASSUME Formed(Current), ProposalsTyped, ProposalPayers, NEW p \in ProposalIds,
           NEW add, NEW remove, ProposalUpdate(p, add, remove)
    PROVE  Rewards(Current, Current', 0, 0) /\ ProposalPayers'
<1>1. PICK prop, updated :
          prop = proposals[p] /\ updated = [prop EXCEPT !.approvals = (@ \cup add) \ remove]
  OBVIOUS
<1>2. proposals[p].open /\ proposals[p] \in OpenProposals
  BY PayersAreUsers DEF ProposalUpdate
<1>3. updated.open /\ updated.ops = prop.ops
  BY <1>1, <1>2 DEF OpenProposals
<1>4. ASSUME proposals' = [proposals EXCEPT ![p] = updated] PROVE SameOps
  <2>1. proposals'[p] = updated /\ \A q \in ProposalIds : q # p => proposals'[q] = proposals[q]
    BY <1>4 DEF ProposalsTyped
  <2> QED
    BY <1>1, <1>2, <1>3, <2>1 DEF SameOps
<1>5. \/ UNCHANGED accountVars
      \/ Becomes(Applied(proposals[p].ops).ledger)
  BY DEF ProposalUpdate
<1>6. Rewards(Current, Current', 0, 0)
  BY <1>2, <1>5, UnchangedStep, AppliedStep
<1>7. RemoveProposal(p) \/ proposals' = [proposals EXCEPT ![p] = updated]
  BY <1>1 DEF ProposalUpdate
<1>8. SameOps
  BY <1>4, <1>7, RemovedOps
<1> QED
  BY <1>6, <1>8, PayersStay, RewardsGrows

LEMMA ProposalOperationStep ==
    ASSUME Formed(Current), ProposalsTyped, ProposalPayers, ProposalOperation
    PROVE  Rewards(Current, Current', 0, 0) /\ ProposalPayers'
<1>1. PICK p \in ProposalIds :
          \/ \E a \in Actors, b \in Users \ Actors, d \in Periods, review \in BOOLEAN :
                \E ops \in Bundles(a, b) :
                    ProposalCreate(p, a, ops, now + d, IF review THEN now + 1 ELSE Never)
          \/ \E add, remove \in SUBSET (Users \ Fresh) : ProposalUpdate(p, add, remove)
          \/ \E a \in Users : ProposalDelete(p, a)
  BY Zenon DEF ProposalOperation
<1>2. ASSUME NEW a \in Users, ProposalDelete(p, a)
      PROVE  Rewards(Current, Current', 0, 0) /\ ProposalPayers'
  <2>1. RemoveProposal(p) /\ UNCHANGED accountVars
    BY <1>2 DEF ProposalDelete
  <2>2. Rewards(Current, Current', 0, 0)
    BY <2>1, UnchangedStep
  <2> QED
    BY <2>1, <2>2, RemovedOps, PayersStay, RewardsGrows
<1> QED
  BY <1>1, <1>2, ProposalCreateStep, ProposalUpdateStep

LEMMA ExpireProposalStep ==
    ASSUME Formed(Current), ProposalsTyped, ProposalPayers, ExpireProposal
    PROVE  Rewards(Current, Current', 0, 0) /\ ProposalPayers'
<1>1. PICK p \in DueProposals :
          /\ RemoveProposal(p)
          /\ UNCHANGED accountVars \/ Becomes(Applied(proposals[p].ops).ledger)
  BY DEF ExpireProposal
<1>2. p \in ProposalIds /\ proposals[p].open
  BY DEF DueProposals
<1>3. Rewards(Current, Current', 0, 0)
  BY <1>1, <1>2, UnchangedStep, AppliedStep
<1> QED
  BY <1>1, <1>2, <1>3, RemovedOps, PayersStay, RewardsGrows

----------------------------------------------------------------------------
(* Requests to the committee fund.                                         *)

Ballotings == UNION {[S -> Opinions] : S \in SUBSET Names}

Requests ==
    [status : {"open", "cancelled", "few", "refused", "approved", "paid"},
     creator : Users, worker : Users, required_amount_min : Nat, required_amount_max : Nat,
     start_time : Nat, end_time : Nat, votes : Ballotings, conclusion_time : Nat,
     conclusion_payout_amount : Nat, remain_payout_amount : Nat, payout_amount : Nat]

(* A request pays an account that exists, and what was granted is what has *)
(* been paid and what remains.                                             *)
Granted(l, x) ==
    /\ l.acc[x.worker].exists
    /\ x.status = "open" => x.payout_amount = 0
    /\ x.status \in {"approved", "paid"} =>
          x.payout_amount + x.remain_payout_amount = x.conclusion_payout_amount
    /\ x.status = "paid" => x.remain_payout_amount = 0

RequestsTyped == requests \in [RequestIds -> {NoRequest} \cup Requests] /\ requestCount \in Nat

RequestsBacked ==
    RequestsTyped /\ \A r \in Live : Granted(Current, requests[r])

LEMMA RequestOfStatus ==
    ASSUME RequestsTyped, NEW r \in RequestIds, requests[r].status # "none"
    PROVE  requests[r] \in Requests
BY DEF RequestsTyped, NoRequest

LEMMA RequestTypes ==
    ASSUME NEW x \in Requests
    PROVE  /\ x.status # "none" /\ x.worker \in Users /\ x.required_amount_max \in Nat
           /\ x.votes \in Ballotings /\ x.conclusion_payout_amount \in Nat
           /\ x.remain_payout_amount \in Nat /\ x.payout_amount \in Nat
<1>1. x.status # "none"
  BY DEF Requests
<1>2. x.worker \in Users /\ x.votes \in Ballotings
  BY DEF Requests
<1>3. /\ x.required_amount_max \in Nat /\ x.conclusion_payout_amount \in Nat
      /\ x.remain_payout_amount \in Nat /\ x.payout_amount \in Nat
  BY DEF Requests
<1> QED
  BY <1>1, <1>2, <1>3

LEMMA GrantedGrows ==
    ASSUME NEW l, NEW m, Grows(l, m), NEW x \in Requests, Granted(l, x)
    PROVE  Granted(m, x)
BY RequestTypes, AccountsAssumption DEF Granted, Grows

LEMMA FundCovers ==
    ASSUME Formed(Current), RequestsBacked
    PROVE  FundCoversRequests
<1>1. dgp.committee_fund >= 0
  <2>1. Current.dgp.committee_fund \in Nat
    BY TotalTypes DEF Formed
  <2> QED
    BY <2>1 DEF Current
<1>2. ASSUME NEW r \in WithStatus("approved") \cup WithStatus("paid")
      PROVE  /\ requests[r].payout_amount + requests[r].remain_payout_amount
                    = requests[r].conclusion_payout_amount
             /\ requests[r].remain_payout_amount >= 0
             /\ requests[r].status = "paid" => requests[r].remain_payout_amount = 0
  <2>1. r \in RequestIds /\ requests[r].status \in {"approved", "paid"}
    BY DEF WithStatus
  <2>2. r \in Live
    BY <2>1 DEF Live
  <2>3. requests[r] \in Requests
    BY <2>1, RequestOfStatus DEF RequestsBacked
  <2>4. requests[r].remain_payout_amount \in Nat
    BY <2>3, RequestTypes
  <2> QED
    BY <2>1, <2>2, <2>4 DEF RequestsBacked, Granted
<1> QED
  BY <1>1, <1>2 DEF FundCoversRequests

LEMMA RequestReplaced ==
    ASSUME RequestsBacked, Grows(Current, Current'), NEW r \in RequestIds,
           NEW new \in Requests, Granted(Current', new), requestCount' \in Nat,
           requests' = [requests EXCEPT ![r] = new]
    PROVE  RequestsBacked'
<1>1. /\ requests'[r] = new /\ \A q \in RequestIds : q # r => requests'[q] = requests[q]
      /\ requests' \in [RequestIds -> {NoRequest} \cup Requests]
  BY DEF RequestsBacked, RequestsTyped
<1>2. RequestsTyped'
  BY <1>1 DEF RequestsTyped
<1>3. ASSUME NEW q \in Live' PROVE Granted(Current', requests'[q])
  <2>1. q \in RequestIds /\ requests'[q].status # "none"
    BY DEF Live
  <2>2. CASE q = r
    BY <1>1, <2>2
  <2>3. CASE q # r
    <3>1. requests'[q] = requests[q] /\ q \in Live
      BY <1>1, <2>1, <2>3 DEF Live
    <3>2. requests[q] \in Requests /\ Granted(Current, requests[q])
      BY <2>1, <3>1, RequestOfStatus DEF RequestsBacked, Live
    <3> QED
      BY <3>1, <3>2, GrantedGrows
  <2> QED
    BY <2>2, <2>3
<1> QED
  BY <1>2, <1>3 DEF RequestsBacked

LEMMA CreateRequestStep ==
    ASSUME Formed(Current), RequestsBacked, now \in Nat, NEW a \in Users, NEW w \in Users,
           NEW least, least \in Nat, NEW most, most \in Nat, NEW t, t \in Nat,
           CreateRequest(a, w, least, most, t)
    PROVE  Rewards(Current, Current', 0, 0) /\ RequestsBacked'
<1>1. PICK r, new :
          /\ r = requestCount + 1
          /\ new = [status |-> "open", creator |-> a, worker |-> w,
                    required_amount_min |-> least, required_amount_max |-> most,
                    start_time |-> now, end_time |-> now + t,
                    votes |-> <<>>, conclusion_time |-> 0,
                    conclusion_payout_amount |-> 0, remain_payout_amount |-> 0,
                    payout_amount |-> 0]
  OBVIOUS
<1>2. /\ r \in RequestIds /\ acc[a].exists /\ acc[w].exists
      /\ requests' = [requests EXCEPT ![r] = new] /\ requestCount' = r
      /\ Becomes(PayCommittee(AdjustBalance(Current, a, -RequestFee), RequestFee))
  BY <1>1 DEF CreateRequest
<1>3. Rewards(Current, Current', 0, 0)
  BY <1>2, CommitteeAssumption, ChargedStep
<1>4. Grows(Current, Current') /\ \A b \in Names : acc[b].exists => acc'[b].exists
  BY <1>3, RewardsGrows
<1>5. <<>> \in Ballotings
  <2>1. <<>> \in [{} -> Opinions]
    OBVIOUS
  <2> QED
    BY <2>1 DEF Ballotings
<1>6. now + t \in Nat /\ r \in Nat
  BY <1>1 DEF RequestsBacked, RequestsTyped
<1>7. new \in Requests
  BY <1>1, <1>5, <1>6 DEF Requests
<1>8. /\ new.worker = w /\ new.status = "open" /\ new.payout_amount = 0
  BY <1>1
<1>9. Granted(Current', new)
  BY <1>2, <1>4, <1>8, AccountsAssumption DEF Granted, Current
<1>10. RequestsBacked'
  BY <1>2, <1>4, <1>6, <1>7, <1>9, RequestReplaced
<1> QED
  BY <1>3, <1>10

(* Changes of a request that leave the accounts alone.                     *)
LEMMA RequestChangedStep ==
    ASSUME Formed(Current), RequestsBacked, NEW r \in RequestIds, NEW new \in Requests,
           Granted(Current, new), requests' = [requests EXCEPT ![r] = new],
           UNCHANGED requestCount, UNCHANGED accountVars
    PROVE  Rewards(Current, Current', 0, 0) /\ RequestsBacked'
<1>1. Rewards(Current, Current', 0, 0)
  BY UnchangedStep
<1>2. Grows(Current, Current') /\ requestCount' \in Nat
  BY <1>1, RewardsGrows DEF RequestsBacked, RequestsTyped
<1>3. Granted(Current', new)
  BY <1>2, GrantedGrows
<1> QED
  BY <1>1, <1>2, <1>3, RequestReplaced

LEMMA CancelRequestStep ==
    ASSUME Formed(Current), RequestsBacked, now \in Nat, NEW r \in RequestIds, CancelRequest(r)
    PROVE  Rewards(Current, Current', 0, 0) /\ RequestsBacked'
<1>1. PICK x, new : /\ x = requests[r]
                    /\ new = [x EXCEPT !.status = "cancelled", !.conclusion_time = now]
  OBVIOUS
<1>2. /\ x.status = "open" /\ requests' = [requests EXCEPT ![r] = new]
      /\ UNCHANGED requestCount /\ UNCHANGED accountVars
  BY <1>1 DEF CancelRequest, RequestsBacked, RequestsTyped
<1>3. x \in Requests /\ Granted(Current, x)
  BY <1>1, <1>2, RequestOfStatus DEF RequestsBacked, Live
<1>4. new \in Requests /\ new.status = "cancelled" /\ new.worker = x.worker
  BY <1>1, <1>3 DEF Requests
<1>5. Granted(Current, new)
  BY <1>3, <1>4 DEF Granted
<1> QED
  BY <1>2, <1>4, <1>5, RequestChangedStep

LEMMA VoteRequestStep ==
    ASSUME Formed(Current), RequestsBacked, NEW a \in Users, NEW r \in RequestIds,
           NEW p \in Opinions, VoteRequest(a, r, p)
    PROVE  Rewards(Current, Current', 0, 0) /\ RequestsBacked'
<1>1. PICK x, votes :
          /\ x = requests[r]
          /\ votes = [v \in DOMAIN x.votes \cup {a} |-> IF v = a THEN p ELSE x.votes[v]]
  OBVIOUS
<1>2. PICK new : new = [x EXCEPT !.votes = votes]
  OBVIOUS
<1>3. /\ x.status = "open" /\ requests' = [requests EXCEPT ![r] = new]
      /\ UNCHANGED requestCount /\ UNCHANGED accountVars
  BY <1>1, <1>2 DEF VoteRequest, RequestsBacked, RequestsTyped
<1>4. x \in Requests /\ Granted(Current, x)
  BY <1>1, <1>3, RequestOfStatus DEF RequestsBacked, Live
<1>5. votes \in Ballotings
  <2>1. PICK S \in SUBSET Names : x.votes \in [S -> Opinions]
    BY <1>4, RequestTypes DEF Ballotings
  <2>2. votes \in [S \cup {a} -> Opinions] /\ S \cup {a} \in SUBSET Names
    BY <1>1, <2>1, AccountsAssumption
  <2> QED
    BY <2>2 DEF Ballotings
<1>6. new \in Requests
  BY <1>2, <1>4, <1>5 DEF Requests
<1>7. /\ new.status = x.status /\ new.worker = x.worker /\ new.payout_amount = x.payout_amount
  BY <1>2, <1>4 DEF Requests
<1>8. Granted(Current, new)
  BY <1>3, <1>4, <1>7 DEF Granted
<1> QED
  BY <1>3, <1>6, <1>8, RequestChangedStep

LEMMA CommitteeOperationStep ==
    ASSUME Formed(Current), RequestsBacked, now \in Nat, CommitteeOperation
    PROVE  Rewards(Current, Current', 0, 0) /\ RequestsBacked'
<1>1. \/ \E a \in Actors, w \in Workers, n \in Tokens, d \in Periods :
             CreateRequest(a, w, n - 1, n, d)
      \/ \E r \in RequestIds :
             \/ CancelRequest(r)
             \/ \E a \in Users, p \in Opinions : VoteRequest(a, r, p)
  BY Zenon DEF CommitteeOperation
<1>2. ASSUME NEW a \in Actors, NEW w \in Workers, NEW n \in Tokens, NEW d \in Periods,
             CreateRequest(a, w, n - 1, n, d)
      PROVE  Rewards(Current, Current', 0, 0) /\ RequestsBacked'
  <2>1. PICK k : k = n - 1
    OBVIOUS
  <2>2. a \in Users /\ w \in Users /\ n \in Nat /\ k \in Nat /\ d \in Nat
    BY <2>1, LedgerAssumption
  <2>3. CreateRequest(a, w, k, n, d)
    BY <1>2, <2>1
  <2> QED
    BY <2>2, <2>3, CreateRequestStep
<1> QED
  BY <1>1, <1>2, CancelRequestStep, VoteRequestStep

(* Nobody votes with shares that are not there.                            *)
EffectiveNat == \A a \in Names : EffectiveShares(Current, a) \in Nat

LEMMA WeightAtMost ==
    ASSUME NEW e, e \in Nat, NEW p, p \in -Full..Full
    PROVE  TruncDiv(e * p, Full) \in Int /\ TruncDiv(e * p, Full) <= e
<1>1. Full \in Nat \ {0} /\ p \in Int /\ p <= Full
  BY AccountsAssumption
<1>2. PICK d : d = e * p
  OBVIOUS
<1>3. d \in Int
  BY <1>1, <1>2
<1>4. TruncDiv(d, Full) \in Int
  BY <1>1, <1>3, TruncDivInt
<1>5. CASE d >= 0
  <2>1. d \in Nat /\ TruncDiv(d, Full) = d \div Full
    BY <1>3, <1>5 DEF TruncDiv
  <2>2. d <= Full * e
    <3>1. Full - p \in Nat
      BY <1>1
    <3>2. PICK q \in Nat : q = Full - p
      BY <3>1
    <3>3. e * q \in Nat
      BY <3>2
    <3>4. e * Full - e * p = e * q
      BY <1>1, <3>2
    <3>5. e * Full \in Int /\ e * Full = Full * e
      BY <1>1
    <3> QED
      BY <1>2, <1>3, <3>3, <3>4, <3>5
  <2>3. d \div Full <= e
    BY <1>1, <2>1, <2>2, QuotientAtMost
  <2> QED
    BY <1>2, <1>4, <2>1, <2>3
<1>6. CASE ~(d >= 0)
  <2>1. -d \in Nat /\ TruncDiv(d, Full) = -((-d) \div Full)
    BY <1>3, <1>6 DEF TruncDiv
  <2>2. PICK k \in Nat : k = -d
    BY <2>1
  <2>3. k \div Full \in Nat
    BY <1>1, <2>2, Quotient
  <2> QED
    BY <1>2, <1>4, <2>1, <2>2, <2>3
<1> QED
  BY <1>5, <1>6

LEMMA PaymentNat ==
    ASSUME RequestsBacked, EffectiveNat, NEW r \in RequestIds, requests[r].status = "open"
    PROVE  Conclusion(r).amount \in Nat /\ Conclusion(r).status \in {"few", "refused", "approved"}
<1>1. PICK x : x = requests[r]
  OBVIOUS
<1>2. x \in Requests
  BY <1>1, RequestOfStatus DEF RequestsBacked
<1>3. PICK S \in SUBSET Names : x.votes \in [S -> Opinions]
  BY <1>2, RequestTypes DEF Ballotings
<1>4. PICK f, g : /\ f = [v \in S |-> EffectiveShares(Current, v)]
                  /\ g = [v \in S |-> TruncDiv(EffectiveShares(Current, v) * x.votes[v], Full)]
  OBVIOUS
<1>5. IsFiniteSet(S) /\ DOMAIN x.votes = S
  BY <1>3, AccountsAssumption, FS_Subset
<1>6. f \in [S -> Nat] /\ f \in [S -> Int]
  BY <1>3, <1>4 DEF EffectiveNat
<1>7. ASSUME NEW v \in S PROVE g[v] \in Int /\ g[v] <= f[v]
  <2>1. PICK e : e = EffectiveShares(Current, v)
    OBVIOUS
  <2>2. e \in Nat /\ x.votes[v] \in -Full..Full
    BY <1>3, <2>1, LedgerAssumption DEF EffectiveNat
  <2> QED
    BY <1>4, <2>1, <2>2, WeightAtMost
<1>8. g \in [S -> Int]
  BY <1>4, <1>7
<1>9. MaxRshares(r) = SumFunction(f) /\ ActualRshares(r) = SumFunction(g)
  BY <1>1, <1>4, <1>5 DEF MaxRshares, ActualRshares
<1>10. PICK M, A : M = MaxRshares(r) /\ A = ActualRshares(r)
  OBVIOUS
<1>11. M \in Nat
  BY <1>5, <1>6, <1>9, <1>10, SumOfNats
<1>12. A \in Int
  BY <1>5, <1>8, <1>9, <1>10, SumOfInts
<1>13. A <= M
  BY <1>5, <1>6, <1>7, <1>8, <1>9, <1>10, SumGrows
<1>14. ASSUME ~(A <= 0) PROVE CalculatedPayment(r) \in Nat
  <2>1. A \in Nat /\ M \in Nat \ {0} /\ Full \in Nat \ {0} /\ x.required_amount_max \in Nat
    BY <1>2, <1>11, <1>12, <1>13, <1>14, RequestTypes, AccountsAssumption
  <2>2. PICK q : q = (Full * A) \div M
    OBVIOUS
  <2>3. Full * A \in Nat
    BY <2>1
  <2>4. q \in Nat
    BY <2>1, <2>2, <2>3, Quotient
  <2>5. x.required_amount_max * q \in Nat
    BY <2>1, <2>4
  <2>6. (x.required_amount_max * q) \div Full \in Nat
    BY <2>1, <2>5, Quotient
  <2> QED
    BY <1>1, <1>10, <2>2, <2>6 DEF CalculatedPayment
<1> QED
  BY <1>10, <1>14 DEF Conclusion

Concluded(x, end) ==
    [x EXCEPT !.status = end.status, !.conclusion_time = now,
              !.conclusion_payout_amount = end.amount,
              !.remain_payout_amount = IF end.status = "approved" THEN end.amount ELSE 0]

LEMMA ConcludedType ==
    ASSUME NEW x \in Requests, NEW end, end.amount \in Nat, now \in Nat,
           end.status \in {"few", "refused", "approved"}, NEW y, y = Concluded(x, end)
    PROVE  /\ y \in Requests /\ y.status = end.status /\ y.worker = x.worker
           /\ y.payout_amount = x.payout_amount
           /\ y.conclusion_payout_amount = end.amount
           /\ end.status = "approved" => y.remain_payout_amount = end.amount
<1>1. PICK s, n, k : s = end.status /\ n = end.amount /\ k = IF s = "approved" THEN n ELSE 0
  OBVIOUS
<1>2. n \in Nat /\ k \in Nat /\ s \in {"few", "refused", "approved"}
  BY <1>1
<1>3. y = [x EXCEPT !.status = s, !.conclusion_time = now,
                    !.conclusion_payout_amount = n, !.remain_payout_amount = k]
  BY <1>1 DEF Concluded
<1>4. y \in Requests
  BY <1>2, <1>3 DEF Requests
<1>5. /\ y.status = s /\ y.worker = x.worker /\ y.payout_amount = x.payout_amount
      /\ y.conclusion_payout_amount = n /\ y.remain_payout_amount = k
  BY <1>3 DEF Requests
<1> QED
  BY <1>1, <1>4, <1>5

LEMMA ConcludeRequestStep ==
    ASSUME Formed(Current), RequestsBacked, EffectiveNat, now \in Nat, ConcludeRequest
    PROVE  Rewards(Current, Current', 0, 0) /\ RequestsBacked'
<1>1. PICK r \in DueRequests :
         LET end == Conclusion(r)
         IN  /\ requests' = [requests EXCEPT
                  ![r].status = end.status,
                  ![r].conclusion_time = now,
                  ![r].conclusion_payout_amount = end.amount,
                  ![r].remain_payout_amount =
                      IF end.status = "approved" THEN end.amount ELSE 0]
             /\ UNCHANGED requestCount
             /\ UNCHANGED accountVars
  BY DEF ConcludeRequest
<1>2. r \in RequestIds /\ requests[r].status = "open"
  BY DEF DueRequests, WithStatus
<1>3. PICK x, end, new : x = requests[r] /\ end = Conclusion(r) /\ new = Concluded(x, end)
  OBVIOUS
<1>4. /\ requests' = [requests EXCEPT ![r] = new]
      /\ UNCHANGED requestCount /\ UNCHANGED accountVars
  BY <1>1, <1>2, <1>3 DEF Concluded, RequestsBacked, RequestsTyped
<1>5. x \in Requests /\ Granted(Current, x)
  BY <1>2, <1>3, RequestOfStatus DEF RequestsBacked, Live
<1>6. end.amount \in Nat /\ end.status \in {"few", "refused", "approved"}
  BY <1>2, <1>3, PaymentNat
<1>7. /\ new \in Requests /\ new.status = end.status /\ new.worker = x.worker
      /\ new.payout_amount = x.payout_amount
      /\ new.conclusion_payout_amount = end.amount
      /\ end.status = "approved" => new.remain_payout_amount = end.amount
  BY <1>3, <1>5, <1>6, ConcludedType
<1>8. Granted(Current, new)
  BY <1>2, <1>3, <1>5, <1>6, <1>7 DEF Granted
<1> QED
  BY <1>2, <1>4, <1>7, <1>8, RequestChangedStep

LEMMA ClearClosedRequestsStep ==
    ASSUME RequestsBacked, Grows(Current, Current'), ClearClosedRequests
    PROVE  RequestsBacked'
<1>1. \A r \in RequestIds : requests'[r] = NoRequest \/ requests'[r] = requests[r]
  BY DEF ClearClosedRequests
<1>2. RequestsTyped'
  BY <1>1 DEF ClearClosedRequests, RequestsBacked, RequestsTyped
<1>3. ASSUME NEW r \in Live' PROVE Granted(Current', requests'[r])
  <2>1. r \in RequestIds /\ requests'[r].status # "none"
    BY DEF Live
  <2>2. requests'[r] = requests[r]
    BY <1>1, <2>1 DEF NoRequest
  <2>3. r \in Live /\ requests[r] \in Requests
    BY <2>1, <2>2, RequestOfStatus DEF RequestsBacked, Live
  <2>4. Granted(Current, requests[r])
    BY <2>3 DEF RequestsBacked
  <2> QED
    BY <2>2, <2>3, <2>4, GrantedGrows
<1> QED
  BY <1>2, <1>3 DEF RequestsBacked

(* Many accounts are paid at once.                                         *)
Credited(l, c) == [l EXCEPT !.acc = [a \in Names |-> WithBalance(l.acc[a], l.acc[a].balance + c[a])]]

LEMMA SameBalance ==
    ASSUME NEW x \in Account
    PROVE  WithBalance(x, x.balance + 0) = x
<1>1. x.balance \in Int
  BY DEF Account
<1>2. x.balance + 0 = x.balance
  BY <1>1
<1> QED
  BY <1>2 DEF WithBalance, Account

LEMMA CreditedRewards ==
    ASSUME NEW l, Formed(l), NEW c \in [Names -> Nat],
           \A a \in Names : ~l.acc[a].exists => c[a] = 0, NEW m, m = Credited(l, c)
    PROVE  Rewards(l, m, 0, SumFunction(c)) /\ m.dgp = l.dgp /\ SumFunction(c) \in Nat
<1>1. l \in Ledgers
  BY DEF Formed
<1>2. ASSUME NEW a \in Names
      PROVE  /\ m.acc[a] = WithBalance(l.acc[a], l.acc[a].balance + c[a])
             /\ m.acc[a] \in Account
             /\ m.acc[a].balance = l.acc[a].balance + c[a]
             /\ \A f \in AccountFields \ {"balance"} : m.acc[a][f] = l.acc[a][f]
             /\ l.acc[a].balance \in Int /\ c[a] \in Nat
  <2>1. PICK x, n : x = l.acc[a] /\ n = l.acc[a].balance + c[a]
    OBVIOUS
  <2>2. x \in Account /\ l.acc[a].balance \in Int /\ n \in Int
    BY <1>1, <2>1, AccountTypes
  <2>3. m.acc[a] = WithBalance(x, n)
    BY <1>1, <2>1 DEF Credited, Ledgers
  <2>4. /\ m.acc[a] \in Account /\ m.acc[a].balance = n
        /\ \A f \in AccountFields \ {"balance"} : m.acc[a][f] = x[f]
    BY <2>2, <2>3, BalanceReplaced, SMTT(40)
  <2> QED
    BY <2>1, <2>2, <2>3, <2>4
<1>3. /\ m.dgp = l.dgp /\ m.val = l.val /\ m.ballots = l.ballots
      /\ m.acc = [a \in Names |-> m.acc[a]]
  BY <1>1 DEF Credited, Ledgers
<1>4. m.acc \in [Names -> Account]
  BY <1>2, <1>3
<1>5. m \in Ledgers
  BY <1>1, <1>4 DEF Credited, Ledgers
<1>6. KeepsBut(l, m, {"balance"})
  BY <1>2 DEF KeepsBut, Keeps
<1>7. \A a \in Names : /\ m.acc[a].exists = l.acc[a].exists
                       /\ m.acc[a].reserved_balance = l.acc[a].reserved_balance
                       /\ m.acc[a].vesting_shares = l.acc[a].vesting_shares
  BY <1>2 DEF AccountFields
<1>8. \A a \in Names : ~m.acc[a].exists => m.acc[a] = l.acc[a]
  BY <1>1, <1>2, <1>7, SameBalance, AccountTypes
<1>9. Formed(m)
  <2>1. Keeps(l, m, {"proxy"}) /\ Grows(l, m) /\ Priced(m)
    BY <1>3, <1>6, <1>7 DEF KeepsBut, Keeps, AccountFields, Grows, Priced, Formed
  <2> QED
    BY <1>3, <1>5, <1>8, <2>1, FormsAgain
<1>10. AccountShares(m) = AccountShares(l)
  <2>1. [a \in Names |-> m.acc[a].vesting_shares] = [a \in Names |-> l.acc[a].vesting_shares]
    BY <1>7
  <2> QED
    BY <2>1 DEF AccountShares
<1>11. AccountTokens(m) = AccountTokens(l) + SumFunction(c)
  <2>1. PICK f, h : /\ f = [a \in Names |-> l.acc[a].balance + l.acc[a].reserved_balance]
                    /\ h = [a \in Names |-> m.acc[a].balance + m.acc[a].reserved_balance]
    OBVIOUS
  <2>2. \A a \in Names : l.acc[a].reserved_balance \in Int
    BY <1>1, AccountTypes
  <2>3. f \in [Names -> Int] /\ h \in [Names -> Int] /\ c \in [Names -> Int]
    BY <1>2, <1>7, <2>1, <2>2
  <2>4. \A a \in Names : h[a] = f[a] + c[a]
    BY <1>2, <1>7, <2>1, <2>2
  <2>5. SumFunction(h) = SumFunction(f) + SumFunction(c)
    BY <2>3, <2>4, AccountsAssumption, SumAdded
  <2> QED
    BY <2>1, <2>5 DEF AccountTokens
<1>12. SumFunction(c) \in Nat
  BY AccountsAssumption, SumOfNats
<1>13. FundTokens(m) = FundTokens(l)
  BY <1>3 DEF FundTokens
<1>14. /\ AccountTokens(l) \in Int /\ FundTokens(l) \in Int /\ l.dgp.current_supply \in Int
  BY <1>1, SumTypes, TotalTypes
<1>15. Gap(m) = Gap(l) /\ Surplus(m) = Surplus(l) + SumFunction(c)
  BY <1>3, <1>10, <1>11, <1>12, <1>13, <1>14 DEF Gap, Surplus
<1>16. Moves(l, m, SumFunction(c))
  <2>1. SameStakes(l, m)
    BY <1>2 DEF SameStakes, AccountFields
  <2>2. Carries(l, m)
    BY <1>1, <1>5, <2>1, SameCarries
  <2> QED
    BY <1>7, <1>9, <1>15, <2>2 DEF Moves, Shifts, Grows
<1>17. Keeps(l, m, SteadyFields)
  BY <1>6 DEF KeepsBut, Keeps, AccountFields, SteadyFields
<1>18. Saves(l, m)
  BY <1>2, AccountsAssumption DEF Saves
<1>19. m.dgp.total_reward_shares = l.dgp.total_reward_shares + 0
  BY <1>1, <1>3, TotalTypes
<1>20. \A a \in Names : m.acc[a].vesting_shares >= l.acc[a].vesting_shares
  BY <1>1, <1>7, AccountTypes
<1> QED
  BY <1>3, <1>12, <1>16, <1>17, <1>18, <1>19, <1>20 DEF Rewards

LEMMA FundReplaced ==
    ASSUME NEW t \in Totals, NEW n, n \in Nat, NEW u, u = WithFund(t, n)
    PROVE  /\ SameStake(t, u) /\ u.committee_fund = n
           /\ u.current_supply = t.current_supply
           /\ u.total_reward_fund = t.total_reward_fund
           /\ u.total_reward_shares = t.total_reward_shares
<1>1. u \in Totals /\ u.committee_fund = n
  BY DEF WithFund, Totals
<1>2. /\ u.total_vesting_fund = t.total_vesting_fund
      /\ u.total_vesting_shares = t.total_vesting_shares
  BY DEF WithFund, Totals
<1>3. /\ u.current_supply = t.current_supply
      /\ u.total_reward_fund = t.total_reward_fund
      /\ u.total_reward_shares = t.total_reward_shares
  BY DEF WithFund, Totals
<1> QED
  BY <1>1, <1>2, <1>3 DEF SameStake

(* Tokens are taken from the fund of the committee.                        *)
LEMMA FundSpent ==
    ASSUME NEW l, Formed(l), NEW n, n \in Nat, n <= l.dgp.committee_fund,
           NEW m, m = SetTotals(l, WithFund(l.dgp, l.dgp.committee_fund - n))
    PROVE  Rewards(l, m, 0, 0 - n)
<1>1. PICK t, k, u : t = l.dgp /\ k = t.committee_fund - n /\ u = WithFund(t, k)
  OBVIOUS
<1>2. /\ t \in Totals /\ t.committee_fund \in Nat /\ k \in Nat
      /\ t.current_supply \in Int /\ t.total_reward_fund \in Nat /\ t.total_reward_shares \in Nat
  BY <1>1, TotalTypes DEF Formed
<1>3. /\ SameStake(t, u) /\ u.committee_fund = k
      /\ u.current_supply = t.current_supply
      /\ u.total_reward_fund = t.total_reward_fund
      /\ u.total_reward_shares = t.total_reward_shares
  BY <1>1, <1>2, FundReplaced
<1>4. m = SetTotals(l, u)
  BY <1>1
<1>5. /\ Moves(l, m, Purse(u) - Purse(l.dgp))
      /\ m.acc = l.acc /\ m.dgp = u /\ m.val = l.val /\ m.ballots = l.ballots
  BY <1>1, <1>3, <1>4, TotalsMoves
<1>6. Purse(u) - Purse(l.dgp) = 0 - n
  BY <1>1, <1>2, <1>3 DEF Purse
<1>7. m.dgp.total_reward_shares = l.dgp.total_reward_shares
  BY <1>1, <1>3, <1>5
<1> QED
  BY <1>5, <1>6, <1>7, SameAccountsRewards

LEMMA InstalmentNat ==
    ASSUME Formed(Current), RequestsTyped, NEW r \in WithStatus("approved"),
           NEW P, P = WithStatus("approved")
    PROVE  /\ r \in RequestIds /\ requests[r] \in Requests
           /\ Instalment(r) \in Nat /\ Instalment(r) <= requests[r].remain_payout_amount
           /\ dgp.committee_fund \in Nat /\ IsFiniteSet(P) /\ Cardinality(P) \in Nat
           /\ dgp.committee_fund \div (Cardinality(P) + 1) \in Nat
           /\ Instalment(r) <= dgp.committee_fund \div (Cardinality(P) + 1)
<1>1. r \in RequestIds /\ requests[r].status = "approved" /\ P \subseteq RequestIds
  BY DEF WithStatus
<1>2. requests[r] \in Requests
  BY <1>1, RequestOfStatus
<1>3. requests[r].remain_payout_amount \in Nat
  BY <1>2, RequestTypes
<1>4. Current.dgp.committee_fund \in Nat
  BY TotalTypes DEF Formed
<1>5. dgp.committee_fund \in Nat
  BY <1>4 DEF Current
<1>6. IsFiniteSet(P) /\ Cardinality(P) \in Nat
  BY <1>1, CommitteeAssumption, FS_Subset, FS_CardinalityType
<1>7. PICK q, k, n : /\ k = Cardinality(P) + 1 /\ q = dgp.committee_fund \div k
                     /\ n = requests[r].remain_payout_amount
  OBVIOUS
<1>8. k \in Nat \ {0}
  BY <1>6, <1>7
<1>9. q \in Nat
  BY <1>5, <1>7, <1>8, Quotient
<1>10. Instalment(r) = Min({q, n})
  BY <1>7 DEF Instalment
<1>11. Min({q, n}) = IF q <= n THEN q ELSE n
  BY <1>3, <1>7, <1>9, MinOfTwo
<1>12. Instalment(r) \in Nat /\ Instalment(r) <= n /\ Instalment(r) <= q
  BY <1>3, <1>7, <1>9, <1>10, <1>11
<1> QED
  BY <1>1, <1>2, <1>5, <1>6, <1>7, <1>9, <1>12

(* The instalments of all approved requests fit into the fund.             *)
LEMMA InstalmentsFit ==
    ASSUME Formed(Current), RequestsTyped, NEW P, P = WithStatus("approved"),
           NEW d, d = [r \in P |-> Instalment(r)]
    PROVE  /\ d \in [P -> Nat] /\ IsFiniteSet(P)
           /\ SumFunction(d) \in Nat /\ SumFunction(d) <= dgp.committee_fund
<1>1. P \subseteq RequestIds
  BY DEF WithStatus
<1>2. IsFiniteSet(P) /\ Cardinality(P) \in Nat
  BY <1>1, CommitteeAssumption, FS_Subset, FS_CardinalityType
<1>3. Current.dgp.committee_fund \in Nat
  BY TotalTypes DEF Formed
<1>4. dgp.committee_fund \in Nat
  BY <1>3 DEF Current
<1>5. PICK c, k, q : c = Cardinality(P) /\ k = c + 1 /\ q = dgp.committee_fund \div k
  OBVIOUS
<1>6. c \in Nat /\ k \in Nat \ {0}
  BY <1>2, <1>5
<1>7. q \in Nat /\ k * q <= dgp.committee_fund
  BY <1>4, <1>5, <1>6, Quotient
<1>8. d \in [P -> Nat] /\ d \in [P -> Int] /\ \A r \in P : d[r] <= q
  BY <1>5, InstalmentNat
<1>9. SumFunction(d) \in Nat
  BY <1>2, <1>8, SumOfNats
<1>10. SumFunction(d) <= q * Cardinality(P)
  BY <1>2, <1>7, <1>8, SumOfBounded
<1>11. SumFunction(d) <= q * c
  BY <1>5, <1>10
<1>12. q * c + q = k * q
  BY <1>5, <1>6, <1>7
<1>13. q * c \in Nat
  BY <1>6, <1>7
<1>14. SumFunction(d) <= dgp.committee_fund
  BY <1>4, <1>7, <1>9, <1>11, <1>12, <1>13
<1> QED
  BY <1>2, <1>8, <1>9, <1>14

PaidRequest(x, n) ==
    [x EXCEPT !.payout_amount = @ + n, !.remain_payout_amount = @ - n,
              !.status = IF x.remain_payout_amount <= n THEN "paid" ELSE @]

LEMMA PaidRequestGranted ==
    ASSUME NEW l, NEW x \in Requests, Granted(l, x), x.status = "approved",
           NEW n, n \in Nat, n <= x.remain_payout_amount, NEW y, y = PaidRequest(x, n)
    PROVE  y \in Requests /\ Granted(l, y)
<1>1. /\ x.remain_payout_amount \in Nat /\ x.payout_amount \in Nat
      /\ x.conclusion_payout_amount \in Nat
  BY RequestTypes
<1>2. PICK p, q, s : /\ p = x.payout_amount + n /\ q = x.remain_payout_amount - n
                     /\ s = IF x.remain_payout_amount <= n THEN "paid" ELSE "approved"
  OBVIOUS
<1>3. p \in Nat /\ q \in Nat /\ s \in {"paid", "approved"}
  BY <1>1, <1>2
<1>4. y = [x EXCEPT !.payout_amount = p, !.remain_payout_amount = q, !.status = s]
  BY <1>2 DEF PaidRequest, Requests
<1>5. y \in Requests
  BY <1>3, <1>4 DEF Requests
<1>6. /\ y.payout_amount = p /\ y.remain_payout_amount = q /\ y.status = s
      /\ y.worker = x.worker /\ y.conclusion_payout_amount = x.conclusion_payout_amount
  BY <1>4 DEF Requests
<1>7. p + q = x.conclusion_payout_amount
  BY <1>1, <1>2 DEF Granted
<1>8. s = "paid" => q = 0
  BY <1>1, <1>2
<1> QED
  BY <1>3, <1>5, <1>6, <1>7, <1>8 DEF Granted

LEMMA PayRequestsStep ==
    ASSUME Formed(Current), RequestsBacked, PayRequests
    PROVE  Rewards(Current, Current', 0, 0) /\ RequestsBacked'
<1>1. PICK l, P, d, w : /\ l = Current /\ P = WithStatus("approved")
                        /\ d = [r \in P |-> Instalment(r)]
                        /\ w = [r \in P |-> requests[r].worker]
  OBVIOUS
<1>2. RequestsTyped
  BY DEF RequestsBacked
<1>3. /\ d \in [P -> Nat] /\ IsFiniteSet(P)
      /\ SumFunction(d) \in Nat /\ SumFunction(d) <= dgp.committee_fund
  BY <1>1, <1>2, InstalmentsFit
<1>4. PICK n : n = SumFunction(d)
  OBVIOUS
<1>5. ASSUME NEW r \in P
      PROVE  /\ r \in RequestIds /\ requests[r] \in Requests /\ requests[r].status = "approved"
             /\ w[r] \in Names /\ l.acc[w[r]].exists /\ Granted(l, requests[r])
             /\ d[r] \in Nat /\ d[r] <= requests[r].remain_payout_amount
  <2>1. /\ r \in RequestIds /\ requests[r] \in Requests
        /\ d[r] \in Nat /\ d[r] <= requests[r].remain_payout_amount
    BY <1>1, <1>2, InstalmentNat
  <2>2. requests[r].status = "approved" /\ r \in Live
    BY <1>1, <2>1 DEF WithStatus, Live
  <2>3. Granted(l, requests[r])
    BY <1>1, <2>2 DEF RequestsBacked
  <2>4. w[r] = requests[r].worker /\ requests[r].worker \in Users
    BY <1>1, <2>1, RequestTypes
  <2> QED
    BY <2>1, <2>2, <2>3, <2>4, AccountsAssumption DEF Granted
<1>6. w \in [P -> Names] /\ d \in [P -> Int]
  BY <1>1, <1>3, <1>5
<1>7. PICK c : c = [a \in Names |-> SumFunction([r \in P |-> IF w[r] = a THEN d[r] ELSE 0])]
  OBVIOUS
<1>8. SumFunction(c) = n
  BY <1>3, <1>4, <1>6, <1>7, AccountsAssumption, SumExchange
<1>9. c \in [Names -> Nat]
  <2>1. ASSUME NEW a \in Names PROVE c[a] \in Nat
    <3>1. PICK f : f = [r \in P |-> IF w[r] = a THEN d[r] ELSE 0]
      OBVIOUS
    <3>2. f \in [P -> Nat]
      BY <1>3, <3>1
    <3> QED
      BY <1>3, <1>7, <3>1, <3>2, SumOfNats
  <2> QED
    BY <1>7, <2>1
<1>10. ASSUME NEW a \in Names, ~l.acc[a].exists PROVE c[a] = 0
  <2>1. PICK f : f = [r \in P |-> IF w[r] = a THEN d[r] ELSE 0]
    OBVIOUS
  <2>2. f \in [P -> Int] /\ \A r \in P : f[r] = 0
    BY <1>3, <1>5, <1>10, <2>1
  <2> QED
    BY <1>3, <1>7, <2>1, <2>2, SumOfZeros
<1>11. PICK k, m : /\ k = Credited(l, c)
                   /\ m = SetTotals(k, WithFund(k.dgp, k.dgp.committee_fund - n))
  OBVIOUS
<1>12. Rewards(l, k, 0, n) /\ k.dgp = l.dgp
  BY <1>1, <1>8, <1>9, <1>10, <1>11, CreditedRewards
<1>13. n \in Nat /\ n <= k.dgp.committee_fund /\ Formed(k)
  BY <1>1, <1>3, <1>4, <1>12 DEF Current, Rewards, Moves, Shifts
<1>14. Rewards(k, m, 0, 0 - n)
  BY <1>11, <1>13, FundSpent
<1>15. PICK e \in Int : e = 0 - n
  BY <1>13
<1>16. Rewards(l, m, 0, 0)
  <2>1. Rewards(k, m, 0, e) /\ Formed(l) /\ n \in Int /\ 0 \in Int
    BY <1>1, <1>13, <1>14, <1>15
  <2>2. Rewards(l, m, 0 + 0, n + e)
    BY <1>12, <2>1, RewardsTransitive
  <2>3. 0 + 0 = 0 /\ n + e = 0
    BY <1>13, <1>15
  <2> QED
    BY <2>2, <2>3
<1>17. Rewards(l, m, 0, 0)
  BY <1>16
<1>18. Becomes(m)
  <2>1. Becomes([Current EXCEPT
              !.acc = [a \in Names |-> [acc[a] EXCEPT !.balance = @ +
                          SumFunction([r \in P |-> IF requests[r].worker = a
                                                     THEN Instalment(r) ELSE 0])]],
              !.dgp.committee_fund =
                  @ - SumFunction([r \in P |-> Instalment(r)])])
    BY <1>1 DEF PayRequests
  <2>2. \A a \in Names : c[a] = SumFunction([r \in P |-> IF requests[r].worker = a
                                                     THEN Instalment(r) ELSE 0])
    <3>1. ASSUME NEW a \in Names
          PROVE  [r \in P |-> IF w[r] = a THEN d[r] ELSE 0]
                    = [r \in P |-> IF requests[r].worker = a THEN Instalment(r) ELSE 0]
      BY <1>1
    <3> QED
      BY <1>7, <3>1
  <2>3. PICK A : A = [a \in Names |-> [acc[a] EXCEPT !.balance = @ +
                          SumFunction([r \in P |-> IF requests[r].worker = a
                                                     THEN Instalment(r) ELSE 0])]]
    OBVIOUS
  <2>4. Becomes([Current EXCEPT !.acc = A, !.dgp.committee_fund = @ - n])
    BY <1>1, <1>4, <2>1, <2>3
  <2>5. acc' = A /\ dgp' = [dgp EXCEPT !.committee_fund = @ - n] /\ val' = val /\ ballots' = ballots
    BY <2>4 DEF Becomes, Current
  <2>6. \A a \in Names : l.acc[a] \in Account
    BY <1>1, AccountTypes DEF Formed
  <2>7. \A a \in Names : A[a] = WithBalance(l.acc[a], l.acc[a].balance + c[a])
    BY <1>1, <2>2, <2>3, <2>6 DEF WithBalance, Account, Current
  <2>8. A = [a \in Names |-> WithBalance(l.acc[a], l.acc[a].balance + c[a])]
    BY <2>3, <2>7
  <2>9. k.acc = A /\ k.val = val /\ k.ballots = ballots /\ k.dgp = dgp
    BY <1>1, <1>11, <2>8 DEF Credited, Current
  <2>10. m.acc = A /\ m.val = val /\ m.ballots = ballots
         /\ m.dgp = WithFund(dgp, dgp.committee_fund - n)
    BY <1>11, <1>13, <2>9 DEF SetTotals, Formed, Ledgers
  <2>11. dgp \in Totals
    BY <1>1, TotalTypes DEF Formed, Current
  <2>12. dgp' = WithFund(dgp, dgp.committee_fund - n)
    BY <2>5, <2>11 DEF WithFund, Totals
  <2> QED
    BY <2>5, <2>10, <2>12 DEF Becomes
<1>19. Current' = m
  BY <1>17, <1>18, BecomesNext DEF Rewards, Moves, Shifts, Formed
<1>20. Rewards(Current, Current', 0, 0)
  BY <1>1, <1>17, <1>19
<1>21. Grows(Current, Current')
  BY <1>20, RewardsGrows
<1>22. ASSUME NEW r \in RequestIds
       PROVE  requests'[r] = IF r \in P THEN PaidRequest(requests[r], d[r]) ELSE requests[r]
  BY <1>1 DEF PayRequests, PaidRequest
<1>23. ASSUME NEW r \in RequestIds, requests'[r].status # "none"
       PROVE  requests'[r] \in Requests /\ Granted(Current, requests'[r])
  <2>1. CASE r \in P
    BY <1>1, <1>5, <1>22, <2>1, PaidRequestGranted
  <2>2. CASE r \notin P
    <3>1. requests'[r] = requests[r]
      BY <1>22, <2>2
    <3> QED
      BY <1>2, <1>23, <3>1, RequestOfStatus DEF RequestsBacked, Live
  <2> QED
    BY <2>1, <2>2
<1>24. RequestsTyped'
  <2>1. ASSUME NEW r \in RequestIds PROVE requests'[r] \in {NoRequest} \cup Requests
    <3>1. CASE r \in P
      BY <1>1, <1>5, <1>22, <3>1, PaidRequestGranted
    <3>2. CASE r \notin P
      BY <1>2, <1>22, <3>2 DEF RequestsTyped
    <3> QED
      BY <3>1, <3>2
  <2>2. requests' = [r \in RequestIds |-> requests'[r]] /\ requestCount' = requestCount
    BY DEF PayRequests
  <2> QED
    BY <1>2, <2>1, <2>2 DEF RequestsTyped
<1>25. RequestsBacked'
  BY <1>21, <1>23, <1>24, GrantedGrows DEF RequestsBacked, Live
<1> QED
  BY <1>20, <1>25

----------------------------------------------------------------------------
(* The sale of accounts.                                                   *)

Auctions == [account_on_auction : BOOLEAN, current_bid : Nat,
             current_bidder : Users \cup {Nobody}, last_bid : Nat]

Sales == [account_seller : Users \cup {Nobody}, account_offer_price : Nat,
          account_on_sale : BOOLEAN, account_on_sale_start_time : Nat,
          target_buyer : Users \cup {Nobody}, auction : Auctions,
          subaccount_seller : Users \cup {Nobody}, subaccount_offer_price : Nat,
          subaccount_on_sale : BOOLEAN]

(* What account b has bid in an auction.                                   *)
BidIn(x, b) == IF x.current_bidder = b THEN x.current_bid ELSE 0

(* A bid stands in an auction that will end, and is of an account that     *)
(* exists; so are those who sell.                                          *)
Payable(l, x) ==
    /\ x.auction.current_bidder # Nobody =>
          x.auction.account_on_auction /\ l.acc[x.auction.current_bidder].exists
    /\ x.account_on_sale => x.account_seller # Nobody /\ l.acc[x.account_seller].exists
    /\ x.subaccount_on_sale => x.subaccount_seller # Nobody /\ l.acc[x.subaccount_seller].exists

SalesTyped == sale \in [Names -> Sales]

MarketBacked == SalesTyped /\ BidsReserved /\ \A a \in Names : Payable(Current, sale[a])

LEMMA UsersNamed == Users \subseteq Names /\ Nobody \notin Names /\ Nobody \notin Users
BY AccountsAssumption

LEMMA AuctionTypes ==
    ASSUME NEW x \in Auctions
    PROVE  /\ x.account_on_auction \in BOOLEAN /\ x.current_bid \in Nat
           /\ x.current_bidder \in Users \cup {Nobody} /\ x.last_bid \in Nat
           /\ \A b : BidIn(x, b) \in Nat
<1>1. x.current_bid \in Nat
  BY DEF Auctions
<1>2. /\ x.account_on_auction \in BOOLEAN
      /\ x.current_bidder \in Users \cup {Nobody} /\ x.last_bid \in Nat
  BY DEF Auctions
<1> QED
  BY <1>1, <1>2 DEF BidIn

LEMMA NoAuctionType ==
    /\ NoAuction \in Auctions /\ NoAuction.current_bidder = Nobody
    /\ \A b \in Names : BidIn(NoAuction, b) = 0
<1>1. NoAuction \in Auctions /\ NoAuction.current_bidder = Nobody
  BY DEF NoAuction, Auctions
<1> QED
  BY <1>1, UsersNamed DEF BidIn

LEMMA SaleTypes ==
    ASSUME NEW x \in Sales
    PROVE  /\ x.account_seller \in Users \cup {Nobody} /\ x.account_offer_price \in Nat
           /\ x.account_on_sale \in BOOLEAN /\ x.account_on_sale_start_time \in Nat
           /\ x.target_buyer \in Users \cup {Nobody} /\ x.auction \in Auctions
           /\ x.subaccount_seller \in Users \cup {Nobody} /\ x.subaccount_offer_price \in Nat
           /\ x.subaccount_on_sale \in BOOLEAN
<1>1. /\ x.account_seller \in Users \cup {Nobody} /\ x.account_offer_price \in Nat
      /\ x.account_on_sale \in BOOLEAN /\ x.account_on_sale_start_time \in Nat
  BY DEF Sales
<1>2. /\ x.target_buyer \in Users \cup {Nobody} /\ x.auction \in Auctions
  BY DEF Sales
<1>3. /\ x.subaccount_seller \in Users \cup {Nobody} /\ x.subaccount_offer_price \in Nat
      /\ x.subaccount_on_sale \in BOOLEAN
  BY DEF Sales
<1> QED
  BY <1>1, <1>2, <1>3

LEMMA PayableGrows ==
    ASSUME NEW l, NEW m, Grows(l, m), NEW x \in Sales, Payable(l, x)
    PROVE  Payable(m, x)
<1>1. /\ x.auction.current_bidder \in Users \cup {Nobody}
      /\ x.account_seller \in Users \cup {Nobody} /\ x.subaccount_seller \in Users \cup {Nobody}
  BY SaleTypes, AuctionTypes
<1> QED
  BY <1>1, UsersNamed DEF Payable, Grows

(* Tokens and bids are moved: from the bids of x to those of y.            *)
TradeFields == SteadyFields \ {"reserved_balance"}
Trades(l, m, x, y) ==
    /\ Moves(l, m, 0) /\ Keeps(l, m, TradeFields) /\ Saves(l, m) /\ m.ballots = l.ballots
    /\ m.dgp.total_reward_shares = l.dgp.total_reward_shares
    /\ \A a \in Names : m.acc[a].vesting_shares >= l.acc[a].vesting_shares
    /\ \A b \in Names : m.acc[b].reserved_balance
                            = l.acc[b].reserved_balance - BidIn(x, b) + BidIn(y, b)

LEMMA TradesTransitive ==
    ASSUME NEW l, Formed(l), NEW m, NEW n, NEW x \in Auctions, NEW y \in Auctions,
           NEW z \in Auctions, Trades(l, m, x, y), Trades(m, n, y, z)
    PROVE  Trades(l, n, x, z)
<1>1. Formed(m) /\ Formed(n)
  BY DEF Trades, Moves, Shifts
<1>2. l \in Ledgers /\ m \in Ledgers /\ n \in Ledgers
  BY <1>1 DEF Formed
<1>3. Moves(l, m, 0) /\ Moves(m, n, 0) /\ 0 \in Int
  BY DEF Trades
<1>4. Moves(l, n, 0 + 0)
  BY <1>3, MovesTransitive
<1>5. Moves(l, n, 0)
  BY <1>4
<1>6. Keeps(l, n, TradeFields)
  BY DEF Trades, Keeps
<1>7. Saves(l, n)
  <2>1. /\ l.acc[Treasury].balance \in Int /\ m.acc[Treasury].balance \in Int
        /\ n.acc[Treasury].balance \in Int
    BY <1>2, AccountTypes, AccountsAssumption
  <2>2. m.acc[Treasury].balance >= l.acc[Treasury].balance
    BY DEF Trades, Saves
  <2>3. n.acc[Treasury].balance >= m.acc[Treasury].balance
    BY DEF Trades, Saves
  <2> QED
    BY <2>1, <2>2, <2>3 DEF Saves
<1>8. n.ballots = l.ballots /\ n.dgp.total_reward_shares = l.dgp.total_reward_shares
  BY DEF Trades
<1>9. \A a \in Names : n.acc[a].vesting_shares >= l.acc[a].vesting_shares
  <2>1. ASSUME NEW a \in Names PROVE n.acc[a].vesting_shares >= l.acc[a].vesting_shares
    <3>1. /\ l.acc[a].vesting_shares \in Nat /\ m.acc[a].vesting_shares \in Nat
          /\ n.acc[a].vesting_shares \in Nat
      BY <1>2, AccountTypes
    <3>2. m.acc[a].vesting_shares >= l.acc[a].vesting_shares
      BY DEF Trades
    <3>3. n.acc[a].vesting_shares >= m.acc[a].vesting_shares
      BY DEF Trades
    <3> QED
      BY <3>1, <3>2, <3>3
  <2> QED
    BY <2>1
<1>10. \A b \in Names : n.acc[b].reserved_balance
                            = l.acc[b].reserved_balance - BidIn(x, b) + BidIn(z, b)
  <2>1. ASSUME NEW b \in Names
        PROVE  n.acc[b].reserved_balance = l.acc[b].reserved_balance - BidIn(x, b) + BidIn(z, b)
    <3>1. /\ l.acc[b].reserved_balance \in Int /\ m.acc[b].reserved_balance \in Int
          /\ n.acc[b].reserved_balance \in Int
      BY <1>2, AccountTypes
    <3>2. BidIn(x, b) \in Nat /\ BidIn(y, b) \in Nat /\ BidIn(z, b) \in Nat
      BY AuctionTypes
    <3>3. m.acc[b].reserved_balance = l.acc[b].reserved_balance - BidIn(x, b) + BidIn(y, b)
      BY DEF Trades
    <3>4. n.acc[b].reserved_balance = m.acc[b].reserved_balance - BidIn(y, b) + BidIn(z, b)
      BY DEF Trades
    <3> QED
      BY <3>1, <3>2, <3>3, <3>4
  <2> QED
    BY <2>1
<1> QED
  BY <1>5, <1>6, <1>7, <1>8, <1>9, <1>10 DEF Trades

LEMMA RewardsTrades ==
    ASSUME NEW l, Formed(l), NEW m, Rewards(l, m, 0, 0), NEW x \in Auctions
    PROVE  Trades(l, m, x, x)
<1>1. Keeps(l, m, TradeFields)
  BY DEF Rewards, Keeps, TradeFields
<1>2. \A b \in Names : m.acc[b].reserved_balance = l.acc[b].reserved_balance
  BY DEF Rewards, Keeps, SteadyFields
<1>3. ASSUME NEW b \in Names
      PROVE  m.acc[b].reserved_balance = l.acc[b].reserved_balance - BidIn(x, b) + BidIn(x, b)
  <2>1. l.acc[b].reserved_balance \in Int
    BY AccountTypes DEF Formed
  <2>2. BidIn(x, b) \in Nat
    BY AuctionTypes
  <2> QED
    BY <1>2, <2>1, <2>2
<1>4. m.dgp.total_reward_shares = l.dgp.total_reward_shares
  <2>1. l.dgp.total_reward_shares \in Nat
    BY TotalTypes DEF Formed
  <2> QED
    BY <2>1 DEF Rewards
<1> QED
  BY <1>1, <1>3, <1>4 DEF Rewards, Trades

----------------------------------------------------------------------------
(* Sales and auctions of accounts.                                        *)

(* The bids and the balance of one account.                                *)
WithBid(x, r, c) == [x EXCEPT !.reserved_balance = r, !.balance = c]
SetBid(l, a, r, c) == [l EXCEPT !.acc[a].reserved_balance = r, !.acc[a].balance = c]

BidFields == {"balance", "reserved_balance"}

LEMMA BidReplaced ==
    ASSUME NEW x \in Account, NEW r, NEW c, r \in Int, c \in Int, NEW y, y = WithBid(x, r, c)
    PROVE  /\ y \in Account /\ y.reserved_balance = r /\ y.balance = c
           /\ \A f \in AccountFields \ BidFields : y[f] = x[f]
BY DEF Account, AccountFields, WithBid, BidFields

LEMMA BidMoves ==
    ASSUME NEW l, Formed(l), NEW a \in Names, l.acc[a].exists,
           NEW r, NEW c, r \in Int, c \in Int, NEW m, m = SetBid(l, a, r, c)
    PROVE  /\ Moves(l, m, (c + r) - (l.acc[a].balance + l.acc[a].reserved_balance))
           /\ KeepsBut(l, m, BidFields)
           /\ m.dgp = l.dgp /\ m.val = l.val /\ m.ballots = l.ballots
           /\ m.acc[a].reserved_balance = r /\ m.acc[a].balance = c
           /\ \A b \in Names : b # a => m.acc[b] = l.acc[b]
<1>0. l \in Ledgers
  BY DEF Formed
<1>1. PICK x, new, g : x = l.acc[a] /\ new = WithBid(x, r, c) /\ g = BidFields
  OBVIOUS
<1>2. x \in Account /\ x.balance \in Int /\ x.reserved_balance \in Int
  BY <1>0, <1>1, AccountTypes
<1>3. m = SetAccount(l, a, new)
  BY <1>0, <1>1 DEF Ledgers, SetAccount, SetBid, WithBid
<1>4. /\ new \in Account /\ new.reserved_balance = r /\ new.balance = c
      /\ \A f \in AccountFields \ g : new[f] = x[f]
  BY <1>1, <1>2, BidReplaced
<1>5. g \subseteq AccountFields \ {"exists", "proxy", "vesting_shares", "proxied_vsf_votes"}
  BY <1>1 DEF AccountFields, BidFields
<1>6. Differs(l.acc[a], new, g)
  BY <1>1, <1>4, <1>5 DEF Differs
<1>7. Changes(l, m, a, new, g)
  BY <1>3, <1>4, <1>6, FieldMoves
<1> QED
  BY <1>1, <1>4, <1>7 DEF Changes

LEMMA KeepsPart ==
    ASSUME NEW l, NEW m, NEW g, KeepsBut(l, m, g), NEW F, F \subseteq AccountFields \ g
    PROVE  Keeps(l, m, F)
BY DEF KeepsBut, Keeps

(* A user locks n tokens in a bid, or gets -n of them back.                *)
LEMMA LockTrades ==
    ASSUME NEW l, Formed(l), NEW a \in Users, l.acc[a].exists, NEW n, n \in Int,
           NEW x \in Auctions, NEW y \in Auctions,
           \A b \in Names : BidIn(y, b) = BidIn(x, b) + (IF b = a THEN n ELSE 0),
           NEW m, m = SetBid(l, a, l.acc[a].reserved_balance + n, l.acc[a].balance - n)
    PROVE  Trades(l, m, x, y)
<1>1. l \in Ledgers /\ a \in Names /\ a # Treasury
  BY UsersMayTake DEF Formed
<1>2. PICK r, c, g : /\ r = l.acc[a].reserved_balance + n /\ c = l.acc[a].balance - n
                     /\ g = BidFields
  OBVIOUS
<1>3. /\ l.acc[a].reserved_balance \in Int /\ l.acc[a].balance \in Int
      /\ r \in Int /\ c \in Int
  BY <1>1, <1>2, AccountTypes
<1>4. /\ Moves(l, m, (c + r) - (l.acc[a].balance + l.acc[a].reserved_balance))
      /\ KeepsBut(l, m, g)
      /\ m.dgp = l.dgp /\ m.val = l.val /\ m.ballots = l.ballots
      /\ m.acc[a].reserved_balance = r
      /\ \A b \in Names : b # a => m.acc[b] = l.acc[b]
  BY <1>1, <1>2, <1>3, BidMoves
<1>5. (c + r) - (l.acc[a].balance + l.acc[a].reserved_balance) = 0
  BY <1>2, <1>3
<1>6. Moves(l, m, 0)
  BY <1>4, <1>5
<1>7. Keeps(l, m, TradeFields)
  <2>1. TradeFields \subseteq AccountFields \ g
    BY <1>2 DEF TradeFields, SteadyFields, AccountFields, BidFields
  <2> QED
    BY <1>4, <2>1, KeepsPart
<1>8. Saves(l, m)
  <2>1. m.acc[Treasury].balance = l.acc[Treasury].balance
    BY <1>1, <1>4, AccountsAssumption
  <2> QED
    BY <1>1, <2>1, SavesSame
<1>9. \A b \in Names : m.acc[b].vesting_shares >= l.acc[b].vesting_shares
  <2>1. ASSUME NEW b \in Names PROVE m.acc[b].vesting_shares = l.acc[b].vesting_shares
    BY <1>2, <1>4 DEF KeepsBut, Keeps, AccountFields, BidFields
  <2>2. ASSUME NEW b \in Names PROVE l.acc[b].vesting_shares \in Nat
    BY <1>1, AccountTypes
  <2> QED
    BY <2>1, <2>2
<1>10. ASSUME NEW b \in Names
       PROVE  m.acc[b].reserved_balance = l.acc[b].reserved_balance - BidIn(x, b) + BidIn(y, b)
  <2>1. l.acc[b].reserved_balance \in Int /\ BidIn(x, b) \in Nat /\ BidIn(y, b) \in Nat
    BY <1>1, AccountTypes, AuctionTypes
  <2>2. CASE b = a
    <3>1. BidIn(y, a) = BidIn(x, a) + n
      BY <2>2
    <3> QED
      BY <1>2, <1>4, <2>1, <2>2, <3>1
  <2>3. CASE b # a
    <3>1. BidIn(y, b) = BidIn(x, b) + 0
      BY <2>3
    <3> QED
      BY <1>4, <2>1, <2>3, <3>1
  <2> QED
    BY <2>2, <2>3
<1> QED
  BY <1>4, <1>6, <1>7, <1>8, <1>9, <1>10 DEF Trades

(* Auctions with the same bids.                                            *)
LEMMA SameBids ==
    ASSUME NEW l, NEW m, NEW x \in Auctions, NEW y \in Auctions, NEW z \in Auctions,
           Trades(l, m, x, x), \A b \in Names : BidIn(y, b) = BidIn(z, b), Formed(l)
    PROVE  Trades(l, m, y, z)
<1>1. ASSUME NEW b \in Names
      PROVE  m.acc[b].reserved_balance = l.acc[b].reserved_balance - BidIn(y, b) + BidIn(z, b)
  <2>1. /\ l.acc[b].reserved_balance \in Int /\ BidIn(x, b) \in Nat /\ BidIn(y, b) \in Nat
        /\ BidIn(z, b) = BidIn(y, b)
    BY AccountTypes, AuctionTypes DEF Formed
  <2>2. m.acc[b].reserved_balance = l.acc[b].reserved_balance - BidIn(x, b) + BidIn(x, b)
    BY DEF Trades
  <2> QED
    BY <2>1, <2>2
<1> QED
  BY <1>1 DEF Trades

(* The bid on an account goes back to its bidder.                          *)
LEMMA ReturnTrades ==
    ASSUME NEW l, Formed(l), SalesTyped, NEW a \in Names, Payable(l, sale[a]),
           NEW m, m = ReturnBid(l, a)
    PROVE  Trades(l, m, sale[a].auction, NoAuction)
<1>1. PICK x : x = sale[a].auction
  OBVIOUS
<1>2. /\ sale[a] \in Sales /\ x \in Auctions /\ NoAuction \in Auctions
      /\ x.current_bid \in Nat /\ x.current_bidder \in Users \cup {Nobody}
      /\ \A b \in Names : BidIn(NoAuction, b) = 0
  BY <1>1, SaleTypes, AuctionTypes, NoAuctionType DEF SalesTyped
<1>3. CASE HasBid(a)
  <2>1. PICK b, n : b = x.current_bidder /\ n = 0 - x.current_bid
    OBVIOUS
  <2>2. b \in Users /\ n \in Int /\ l.acc[b].exists /\ b \in Names
    BY <1>1, <1>2, <1>3, <2>1, UsersNamed DEF HasBid, Payable
  <2>3. l.acc[b].reserved_balance \in Int /\ l.acc[b].balance \in Int
    BY <2>2, AccountTypes DEF Formed
  <2>4. /\ l.acc[b].reserved_balance - x.current_bid = l.acc[b].reserved_balance + n
        /\ l.acc[b].balance + x.current_bid = l.acc[b].balance - n
    BY <1>2, <2>1, <2>3
  <2>5. m = [l EXCEPT !.acc[b].reserved_balance = @ - x.current_bid,
                      !.acc[b].balance = @ + x.current_bid]
    BY <1>1, <1>3, <2>1 DEF ReturnBid
  <2>6. m = SetBid(l, b, l.acc[b].reserved_balance - x.current_bid,
                         l.acc[b].balance + x.current_bid)
    BY <2>2, <2>5 DEF SetBid, Formed, Ledgers, Account
  <2>7. m = SetBid(l, b, l.acc[b].reserved_balance + n, l.acc[b].balance - n)
    BY <2>4, <2>6
  <2>8. \A c \in Names : BidIn(NoAuction, c) = BidIn(x, c) + (IF c = b THEN n ELSE 0)
    BY <1>2, <2>1 DEF BidIn
  <2> QED
    BY <1>1, <1>2, <2>2, <2>7, <2>8, LockTrades
<1>4. CASE ~HasBid(a)
  <2>1. m = l
    BY <1>4 DEF ReturnBid
  <2>2. Rewards(l, m, 0, 0)
    BY <2>1, PaysNothing, PaysRewards
  <2>3. Trades(l, m, x, x)
    BY <1>2, <2>2, RewardsTrades
  <2>4. \A b \in Names : BidIn(x, b) = BidIn(NoAuction, b)
    BY <1>1, <1>2, <1>4, UsersNamed DEF HasBid, BidIn
  <2> QED
    BY <1>1, <1>2, <2>3, <2>4, SameBids
<1> QED
  BY <1>3, <1>4

(* A new bid takes the place of none.                                      *)
LEMMA ReserveTrades ==
    ASSUME NEW l, Formed(l), NEW b \in Users, l.acc[b].exists, NEW n, n \in Nat,
           NEW y \in Auctions, y.current_bidder = b, y.current_bid = n,
           NEW m, m = [l EXCEPT !.acc[b].reserved_balance = @ + n, !.acc[b].balance = @ - n]
    PROVE  Trades(l, m, NoAuction, y)
<1>1. b \in Names /\ l \in Ledgers
  BY UsersNamed DEF Formed
<1>2. m = SetBid(l, b, l.acc[b].reserved_balance + n, l.acc[b].balance - n)
  BY <1>1 DEF SetBid, Ledgers, Account
<1>3. \A c \in Names : BidIn(y, c) = BidIn(NoAuction, c) + (IF c = b THEN n ELSE 0)
  BY <1>1, NoAuctionType DEF BidIn
<1> QED
  BY <1>2, <1>3, NoAuctionType, LockTrades

(* The bid of b is paid to s.                                              *)
LEMMA SoldTrades ==
    ASSUME NEW l, Formed(l), NEW x \in Auctions, NEW b \in Users, b = x.current_bidder,
           l.acc[b].exists, NEW s \in Users, l.acc[s].exists,
           NEW m, m = AdjustBalance(SetReserved(l, b, l.acc[b].reserved_balance - x.current_bid),
                                    s, x.current_bid)
    PROVE  Trades(l, m, x, NoAuction)
<1>1. b \in Names /\ s \in Names /\ s # Treasury /\ l \in Ledgers /\ b # Treasury
  BY UsersMayTake DEF Formed
<1>2. PICK n, r : n = x.current_bid /\ r = l.acc[b].reserved_balance - n
  OBVIOUS
<1>3. n \in Nat /\ l.acc[b].reserved_balance \in Int /\ r \in Int
  BY <1>1, <1>2, AccountTypes, AuctionTypes
<1>4. PICK k, g : k = SetReserved(l, b, r) /\ g = {"reserved_balance"}
  OBVIOUS
<1>5. /\ Moves(l, k, r - l.acc[b].reserved_balance) /\ KeepsBut(l, k, g)
      /\ k.dgp = l.dgp /\ k.val = l.val /\ k.ballots = l.ballots
      /\ k.acc[b].reserved_balance = r
      /\ \A c \in Names : c # b => k.acc[c] = l.acc[c]
  BY <1>1, <1>3, <1>4, ReservedMoves
<1>6. r - l.acc[b].reserved_balance = 0 - n
  BY <1>2, <1>3
<1>7. Formed(k) /\ k \in Ledgers /\ k.acc[s].exists
  BY <1>1, <1>5 DEF Moves, Shifts, Formed, Grows
<1>8. MayTake(s, n) /\ n \in Int /\ m = AdjustBalance(k, s, n)
  BY <1>1, <1>2, <1>3, <1>4 DEF MayTake
<1>9. Pays(k, m, n)
  BY <1>1, <1>7, <1>8, AdjustBalancePays
<1>10. /\ Moves(k, m, n) /\ Keeps(k, m, SteadyFields) /\ m.ballots = k.ballots /\ Saves(k, m)
       /\ m.dgp.total_reward_shares = k.dgp.total_reward_shares
       /\ \A a \in Names : m.acc[a].vesting_shares >= k.acc[a].vesting_shares
  BY <1>9, PaysMoves
<1>11. Moves(l, k, 0 - n) /\ 0 - n \in Int /\ (0 - n) + n = 0
  BY <1>3, <1>5, <1>6
<1>12. Moves(l, m, (0 - n) + n)
  BY <1>8, <1>10, <1>11, MovesTransitive
<1>13. Moves(l, m, 0)
  BY <1>11, <1>12
<1>14. Keeps(l, m, TradeFields)
  <2>1. TradeFields \subseteq AccountFields \ g /\ TradeFields \subseteq SteadyFields
    BY <1>4 DEF TradeFields, SteadyFields, AccountFields
  <2>2. Keeps(l, k, TradeFields)
    BY <1>5, <2>1, KeepsPart
  <2> QED
    BY <1>10, <2>1, <2>2 DEF Keeps
<1>15. Saves(l, m)
  BY <1>1, <1>5, <1>10, AccountsAssumption DEF Saves
<1>16. \A a \in Names : m.acc[a].vesting_shares >= l.acc[a].vesting_shares
  <2>1. ASSUME NEW a \in Names PROVE k.acc[a].vesting_shares = l.acc[a].vesting_shares
    BY <1>4, <1>5 DEF KeepsBut, Keeps, AccountFields
  <2> QED
    BY <1>10, <2>1
<1>17. ASSUME NEW c \in Names
       PROVE  m.acc[c].reserved_balance = l.acc[c].reserved_balance - BidIn(x, c) + BidIn(NoAuction, c)
  <2>1. m.acc[c].reserved_balance = k.acc[c].reserved_balance
    BY <1>10 DEF Keeps, SteadyFields
  <2>2. l.acc[c].reserved_balance \in Int /\ BidIn(NoAuction, c) = 0
    BY <1>1, AccountTypes, NoAuctionType
  <2>3. CASE c = b
    <3>1. BidIn(x, c) = n
      BY <1>2, <2>3 DEF BidIn
    <3> QED
      BY <1>2, <1>3, <1>5, <2>1, <2>2, <2>3, <3>1
  <2>4. CASE c # b
    <3>1. BidIn(x, c) = 0
      BY <2>4 DEF BidIn
    <3> QED
      BY <1>5, <2>1, <2>2, <2>4, <3>1
  <2> QED
    BY <2>3, <2>4
<1> QED
  BY <1>5, <1>10, <1>13, <1>14, <1>15, <1>16, <1>17 DEF Trades

(* A step on one sale.                                                     *)
MarketMoves == MarketBacked' /\ \E x, y \in Auctions : Trades(Current, Current', x, y)

LEMMA MarketReplaced ==
    ASSUME MarketBacked, Formed(Current), NEW a \in Names, NEW new \in Sales,
           sale' = [sale EXCEPT ![a] = new],
           Trades(Current, Current', sale[a].auction, new.auction), Payable(Current', new)
    PROVE  MarketMoves
<1>1. /\ sale \in [Names -> Sales] /\ sale' \in [Names -> Sales] /\ sale'[a] = new
      /\ \A d \in Names : d # a => sale'[d] = sale[d]
  BY DEF MarketBacked, SalesTyped
<1>2. \A d \in Names : sale[d].auction \in Auctions /\ sale'[d].auction \in Auctions
  BY <1>1, SaleTypes
<1>3. Grows(Current, Current')
  BY DEF Trades, Moves, Shifts
<1>4. \A d \in Names : Payable(Current', sale'[d])
  <2>1. ASSUME NEW d \in Names, d # a PROVE Payable(Current', sale'[d])
    BY <1>1, <1>3, <2>1, PayableGrows DEF MarketBacked
  <2> QED
    BY <1>1, <2>1
<1>5. ASSUME NEW b \in Names
      PROVE  acc'[b].reserved_balance = SumFunction([d \in Names |-> BidIn(sale'[d].auction, b)])
  <2>1. PICK f, g : /\ f = [d \in Names |-> BidIn(sale[d].auction, b)]
                    /\ g = [d \in Names |-> BidIn(sale'[d].auction, b)]
    OBVIOUS
  <2>2. /\ f \in [Names -> Int] /\ g \in [Names -> Int]
        /\ \A d \in Names \ {a} : g[d] = f[d]
        /\ f[a] = BidIn(sale[a].auction, b) /\ g[a] = BidIn(new.auction, b)
    BY <1>1, <1>2, <2>1, AuctionTypes
  <2>3. SumFunction(g) = SumFunction(f) - f[a] + g[a]
    BY <2>2, AccountsAssumption, SumChanged
  <2>4. acc[b].reserved_balance = SumFunction(f)
    BY <2>1 DEF MarketBacked, BidsReserved, BidIn
  <2>5. acc'[b].reserved_balance
           = acc[b].reserved_balance - BidIn(sale[a].auction, b) + BidIn(new.auction, b)
    BY DEF Trades, Current
  <2> QED
    BY <2>1, <2>2, <2>3, <2>4, <2>5
<1>6. BidsReserved'
  BY <1>5 DEF BidsReserved, BidIn
<1>7. SalesTyped'
  BY <1>1 DEF SalesTyped
<1>8. MarketBacked'
  BY <1>4, <1>6, <1>7 DEF MarketBacked
<1> QED
  BY <1>1, <1>2, <1>8 DEF MarketMoves

(* Steps that leave the sales alone.                                       *)
LEMMA MarketFrame ==
    ASSUME MarketBacked, UNCHANGED sale, Grows(Current, Current'),
           Keeps(Current, Current', {"reserved_balance"})
    PROVE  MarketBacked'
<1>1. \A b \in Names : acc'[b].reserved_balance = acc[b].reserved_balance
  BY DEF Keeps, Current
<1>2. BidsReserved'
  BY <1>1 DEF MarketBacked, BidsReserved
<1>3. \A d \in Names : Payable(Current', sale'[d])
  BY PayableGrows DEF MarketBacked, SalesTyped
<1> QED
  BY <1>2, <1>3 DEF MarketBacked, SalesTyped

LEMMA BidsAreReserved ==
    ASSUME MarketBacked
    PROVE  BidsReserved /\ AuctionsCanEnd
<1>1. AuctionsCanEnd
  BY DEF MarketBacked, AuctionsCanEnd, Payable, HasBid, Current
<1> QED
  BY <1>1 DEF MarketBacked

(* The fields of an offer are set, those of a sale of subaccounts stay.    *)
Offer(x, seller, price, on, start, target, q) ==
    [x EXCEPT !.account_seller = seller, !.account_offer_price = price,
              !.account_on_sale = on, !.account_on_sale_start_time = start,
              !.target_buyer = target, !.auction = q]

OfferArguments(seller, price, on, start, target, q) ==
    /\ seller \in Users \cup {Nobody} /\ price \in Nat /\ on \in BOOLEAN /\ start \in Nat
    /\ target \in Users \cup {Nobody} /\ q \in Auctions

Offered(y, x, seller, on, q) ==
    /\ y \in Sales /\ y.auction = q /\ y.account_on_sale = on
    /\ y.account_seller = seller
    /\ y.subaccount_on_sale = x.subaccount_on_sale
    /\ y.subaccount_seller = x.subaccount_seller

LEMMA OfferType ==
    ASSUME NEW x \in Sales, NEW seller, NEW price, NEW on, NEW start, NEW target, NEW q,
           OfferArguments(seller, price, on, start, target, q)
    PROVE  Offered(Offer(x, seller, price, on, start, target, q), x, seller, on, q)
<1>1. PICK y : y = Offer(x, seller, price, on, start, target, q)
  OBVIOUS
<1>2. y \in Sales
  BY <1>1 DEF Sales, Offer, OfferArguments
<1> QED
  BY <1>1, <1>2 DEF Sales, Offer, Offered

(* The bid that was there stays, or is returned.                           *)
OfferStep(a, y) ==
    /\ y \in Sales /\ y.auction \in {NoAuction, sale[a].auction}
    /\ y.account_on_sale => y.account_seller \in Users /\ acc[y.account_seller].exists
    /\ y.subaccount_on_sale = sale[a].subaccount_on_sale
    /\ y.subaccount_seller = sale[a].subaccount_seller
    /\ sale' = [sale EXCEPT ![a] = y]
    /\ Trades(Current, Current', sale[a].auction, y.auction)

LEMMA OfferMoves ==
    ASSUME MarketBacked, Formed(Current), NEW a \in Names, NEW y, OfferStep(a, y)
    PROVE  MarketMoves
<1>1. PICK x, l, m : x = sale[a] /\ l = Current /\ m = Current'
  OBVIOUS
<1>2. x \in Sales /\ Payable(l, x) /\ Grows(l, m)
  BY <1>1 DEF MarketBacked, SalesTyped, OfferStep, Trades, Moves, Shifts
<1>3. Payable(m, x)
  BY <1>2, PayableGrows
<1>4. y.account_on_sale => y.account_seller # Nobody /\ m.acc[y.account_seller].exists
  <2>1. y.account_on_sale => y.account_seller \in Users /\ l.acc[y.account_seller].exists
    BY <1>1 DEF OfferStep, Current
  <2> QED
    BY <1>2, <2>1, UsersNamed DEF Grows
<1>5. y.auction.current_bidder # Nobody =>
          y.auction.account_on_auction /\ m.acc[y.auction.current_bidder].exists
  <2>1. y.auction \in {NoAuction, x.auction}
    BY <1>1 DEF OfferStep
  <2> QED
    BY <1>3, <2>1, NoAuctionType DEF Payable
<1>6. Payable(m, y)
  BY <1>1, <1>3, <1>4, <1>5 DEF Payable, OfferStep
<1>7. /\ y \in Sales /\ sale' = [sale EXCEPT ![a] = y]
      /\ Trades(Current, Current', sale[a].auction, y.auction)
  BY DEF OfferStep
<1> QED
  BY <1>1, <1>6, <1>7, MarketReplaced

LEMMA StartTimeNat ==
    ASSUME SalesTyped, NEW a \in Names, now \in Nat
    PROVE  StartTime(a) \in Nat
BY SaleTypes, MarketAssumption DEF StartTime, SalesTyped

LEMMA ListingFeeNat == ASSUME NEW a, NEW b PROVE ListingFee(a, b) \in Nat
BY MarketAssumption DEF ListingFee

(* The fee is paid and the bid returned or not.                            *)
LEMMA ListingTrades ==
    ASSUME MarketBacked, Formed(Current), NEW a \in Users, acc[a].exists, NEW fee, fee \in Nat,
           NEW k, k = Charged(Current, a, fee)
    PROVE  /\ Trades(Current, k, sale[a].auction, sale[a].auction)
           /\ Trades(Current, ReturnBid(k, a), sale[a].auction, NoAuction)
           /\ ~HasBid(a) => ReturnBid(k, a) = k
<1>1. PICK l, x, m : l = Current /\ x = sale[a].auction /\ m = ReturnBid(k, a)
  OBVIOUS
<1>2. a \in Names /\ a # Treasury /\ l.acc[a].exists
  BY <1>1, UsersMayTake DEF Current
<1>3. k = PayCommittee(AdjustBalance(l, a, -fee), fee)
  BY <1>1 DEF Charged
<1>4. Pays(l, k, 0)
  BY <1>1, <1>2, <1>3, FeePays
<1>5. Rewards(l, k, 0, 0)
  BY <1>1, <1>4, PaysRewards
<1>6. SalesTyped /\ sale[a] \in Sales /\ x \in Auctions /\ NoAuction \in Auctions
  BY <1>1, <1>2, SaleTypes, NoAuctionType DEF MarketBacked, SalesTyped
<1>7. Trades(l, k, x, x)
  BY <1>1, <1>5, <1>6, RewardsTrades
<1>8. Grows(l, k) /\ Formed(k)
  BY <1>5 DEF Rewards, Moves, Shifts
<1>9. Payable(k, sale[a])
  BY <1>1, <1>2, <1>6, <1>8, PayableGrows DEF MarketBacked
<1>10. Trades(k, m, x, NoAuction)
  BY <1>1, <1>2, <1>6, <1>8, <1>9, ReturnTrades
<1>11. Trades(l, m, x, NoAuction)
  BY <1>1, <1>6, <1>7, <1>10, TradesTransitive
<1>12. ~HasBid(a) => ReturnBid(k, a) = k
  BY DEF ReturnBid
<1> QED
  BY <1>1, <1>7, <1>11, <1>12

LEMMA TradesNext ==
    ASSUME NEW m, NEW x, NEW y, Trades(Current, m, x, y), Becomes(m)
    PROVE  Trades(Current, Current', x, y) /\ Current' = m
<1>1. m \in Ledgers
  BY DEF Trades, Moves, Shifts, Formed
<1>2. Current' = m
  BY <1>1, BecomesNext
<1> QED
  BY <1>2

(* An offer is made, changed or withdrawn.                                 *)
Relists(a, fee, drop, on, seller, price, start, target) ==
    /\ acc[a].exists /\ acc[seller].exists /\ seller \in Users
    /\ fee \in Nat /\ price \in Nat /\ start \in Nat /\ target \in Users \cup {Nobody}
    /\ drop \in BOOLEAN /\ on \in BOOLEAN
    /\ ~on => drop \/ ~HasBid(a)
    /\ Becomes(IF drop THEN ReturnBid(Charged(Current, a, fee), a)
               ELSE Charged(Current, a, fee))
    /\ sale' = [sale EXCEPT ![a] =
          Offer(sale[a], seller, price, on, start, target,
                IF ~on \/ (drop /\ HasBid(a)) THEN NoAuction ELSE sale[a].auction)]

LEMMA RelistedMoves ==
    ASSUME MarketBacked, Formed(Current), NEW a \in Users, NEW fee, NEW drop, NEW on,
           NEW seller, NEW price, NEW start, NEW target,
           Relists(a, fee, drop, on, seller, price, start, target)
    PROVE  MarketMoves
<1>10. PICK k, z, q : /\ k = Charged(Current, a, fee) /\ z = sale[a]
                     /\ q = (IF ~on \/ (drop /\ HasBid(a)) THEN NoAuction ELSE sale[a].auction)
  OBVIOUS
<1>11. PICK m, y : /\ m = (IF drop THEN ReturnBid(k, a) ELSE k)
                  /\ y = Offer(z, seller, price, on, start, target, q)
  OBVIOUS
<1>12. /\ acc[a].exists /\ acc[seller].exists /\ seller \in Users
       /\ fee \in Nat /\ price \in Nat /\ start \in Nat /\ target \in Users \cup {Nobody}
       /\ drop \in BOOLEAN /\ on \in BOOLEAN
       /\ ~on => drop \/ ~HasBid(a)
       /\ Becomes(m) /\ sale' = [sale EXCEPT ![a] = y]
  BY <1>10, <1>11 DEF Relists
<1>1. PICK x : x = sale[a].auction
  OBVIOUS
<1>2. a \in Names /\ z \in Sales /\ x \in Auctions /\ NoAuction \in Auctions
  BY <1>1, <1>10, UsersNamed, SaleTypes, NoAuctionType DEF MarketBacked, SalesTyped
<1>3. /\ Trades(Current, k, x, x) /\ Trades(Current, ReturnBid(k, a), x, NoAuction)
      /\ ~HasBid(a) => ReturnBid(k, a) = k
  BY <1>1, <1>10, <1>12, ListingTrades
<1>4. Trades(Current, m, x, q)
  <2>1. ASSUME q = NoAuction, m = ReturnBid(k, a) PROVE Trades(Current, m, x, q)
    BY <1>3, <2>1
  <2>2. ASSUME q = x, m = k PROVE Trades(Current, m, x, q)
    BY <1>3, <2>2
  <2>3. CASE ~on
    <3>1. q = NoAuction
      BY <1>10, <2>3
    <3>2. drop \/ ~HasBid(a)
      BY <1>12, <2>3
    <3>3. m = ReturnBid(k, a)
      BY <1>3, <1>11, <3>2
    <3> QED
      BY <2>1, <3>1, <3>3
  <2>4. CASE on /\ drop /\ HasBid(a)
    BY <1>10, <1>11, <2>1, <2>4
  <2>5. CASE on /\ drop /\ ~HasBid(a)
    BY <1>1, <1>3, <1>10, <1>11, <2>2, <2>5
  <2>6. CASE on /\ ~drop
    BY <1>1, <1>10, <1>11, <2>2, <2>6
  <2> QED
    BY <2>3, <2>4, <2>5, <2>6
<1>5. Trades(Current, Current', x, q)
  BY <1>1, <1>4, <1>12, TradesNext
<1>6. q \in Auctions /\ q \in {NoAuction, x} /\ seller \in Users \cup {Nobody}
  BY <1>1, <1>2, <1>10, <1>12
<1>9. OfferArguments(seller, price, on, start, target, q)
  <2>1. /\ seller \in Users \cup {Nobody} /\ price \in Nat /\ start \in Nat
        /\ target \in Users \cup {Nobody} /\ q \in Auctions
    BY <1>6, <1>12
  <2>2. on \in BOOLEAN
    BY <1>12, Zenon
  <2> QED
    BY <2>1, <2>2, Zenon DEF OfferArguments
<1>7. Offered(y, z, seller, on, q)
  BY <1>2, <1>9, <1>11, OfferType
<1>8. OfferStep(a, y)
  BY <1>1, <1>5, <1>6, <1>7, <1>10, <1>12 DEF OfferStep, Offered
<1> QED
  BY <1>2, <1>8, OfferMoves

LEMMA SetAccountPriceStep ==
    ASSUME MarketBacked, Formed(Current), now \in Nat, NEW a \in Users, NEW seller \in Users,
           NEW price, price \in Nat, NEW on \in BOOLEAN, SetAccountPrice(a, seller, price, on)
    PROVE  MarketMoves
<1>1. PICK fee, drop, k, z :
         /\ z = sale[a]
         /\ fee = ListingFee(a, sale[a].account_seller)
         /\ drop = (\/ ~on /\ sale[a].auction.account_on_auction
                    \/ /\ on
                       /\ sale[a].account_offer_price < price
                       /\ sale[a].auction.current_bid < price)
         /\ k = Charged(Current, a, fee)
  OBVIOUS
<1>2. PICK y : y = (IF ~on THEN Delisted(a, seller, price)
                    ELSE IF drop /\ HasBid(a)
                         THEN [Listed(a, seller, price) EXCEPT !.auction = NoAuction]
                    ELSE Listed(a, seller, price))
  OBVIOUS
<1>9. PICK m : m = (IF drop THEN ReturnBid(k, a) ELSE k)
  OBVIOUS
<1>3. /\ acc[a].exists /\ acc[seller].exists /\ Becomes(m)
      /\ sale' = [sale EXCEPT ![a] = y]
  BY <1>1, <1>2, <1>9 DEF SetAccountPrice
<1>4. PICK start, target, q :
         /\ start = (IF on THEN StartTime(a) ELSE 0) /\ target = sale[a].target_buyer
         /\ q = (IF ~on \/ (drop /\ HasBid(a)) THEN NoAuction ELSE sale[a].auction)
  OBVIOUS
<1>5. a \in Names /\ SalesTyped /\ sale[a] \in Sales
  BY UsersNamed DEF MarketBacked, SalesTyped
<1>6. start \in Nat /\ target \in Users \cup {Nobody} /\ drop \in BOOLEAN /\ fee \in Nat
  BY <1>1, <1>4, <1>5, StartTimeNat, SaleTypes, ListingFeeNat
<1>7. y = Offer(z, seller, price, on, start, target, q)
  <2>1. CASE ~on
    BY <1>1, <1>2, <1>4, <1>5, <2>1 DEF Offer, Delisted, Sales
  <2>2. CASE on /\ drop /\ HasBid(a)
    BY <1>1, <1>2, <1>4, <1>5, <2>2 DEF Offer, Listed, Sales
  <2>3. CASE on /\ ~(drop /\ HasBid(a))
    BY <1>1, <1>2, <1>4, <1>5, <2>3 DEF Offer, Listed, Sales
  <2> QED
    BY <2>1, <2>2, <2>3
<1>8. ~on => drop \/ ~HasBid(a)
  BY <1>1, <1>5 DEF HasBid, MarketBacked, Payable
<1>10. Relists(a, fee, drop, on, seller, price, start, target)
  BY <1>1, <1>3, <1>4, <1>6, <1>7, <1>8, <1>9 DEF Relists
<1> QED
  BY <1>10, RelistedMoves

LEMMA TargetAccountSaleStep ==
    ASSUME MarketBacked, Formed(Current), now \in Nat, NEW a \in Users, NEW seller \in Users,
           NEW buyer \in Users, NEW price, price \in Nat, NEW on \in BOOLEAN,
           TargetAccountSale(a, seller, buyer, price, on)
    PROVE  MarketMoves
<1>1. PICK fee, drop, k, z :
         /\ z = sale[a]
         /\ fee = ListingFee(a, sale[a].account_seller)
         /\ drop = TargetDrops(a, buyer, price, on)
         /\ k = Charged(Current, a, fee)
  OBVIOUS
<1>2. PICK y, m : /\ y = (IF ~on
                          THEN [Delisted(a, seller, price) EXCEPT !.target_buyer = Nobody]
                          ELSE IF drop /\ HasBid(a)
                          THEN [[Listed(a, seller, price) EXCEPT !.target_buyer = buyer]
                                    EXCEPT !.auction = NoAuction]
                          ELSE [Listed(a, seller, price) EXCEPT !.target_buyer = buyer])
                  /\ m = (IF drop THEN ReturnBid(k, a) ELSE k)
  OBVIOUS
<1>3. /\ acc[a].exists /\ acc[seller].exists /\ Becomes(m)
      /\ sale' = [sale EXCEPT ![a] = y]
  BY <1>1, <1>2 DEF TargetAccountSale
<1>4. PICK start, target, q :
         /\ start = (IF on THEN StartTime(a) ELSE 0) /\ target = (IF on THEN buyer ELSE Nobody)
         /\ q = (IF ~on \/ (drop /\ HasBid(a)) THEN NoAuction ELSE sale[a].auction)
  OBVIOUS
<1>5. a \in Names /\ SalesTyped /\ z \in Sales
  BY <1>1, UsersNamed DEF MarketBacked, SalesTyped
<1>6. start \in Nat /\ target \in Users \cup {Nobody} /\ fee \in Nat
  BY <1>1, <1>4, <1>5, StartTimeNat, ListingFeeNat
<1>7. drop \in BOOLEAN
  <2>1. z.auction.account_on_auction \in BOOLEAN
    BY <1>5, SaleTypes, AuctionTypes
  <2> QED
    BY <1>1, <2>1 DEF TargetDrops
<1>8. y = Offer(z, seller, price, on, start, target, q)
  <2>1. CASE ~on
    BY <1>1, <1>2, <1>4, <1>5, <2>1 DEF Offer, Delisted, Sales
  <2>2. CASE on /\ drop /\ HasBid(a)
    BY <1>1, <1>2, <1>4, <1>5, <2>2 DEF Offer, Listed, Sales
  <2>3. CASE on /\ ~(drop /\ HasBid(a))
    BY <1>1, <1>2, <1>4, <1>5, <2>3 DEF Offer, Listed, Sales
  <2> QED
    BY <2>1, <2>2, <2>3
<1>9. ~on => drop \/ ~HasBid(a)
  BY <1>1, <1>5 DEF HasBid, MarketBacked, Payable, TargetDrops
<1>10. Relists(a, fee, drop, on, seller, price, start, target)
  BY <1>1, <1>2, <1>3, <1>4, <1>6, <1>7, <1>8, <1>9 DEF Relists
<1> QED
  BY <1>10, RelistedMoves

WithSubaccounts(x, seller, price, on) ==
    [x EXCEPT !.subaccount_seller = seller, !.subaccount_offer_price = price,
              !.subaccount_on_sale = on]

LEMMA SetSubaccountPriceStep ==
    ASSUME MarketBacked, Formed(Current), NEW a \in Users, NEW seller \in Users,
           NEW price, price \in Nat, NEW on \in BOOLEAN, SetSubaccountPrice(a, seller, price, on)
    PROVE  MarketMoves
<1>1. PICK fee, z : fee = ListingFee(a, sale[a].subaccount_seller) /\ z = sale[a]
  OBVIOUS
<1>2. PICK k, y : k = Charged(Current, a, fee) /\ y = WithSubaccounts(z, seller, price, on)
  OBVIOUS
<1>3. a \in Names /\ z \in Sales /\ fee \in Nat /\ Payable(Current, z) /\ z.auction \in Auctions
  BY <1>1, UsersNamed, ListingFeeNat, SaleTypes DEF MarketBacked, SalesTyped
<1>4. /\ acc[a].exists /\ acc[seller].exists /\ Becomes(k)
      /\ sale' = [sale EXCEPT ![a] = y]
  BY <1>1, <1>2, <1>3 DEF SetSubaccountPrice, WithSubaccounts, MarketBacked, SalesTyped, Sales
<1>5. Trades(Current, k, z.auction, z.auction)
  BY <1>1, <1>2, <1>3, <1>4, ListingTrades
<1>6. Trades(Current, Current', z.auction, z.auction)
  BY <1>4, <1>5, TradesNext
<1>7. /\ y \in Sales /\ y.auction = z.auction /\ y.account_on_sale = z.account_on_sale
      /\ y.account_seller = z.account_seller /\ y.subaccount_seller = seller
  BY <1>2, <1>3 DEF Sales, WithSubaccounts
<1>8. Grows(Current, Current')
  BY <1>6 DEF Trades, Moves, Shifts
<1>9. Payable(Current', z)
  BY <1>3, <1>8, PayableGrows
<1>10. Current'.acc[seller].exists /\ seller # Nobody
  BY <1>4, <1>8, UsersNamed DEF Grows, Current
<1>11. Payable(Current', y)
  BY <1>7, <1>9, <1>10 DEF Payable
<1> QED
  BY <1>1, <1>3, <1>4, <1>6, <1>7, <1>11, MarketReplaced

LEMMA BidStep ==
    ASSUME MarketBacked, Formed(Current), now \in Nat, NEW a \in Users, NEW buyer \in Users,
           NEW offer, offer \in Nat, NEW clock, clock \in Nat, Bid(a, buyer, offer, clock)
    PROVE  MarketMoves
<1>1. PICK l, z, x : l = Current /\ z = sale[a] /\ x = sale[a].auction
  OBVIOUS
<1>2. PICK k, q, start :
         /\ k = ReturnBid(l, a)
         /\ q = [account_on_auction |-> TRUE, current_bid |-> offer, current_bidder |-> buyer,
                 last_bid |-> IF x.current_bidder \in {Nobody, buyer}
                              THEN x.last_bid ELSE x.current_bid]
         /\ start = Max({z.account_on_sale_start_time, clock + Extension})
  OBVIOUS
<1>3. PICK m, y : /\ m = [k EXCEPT !.acc[buyer].reserved_balance = @ + offer,
                                   !.acc[buyer].balance = @ - offer]
                  /\ y = Offer(z, z.account_seller, z.account_offer_price, z.account_on_sale,
                               start, z.target_buyer, q)
  OBVIOUS
<1>4. /\ a \in Names /\ SalesTyped /\ z \in Sales /\ x \in Auctions /\ Payable(l, z)
      /\ buyer \in Names
  BY <1>1, UsersNamed, SaleTypes DEF MarketBacked, SalesTyped
<1>5. /\ l.acc[a].exists /\ l.acc[buyer].exists /\ Becomes(m)
  BY <1>1, <1>2, <1>3 DEF Bid, MayBuy, BidAccepted, Current
<1>6. sale' = [sale EXCEPT ![a] = y]
  <2>1. sale' = [sale EXCEPT ![a].account_on_sale_start_time = Max({@, clock + Extension}),
                             ![a].auction = q]
    BY <1>1, <1>2 DEF Bid
  <2>2. y = [z EXCEPT !.account_on_sale_start_time = start, !.auction = q]
    BY <1>3, <1>4 DEF Sales, Offer
  <2>3. sale \in [Names -> Sales]
    BY <1>4 DEF SalesTyped
  <2> QED
    BY <1>1, <1>2, <1>4, <2>1, <2>2, <2>3
<1>7. x.last_bid \in Nat /\ x.current_bid \in Nat /\ clock + Extension \in Nat
      /\ z.account_on_sale_start_time \in Nat
  BY <1>4, AuctionTypes, SaleTypes, MarketAssumption
<1>8. start \in Nat
  <2>1. PICK u, v : u = z.account_on_sale_start_time /\ v = clock + Extension
    OBVIOUS
  <2>2. u \in Nat /\ v \in Nat
    BY <1>7, <2>1
  <2>3. Max({u, v}) = IF u >= v THEN u ELSE v
    BY <2>2, MaxOfTwo
  <2> QED
    BY <1>2, <2>1, <2>2, <2>3
<1>9. q \in Auctions /\ q.current_bidder = buyer /\ q.current_bid = offer /\ q.account_on_auction
  BY <1>2, <1>7 DEF Auctions
<1>10. Trades(l, k, x, NoAuction)
  BY <1>1, <1>2, <1>4, ReturnTrades
<1>11. Formed(k) /\ k.acc[buyer].exists /\ NoAuction \in Auctions
  BY <1>4, <1>5, <1>10, NoAuctionType DEF Trades, Moves, Shifts, Grows
<1>12. Trades(k, m, NoAuction, q)
  BY <1>3, <1>9, <1>11, ReserveTrades
<1>13. Trades(l, m, x, q)
  BY <1>1, <1>4, <1>9, <1>10, <1>11, <1>12, TradesTransitive
<1>14. Trades(Current, Current', x, q)
  BY <1>1, <1>5, <1>13, TradesNext
<1>15. Offered(y, z, z.account_seller, z.account_on_sale, q)
  <2>1. OfferArguments(z.account_seller, z.account_offer_price, z.account_on_sale,
                       start, z.target_buyer, q)
    BY <1>4, <1>8, <1>9, SaleTypes DEF OfferArguments
  <2> QED
    BY <1>3, <1>4, <2>1, OfferType
<1>16. Grows(Current, Current')
  BY <1>14 DEF Trades, Moves, Shifts
<1>17. Payable(Current', z)
  BY <1>1, <1>4, <1>16, PayableGrows
<1>18. Current'.acc[buyer].exists
  BY <1>1, <1>4, <1>5, <1>16 DEF Grows
<1>19. Payable(Current', y)
  BY <1>9, <1>15, <1>17, <1>18 DEF Payable, Offered
<1>20. y \in Sales /\ y.auction = q
  BY <1>15 DEF Offered
<1> QED
  BY <1>1, <1>4, <1>6, <1>14, <1>19, <1>20, MarketReplaced

(* The sale ends; nobody has bid, or the bids have been paid.              *)
LEMMA ClosedMoves ==
    ASSUME MarketBacked, Formed(Current), NEW a \in Names, NEW target, target \in Users \cup {Nobody},
           NEW q, q \in Auctions, q.current_bidder = Nobody,
           NEW y, y = [NoSale EXCEPT !.target_buyer = target, !.auction = q],
           sale' = [sale EXCEPT ![a] = y],
           Trades(Current, Current', sale[a].auction, q)
    PROVE  MarketMoves
<1>1. /\ y \in Sales /\ y.auction = q /\ ~y.account_on_sale /\ ~y.subaccount_on_sale
  BY DEF NoSale, Sales
<1>2. Payable(Current', y)
  BY <1>1 DEF Payable
<1> QED
  BY <1>1, <1>2, MarketReplaced

(* A price is paid, and shares are bought for an account.                  *)
LEMMA PurchasePays ==
    ASSUME NEW l, Formed(l), NEW b \in Users, l.acc[b].exists, NEW s \in Users, l.acc[s].exists,
           NEW n, n \in Nat, NEW m, m = AdjustBalance(AdjustBalance(l, b, -n), s, n)
    PROVE  Pays(l, m, 0) /\ Formed(m) /\ Grows(l, m)
<1>1. b \in Names /\ b # Treasury /\ s \in Names /\ MayTake(s, n) /\ n \in Int
  BY UsersMayTake
<1>2. Pays(l, m, 0)
  BY <1>1, TransferPays
<1> QED
  BY <1>2, PaysExists DEF Grows

LEMMA BuyAccountStep ==
    ASSUME MarketBacked, Formed(Current), NEW a \in Users, NEW buyer \in Users,
           NEW shares, shares \in Nat, BuyAccount(a, buyer, shares)
    PROVE  MarketMoves
<1>1. PICK l, z, x : l = Current /\ z = sale[a] /\ x = sale[a].auction
  OBVIOUS
<1>2. PICK n, s : n = z.account_offer_price /\ s = z.account_seller
  OBVIOUS
<1>3. PICK k, m, y : /\ k = AdjustBalance(AdjustBalance(l, buyer, -n), s, n)
                     /\ m = CreateVesting(AdjustBalance(k, buyer, -shares), a, shares)
                     /\ y = [NoSale EXCEPT !.target_buyer = z.target_buyer, !.auction = x]
  OBVIOUS
<1>4. /\ a \in Names /\ SalesTyped /\ z \in Sales /\ x \in Auctions /\ Payable(l, z)
      /\ buyer \in Names /\ buyer # Treasury /\ n \in Nat /\ s \in Users \cup {Nobody}
      /\ z.target_buyer \in Users \cup {Nobody}
  BY <1>1, <1>2, UsersNamed, UsersMayTake, SaleTypes DEF MarketBacked, SalesTyped
<1>5. /\ l.acc[a].exists /\ l.acc[buyer].exists /\ z.account_on_sale /\ ~HasBid(a)
      /\ Becomes(m) /\ sale' = [sale EXCEPT ![a] = y]
  BY <1>1, <1>2, <1>3 DEF BuyAccount, MayBuy, Current
<1>6. s \in Users /\ l.acc[s].exists
  BY <1>2, <1>4, <1>5 DEF Payable
<1>7. Pays(l, k, 0) /\ Formed(k) /\ Grows(l, k)
  BY <1>1, <1>3, <1>4, <1>5, <1>6, PurchasePays
<1>8. k.acc[buyer].exists /\ k.acc[a].exists
  BY <1>4, <1>5, <1>7 DEF Grows
<1>9. Pays(k, m, 0)
  BY <1>3, <1>4, <1>7, <1>8, VestPays
<1>10. Pays(l, m, 0 + 0)
  BY <1>1, <1>7, <1>9, PaysTransitive
<1>11. Rewards(l, m, 0, 0)
  BY <1>1, <1>10, PaysRewards
<1>12. Trades(l, m, x, x)
  BY <1>1, <1>4, <1>11, RewardsTrades
<1>13. Trades(Current, Current', x, x)
  BY <1>1, <1>5, <1>12, TradesNext
<1>14. x.current_bidder = Nobody
  BY <1>1, <1>5 DEF HasBid
<1>15. PICK t : t = z.target_buyer
  OBVIOUS
<1> QED
  BY <1>1, <1>3, <1>4, <1>5, <1>13, <1>14, <1>15, ClosedMoves

LEMMA BuySubaccountStep ==
    ASSUME MarketBacked, Formed(Current), now \in Nat, NEW a \in Users, NEW new \in Names,
           NEW buyer \in Users, NEW shares, shares \in Nat, BuySubaccount(a, new, buyer, shares)
    PROVE  MarketMoves
<1>1. PICK l, z : l = Current /\ z = sale[a]
  OBVIOUS
<1>2. PICK n, s : n = z.subaccount_offer_price /\ s = z.subaccount_seller
  OBVIOUS
<1>3. PICK k, m : /\ k = AdjustBalance(AdjustBalance(l, buyer, -n), s, n)
                  /\ m = CreateVesting(AdjustBalance(CreateAccount(k, new), buyer, -shares), new, shares)
  OBVIOUS
<1>4. /\ a \in Names /\ SalesTyped /\ z \in Sales /\ Payable(l, z)
      /\ buyer \in Names /\ buyer # Treasury /\ n \in Nat /\ s \in Users \cup {Nobody}
  BY <1>1, <1>2, UsersNamed, UsersMayTake, SaleTypes DEF MarketBacked, SalesTyped
<1>5. /\ l.acc[a].exists /\ l.acc[buyer].exists /\ ~l.acc[new].exists /\ z.subaccount_on_sale
      /\ Becomes(m) /\ UNCHANGED sale
  BY <1>1, <1>2, <1>3 DEF BuySubaccount, Current
<1>6. s \in Users /\ l.acc[s].exists /\ s \in Names
  BY <1>2, <1>4, <1>5, UsersNamed DEF Payable
<1>7. PICK j : j = AdjustBalance(l, buyer, -n)
  OBVIOUS
<1>8. MayTake(buyer, -n) /\ MayTake(s, n) /\ -n \in Int /\ n \in Int
  BY <1>4, <1>6, UsersMayTake
<1>9. Pays(l, j, -n) /\ \A b \in Names : j.acc[b].exists = l.acc[b].exists
  BY <1>1, <1>4, <1>5, <1>7, <1>8, AdjustBalancePays
<1>10. Formed(j) /\ j.acc[s].exists
  BY <1>6, <1>9 DEF Pays, Books
<1>11. \A b \in Names : k.acc[b].exists = j.acc[b].exists
  BY <1>3, <1>6, <1>7, <1>8, <1>10, AdjustBalancePays
<1>12. Pays(l, k, 0) /\ Formed(k) /\ Grows(l, k)
  BY <1>1, <1>3, <1>4, <1>5, <1>6, PurchasePays
<1>13. k.acc[buyer].exists /\ ~k.acc[new].exists
  BY <1>4, <1>5, <1>9, <1>11
<1>14. Pays(k, m, 0)
  BY <1>3, <1>4, <1>12, <1>13, OpenAndVestPays
<1>15. Pays(l, m, 0 + 0)
  BY <1>1, <1>12, <1>14, PaysTransitive
<1>16. Pays(l, m, 0)
  BY <1>15
<1>17. Rewards(Current, Current', 0, 0)
  BY <1>1, <1>5, <1>16, PaidStep
<1>18. Trades(Current, Current', NoAuction, NoAuction) /\ NoAuction \in Auctions
  BY <1>17, RewardsTrades, NoAuctionType
<1>19. Grows(Current, Current') /\ Keeps(Current, Current', {"reserved_balance"})
  BY <1>17 DEF Rewards, Moves, Shifts, Keeps, SteadyFields
<1>20. MarketBacked'
  BY <1>5, <1>19, MarketFrame
<1> QED
  BY <1>18, <1>20 DEF MarketMoves

LEMMA SoldStep ==
    ASSUME MarketBacked, Formed(Current), NEW a \in Names, Sold(a)
    PROVE  MarketMoves
<1>1. PICK l, z, x : l = Current /\ z = sale[a] /\ x = sale[a].auction
  OBVIOUS
<1>2. PICK b, s, n : b = x.current_bidder /\ s = z.account_seller /\ n = x.current_bid
  OBVIOUS
<1>3. /\ SalesTyped /\ z \in Sales /\ x \in Auctions /\ Payable(l, z)
      /\ b \in Users \cup {Nobody} /\ s \in Users \cup {Nobody}
  BY <1>1, <1>2, SaleTypes, AuctionTypes DEF MarketBacked, SalesTyped
<1>4. PICK m : m = AdjustBalance(SetReserved(l, b, l.acc[b].reserved_balance - n), s, n)
  OBVIOUS
<1>5. /\ HasBid(a) /\ z.account_on_sale /\ sale' = [sale EXCEPT ![a] = NoSale]
      /\ Becomes([l EXCEPT !.acc[b].reserved_balance = @ - n, !.acc[s].balance = @ + n])
  BY <1>1, <1>2 DEF Sold, BidWins
<1>6. /\ b \in Users /\ l.acc[b].exists /\ s \in Users /\ l.acc[s].exists
      /\ b \in Names /\ s \in Names
  BY <1>1, <1>2, <1>3, <1>5, UsersNamed DEF HasBid, Payable
<1>7. [l EXCEPT !.acc[b].reserved_balance = @ - n, !.acc[s].balance = @ + n] = m
  <2>1. l \in Ledgers
    BY <1>1 DEF Formed
  <2>2. PICK k : k = SetReserved(l, b, l.acc[b].reserved_balance - n)
    OBVIOUS
  <2>3. k.acc[s].balance = l.acc[s].balance
    <3>1. CASE b = s
      BY <1>6, <2>1, <2>2, <3>1 DEF SetReserved, Ledgers, Account
    <3>2. CASE b # s
      BY <1>6, <2>1, <2>2, <3>2 DEF SetReserved, Ledgers
    <3> QED
      BY <3>1, <3>2
  <2>4. m = [k EXCEPT !.acc[s].balance = l.acc[s].balance + n]
    BY <1>4, <2>2, <2>3 DEF AdjustBalance
  <2>5. k = [l EXCEPT !.acc[b].reserved_balance = l.acc[b].reserved_balance - n]
    BY <2>2 DEF SetReserved
  <2> QED
    BY <2>1, <2>4, <2>5
<1>8. Becomes(m)
  BY <1>5, <1>7
<1>9. Trades(l, m, x, NoAuction)
  BY <1>1, <1>2, <1>3, <1>4, <1>6, SoldTrades
<1>10. Trades(Current, Current', x, NoAuction)
  BY <1>1, <1>8, <1>9, TradesNext
<1>11. NoSale = [NoSale EXCEPT !.target_buyer = Nobody, !.auction = NoAuction]
  <2>1. NoSale \in Sales /\ NoSale.target_buyer = Nobody /\ NoSale.auction = NoAuction
    BY NoAuctionType DEF NoSale, Sales
  <2> QED
    BY <2>1 DEF Sales
<1>12. PICK t, q : t = Nobody /\ q = NoAuction
  OBVIOUS
<1>13. t \in Users \cup {Nobody} /\ q \in Auctions /\ q.current_bidder = Nobody
  BY <1>12, NoAuctionType
<1>14. PICK y : y = [NoSale EXCEPT !.target_buyer = t, !.auction = q]
  OBVIOUS
<1>15. sale' = [sale EXCEPT ![a] = y]
  BY <1>5, <1>11, <1>12, <1>14
<1> QED
  BY <1>1, <1>10, <1>12, <1>13, <1>14, <1>15, ClosedMoves

LEMMA NotSoldStep ==
    ASSUME MarketBacked, Formed(Current), NEW a \in Names, NotSold(a)
    PROVE  MarketMoves
<1>1. PICK l, z, x : l = Current /\ z = sale[a] /\ x = sale[a].auction
  OBVIOUS
<1>2. /\ SalesTyped /\ z \in Sales /\ x \in Auctions /\ Payable(l, z) /\ NoAuction \in Auctions
  BY <1>1, SaleTypes, NoAuctionType DEF MarketBacked, SalesTyped
<1>3. PICK m, y : /\ m = ReturnBid(l, a)
                  /\ y = (IF ~BidWins(a) THEN [z EXCEPT !.auction = NoAuction]
                          ELSE [z EXCEPT !.account_on_sale = FALSE, !.account_offer_price = 0,
                                         !.account_on_sale_start_time = 0,
                                         !.target_buyer = Nobody, !.auction = NoAuction])
  OBVIOUS
<1>4. Becomes(m) /\ sale' = [sale EXCEPT ![a] = y]
  BY <1>1, <1>2, <1>3 DEF NotSold, SalesTyped
<1>5. Trades(l, m, x, NoAuction)
  BY <1>1, <1>2, <1>3, ReturnTrades
<1>6. Trades(Current, Current', x, NoAuction)
  BY <1>1, <1>4, <1>5, TradesNext
<1>7. /\ y \in Sales /\ y.auction = NoAuction
      /\ y.account_on_sale => z.account_on_sale /\ y.account_seller = z.account_seller
      /\ y.subaccount_on_sale = z.subaccount_on_sale
      /\ y.subaccount_seller = z.subaccount_seller
  <2>1. CASE ~BidWins(a)
    BY <1>2, <1>3, <2>1 DEF Sales
  <2>2. CASE BidWins(a)
    BY <1>2, <1>3, <2>2 DEF Sales
  <2> QED
    BY <2>1, <2>2
<1>8. z.account_on_sale => z.account_seller \in Users /\ l.acc[z.account_seller].exists
  BY <1>2, SaleTypes DEF Payable
<1>9. OfferStep(a, y)
  BY <1>1, <1>4, <1>6, <1>7, <1>8 DEF OfferStep, Current
<1> QED
  BY <1>9, OfferMoves

LEMMA RecoverAccountStep ==
    ASSUME MarketBacked, Formed(Current), NEW a \in Names, RecoverAccount(a)
    PROVE  MarketMoves
<1>1. PICK z, x : z = sale[a] /\ x = sale[a].auction
  OBVIOUS
<1>2. /\ sale \in [Names -> Sales] /\ z \in Sales /\ x \in Auctions
  BY <1>1, SaleTypes DEF MarketBacked, SalesTyped
<1>3. PICK y : y = [z EXCEPT !.account_seller = Nobody, !.account_offer_price = 0,
                             !.account_on_sale = FALSE, !.account_on_sale_start_time = 0]
  OBVIOUS
<1>4. sale' = [sale EXCEPT ![a] = y] /\ UNCHANGED accountVars
  BY <1>1, <1>2, <1>3 DEF RecoverAccount
<1>5. Rewards(Current, Current', 0, 0)
  BY <1>4, UnchangedStep
<1>6. Trades(Current, Current', x, x)
  BY <1>2, <1>5, RewardsTrades
<1>7. /\ y \in Sales /\ y.auction = x /\ ~y.account_on_sale
      /\ y.subaccount_on_sale = z.subaccount_on_sale
      /\ y.subaccount_seller = z.subaccount_seller
  BY <1>1, <1>2, <1>3 DEF Sales
<1>8. OfferStep(a, y)
  BY <1>1, <1>4, <1>6, <1>7 DEF OfferStep
<1> QED
  BY <1>8, OfferMoves

(* Steps that change no account and no sale.                               *)
LEMMA MarketIdleStep ==
    ASSUME MarketBacked, Formed(Current), UNCHANGED accountVars, UNCHANGED sale
    PROVE  MarketMoves
<1>1. Rewards(Current, Current', 0, 0)
  BY UnchangedStep
<1>2. Trades(Current, Current', NoAuction, NoAuction) /\ NoAuction \in Auctions
  BY <1>1, RewardsTrades, NoAuctionType
<1>3. Grows(Current, Current') /\ Keeps(Current, Current', {"reserved_balance"})
  BY <1>1 DEF Rewards, Moves, Shifts, Keeps, SteadyFields
<1>4. MarketBacked'
  BY <1>3, MarketFrame
<1> QED
  BY <1>2, <1>4 DEF MarketMoves

LEMMA SaleOperationStep ==
    ASSUME MarketBacked, Formed(Current), now \in Nat, SaleOperation
    PROVE  MarketMoves
<1>1. PICK a \in Actors, b \in Users, n \in Tokens, on \in BOOLEAN :
          \/ SetAccountPrice(a, b, n, on)
          \/ \E c \in Users : TargetAccountSale(a, b, c, n, on)
  BY DEF SaleOperation
<1>2. a \in Users /\ n \in Nat
  BY LedgerAssumption
<1>3. CASE SetAccountPrice(a, b, n, on)
  BY <1>2, <1>3, SetAccountPriceStep
<1>4. CASE \E c \in Users : TargetAccountSale(a, b, c, n, on)
  BY <1>2, <1>4, TargetAccountSaleStep
<1> QED
  BY <1>1, <1>3, <1>4

LEMMA PurchaseOperationStep ==
    ASSUME MarketBacked, Formed(Current), now \in Nat, PurchaseOperation
    PROVE  MarketMoves
<1>1. PICK a \in Actors, b \in Users, n \in Tokens :
          \/ \E clock \in now..(now + ClockAhead) : Bid(a, b, n, clock)
          \/ BuyAccount(a, b, n)
  BY DEF PurchaseOperation
<1>2. a \in Users /\ n \in Nat
  BY LedgerAssumption
<1>3. CASE \E clock \in now..(now + ClockAhead) : Bid(a, b, n, clock)
  <2>1. PICK clock \in now..(now + ClockAhead) : Bid(a, b, n, clock)
    BY <1>3
  <2>2. clock \in Nat
    BY MarketAssumption
  <2> QED
    BY <1>2, <2>1, <2>2, BidStep
<1>4. CASE BuyAccount(a, b, n)
  BY <1>2, <1>4, BuyAccountStep
<1> QED
  BY <1>1, <1>3, <1>4

LEMMA SubaccountOperationStep ==
    ASSUME MarketBacked, Formed(Current), now \in Nat, SubaccountOperation
    PROVE  MarketMoves
<1>1. PICK a \in Users, b \in Users, n \in Tokens :
          \/ \E on \in BOOLEAN : SetSubaccountPrice(a, b, n, on)
          \/ \E new \in Fresh : BuySubaccount(a, new, b, n)
  BY DEF SubaccountOperation
<1>2. n \in Nat
  BY LedgerAssumption
<1>3. CASE \E on \in BOOLEAN : SetSubaccountPrice(a, b, n, on)
  BY <1>2, <1>3, SetSubaccountPriceStep
<1>4. CASE \E new \in Fresh : BuySubaccount(a, new, b, n)
  BY <1>2, <1>4, BuySubaccountStep DEF Fresh
<1> QED
  BY <1>1, <1>3, <1>4

LEMMA RecoveryOperationStep ==
    ASSUME MarketBacked, Formed(Current), RecoveryOperation
    PROVE  MarketMoves
<1>1. PICK a \in Actors :
          \/ \E b \in Users :
                \/ RequestAccountRecovery(a, b)
                \/ CancelAccountRecovery(a, b)
                \/ ChangeRecoveryAccount(a, b)
          \/ RecoverAccount(a)
  BY DEF RecoveryOperation
<1>2. a \in Names
  BY LedgerAssumption, UsersNamed
<1>3. CASE RecoverAccount(a)
  BY <1>2, <1>3, RecoverAccountStep
<1>4. CASE \E b \in Users : \/ RequestAccountRecovery(a, b)
                            \/ CancelAccountRecovery(a, b)
                            \/ ChangeRecoveryAccount(a, b)
  <2>1. UNCHANGED accountVars /\ UNCHANGED sale
    BY <1>4 DEF RequestAccountRecovery, CancelAccountRecovery, ChangeRecoveryAccount
  <2> QED
    BY <2>1, MarketIdleStep
<1> QED
  BY <1>1, <1>3, <1>4

LEMMA AuctionExpirationStep ==
    ASSUME MarketBacked, Formed(Current), AuctionExpiration
    PROVE  MarketMoves
<1>1. PICK a \in Names : Sold(a) \/ NotSold(a)
  BY DEF AuctionExpiration, DueAuctions
<1> QED
  BY <1>1, SoldStep, NotSoldStep

----------------------------------------------------------------------------
(* Loans of shares.                                                        *)

Loan == [vesting_shares : Nat, min_delegation_time : Nat]
Return == [delegator : Users, vesting_shares : Nat, expiration : Nat]
Returns == Seq(Return)

LoansTyped ==
    /\ delegations \in [Users -> [Names -> Loan]]
    /\ expirations \in Returns

(* Who is to get shares back has an account.                               *)
LoansBacked ==
    /\ LoansTyped /\ DelegationsAddUp
    /\ \A i \in DOMAIN expirations : acc[expirations[i].delegator].exists

(* What account a has on its way back, and what it has lent.               *)
Returning(s, a) ==
    SumFunction([i \in DOMAIN s |-> IF s[i].delegator = a THEN s[i].vesting_shares ELSE 0])
Lent(d, a) == SumFunction([b \in Names |-> d[a][b].vesting_shares])
Borrowed(d, b) == SumFunction([a \in Users |-> d[a][b].vesting_shares])

LEMMA UsersFinite == IsFiniteSet(Users) /\ IsFiniteSet(Names)
<1>1. Users \subseteq Names /\ IsFiniteSet(Names)
  BY AccountsAssumption
<1> QED
  BY <1>1, FS_Subset

LEMMA LoanSums ==
    ASSUME LoansTyped
    PROVE  /\ \A a \in Users : DelegatedBy(a) = Lent(delegations, a) + Returning(expirations, a)
           /\ \A a \in Names : DelegatedTo(a) = Borrowed(delegations, a)
BY DEF DelegatedBy, DelegatedTo, Lent, Borrowed, Returning

LEMMA LoanTypes ==
    ASSUME NEW d \in [Users -> [Names -> Loan]], NEW a \in Users, NEW b \in Names
    PROVE  /\ d[a][b] \in Loan /\ d[a][b].vesting_shares \in Nat
           /\ d[a][b].min_delegation_time \in Nat
<1>1. d[a][b] \in Loan
  OBVIOUS
<1> QED
  BY <1>1 DEF Loan

LEMMA LentNat ==
    ASSUME NEW d \in [Users -> [Names -> Loan]]
    PROVE  /\ \A a \in Users : /\ Lent(d, a) \in Nat
                               /\ \A b \in Names : d[a][b].vesting_shares <= Lent(d, a)
           /\ \A b \in Names : /\ Borrowed(d, b) \in Nat
                               /\ \A a \in Users : d[a][b].vesting_shares <= Borrowed(d, b)
<1>1. ASSUME NEW a \in Users
      PROVE  Lent(d, a) \in Nat /\ \A b \in Names : d[a][b].vesting_shares <= Lent(d, a)
  <2>1. PICK f : f = [b \in Names |-> d[a][b].vesting_shares]
    OBVIOUS
  <2>2. f \in [Names -> Nat]
    BY <2>1, LoanTypes
  <2>3. SumFunction(f) \in Nat /\ \A x \in Names : f[x] <= SumFunction(f)
    BY <2>2, UsersFinite, SumOfNats
  <2> QED
    BY <2>1, <2>3 DEF Lent
<1>2. ASSUME NEW b \in Names
      PROVE  Borrowed(d, b) \in Nat /\ \A a \in Users : d[a][b].vesting_shares <= Borrowed(d, b)
  <2>1. PICK f : f = [a \in Users |-> d[a][b].vesting_shares]
    OBVIOUS
  <2>2. f \in [Users -> Nat]
    BY <2>1, LoanTypes
  <2>3. SumFunction(f) \in Nat /\ \A x \in Users : f[x] <= SumFunction(f)
    BY <2>2, UsersFinite, SumOfNats
  <2> QED
    BY <2>1, <2>3 DEF Borrowed
<1> QED
  BY <1>1, <1>2

(* One loan changes.                                                       *)
Reloaned(d, e, a, b, x) ==
    /\ e \in [Users -> [Names -> Loan]]
    /\ Lent(e, a) = Lent(d, a) - d[a][b].vesting_shares + x.vesting_shares
    /\ \A c \in Users : c # a => Lent(e, c) = Lent(d, c)
    /\ Borrowed(e, b) = Borrowed(d, b) - d[a][b].vesting_shares + x.vesting_shares
    /\ \A c \in Names : c # b => Borrowed(e, c) = Borrowed(d, c)

SetLoan(d, a, b, x) == [d EXCEPT ![a][b] = x]

LEMMA LoanReplaced ==
    ASSUME NEW d \in [Users -> [Names -> Loan]], NEW a \in Users, NEW b \in Names,
           NEW x \in Loan, NEW e, e = SetLoan(d, a, b, x)
    PROVE  Reloaned(d, e, a, b, x)
<1>1. /\ e \in [Users -> [Names -> Loan]] /\ e[a][b] = x
      /\ \A c \in Names : c # b => e[a][c] = d[a][c]
      /\ \A c \in Users : c # a => e[c] = d[c]
  BY DEF SetLoan
<1>2. Lent(e, a) = Lent(d, a) - d[a][b].vesting_shares + x.vesting_shares
  <2>1. PICK f, g : /\ f = [c \in Names |-> d[a][c].vesting_shares]
                    /\ g = [c \in Names |-> e[a][c].vesting_shares]
    OBVIOUS
  <2>5. e[a] \in [Names -> Loan] /\ d[a] \in [Names -> Loan]
    BY <1>1
  <2>6. \A y \in Loan : y.vesting_shares \in Int
    BY DEF Loan
  <2>7. f \in [Names -> Int]
    BY <2>1, <2>5, <2>6
  <2>8. g \in [Names -> Int]
    BY <2>1, <2>5, <2>6
  <2>2. f \in [Names -> Int] /\ g \in [Names -> Int]
    BY <2>7, <2>8
  <2>3. \A c \in Names \ {b} : g[c] = f[c]
    BY <1>1, <2>1
  <2>4. SumFunction(g) = SumFunction(f) - f[b] + g[b]
    BY <2>2, <2>3, UsersFinite, SumChanged
  <2> QED
    BY <1>1, <2>1, <2>4 DEF Lent
<1>3. \A c \in Users : c # a => Lent(e, c) = Lent(d, c)
  BY <1>1 DEF Lent
<1>4. Borrowed(e, b) = Borrowed(d, b) - d[a][b].vesting_shares + x.vesting_shares
  <2>1. PICK f, g : /\ f = [c \in Users |-> d[c][b].vesting_shares]
                    /\ g = [c \in Users |-> e[c][b].vesting_shares]
    OBVIOUS
  <2>5. \A c \in Users : e[c][b] \in Loan /\ d[c][b] \in Loan
    BY <1>1
  <2>6. \A y \in Loan : y.vesting_shares \in Int
    BY DEF Loan
  <2>7. f \in [Users -> Int]
    BY <2>1, <2>5, <2>6
  <2>8. g \in [Users -> Int]
    BY <2>1, <2>5, <2>6
  <2>2. f \in [Users -> Int] /\ g \in [Users -> Int]
    BY <2>7, <2>8
  <2>3. \A c \in Users \ {a} : g[c] = f[c]
    BY <1>1, <2>1
  <2>4. SumFunction(g) = SumFunction(f) - f[a] + g[a]
    BY <2>2, <2>3, UsersFinite, SumChanged
  <2> QED
    BY <1>1, <2>1, <2>4 DEF Borrowed
<1>5. ASSUME NEW c \in Names, c # b PROVE Borrowed(e, c) = Borrowed(d, c)
  <2>1. PICK f, g : /\ f = [u \in Users |-> d[u][c].vesting_shares]
                    /\ g = [u \in Users |-> e[u][c].vesting_shares]
    OBVIOUS
  <2>2. \A u \in Users : e[u][c] = d[u][c]
    BY <1>1, <1>5
  <2>3. f = g
    BY <2>1, <2>2
  <2> QED
    BY <2>1, <2>3 DEF Borrowed
<1> QED
  BY <1>1, <1>2, <1>3, <1>4, <1>5 DEF Reloaned

(* A number is added to a list, or taken out of it.                        *)
LEMMA SumAppended ==
    ASSUME NEW n \in Nat, NEW f \in [1..(n + 1) -> Int], NEW g \in [1..n -> Int],
           \A i \in 1..n : f[i] = g[i]
    PROVE  SumFunction(f) = SumFunction(g) + f[n + 1]
<1>1. IsFiniteSet(1..(n + 1)) /\ IsFiniteSet(1..n) /\ n + 1 \in 1..(n + 1)
  <2>1. 1 \in Int /\ n \in Int /\ n + 1 \in Int
    OBVIOUS
  <2>2. IsFiniteSet(1..(n + 1))
    BY <2>1, FS_Interval
  <2>3. IsFiniteSet(1..n)
    BY <2>1, FS_Interval
  <2> QED
    BY <2>2, <2>3
<1>2. (1..(n + 1)) \ {n + 1} = 1..n
  OBVIOUS
<1>3. SumFunctionOnSet(f, 1..(n + 1)) = f[n + 1] + SumFunctionOnSet(f, 1..n)
  BY <1>1, <1>2, SumRemove
<1>4. SumFunctionOnSet(f, 1..n) = SumFunctionOnSet(g, 1..n)
  <2>1. \A i \in 1..n : f[i] \in Int /\ f[i] = g[i]
    OBVIOUS
  <2> QED
    BY <2>1, <1>1, SumSame
<1>5. SumFunction(f) = SumFunctionOnSet(f, 1..(n + 1)) /\ SumFunction(g) = SumFunctionOnSet(g, 1..n)
  BY DEF SumFunction
<1>6. SumFunction(g) \in Int
  BY <1>1, SumOfInts
<1>7. f[n + 1] \in Int
  BY <1>1
<1> QED
  BY <1>3, <1>4, <1>5, <1>6, <1>7

(* The places of a list without its i-th.                                  *)
Skip(i, k) == [j \in 1..k |-> IF j < i THEN j ELSE j + 1]

Skips(p, T, S, i) ==
    /\ p \in [T -> S] /\ i \in S
    /\ \A t, u \in T : p[t] = p[u] => t = u
    /\ {p[t] : t \in T} = S \ {i}

LEMMA SkipPlaces ==
    ASSUME NEW k \in Nat, NEW i \in 1..(k + 1), NEW p, p = Skip(i, k)
    PROVE  Skips(p, 1..k, 1..(k + 1), i)
<1>1. /\ DOMAIN p = 1..k /\ p = [j \in 1..k |-> p[j]]
      /\ \A j \in 1..k : p[j] = IF j < i THEN j ELSE j + 1
  BY DEF Skip
<1>2. \A j \in 1..k : p[j] \in 1..(k + 1) /\ p[j] # i
  BY <1>1
<1>3. p \in [1..k -> 1..(k + 1)]
  BY <1>1, <1>2
<1>4. ASSUME NEW t \in 1..k, NEW u \in 1..k, p[t] = p[u] PROVE t = u
  <2>1. t \in Int /\ u \in Int /\ i \in Int
    OBVIOUS
  <2>2. (IF t < i THEN t ELSE t + 1) = (IF u < i THEN u ELSE u + 1)
    BY <1>1, <1>4
  <2> QED
    BY <2>1, <2>2
<1>5. ASSUME NEW j \in (1..(k + 1)) \ {i} PROVE \E u \in 1..k : p[u] = j
  <2>1. CASE j < i
    <3>1. j \in 1..k
      BY <2>1
    <3> QED
      BY <1>1, <2>1, <3>1
  <2>2. CASE j > i
    <3>1. j - 1 \in 1..k /\ ~(j - 1 < i) /\ (j - 1) + 1 = j
      BY <2>2
    <3> QED
      BY <1>1, <3>1
  <2> QED
    BY <2>1, <2>2
<1> QED
  BY <1>2, <1>3, <1>4, <1>5 DEF Skips

Drops(f, g, p, T, S, i) ==
    /\ IsFiniteSet(S) /\ IsFiniteSet(T) /\ Skips(p, T, S, i)
    /\ f \in [S -> Int] /\ g \in [T -> Int] /\ \A t \in T : g[t] = f[p[t]]

LEMMA SumBut ==
    ASSUME NEW S, NEW T, NEW f, NEW g, NEW p, NEW i, Drops(f, g, p, T, S, i)
    PROVE  SumFunction(g) = SumFunction(f) - f[i]
<1> USE DEF Drops
<1>6. /\ p \in [T -> S] /\ i \in S
      /\ \A t, u \in T : p[t] = p[u] => t = u
  BY DEF Skips
<1>5. SumFunction(g) = SumFunctionOnSet(f, {p[t] : t \in T})
  BY <1>6, SumRenamed
<1>1. SumFunction(g) = SumFunctionOnSet(f, S \ {i})
  BY <1>5, Zenon DEF Skips
<1>2. SumFunctionOnSet(f, S) = f[i] + SumFunctionOnSet(f, S \ {i})
  <2>1. \A x \in S : f[x] \in Int
    OBVIOUS
  <2> QED
    BY <1>6, <2>1, SumRemove
<1>3. SumFunction(f) = SumFunctionOnSet(f, S) /\ f[i] \in Int
  BY <1>6 DEF SumFunction
<1>4. SumFunction(g) \in Int
  BY SumOfInts
<1> QED
  BY <1>1, <1>2, <1>3, <1>4

Thins(f, g, i, k) ==
    /\ f \in [1..(k + 1) -> Int] /\ g \in [1..k -> Int]
    /\ \A j \in 1..k : g[j] = f[Skip(i, k)[j]]

LEMMA SumTakenOut ==
    ASSUME NEW k \in Nat, NEW i \in 1..(k + 1), NEW f, NEW g, Thins(f, g, i, k)
    PROVE  SumFunction(g) = SumFunction(f) - f[i]
<1>10. PICK p : p = Skip(i, k)
  OBVIOUS
<1>11. /\ f \in [1..(k + 1) -> Int] /\ g \in [1..k -> Int]
       /\ \A j \in 1..k : g[j] = f[p[j]]
  BY <1>10 DEF Thins
<1>1. PICK S, T : S = 1..(k + 1) /\ T = 1..k
  OBVIOUS
<1>2. IsFiniteSet(S) /\ IsFiniteSet(T)
  <2>1. 1 \in Int /\ k \in Int /\ k + 1 \in Int
    OBVIOUS
  <2>2. IsFiniteSet(1..(k + 1))
    BY <2>1, FS_Interval
  <2>3. IsFiniteSet(1..k)
    BY <2>1, FS_Interval
  <2> QED
    BY <1>1, <2>2, <2>3
<1>5. Skips(p, 1..k, 1..(k + 1), i)
  BY <1>10, SkipPlaces
<1>3. Skips(p, T, S, i)
  BY <1>1, <1>5, Zenon
<1>4. f \in [S -> Int] /\ g \in [T -> Int] /\ i \in S /\ \A t \in T : g[t] = f[p[t]]
  BY <1>1, <1>11, Zenon
<1>6. Drops(f, g, p, T, S, i)
  BY <1>2, <1>3, <1>4, Zenon DEF Drops
<1> QED
  BY <1>6, SumBut

(* What account a has in one return.                                       *)
ReturnPart(x, a) == IF x.delegator = a THEN x.vesting_shares ELSE 0

LEMMA ReturnTypes ==
    ASSUME NEW x \in Return
    PROVE  /\ x.delegator \in Users /\ x.vesting_shares \in Nat /\ x.expiration \in Nat
           /\ \A a : ReturnPart(x, a) \in Nat
BY DEF Return, ReturnPart

PartsOf(s, a) == [i \in DOMAIN s |-> ReturnPart(s[i], a)]

LEMMA ReturningParts ==
    ASSUME NEW s \in Returns, NEW a, NEW f, f = PartsOf(s, a)
    PROVE  /\ f \in [1..Len(s) -> Int] /\ f \in [1..Len(s) -> Nat]
           /\ Returning(s, a) = SumFunction(f) /\ Len(s) \in Nat
<1>1. DOMAIN s = 1..Len(s) /\ Len(s) \in Nat /\ \A i \in 1..Len(s) : s[i] \in Return
  BY DEF Returns
<1>2. \A i \in 1..Len(s) : ReturnPart(s[i], a) \in Nat
  BY <1>1, ReturnTypes
<1>3. f \in [1..Len(s) -> Nat]
  BY <1>1, <1>2 DEF PartsOf
<1>4. f \in [1..Len(s) -> Int]
  BY <1>3
<1>5. Returning(s, a) = SumFunction(f)
  BY DEF Returning, ReturnPart, PartsOf
<1> QED
  BY <1>1, <1>3, <1>4, <1>5

LEMMA ReturningNat ==
    ASSUME NEW s \in Returns, NEW a
    PROVE  /\ Returning(s, a) \in Nat
           /\ \A i \in DOMAIN s : ReturnPart(s[i], a) <= Returning(s, a)
<1>1. PICK f : f = PartsOf(s, a)
  OBVIOUS
<1>2. f \in [1..Len(s) -> Nat] /\ Returning(s, a) = SumFunction(f) /\ Len(s) \in Nat
  BY <1>1, ReturningParts
<1>3. IsFiniteSet(1..Len(s))
  BY <1>2, FS_Interval
<1>4. SumFunction(f) \in Nat /\ \A i \in 1..Len(s) : f[i] <= SumFunction(f)
  BY <1>2, <1>3, SumOfNats
<1>5. DOMAIN s = 1..Len(s)
  BY DEF Returns
<1> QED
  BY <1>1, <1>2, <1>4, <1>5 DEF PartsOf

OneMore(s, t, x) ==
    /\ t \in Returns
    /\ \A a : Returning(t, a) = Returning(s, a) + ReturnPart(x, a)
    /\ \A i \in DOMAIN t : t[i] = x \/ \E j \in DOMAIN s : t[i] = s[j]

LEMMA ReturnAppended ==
    ASSUME NEW s \in Returns, NEW x \in Return, NEW t, t = Append(s, x)
    PROVE  OneMore(s, t, x)
<1>1. PICK n \in Nat : n = Len(s)
  BY DEF Returns
<1>2. /\ t \in Returns /\ Len(t) = n + 1 /\ t[n + 1] = x
      /\ \A i \in 1..n : t[i] = s[i]
  BY <1>1 DEF Returns
<1>3. DOMAIN t = 1..(n + 1) /\ DOMAIN s = 1..n
  BY <1>1, <1>2 DEF Returns
<1>4. ASSUME NEW a PROVE Returning(t, a) = Returning(s, a) + ReturnPart(x, a)
  <2>1. PICK f : f = PartsOf(t, a)
    OBVIOUS
  <2>2. PICK g : g = PartsOf(s, a)
    OBVIOUS
  <2>9. t \in Returns
    BY <1>2
  <2>8. f \in [1..Len(t) -> Int] /\ Returning(t, a) = SumFunction(f)
    BY <2>1, <2>9, ReturningParts
  <2>3. f \in [1..(n + 1) -> Int] /\ Returning(t, a) = SumFunction(f)
    BY <1>2, <2>8, Zenon
  <2>4. g \in [1..n -> Int] /\ Returning(s, a) = SumFunction(g)
    BY <1>1, <2>2, ReturningParts
  <2>5. \A i \in 1..n : f[i] = g[i]
    BY <1>2, <1>3, <2>1, <2>2 DEF PartsOf
  <2>6. f[n + 1] = ReturnPart(x, a)
    BY <1>2, <1>3, <2>1 DEF PartsOf
  <2>7. SumFunction(f) = SumFunction(g) + f[n + 1]
    BY <2>3, <2>4, <2>5, SumAppended
  <2> QED
    BY <2>3, <2>4, <2>6, <2>7
<1>5. \A i \in 1..(n + 1) : i \in 1..n \/ i = n + 1
  OBVIOUS
<1> QED
  BY <1>2, <1>3, <1>4, <1>5 DEF OneMore

LEMMA ReturnTaken ==
    ASSUME NEW s \in Returns, NEW i \in DOMAIN s, NEW t, t = RemoveAt(s, i)
    PROVE  /\ t \in Returns
           /\ \A a : Returning(t, a) = Returning(s, a) - ReturnPart(s[i], a)
           /\ \A j \in DOMAIN t : \E k \in DOMAIN s : t[j] = s[k]
<1>1. PICK n \in Nat : n = Len(s)
  BY DEF Returns
<1>2. DOMAIN s = 1..n
  BY <1>1 DEF Returns
<1>3. n > 0 /\ i \in 1..n
  BY <1>2
<1>4. PICK k \in Nat : n = k + 1
  <2>1. n - 1 \in Nat /\ n = (n - 1) + 1
    BY <1>3
  <2> QED
    BY <2>1
<1>5. PICK u, v : u = SubSeq(s, 1, i - 1) /\ v = SubSeq(s, i + 1, Len(s))
  OBVIOUS
<1>6. t = u \o v
  BY <1>5 DEF RemoveAt
<1>7. /\ u \in Returns /\ v \in Returns
      /\ Len(u) = i - 1 /\ Len(v) = n - i
  BY <1>1, <1>3, <1>5 DEF Returns
<1>8. /\ \A j \in 1..(i - 1) : u[j] = s[j]
      /\ \A j \in 1..(n - i) : v[j] = s[j + i]
  <2>1. \A j \in 1..(i - 1) : u[j] = s[j]
    BY <1>1, <1>3, <1>5 DEF Returns
  <2>2. \A j \in 1..(n - i) : v[j] = s[(i + 1) + j - 1]
    BY <1>1, <1>3, <1>5 DEF Returns
  <2> QED
    BY <1>3, <2>1, <2>2
<1>9. t \in Returns /\ Len(t) = k
  <2>1. u \in Seq(Return) /\ v \in Seq(Return)
    BY <1>7 DEF Returns
  <2>2. t \in Seq(Return) /\ Len(t) = Len(u) + Len(v)
    BY <1>6, <2>1, ConcatProperties
  <2> QED
    BY <1>3, <1>4, <1>7, <2>2 DEF Returns
<1>10. DOMAIN t = 1..k
  BY <1>9 DEF Returns
<1>11. \A j \in 1..k : t[j] = s[IF j < i THEN j ELSE j + 1]
  <2>1. ASSUME NEW j \in 1..k, j < i PROVE t[j] = s[j]
    <3>1. j \in 1..(i - 1) /\ j \in 1..Len(u)
      BY <1>3, <1>7, <2>1
    <3>2. t[j] = u[j]
      BY <1>6, <1>7, <3>1 DEF Returns
    <3> QED
      BY <1>8, <3>1, <3>2
  <2>2. ASSUME NEW j \in 1..k, ~(j < i) PROVE t[j] = s[j + 1]
    <3>1. j - Len(u) \in 1..(n - i) /\ (j - Len(u)) + i = j + 1
          /\ ~(j <= Len(u)) /\ j \in 1..(Len(u) + Len(v))
      BY <1>3, <1>4, <1>7, <2>2
    <3>4. u \in Seq(Return) /\ v \in Seq(Return)
      BY <1>7 DEF Returns
    <3>2. t[j] = v[j - Len(u)]
      BY <1>6, <3>1, <3>4, ConcatProperties
    <3>3. v[j - Len(u)] = s[(j - Len(u)) + i]
      BY <1>8, <3>1
    <3> QED
      BY <3>1, <3>2, <3>3
  <2> QED
    BY <2>1, <2>2
<1>12. \A j \in 1..k : (IF j < i THEN j ELSE j + 1) \in 1..n
  BY <1>3, <1>4
<1>13. ASSUME NEW a PROVE Returning(t, a) = Returning(s, a) - ReturnPart(s[i], a)
  <2>1. PICK f : f = PartsOf(s, a)
    OBVIOUS
  <2>2. PICK g : g = PartsOf(t, a)
    OBVIOUS
  <2>3. f \in [1..(k + 1) -> Int] /\ Returning(s, a) = SumFunction(f)
    BY <1>1, <1>4, <2>1, ReturningParts
  <2>4. g \in [1..k -> Int] /\ Returning(t, a) = SumFunction(g)
    BY <1>9, <2>2, ReturningParts
  <2>8. PICK p : p = Skip(i, k)
    OBVIOUS
  <2>9. \A j \in 1..k : p[j] = (IF j < i THEN j ELSE j + 1)
    BY <2>8 DEF Skip
  <2>5. \A j \in 1..k : g[j] = f[p[j]]
    BY <1>2, <1>10, <1>11, <1>12, <2>1, <2>2, <2>9 DEF PartsOf
  <2>11. Thins(f, g, i, k)
    BY <2>3, <2>4, <2>5, <2>8, Zenon DEF Thins
  <2>6. f[i] = ReturnPart(s[i], a) /\ i \in 1..(k + 1)
    BY <1>2, <1>3, <1>4, <2>1 DEF PartsOf
  <2>10. i \in 1..(k + 1)
    BY <2>6
  <2>7. SumFunction(g) = SumFunction(f) - f[i]
    BY <2>10, <2>11, SumTakenOut
  <2> QED
    BY <2>3, <2>4, <2>6, <2>7
<1> QED
  BY <1>2, <1>9, <1>10, <1>11, <1>12, <1>13

(* Shares are lent: account a lends x more, account b is lent y more.      *)
LoanFields == {"delegated_vesting_shares", "received_vesting_shares"}

Extra(c, a, x) == IF c = a THEN x ELSE 0

LendsFor(l, m, d, a, x, b, y) ==
    /\ Moves(l, m, d) /\ Keeps(l, m, SteadyFields \ LoanFields) /\ Saves(l, m)
    /\ m.ballots = l.ballots
    /\ m.dgp.total_reward_shares = l.dgp.total_reward_shares
    /\ \A c \in Names :
          /\ m.acc[c].vesting_shares >= l.acc[c].vesting_shares
          /\ m.acc[c].delegated_vesting_shares = l.acc[c].delegated_vesting_shares + Extra(c, a, x)
          /\ m.acc[c].received_vesting_shares = l.acc[c].received_vesting_shares + Extra(c, b, y)

Lends(l, m, a, x, b, y) == LendsFor(l, m, 0, a, x, b, y)

LEMMA LedgerOfMoves ==
    ASSUME NEW l, NEW m, NEW d, Moves(l, m, d)
    PROVE  m \in Ledgers /\ Formed(m)
BY DEF Moves, Shifts, Formed

LEMMA LendsForTransitive ==
    ASSUME NEW l, Formed(l), NEW m, NEW n, NEW a, NEW b, NEW x, x \in Int, NEW y, y \in Int,
           NEW u, u \in Int, NEW v, v \in Int,
           NEW d, d \in Int, NEW e, e \in Int,
           LendsFor(l, m, d, a, x, b, y), LendsFor(m, n, e, a, u, b, v)
    PROVE  LendsFor(l, n, d + e, a, x + u, b, y + v)
<1>1. l \in Ledgers /\ m \in Ledgers /\ n \in Ledgers
  BY LedgerOfMoves DEF LendsFor, Formed
<1>2. Moves(l, n, d + e)
  <2>1. Moves(l, m, d) /\ Moves(m, n, e)
    BY DEF LendsFor
  <2> QED
    BY <2>1, MovesTransitive
<1>3. Keeps(l, n, SteadyFields \ LoanFields)
  BY DEF LendsFor, Keeps
<1>4. Saves(l, n)
  <2>1. Treasury \in Names
    BY AccountsAssumption
  <2>2. /\ l.acc[Treasury].balance \in Int /\ m.acc[Treasury].balance \in Int
        /\ n.acc[Treasury].balance \in Int
    BY <1>1, <2>1, AccountTypes
  <2>3. m.acc[Treasury].balance >= l.acc[Treasury].balance
        /\ n.acc[Treasury].balance >= m.acc[Treasury].balance
    BY DEF LendsFor, Saves
  <2> QED
    BY <2>2, <2>3 DEF Saves
<1>5. n.ballots = l.ballots /\ n.dgp.total_reward_shares = l.dgp.total_reward_shares
  BY DEF LendsFor
<1>6. ASSUME NEW c \in Names
      PROVE  /\ n.acc[c].vesting_shares >= l.acc[c].vesting_shares
             /\ n.acc[c].delegated_vesting_shares
                   = l.acc[c].delegated_vesting_shares + Extra(c, a, x + u)
             /\ n.acc[c].received_vesting_shares
                   = l.acc[c].received_vesting_shares + Extra(c, b, y + v)
  <2>1. /\ m.acc[c].vesting_shares >= l.acc[c].vesting_shares
        /\ m.acc[c].delegated_vesting_shares = l.acc[c].delegated_vesting_shares + Extra(c, a, x)
        /\ m.acc[c].received_vesting_shares = l.acc[c].received_vesting_shares + Extra(c, b, y)
    BY DEF LendsFor
  <2>2. /\ n.acc[c].vesting_shares >= m.acc[c].vesting_shares
        /\ n.acc[c].delegated_vesting_shares = m.acc[c].delegated_vesting_shares + Extra(c, a, u)
        /\ n.acc[c].received_vesting_shares = m.acc[c].received_vesting_shares + Extra(c, b, v)
    BY DEF LendsFor
  <2>3. /\ l.acc[c].vesting_shares \in Nat /\ l.acc[c].delegated_vesting_shares \in Int
        /\ l.acc[c].received_vesting_shares \in Int /\ m.acc[c].vesting_shares \in Nat
        /\ n.acc[c].vesting_shares \in Nat
    BY <1>1, AccountTypes
  <2> QED
    BY <2>1, <2>2, <2>3 DEF Extra
<1> QED
  BY <1>2, <1>3, <1>4, <1>5, <1>6 DEF LendsFor

LEMMA LendsTransitive ==
    ASSUME NEW l, Formed(l), NEW m, NEW n, NEW a, NEW b, NEW x, x \in Int, NEW y, y \in Int,
           NEW u, u \in Int, NEW v, v \in Int,
           Lends(l, m, a, x, b, y), Lends(m, n, a, u, b, v)
    PROVE  Lends(l, n, a, x + u, b, y + v)
<1>1. 0 \in Int /\ LendsFor(l, m, 0, a, x, b, y) /\ LendsFor(m, n, 0, a, u, b, v)
  BY DEF Lends
<1>2. LendsFor(l, n, 0 + 0, a, x + u, b, y + v)
  BY <1>1, LendsForTransitive
<1>3. 0 + 0 = 0
  OBVIOUS
<1> QED
  BY <1>2, <1>3 DEF Lends

LEMMA RewardsLends ==
    ASSUME NEW l, Formed(l), NEW m, NEW d, Rewards(l, m, 0, d), NEW a, NEW b
    PROVE  LendsFor(l, m, d, a, 0, b, 0)
<1>1. l \in Ledgers
  BY DEF Formed
<1>2. Keeps(l, m, SteadyFields \ LoanFields)
  BY DEF Rewards, Keeps
<1>3. m.dgp.total_reward_shares = l.dgp.total_reward_shares
  <2>1. l.dgp.total_reward_shares \in Nat
    BY <1>1, TotalTypes
  <2> QED
    BY <2>1 DEF Rewards
<1>4. ASSUME NEW c \in Names
      PROVE  /\ m.acc[c].vesting_shares >= l.acc[c].vesting_shares
             /\ m.acc[c].delegated_vesting_shares = l.acc[c].delegated_vesting_shares + Extra(c, a, 0)
             /\ m.acc[c].received_vesting_shares = l.acc[c].received_vesting_shares + Extra(c, b, 0)
  <2>1. "delegated_vesting_shares" \in SteadyFields /\ "received_vesting_shares" \in SteadyFields
    BY DEF SteadyFields
  <2>2. /\ m.acc[c]["delegated_vesting_shares"] = l.acc[c]["delegated_vesting_shares"]
        /\ m.acc[c]["received_vesting_shares"] = l.acc[c]["received_vesting_shares"]
    BY <2>1 DEF Rewards, Keeps
  <2>3. /\ l.acc[c].delegated_vesting_shares \in Int /\ l.acc[c].received_vesting_shares \in Int
    BY <1>1, AccountTypes
  <2>4. m.acc[c].vesting_shares >= l.acc[c].vesting_shares
    BY DEF Rewards
  <2> QED
    BY <2>2, <2>3, <2>4 DEF Extra
<1> QED
  BY <1>2, <1>3, <1>4 DEF LendsFor, Rewards

LEMMA PaysLends ==
    ASSUME NEW l, Formed(l), NEW m, NEW d, Pays(l, m, d), NEW a, NEW b
    PROVE  LendsFor(l, m, d, a, 0, b, 0)
<1>1. Rewards(l, m, 0, d)
  BY PaysRewards
<1> QED
  BY <1>1, RewardsLends

LEMMA LentLends ==
    ASSUME NEW l, Formed(l), NEW a \in Names, l.acc[a].exists, NEW x, x \in Int, NEW b,
           NEW m, m = SetLent(l, a, l.acc[a].delegated_vesting_shares + x)
    PROVE  Lends(l, m, a, x, b, 0)
<1>1. l \in Ledgers
  BY DEF Formed
<1>2. l.acc[a].delegated_vesting_shares + x \in Int
  BY <1>1, AccountTypes
<1>3. /\ Moves(l, m, 0) /\ KeepsBut(l, m, {"delegated_vesting_shares"})
      /\ m.dgp = l.dgp /\ m.ballots = l.ballots
      /\ m.acc[a].delegated_vesting_shares = l.acc[a].delegated_vesting_shares + x
      /\ \A c \in Names : c # a => m.acc[c] = l.acc[c]
  BY <1>2, LentMoves
<1>4. Keeps(l, m, SteadyFields \ LoanFields)
  <2>1. SteadyFields \ LoanFields \subseteq AccountFields \ {"delegated_vesting_shares"}
    BY DEF SteadyFields, LoanFields, AccountFields
  <2> QED
    BY <1>3, <2>1 DEF KeepsBut, Keeps
<1>5. \A c \in Names : /\ m.acc[c]["vesting_shares"] = l.acc[c]["vesting_shares"]
                       /\ m.acc[c]["received_vesting_shares"] = l.acc[c]["received_vesting_shares"]
                       /\ m.acc[c]["balance"] = l.acc[c]["balance"]
  <2>1. {"vesting_shares", "received_vesting_shares", "balance"}
            \subseteq AccountFields \ {"delegated_vesting_shares"}
    BY DEF AccountFields
  <2> QED
    BY <1>3, <2>1 DEF KeepsBut, Keeps
<1>6. Saves(l, m)
  <2>1. Treasury \in Names
    BY AccountsAssumption
  <2> QED
    BY <1>1, <1>5, <2>1, SavesSame
<1>7. ASSUME NEW c \in Names
      PROVE  /\ m.acc[c].vesting_shares >= l.acc[c].vesting_shares
             /\ m.acc[c].delegated_vesting_shares = l.acc[c].delegated_vesting_shares + Extra(c, a, x)
             /\ m.acc[c].received_vesting_shares = l.acc[c].received_vesting_shares + Extra(c, b, 0)
  <2>1. /\ l.acc[c].vesting_shares \in Nat /\ l.acc[c].delegated_vesting_shares \in Int
        /\ l.acc[c].received_vesting_shares \in Int
    BY <1>1, AccountTypes
  <2>2. m.acc[c].delegated_vesting_shares = l.acc[c].delegated_vesting_shares + Extra(c, a, x)
    BY <1>3, <2>1 DEF Extra
  <2>3. m.acc[c].vesting_shares >= l.acc[c].vesting_shares
    BY <1>5, <2>1
  <2>4. m.acc[c].received_vesting_shares = l.acc[c].received_vesting_shares + Extra(c, b, 0)
    BY <1>5, <2>1 DEF Extra
  <2> QED
    BY <2>2, <2>3, <2>4
<1> QED
  BY <1>3, <1>4, <1>6, <1>7 DEF Lends, LendsFor

LEMMA ReceivedLends ==
    ASSUME NEW l, Formed(l), NEW b \in Names, l.acc[b].exists, NEW y, y \in Int, NEW a,
           NEW m, m = SetReceived(l, b, l.acc[b].received_vesting_shares + y)
    PROVE  Lends(l, m, a, 0, b, y)
<1>1. l \in Ledgers
  BY DEF Formed
<1>2. l.acc[b].received_vesting_shares + y \in Int
  BY <1>1, AccountTypes
<1>3. /\ Moves(l, m, 0) /\ KeepsBut(l, m, {"received_vesting_shares"})
      /\ m.dgp = l.dgp /\ m.ballots = l.ballots
      /\ m.acc[b].received_vesting_shares = l.acc[b].received_vesting_shares + y
      /\ \A c \in Names : c # b => m.acc[c] = l.acc[c]
  BY <1>2, ReceivedMoves
<1>4. Keeps(l, m, SteadyFields \ LoanFields)
  <2>1. SteadyFields \ LoanFields \subseteq AccountFields \ {"received_vesting_shares"}
    BY DEF SteadyFields, LoanFields, AccountFields
  <2> QED
    BY <1>3, <2>1 DEF KeepsBut, Keeps
<1>5. \A c \in Names : /\ m.acc[c]["vesting_shares"] = l.acc[c]["vesting_shares"]
                       /\ m.acc[c]["delegated_vesting_shares"] = l.acc[c]["delegated_vesting_shares"]
                       /\ m.acc[c]["balance"] = l.acc[c]["balance"]
  <2>1. {"vesting_shares", "delegated_vesting_shares", "balance"}
            \subseteq AccountFields \ {"received_vesting_shares"}
    BY DEF AccountFields
  <2> QED
    BY <1>3, <2>1 DEF KeepsBut, Keeps
<1>6. Saves(l, m)
  <2>1. Treasury \in Names
    BY AccountsAssumption
  <2> QED
    BY <1>1, <1>5, <2>1, SavesSame
<1>7. ASSUME NEW c \in Names
      PROVE  /\ m.acc[c].vesting_shares >= l.acc[c].vesting_shares
             /\ m.acc[c].delegated_vesting_shares = l.acc[c].delegated_vesting_shares + Extra(c, a, 0)
             /\ m.acc[c].received_vesting_shares = l.acc[c].received_vesting_shares + Extra(c, b, y)
  <2>1. /\ l.acc[c].vesting_shares \in Nat /\ l.acc[c].delegated_vesting_shares \in Int
        /\ l.acc[c].received_vesting_shares \in Int
    BY <1>1, AccountTypes
  <2> QED
    <3>1. m.acc[c].vesting_shares >= l.acc[c].vesting_shares
      BY <1>5, <2>1
    <3>2. m.acc[c].delegated_vesting_shares = l.acc[c].delegated_vesting_shares + Extra(c, a, 0)
      <4>1. Extra(c, a, 0) = 0
        BY DEF Extra
      <4>2. m.acc[c].delegated_vesting_shares = l.acc[c].delegated_vesting_shares
        BY <1>5
      <4> QED
        BY <2>1, <4>1, <4>2
    <3>3. m.acc[c].received_vesting_shares = l.acc[c].received_vesting_shares + Extra(c, b, y)
      BY <1>3, <2>1 DEF Extra
    <3> QED
      BY <3>1, <3>2, <3>3
<1> QED
  BY <1>3, <1>4, <1>6, <1>7 DEF Lends, LendsFor

(* The loan of account a to account b becomes x, and what account a has on *)
(* its way back changes by z.                                              *)
Relends(a, b, x, z) ==
    /\ delegations' = [delegations EXCEPT ![a][b] = x] /\ x \in Loan
    /\ expirations' \in Returns
    /\ \A c \in Names : Returning(expirations', c) = Returning(expirations, c) + Extra(c, a, z)
    /\ \A i \in DOMAIN expirations' :
          \/ expirations'[i].delegator = a
          \/ \E j \in DOMAIN expirations : expirations'[i] = expirations[j]

(* Nobody lends more than it has left.                                     *)
Affordable(a, x) == x <= 0 \/ x <= DelegatableShares(Current, a)

LoanMoves ==
    /\ LoansBacked'
    /\ \E a \in Users, b \in Names, x, y \in Int :
          Affordable(a, x) /\ Lends(Current, Current', a, x, b, y)

LEMMA LoanBalance ==
    ASSUME LoansBacked
    PROVE  /\ delegations \in [Users -> [Names -> Loan]] /\ expirations \in Returns
           /\ \A a \in Users : acc[a].delegated_vesting_shares
                                   = Lent(delegations, a) + Returning(expirations, a)
           /\ \A a \in Names : acc[a].received_vesting_shares = Borrowed(delegations, a)
<1>1. LoansTyped /\ DelegationsAddUp
  BY DEF LoansBacked
<1> QED
  BY <1>1, LoanSums DEF LoansTyped, DelegationsAddUp

LEMMA LoanChanged ==
    ASSUME LoansBacked, Formed(Current), NEW a \in Users, acc[a].exists, NEW b \in Names,
           NEW x, NEW z, z \in Int, Relends(a, b, x, z),
           NEW v, v = x.vesting_shares - delegations[a][b].vesting_shares,
           Lends(Current, Current', a, v + z, b, v), Affordable(a, v + z)
    PROVE  LoanMoves
<1>1. /\ delegations \in [Users -> [Names -> Loan]] /\ expirations \in Returns
      /\ \A c \in Users : acc[c].delegated_vesting_shares
                              = Lent(delegations, c) + Returning(expirations, c)
      /\ \A c \in Names : acc[c].received_vesting_shares = Borrowed(delegations, c)
  BY LoanBalance
<1>2. x \in Loan /\ x.vesting_shares \in Nat /\ delegations[a][b].vesting_shares \in Nat
  BY <1>1, LoanTypes DEF Relends, Loan
<1>3. PICK e : e = delegations'
  OBVIOUS
<1>4. /\ e \in [Users -> [Names -> Loan]]
      /\ Lent(e, a) = Lent(delegations, a) - delegations[a][b].vesting_shares + x.vesting_shares
      /\ \A c \in Users : c # a => Lent(e, c) = Lent(delegations, c)
      /\ Borrowed(e, b) = Borrowed(delegations, b) - delegations[a][b].vesting_shares + x.vesting_shares
      /\ \A c \in Names : c # b => Borrowed(e, c) = Borrowed(delegations, c)
  <2>1. e = SetLoan(delegations, a, b, x)
    BY <1>3 DEF Relends, SetLoan
  <2>2. x \in Loan /\ delegations \in [Users -> [Names -> Loan]]
    BY <1>1, <1>2
  <2>3. Reloaned(delegations, e, a, b, x)
    BY <2>1, <2>2, LoanReplaced
  <2> QED
    BY <2>3 DEF Reloaned
<1>5. LoansTyped'
  BY <1>3, <1>4 DEF LoansTyped, Relends
<1>6. v \in Int
  BY <1>2
<1>7. \A c \in Names :
          /\ acc'[c].delegated_vesting_shares = acc[c].delegated_vesting_shares + Extra(c, a, v + z)
          /\ acc'[c].received_vesting_shares = acc[c].received_vesting_shares + Extra(c, b, v)
  BY DEF Lends, LendsFor, Current
<1>8. ASSUME NEW c \in Users
      PROVE  acc'[c].delegated_vesting_shares = Lent(e, c) + Returning(expirations', c)
  <2>1. Lent(delegations, c) \in Nat /\ Returning(expirations, c) \in Nat
    BY <1>1, LentNat, ReturningNat
  <2>2. c \in Names
    BY AccountsAssumption
  <2>3. Returning(expirations', c) = Returning(expirations, c) + Extra(c, a, z)
    BY <2>2 DEF Relends
  <2>4. Lent(e, c) = Lent(delegations, c) + Extra(c, a, v)
    BY <1>2, <1>4, <2>1 DEF Extra
  <2> QED
    BY <1>1, <1>6, <1>7, <2>1, <2>2, <2>3, <2>4 DEF Extra
<1>9. ASSUME NEW c \in Names
      PROVE  acc'[c].received_vesting_shares = Borrowed(e, c)
  <2>1. Borrowed(delegations, c) \in Nat
    BY <1>1, LentNat
  <2>4. Borrowed(e, c) = Borrowed(delegations, c) + Extra(c, b, v)
    BY <1>2, <1>4, <2>1 DEF Extra
  <2> QED
    BY <1>1, <1>7, <2>4
<1>10. DelegationsAddUp'
  <2>1. /\ \A c \in Users : DelegatedBy(c)' = Lent(delegations', c) + Returning(expirations', c)
        /\ \A c \in Names : DelegatedTo(c)' = Borrowed(delegations', c)
    BY DEF DelegatedBy, DelegatedTo, Lent, Borrowed, Returning
  <2> QED
    BY <1>3, <1>8, <1>9, <2>1 DEF DelegationsAddUp
<1>11. \A i \in DOMAIN expirations' : acc'[expirations'[i].delegator].exists
  <2>1. \A c \in Names : acc[c].exists => acc'[c].exists
    BY DEF Lends, LendsFor, Moves, Shifts, Grows, Current
  <2>2. \A i \in DOMAIN expirations : /\ acc[expirations[i].delegator].exists
                                      /\ expirations[i].delegator \in Names
    <3>1. \A i \in DOMAIN expirations : expirations[i] \in Return
      BY <1>1 DEF Returns
    <3> QED
      BY <3>1, ReturnTypes, AccountsAssumption DEF LoansBacked
  <2>3. a \in Names
    BY AccountsAssumption
  <2> QED
    BY <2>1, <2>2, <2>3 DEF Relends
<1>12. a \in Names /\ v + z \in Int
  BY <1>6, AccountsAssumption
<1> QED
  BY <1>5, <1>6, <1>10, <1>11, <1>12, Zenon DEF LoanMoves, LoansBacked

(* Steps that leave the loans alone.                                       *)
LEMMA LoansFrame ==
    ASSUME LoansBacked, UNCHANGED <<delegations, expirations>>, Grows(Current, Current'),
           Keeps(Current, Current', LoanFields)
    PROVE  LoansBacked'
<1>1. \A c \in Names :
          /\ acc'[c]["delegated_vesting_shares"] = acc[c]["delegated_vesting_shares"]
          /\ acc'[c]["received_vesting_shares"] = acc[c]["received_vesting_shares"]
  BY DEF Keeps, LoanFields, Current
<1>2. LoansTyped /\ LoansTyped'
  BY DEF LoansBacked, LoansTyped
<1>3. DelegationsAddUp'
  <2>1. \A c \in Users : DelegatedBy(c)' = DelegatedBy(c)
    BY DEF DelegatedBy
  <2>2. \A c \in Names : DelegatedTo(c)' = DelegatedTo(c)
    BY DEF DelegatedTo
  <2>3. DelegationsAddUp /\ Users \subseteq Names
    BY AccountsAssumption DEF LoansBacked
  <2> QED
    BY <1>1, <2>1, <2>2, <2>3 DEF DelegationsAddUp
<1>4. \A i \in DOMAIN expirations' : acc'[expirations'[i].delegator].exists
  <2>1. \A c \in Names : acc[c].exists => acc'[c].exists
    BY DEF Grows, Current
  <2>2. \A i \in DOMAIN expirations : /\ acc[expirations[i].delegator].exists
                                      /\ expirations[i].delegator \in Names
    <3>1. \A i \in DOMAIN expirations : expirations[i] \in Return
      BY <1>2 DEF Returns, LoansTyped
    <3> QED
      BY <3>1, ReturnTypes, AccountsAssumption DEF LoansBacked
  <2> QED
    BY <2>1, <2>2
<1> QED
  BY <1>2, <1>3, <1>4 DEF LoansBacked

LEMMA LendsGrows ==
    ASSUME NEW l, NEW m, NEW a, NEW b, NEW x, NEW y, Lends(l, m, a, x, b, y)
    PROVE  Formed(m) /\ Grows(l, m) /\ \A c \in Names : l.acc[c].exists => m.acc[c].exists
BY DEF Lends, LendsFor, Moves, Shifts, Grows

LEMMA NoLoanType == NoDelegation \in Loan /\ NoDelegation.vesting_shares = 0
BY DEF NoDelegation, Loan

(* More is lent: energy goes with the shares, then both counters change.   *)
Sent(l, a, x) ==
    IF x <= 0 THEN l
    ELSE [RecalcEnergy(l, a, x) EXCEPT !.acc[a].delegated_vesting_shares = @ + x]

LEMMA SentLends ==
    ASSUME NEW l, Formed(l), NEW a \in Names, l.acc[a].exists, now \in Nat,
           NEW b \in Names, l.acc[b].exists, NEW x, x \in Int,
           NEW m, m = [Sent(l, a, x) EXCEPT !.acc[b].received_vesting_shares = @ + x]
    PROVE  Lends(l, m, a, IF x <= 0 THEN 0 ELSE x, b, x)
<1>0. 0 \in Int
  OBVIOUS
<1>1. PICK k : k = Sent(l, a, x)
  OBVIOUS
<1>2. PICK v : v = IF x <= 0 THEN 0 ELSE x
  OBVIOUS
<1>3. v \in Int
  BY <1>2
<1>4. Lends(l, k, a, v, b, 0)
  <2>1. CASE x <= 0
    <3>1. k = l /\ v = 0
      BY <1>1, <1>2, <2>1 DEF Sent
    <3>2. Pays(l, l, 0)
      BY PaysNothing
    <3> QED
      BY <3>1, <3>2, PaysLends DEF Lends
  <2>2. CASE ~(x <= 0)
    <3>1. PICK r : r = RecalcEnergy(l, a, x)
      OBVIOUS
    <3>2. Pays(l, r, 0)
      BY <3>1, RecalcEnergyPays
    <3>3. Lends(l, r, a, 0, b, 0)
      BY <3>2, PaysLends DEF Lends
    <3>4. Formed(r) /\ r.acc[a].exists
      BY <3>3, LendsGrows
    <3>5. k = SetLent(r, a, r.acc[a].delegated_vesting_shares + x)
      BY <1>1, <2>2, <3>1 DEF Sent, SetLent
    <3>6. Lends(r, k, a, x, b, 0)
      BY <3>4, <3>5, LentLends
    <3>7. Lends(l, k, a, 0 + x, b, 0 + 0)
      BY <1>0, <3>3, <3>6, LendsTransitive
    <3>8. 0 + x = v /\ 0 + 0 = 0
      BY <1>2, <2>2
    <3> QED
      BY <3>7, <3>8
  <2> QED
    BY <2>1, <2>2
<1>5. Formed(k) /\ k.acc[b].exists
  BY <1>4, LendsGrows
<1>6. m = SetReceived(k, b, k.acc[b].received_vesting_shares + x)
  BY <1>1 DEF SetReceived
<1>7. Lends(k, m, a, 0, b, x)
  BY <1>5, <1>6, ReceivedLends
<1>8. Lends(l, m, a, v + 0, b, 0 + x)
  BY <1>0, <1>3, <1>4, <1>7, LendsTransitive
<1>9. v + 0 = v /\ 0 + x = x
  BY <1>3
<1>10. Lends(l, m, a, v, b, x)
  BY <1>8, <1>9
<1> QED
  BY <1>2, <1>10

LEMMA LendsNext ==
    ASSUME NEW m, NEW a, NEW b, NEW x, NEW y, Lends(Current, m, a, x, b, y), Becomes(m)
    PROVE  Lends(Current, Current', a, x, b, y)
<1>1. m \in Ledgers
  BY LedgerOfMoves DEF Lends, LendsFor
<1>2. Current' = m
  BY <1>1, BecomesNext
<1> QED
  BY <1>2

LEMMA SameReturns ==
    ASSUME LoansBacked, UNCHANGED expirations, NEW a
    PROVE  /\ expirations' \in Returns
           /\ \A c \in Names : Returning(expirations', c) = Returning(expirations, c) + Extra(c, a, 0)
           /\ \A i \in DOMAIN expirations' : \E j \in DOMAIN expirations : expirations'[i] = expirations[j]
<1>1. expirations \in Returns
  BY LoanBalance
<1>2. \A c \in Names : Returning(expirations, c) \in Nat
  BY <1>1, ReturningNat
<1> QED
  BY <1>1, <1>2 DEF Extra

LEMMA DelegatableInt ==
    ASSUME Formed(Current), NEW a \in Users
    PROVE  DelegatableShares(Current, a) \in Int
<1>1. Current \in Ledgers /\ a \in Names
  BY AccountsAssumption DEF Formed
<1>2. /\ Current.acc[a].vesting_shares \in Nat /\ Current.acc[a].delegated_vesting_shares \in Int
      /\ Current.acc[a].to_withdraw \in Nat /\ Current.acc[a].withdrawn \in Nat
  BY <1>1, AccountTypes
<1> QED
  BY <1>2 DEF DelegatableShares, AvailableShares

LEMMA DelegateStep ==
    ASSUME LoansBacked, Formed(Current), now \in Nat, NEW a \in Users, NEW b \in Names,
           NEW n, n \in Nat, DelegateVestingShares(a, b, n)
    PROVE  LoanMoves
<1>1. delegations \in [Users -> [Names -> Loan]] /\ expirations \in Returns
  BY LoanBalance
<1>2. PICK old : old = delegations[a][b]
  OBVIOUS
<1>3. old \in Loan /\ old.vesting_shares \in Nat /\ old.min_delegation_time \in Nat
  BY <1>1, <1>2, LoanTypes
<1>4. PICK v : v = n - old.vesting_shares
  OBVIOUS
<1>5. v \in Int
  BY <1>3, <1>4
<1>6. PICK m : m = [Sent(Current, a, v) EXCEPT !.acc[b].received_vesting_shares = @ + v]
  OBVIOUS
<1>7. acc[a].exists /\ acc[b].exists /\ Becomes(m)
  BY <1>2, <1>4, <1>6, Zenon DEF DelegateVestingShares, Sent
<1>8. PICK w : w = IF v <= 0 THEN 0 ELSE v
  OBVIOUS
<1>9. Lends(Current, Current', a, w, b, v)
  <2>1. a \in Names /\ Current.acc[a].exists /\ Current.acc[b].exists
    BY <1>7, AccountsAssumption DEF Current
  <2>2. Lends(Current, m, a, w, b, v)
    BY <1>5, <1>6, <1>8, <2>1, SentLends
  <2> QED
    BY <1>7, <2>2, LendsNext
<1>10. PICK x : x = IF n = 0 THEN NoDelegation
                    ELSE [vesting_shares |-> n,
                          min_delegation_time |->
                             IF old = NoDelegation THEN now ELSE old.min_delegation_time]
  OBVIOUS
<1>11. x \in Loan /\ x.vesting_shares = n
  <2>1. CASE n = 0
    BY <1>10, <2>1, NoLoanType
  <2>2. CASE n # 0
    <3>1. PICK t : t = IF old = NoDelegation THEN now ELSE old.min_delegation_time
      OBVIOUS
    <3>2. t \in Nat
      BY <1>3, <3>1
    <3>3. x = [vesting_shares |-> n, min_delegation_time |-> t]
      BY <1>10, <2>2, <3>1
    <3> QED
      BY <3>2, <3>3 DEF Loan
  <2> QED
    BY <2>1, <2>2
<1>12. delegations' = [delegations EXCEPT ![a][b] = x]
  BY <1>2, <1>10, Zenon DEF DelegateVestingShares
<1>13. CASE v > 0
  <2>1. UNCHANGED expirations
    BY <1>2, <1>4, <1>13 DEF DelegateVestingShares
  <2>2. Relends(a, b, x, 0)
    BY <1>11, <1>12, <2>1, SameReturns DEF Relends
  <2>3. w = v + 0 /\ 0 \in Int
    BY <1>5, <1>8, <1>13
  <2>4. Lends(Current, Current', a, v + 0, b, v)
    BY <1>9, <2>3
  <2>5. v = x.vesting_shares - delegations[a][b].vesting_shares
    BY <1>2, <1>4, <1>11
  <2>6. Affordable(a, v + 0)
    <3>1. DelegateAccepted(a, b, n) /\ n > old.vesting_shares
      <4>1. DelegateAccepted(a, b, n)
        BY Zenon DEF DelegateVestingShares
      <4>2. n > old.vesting_shares
        BY <1>3, <1>4, <1>13
      <4> QED
        BY <4>1, <4>2
    <3>2. DelegatableShares(Current, a) >= v
      BY <1>2, <1>4, <3>1 DEF DelegateAccepted
    <3>3. DelegatableShares(Current, a) \in Int
      BY <1>7, DelegatableInt
    <3>4. v + 0 = v /\ v <= DelegatableShares(Current, a)
      BY <1>5, <3>2, <3>3
    <3> QED
      BY <3>4 DEF Affordable
  <2> QED
    BY <1>7, <2>2, <2>3, <2>4, <2>5, <2>6, LoanChanged
<1>14. CASE ~(v > 0)
  <2>1. PICK e : e = Expiration(a, old, v)
    OBVIOUS
  <2>2. e \in Return /\ e.delegator = a /\ e.vesting_shares = 0 - v
    <3>1. PICK t : t = Max({now + RegenTime, old.min_delegation_time})
      OBVIOUS
    <3>2. now + RegenTime \in Nat
      BY AccountsAssumption
    <3>3. t \in Nat
      BY <1>3, <3>1, <3>2, MaxOfTwo
    <3>4. e = [delegator |-> a, vesting_shares |-> -v, expiration |-> t]
      BY <2>1, <3>1 DEF Expiration
    <3>5. -v \in Nat /\ -v = 0 - v
      BY <1>5, <1>14
    <3> QED
      BY <3>3, <3>4, <3>5 DEF Return
  <2>3. expirations' = Append(expirations, e)
    BY <1>2, <1>4, <1>14, <2>1, Zenon DEF DelegateVestingShares
  <2>4. /\ expirations' \in Returns
        /\ \A c : Returning(expirations', c) = Returning(expirations, c) + ReturnPart(e, c)
        /\ \A i \in DOMAIN expirations' :
              expirations'[i] = e \/ \E j \in DOMAIN expirations : expirations'[i] = expirations[j]
    <3>1. PICK t : t = expirations'
      OBVIOUS
    <3>2. e \in Return /\ t = Append(expirations, e)
      BY <2>2, <2>3, <3>1
    <3>4. OneMore(expirations, t, e)
      BY <1>1, <3>2, ReturnAppended
    <3> QED
      BY <3>1, <3>4 DEF OneMore
  <2>5. \A c : ReturnPart(e, c) = Extra(c, a, 0 - v)
    BY <2>2 DEF ReturnPart, Extra
  <2>6. Relends(a, b, x, 0 - v)
    BY <1>11, <1>12, <2>2, <2>4, <2>5 DEF Relends
  <2>7. w = v + (0 - v) /\ 0 - v \in Int
    BY <1>5, <1>8, <1>14
  <2>8. Lends(Current, Current', a, v + (0 - v), b, v)
    BY <1>9, <2>7
  <2>9. v = x.vesting_shares - delegations[a][b].vesting_shares
    BY <1>2, <1>4, <1>11
  <2>10. Affordable(a, v + (0 - v))
    BY <1>5 DEF Affordable
  <2> QED
    BY <1>7, <2>6, <2>7, <2>8, <2>9, <2>10, LoanChanged
<1> QED
  BY <1>13, <1>14

LEMMA ClearExpiredStep ==
    ASSUME LoansBacked, Formed(Current), now \in Nat, ClearExpiredDelegation
    PROVE  LoanMoves
<1>1. delegations \in [Users -> [Names -> Loan]] /\ expirations \in Returns
  BY LoanBalance
<1>2. PICK i \in DueExpirations :
        /\ Becomes(RecalcEnergy([Current EXCEPT !.acc[expirations[i].delegator].delegated_vesting_shares
                                        = @ - expirations[i].vesting_shares],
                                expirations[i].delegator, expirations[i].vesting_shares))
        /\ expirations' = RemoveAt(expirations, i)
        /\ UNCHANGED <<routes, delegations>>
  BY DEF ClearExpiredDelegation
<1>3. i \in DOMAIN expirations
  BY DEF DueExpirations
<1>4. PICK e : e = expirations[i]
  OBVIOUS
<1>5. e \in Return
  BY <1>1, <1>3, <1>4 DEF Returns
<1>6. PICK a, n : a = e.delegator /\ n = e.vesting_shares
  OBVIOUS
<1>7. a \in Users /\ a \in Names /\ n \in Nat
  BY <1>5, <1>6, ReturnTypes, AccountsAssumption
<1>8. acc[a].exists
  BY <1>3, <1>4, <1>6 DEF LoansBacked
<1>9. PICK k : k = [Current EXCEPT !.acc[a].delegated_vesting_shares = @ - n]
  OBVIOUS
<1>10. PICK m : m = RecalcEnergy(k, a, n)
  OBVIOUS
<1>11. Becomes(m)
  BY <1>2, <1>4, <1>6, <1>9, <1>10, Zenon
<1>12. PICK z : z = 0 - n
  OBVIOUS
<1>13. z \in Int
  BY <1>7, <1>12
<1>14. Current.acc[a].exists /\ Current \in Ledgers
  BY <1>8 DEF Current, Formed
<1>15. k = SetLent(Current, a, Current.acc[a].delegated_vesting_shares + z)
  <2>1. Current.acc[a].delegated_vesting_shares \in Int
    BY <1>7, <1>14, AccountTypes
  <2>2. Current.acc[a].delegated_vesting_shares - n = Current.acc[a].delegated_vesting_shares + z
    BY <1>7, <1>12, <2>1
  <2>3. k = SetLent(Current, a, Current.acc[a].delegated_vesting_shares - n)
    BY <1>9 DEF SetLent
  <2> QED
    BY <2>2, <2>3, Zenon
<1>16. Lends(Current, k, a, z, a, 0)
  BY <1>7, <1>13, <1>14, <1>15, LentLends
<1>17. Formed(k) /\ k.acc[a].exists
  BY <1>7, <1>14, <1>16, LendsGrows
<1>18. Lends(k, m, a, 0, a, 0)
  <2>1. n \in Int
    BY <1>7
  <2>2. Pays(k, m, 0)
    BY <1>7, <1>10, <1>17, <2>1, RecalcEnergyPays
  <2> QED
    BY <1>17, <2>2, PaysLends DEF Lends
<1>19. Lends(Current, m, a, z, a, 0)
  <2>1. 0 \in Int
    OBVIOUS
  <2>2. Lends(Current, m, a, z + 0, a, 0 + 0)
    BY <1>13, <1>16, <1>18, <2>1, LendsTransitive
  <2>3. z + 0 = z /\ 0 + 0 = 0
    BY <1>13
  <2> QED
    BY <2>2, <2>3
<1>20. Lends(Current, Current', a, z, a, 0)
  BY <1>11, <1>19, LendsNext
<1>21. /\ expirations' \in Returns
       /\ \A c : Returning(expirations', c) = Returning(expirations, c) - ReturnPart(e, c)
       /\ \A j \in DOMAIN expirations' : \E u \in DOMAIN expirations : expirations'[j] = expirations[u]
  <2>1. expirations' = RemoveAt(expirations, i)
    BY <1>2
  <2> QED
    BY <1>1, <1>3, <1>4, <2>1, ReturnTaken
<1>22. PICK x : x = delegations[a][a]
  OBVIOUS
<1>23. x \in Loan /\ x.vesting_shares \in Nat /\ delegations' = [delegations EXCEPT ![a][a] = x]
  <2>1. delegations' = delegations
    BY <1>2
  <2>2. x \in Loan /\ x.vesting_shares \in Nat
    BY <1>1, <1>7, <1>22, LoanTypes
  <2> QED
    BY <1>1, <1>7, <1>22, <2>1, <2>2
<1>24. \A c \in Names : Returning(expirations', c) = Returning(expirations, c) + Extra(c, a, z)
  <2>1. \A c : Returning(expirations, c) \in Nat
    BY <1>1, ReturningNat
  <2>2. \A c : ReturnPart(e, c) = IF c = a THEN n ELSE 0
    BY <1>6 DEF ReturnPart
  <2> QED
    BY <1>7, <1>12, <1>21, <2>1, <2>2 DEF Extra
<1>25. Relends(a, a, x, z)
  BY <1>21, <1>23, <1>24 DEF Relends
<1>26. PICK v : v = x.vesting_shares - delegations[a][a].vesting_shares
  OBVIOUS
<1>27. v = 0 /\ v + z = z
  BY <1>13, <1>22, <1>23, <1>26
<1>28. Lends(Current, Current', a, v + z, a, v)
  BY <1>20, <1>27
<1>29. Affordable(a, v + z)
  BY <1>7, <1>12, <1>27 DEF Affordable
<1> QED
  BY <1>7, <1>8, <1>13, <1>25, <1>26, <1>28, <1>29, LoanChanged

(* A new account is lent shares by the one that creates it.                *)
LEMMA AccountCreateStep ==
    ASSUME LoansBacked, Formed(Current), now \in Nat, NEW a \in Users, NEW b \in Names,
           NEW fee, fee \in Nat, NEW n, n \in Nat, AccountCreate(a, b, fee, n)
    PROVE  LoanMoves
<1>0. 0 \in Int /\ n \in Int /\ a \in Names
  BY AccountsAssumption
<1>1. PICK r : r = RecalcEnergy(Current, a, n)
  OBVIOUS
<1>2. PICK k : k = [r EXCEPT !.acc[a].balance = @ - fee,
                             !.acc[a].delegated_vesting_shares = @ + n]
  OBVIOUS
<1>3. PICK c : c = [CreateAccount(k, b) EXCEPT !.acc[b].received_vesting_shares = n]
  OBVIOUS
<1>4. PICK m : m = IF fee > 0 THEN CreateVesting(c, b, fee) ELSE c
  OBVIOUS
<1>5. /\ acc[a].exists /\ ~acc[b].exists /\ Becomes(m)
      /\ delegations' = IF n = 0 THEN delegations
                        ELSE [delegations EXCEPT ![a][b] =
                                [vesting_shares |-> n, min_delegation_time |-> now + DelegationTime]]
      /\ UNCHANGED <<routes, expirations>>
  BY <1>1, <1>2, <1>3, <1>4, Zenon DEF AccountCreate
<1>6. Current.acc[a].exists /\ ~Current.acc[b].exists /\ Current \in Ledgers /\ a # b
  BY <1>5 DEF Current, Formed
<1>7. Lends(Current, r, a, 0, b, 0)
  <2>1. Pays(Current, r, 0)
    BY <1>0, <1>1, <1>6, RecalcEnergyPays
  <2> QED
    BY <2>1, PaysLends DEF Lends
<1>8. Formed(r) /\ r.acc[a].exists /\ r \in Ledgers /\ ~r.acc[b].exists
  <2>1. Formed(r) /\ r.acc[a].exists
    BY <1>0, <1>6, <1>7, LendsGrows
  <2>2. r.acc[b].exists = Current.acc[b].exists
    BY <1>0, <1>1, <1>6, RecalcEnergyPays
  <2> QED
    BY <1>6, <2>1, <2>2 DEF Formed
<1>9. PICK q : q = AdjustBalance(r, a, -fee)
  OBVIOUS
<1>10. Pays(r, q, -fee) /\ \A d \in Names : q.acc[d].exists = r.acc[d].exists
  <2>1. -fee \in Int /\ MayTake(a, -fee)
    BY UsersMayTake
  <2> QED
    BY <1>0, <1>8, <1>9, <2>1, AdjustBalancePays
<1>11. Formed(q) /\ q.acc[a].exists /\ q \in Ledgers /\ ~q.acc[b].exists
  <2>1. Formed(q)
    BY <1>10, PaysExists
  <2> QED
    BY <1>0, <1>8, <1>10, <2>1 DEF Formed
<1>12. k = SetLent(q, a, q.acc[a].delegated_vesting_shares + n)
  <2>1. r.acc[a].balance \in Int
    BY <1>0, <1>8, AccountTypes
  <2>2. r.acc[a].balance - fee = r.acc[a].balance + (-fee)
    BY <2>1
  <2>3. q.acc[a].delegated_vesting_shares = r.acc[a].delegated_vesting_shares
    BY <1>0, <1>8, <1>9 DEF AdjustBalance, Ledgers, Account
  <2>4. k = SetLent(q, a, r.acc[a].delegated_vesting_shares + n)
    BY <1>0, <1>2, <1>8, <1>9, <2>2 DEF AdjustBalance, SetLent, Ledgers, Account
  <2> QED
    BY <2>3, <2>4
<1>13. Lends(q, k, a, n, b, 0)
  BY <1>0, <1>11, <1>12, LentLends
<1>14. Formed(k) /\ k \in Ledgers /\ k.acc[a].exists
  BY <1>0, <1>11, <1>13, LendsGrows DEF Formed
<1>15. ~k.acc[b].exists /\ k.acc[b] = NoAccount
  <2>1. k.acc[b] = q.acc[b]
    BY <1>6, <1>11, <1>12 DEF SetLent, Ledgers
  <2> QED
    BY <1>11, <1>14, <2>1 DEF Formed, Absent
<1>16. PICK o : o = CreateAccount(k, b)
  OBVIOUS
<1>17. Pays(k, o, 0) /\ o.acc[b].exists
  BY <1>14, <1>15, <1>16, OpenAccountPays DEF OpenAccount, CreateAccount
<1>18. Lends(k, o, a, 0, b, 0) /\ Formed(o) /\ o \in Ledgers
  BY <1>14, <1>17, PaysLends, PaysExists DEF Lends, Formed
<1>19. o.acc[b].received_vesting_shares = 0
  BY <1>14, <1>16 DEF CreateAccount, NewAccount, Ledgers
<1>20. c = SetReceived(o, b, o.acc[b].received_vesting_shares + n)
  <2>1. o.acc[b].received_vesting_shares + n = n
    BY <1>0, <1>19
  <2>2. c = SetReceived(o, b, n)
    BY <1>3, <1>16 DEF SetReceived
  <2> QED
    BY <2>1, <2>2
<1>21. Lends(o, c, a, 0, b, n)
  BY <1>0, <1>17, <1>18, <1>20, ReceivedLends
<1>22. Lends(k, c, a, 0, b, n)
  <2>1. Lends(k, c, a, 0 + 0, b, 0 + n)
    BY <1>0, <1>14, <1>18, <1>21, LendsTransitive
  <2>2. 0 + 0 = 0 /\ 0 + n = n
    BY <1>0
  <2> QED
    BY <2>1, <2>2
<1>23. Lends(q, c, a, n, b, n)
  <2>1. Lends(q, c, a, n + 0, b, 0 + n)
    BY <1>0, <1>11, <1>13, <1>22, LendsTransitive
  <2>2. n + 0 = n /\ 0 + n = n
    BY <1>0
  <2> QED
    BY <2>1, <2>2
<1>24. Formed(c) /\ c.acc[b].exists
  <2>1. Formed(c) /\ \A d \in Names : o.acc[d].exists => c.acc[d].exists
    BY <1>21, LendsGrows
  <2> QED
    BY <1>17, <2>1
<1>25. Pays(c, m, fee)
  <2>1. CASE fee > 0
    <3>1. m = CreateVesting(c, b, fee)
      BY <1>4, <2>1
    <3> QED
      BY <1>24, <3>1, CreateVestingPays
  <2>2. CASE fee = 0
    <3>1. m = c
      BY <1>4, <2>2
    <3> QED
      BY <1>24, <2>2, <3>1, PaysNothing
  <2> QED
    BY <2>1, <2>2
<1>26. LendsFor(Current, q, 0 - fee, a, 0, b, 0)
  <2>1. LendsFor(r, q, -fee, a, 0, b, 0)
    BY <1>8, <1>10, PaysLends
  <2>2. LendsFor(Current, r, 0, a, 0, b, 0)
    BY <1>7 DEF Lends
  <2>3. -fee \in Int
    OBVIOUS
  <2>4. LendsFor(Current, q, 0 + (-fee), a, 0 + 0, b, 0 + 0)
    BY <1>0, <2>1, <2>2, <2>3, LendsForTransitive
  <2>5. 0 + (-fee) = 0 - fee /\ 0 + 0 = 0
    OBVIOUS
  <2> QED
    BY <2>4, <2>5
<1>27. LendsFor(q, m, fee, a, n, b, n)
  <2>1. LendsFor(c, m, fee, a, 0, b, 0)
    BY <1>24, <1>25, PaysLends
  <2>2. LendsFor(q, c, 0, a, n, b, n)
    BY <1>23 DEF Lends
  <2>3. fee \in Int
    OBVIOUS
  <2>4. LendsFor(q, m, 0 + fee, a, n + 0, b, n + 0)
    BY <1>0, <1>11, <2>1, <2>2, <2>3, LendsForTransitive
  <2>5. 0 + fee = fee /\ n + 0 = n
    OBVIOUS
  <2> QED
    BY <2>4, <2>5
<1>28. Lends(Current, m, a, n, b, n)
  <2>1. fee \in Int /\ 0 - fee \in Int
    OBVIOUS
  <2>2. LendsFor(Current, m, (0 - fee) + fee, a, 0 + n, b, 0 + n)
    BY <1>0, <1>26, <1>27, <2>1, LendsForTransitive
  <2>3. (0 - fee) + fee = 0 /\ 0 + n = n
    OBVIOUS
  <2> QED
    BY <2>2, <2>3 DEF Lends
<1>29. Lends(Current, Current', a, n, b, n)
  BY <1>5, <1>28, LendsNext
<1>30. delegations \in [Users -> [Names -> Loan]] /\ acc[b].received_vesting_shares = Borrowed(delegations, b)
  BY LoanBalance
<1>31. delegations[a][b].vesting_shares = 0
  <2>1. acc[b] = NoAccount
    BY <1>5 DEF Formed, Absent, Current
  <2>2. acc[b].received_vesting_shares = 0
    BY <2>1 DEF NoAccount, NewAccount
  <2>3. delegations[a][b].vesting_shares <= 0
    BY <1>30, <2>2, LentNat
  <2>4. delegations[a][b].vesting_shares \in Nat
    BY <1>30, LoanTypes
  <2> QED
    BY <2>3, <2>4
<1>32. PICK x : x = IF n = 0 THEN delegations[a][b]
                    ELSE [vesting_shares |-> n, min_delegation_time |-> now + DelegationTime]
  OBVIOUS
<1>33. x \in Loan /\ x.vesting_shares = n /\ delegations' = [delegations EXCEPT ![a][b] = x]
  <2>1. CASE n = 0
    <3>1. x = delegations[a][b] /\ delegations' = delegations
      BY <1>5, <1>32, <2>1
    <3>2. x \in Loan
      BY <1>30, <3>1, LoanTypes
    <3> QED
      BY <1>30, <1>31, <2>1, <3>1, <3>2
  <2>2. CASE n # 0
    <3>1. /\ x = [vesting_shares |-> n, min_delegation_time |-> now + DelegationTime]
          /\ delegations' = [delegations EXCEPT ![a][b] = x]
      BY <1>5, <1>32, <2>2
    <3>2. now + DelegationTime \in Nat
      BY VestingAssumption
    <3> QED
      BY <3>1, <3>2 DEF Loan
  <2> QED
    BY <2>1, <2>2
<1>34. Relends(a, b, x, 0)
  <2>1. UNCHANGED expirations
    BY <1>5
  <2> QED
    BY <1>33, <2>1, SameReturns DEF Relends
<1>35. PICK v : v = x.vesting_shares - delegations[a][b].vesting_shares
  OBVIOUS
<1>36. v = n /\ v + 0 = n
  BY <1>0, <1>31, <1>33, <1>35
<1>37. Lends(Current, Current', a, v + 0, b, v)
  BY <1>29, <1>36
<1>38. Affordable(a, v + 0)
  <2>1. DelegatableShares(Current, a) >= n
    BY DEF AccountCreate
  <2>2. DelegatableShares(Current, a) \in Int
    BY DelegatableInt
  <2> QED
    BY <1>36, <2>1, <2>2 DEF Affordable
<1> QED
  BY <1>0, <1>5, <1>34, <1>35, <1>37, <1>38, LoanChanged

=============================================================================
