------------------------- MODULE ChainDatabaseProofs ------------------------
(***************************************************************************)
(* push_block keeps its types, keeps what is committed and raises the last *)
(* irreversible block only with the support of the threshold, for every    *)
(* tree of blocks, every set of validators and every schedule.             *)
(*                                                                         *)
(* The inductive invariant has two parts.  Chain: every state of the chain *)
(* is the one its block makes of the state below it, no record is ahead of *)
(* its block, and what is committed is applied.  Locals: what push_block   *)
(* holds at each of its labels.                                            *)
(***************************************************************************)
EXTENDS ChainDatabase, NumberSets, FiniteSetTheorems, SequenceTheorems, TLAPS

-----------------------------------------------------------------------------
(* What the computation of the last irreversible block guarantees for      *)
(* every schedule and every threshold.                                     *)

(* The tolerated slots are fewer than the slots.                           *)
LEMMA OffsetBound ==
    ASSUME NEW schedule \in Seq(Validator) \ {<<>>}
    PROVE  Offset(schedule) \in 0 .. Len(schedule) - 1
<1> DEFINE len == Len(schedule)
<1>1. len \in Nat \ {0}
  OBVIOUS
<1> HIDE DEF len
<1>2. Threshold * len >= len
  BY <1>1, SupportConstants
<1>3. (100 - Threshold) * len = 100 * len - Threshold * len
  BY <1>1, SupportConstants
<1>4. (100 - Threshold) * len >= 0
  BY <1>1, SupportConstants
<1>5. (100 - Threshold) * len \in Nat
  BY <1>1, <1>4, SupportConstants
<1>6. ((100 - Threshold) * len) \div 100 \in 0 .. len - 1
  <2> DEFINE x == (100 - Threshold) * len
  <2>1. x \in Nat /\ x < 100 * len
    BY <1>1, <1>2, <1>3, <1>5, SupportConstants
  <2> HIDE DEF x
  <2>2. x \div 100 \in 0 .. len - 1
    BY <2>1, <1>1
  <2> QED
    BY <2>2 DEF x
<1> QED
  BY <1>6 DEF Offset, len

Nums(support, schedule) == {support[schedule[i]].supported : i \in 1 .. Len(schedule)}

Enough(support, schedule, n) ==
    Cardinality(SlotsUpTo(support, schedule, n)) > Offset(schedule)

(* The set that nth_element sorts, and the sets of slots cut out of it.    *)
LEMMA SlotSets ==
    ASSUME NEW support \in Support, NEW schedule \in Seq(Validator) \ {<<>>}
    PROVE  /\ Nums(support, schedule) \subseteq Nat
           /\ Nums(support, schedule) # {}
           /\ IsFiniteSet(1 .. Len(schedule))
           /\ Cardinality(1 .. Len(schedule)) = Len(schedule)
           /\ \A n : IsFiniteSet(SlotsUpTo(support, schedule, n))
<1>1. Len(schedule) \in Nat \ {0} /\ \A i \in 1 .. Len(schedule) : schedule[i] \in Validator
  OBVIOUS
<1>2. \A i \in 1 .. Len(schedule) : support[schedule[i]].supported \in Nat
  BY <1>1 DEF Support
<1>3. support[schedule[1]].supported \in Nums(support, schedule)
  BY <1>1 DEF Nums
<1>4. IsFiniteSet(1 .. Len(schedule)) /\ Cardinality(1 .. Len(schedule)) = Len(schedule)
  BY <1>1, FS_Interval
<1>5. \A n : IsFiniteSet(SlotsUpTo(support, schedule, n))
  BY <1>4, FS_Subset DEF SlotsUpTo
<1> QED
  BY <1>2, <1>3, <1>4, <1>5 DEF Nums

(* nth_element picks a number of the schedule: the least one that more     *)
(* slots than the tolerated ones do not exceed.                            *)
LEMMA SupportedNumIsLeast ==
    ASSUME NEW support \in Support, NEW schedule \in Seq(Validator) \ {<<>>},
           NEW k \in Nat, \A v \in Validator : support[v].supported <= k
    PROVE  LET n == SupportedNum(support, schedule) IN
           /\ n \in Nums(support, schedule) /\ n \in 0 .. k
           /\ Enough(support, schedule, n)
           /\ \A m \in Nums(support, schedule) : Enough(support, schedule, m) => n <= m
<1> DEFINE nums == Nums(support, schedule)
           good == {n \in nums : Enough(support, schedule, n)}
<1>1. \A i \in 1 .. Len(schedule) : schedule[i] \in Validator
  OBVIOUS
<1>2. \A n \in nums : n <= k
  BY <1>1 DEF Nums
<1>3. PICK top \in nums : \A m \in nums : m <= top
  <2> HIDE DEF nums
  <2> QED
    BY <1>2, SlotSets, GreatestExists DEF nums
<1>4. SlotsUpTo(support, schedule, top) = 1 .. Len(schedule)
  BY <1>3 DEF SlotsUpTo, Nums
<1>5. top \in good
  <2>1. Cardinality(SlotsUpTo(support, schedule, top)) = Len(schedule)
    BY <1>4, SlotSets
  <2> QED
    BY <1>3, <2>1, OffsetBound DEF Enough
<1>6. PICK n \in good : \A m \in good : n <= m
  <2>1. good \subseteq Nat /\ good # {}
    BY <1>5, SlotSets
  <2> HIDE DEF good
  <2> QED
    BY <2>1, LeastExists
<1>7. SupportedNum(support, schedule) \in nums
      /\ Enough(support, schedule, SupportedNum(support, schedule))
      /\ \A m \in nums : Enough(support, schedule, m) => SupportedNum(support, schedule) <= m
  BY <1>6 DEF SupportedNum, Enough, Nums
<1>8. SupportedNum(support, schedule) \in 0 .. k
  BY <1>7, <1>2, SlotSets
<1> QED
  BY <1>7, <1>8

(* All slots but the tolerated ones have reached the supported number.     *)
THEOREM SupportedNumHasQuorum ==
    ASSUME NEW support \in Support, NEW schedule \in Seq(Validator) \ {<<>>},
           NEW k \in Nat, \A v \in Validator : support[v].supported <= k
    PROVE  Cardinality(SlotsFrom(support, schedule, SupportedNum(support, schedule)))
               >= Len(schedule) - Offset(schedule)
<1> DEFINE n == SupportedNum(support, schedule)
           slots == 1 .. Len(schedule)
           low == {i \in slots : support[schedule[i]].supported < n}
           high == SlotsFrom(support, schedule, n)
<1>1. n \in Nat /\ \A i \in slots : support[schedule[i]].supported \in Nat
  <2>1. \A i \in slots : support[schedule[i]].supported \in Nums(support, schedule)
    BY DEF Nums
  <2> QED
    BY <2>1, SlotSets, SupportedNumIsLeast
<1>2. IsFiniteSet(slots) /\ Cardinality(slots) = Len(schedule)
  BY SlotSets
<1>3. low \in SUBSET slots /\ high \in SUBSET slots /\ high = slots \ low
  BY <1>1 DEF SlotsFrom
<1>4. IsFiniteSet(low) /\ Cardinality(low) \in Nat
  BY <1>2, <1>3, FS_Subset, FS_CardinalityType
<1>5. Cardinality(low) <= Offset(schedule)
  <2>1. CASE low = {}
    <3> HIDE DEF low
    <3>1. Cardinality(low) = 0
      BY <2>1, FS_EmptySet
    <3> QED
      BY <3>1, OffsetBound
  <2>2. CASE low # {}
    <3> DEFINE below == {m \in Nums(support, schedule) : m < n}
    <3>1. below \subseteq Nat /\ below # {} /\ \A m \in below : m <= n
      <4>1. PICK i \in slots : support[schedule[i]].supported < n
        BY <2>2
      <4>2. support[schedule[i]].supported \in below
        BY <4>1 DEF Nums
      <4> QED
        BY <4>2, SlotSets, <1>1
    <3>2. PICK m \in below : \A x \in below : x <= m
      <4> HIDE DEF below, n
      <4> QED
        BY <3>1, <1>1, GreatestExists
    <3>3. SlotsUpTo(support, schedule, m) = low
      <4>1. \A i \in slots : support[schedule[i]].supported < n
                => support[schedule[i]].supported <= m
        BY <3>2 DEF Nums
      <4>2. \A i \in slots : support[schedule[i]].supported <= m
                => support[schedule[i]].supported < n
        BY <3>1, <3>2, <1>1
      <4> QED
        BY <4>1, <4>2 DEF SlotsUpTo
    <3>4. ~Enough(support, schedule, m)
      BY <3>1, <3>2, <1>1, SupportedNumIsLeast
    <3> QED
      BY <3>3, <3>4, <1>4, OffsetBound DEF Enough
  <2> QED
    BY <2>1, <2>2
<1>6. Cardinality(high) = Len(schedule) - Cardinality(low)
  <2>1. slots \cap low = low
    BY <1>3
  <2> QED
    BY <1>2, <1>3, <1>4, <2>1, FS_Difference
<1> QED
  BY <1>4, <1>5, <1>6, OffsetBound

-----------------------------------------------------------------------------
(* The new last irreversible block number is a number of the chain and     *)
(* never lower than the old one.                                           *)
LEMMA NewLibBounds ==
    ASSUME NEW support \in Support, NEW schedule \in Seq(Validator) \ {<<>>},
           NEW lib \in Nat, NEW head \in Nat \ {0}, NEW emergency \in BOOLEAN,
           lib <= head, \A v \in Validator : support[v].supported <= head
    PROVE  LET n == NewLib(support, schedule, lib, head, emergency) IN
           n \in Nat /\ lib <= n /\ n <= head
<1>1. SupportedNum(support, schedule) \in 0 .. head
  BY SupportedNumIsLeast
<1> QED
  BY <1>1 DEF NewLib

(* When the number is raised, the threshold supports it: the emergency cap *)
(* can only lower it.                                                      *)
THEOREM NewLibHasQuorum ==
    ASSUME NEW support \in Support, NEW schedule \in Seq(Validator) \ {<<>>},
           NEW lib \in Nat, NEW head \in Nat \ {0}, NEW emergency \in BOOLEAN,
           lib <= head, \A v \in Validator : support[v].supported <= head,
           NewLib(support, schedule, lib, head, emergency) > lib
    PROVE  Cardinality(SlotsFrom(support, schedule,
                                 NewLib(support, schedule, lib, head, emergency)))
               >= Len(schedule) - Offset(schedule)
<1> DEFINE n == SupportedNum(support, schedule)
           new == NewLib(support, schedule, lib, head, emergency)
           slots == 1 .. Len(schedule)
<1>1. n \in 0 .. head /\ Cardinality(SlotsFrom(support, schedule, n))
                             >= Len(schedule) - Offset(schedule)
  BY SupportedNumIsLeast, SupportedNumHasQuorum
<1>2. new \in Nat /\ new <= n
  BY <1>1 DEF NewLib
<1>3. \A i \in slots : support[schedule[i]].supported \in Nat
  BY SlotSets DEF Nums
<1> HIDE DEF n, new
<1>4. SlotsFrom(support, schedule, n) \in SUBSET SlotsFrom(support, schedule, new)
  BY <1>1, <1>2, <1>3 DEF SlotsFrom
<1>5. IsFiniteSet(SlotsFrom(support, schedule, new))
  BY SlotSets, FS_Subset DEF SlotsFrom
<1>6. Cardinality(SlotsFrom(support, schedule, n)) <= Cardinality(SlotsFrom(support, schedule, new))
  BY <1>4, <1>5, FS_Subset
<1>7. /\ Cardinality(SlotsFrom(support, schedule, n)) \in Nat
      /\ Cardinality(SlotsFrom(support, schedule, new)) \in Nat
  BY <1>4, <1>5, FS_Subset, FS_CardinalityType
<1> QED
  BY <1>1, <1>6, <1>7, OffsetBound DEF new

(* The updates of a block keep the records typed, and no record runs ahead *)
(* of the block.                                                           *)
LEMMA RunUpdates ==
    ASSUME NEW support \in Support, NEW missed, NEW producer
    PROVE  /\ MissSlots(support, missed, producer) \in Support
           /\ EndRuns(support) \in Support
           /\ \A v \in Validator :
                /\ MissSlots(support, missed, producer)[v].supported = support[v].supported
                /\ EndRuns(support)[v].supported = support[v].supported
  BY DEF Support, MissSlots, EndRuns

(* update_signing_validator changes one record: its supported number is    *)
(* the block's or the one before.                                          *)
LEMMA SignBlockUpdate ==
    ASSUME NEW support \in Support, NEW producer \in Validator, NEW num \in Nat
    PROVE  /\ SignBlock(support, producer, num) \in Support
           /\ \A v \in Validator : SignBlock(support, producer, num)[v].supported
                                       \in {support[v].supported, num}
  BY DEF Support, SignBlock

-----------------------------------------------------------------------------
(* What the methods of the fork database return.                           *)

(* Every method leaves a fork database.                                    *)
LEMMA SettleType ==
    ASSUME NEW f \in ForkDb
    PROVE  Settle(f) \in ForkDb
  BY DEF ForkDb, Settle, Alive

(* Every method that inserts or drops blocks keeps the type of the fork    *)
(* database.                                                               *)
LEMMA ForkDbUpdates ==
    ASSUME NEW f \in ForkDb, NEW b \in Block
    PROVE  /\ Reset(f) \in ForkDb
           /\ StartBlock(f, b) \in ForkDb
           /\ InsertItem(f, b) \in ForkDb
           /\ StoreUnlinked(f, b) \in ForkDb
           /\ TakeUnlinked(f, b) \in ForkDb
           /\ InsertBaseItem(f, b) \in ForkDb
           /\ RepairChildPrevLinks(f, b) \in ForkDb
<1>1. Reset(f) \in ForkDb
  BY DEF ForkDb, Reset
<1>2. StartBlock(f, b) \in ForkDb
  <2>1. [f EXCEPT !.index = @ \cup {b}, !.head = b, !.broken = @ \cup {b}] \in ForkDb
    BY DEF ForkDb
  <2> QED
    BY <2>1, SettleType DEF StartBlock
<1>3. InsertItem(f, b) \in ForkDb
  <2> DEFINE orphan == f.head = Root \/ Prev[b] = Root
             item == [f EXCEPT !.index = @ \cup {b},
                               !.head = IF BecomesHead(f, b) THEN b ELSE @,
                               !.broken = IF orphan THEN @ \cup {b} ELSE @ \ {b}]
  <2>1. item \in ForkDb
    BY DEF ForkDb
  <2> QED
    BY <2>1, SettleType DEF InsertItem
<1>4. StoreUnlinked(f, b) \in ForkDb
  BY DEF ForkDb, StoreUnlinked
<1>5. TakeUnlinked(f, b) \in ForkDb
  BY DEF ForkDb, TakeUnlinked
<1>6. InsertBaseItem(f, b) \in ForkDb
  <2>1. [f EXCEPT !.index = @ \cup {b}, !.broken = @ \cup {b}] \in ForkDb
    BY DEF ForkDb
  <2> QED
    BY <2>1, SettleType DEF InsertBaseItem
<1>7. RepairChildPrevLinks(f, b) \in ForkDb
  BY DEF ForkDb, RepairChildPrevLinks
<1> QED
  BY <1>1, <1>2, <1>3, <1>4, <1>5, <1>6, <1>7

(* pop_block keeps it when its assertions hold.                            *)
LEMMA PopHeadType ==
    ASSUME NEW f \in ForkDb, CanPopHead(f)
    PROVE  PopHead(f) \in ForkDb
<1>1. Prev[f.head] \in Block \cup {Root}
  BY BlockTree DEF ForkDb, CanPopHead
<1> QED
  BY <1>1, SettleType DEF ForkDb, PopHead

(* set_head keeps it.                                                      *)
LEMMA SetHeadType ==
    ASSUME NEW f \in ForkDb, NEW b \in Block \cup {Root}
    PROVE  SetHead(f, b) \in ForkDb
  BY SettleType DEF ForkDb, SetHead

(* remove keeps it.                                                        *)
LEMMA RemoveBlocksType ==
    ASSUME NEW f \in ForkDb, NEW S
    PROVE  RemoveBlocks(f, S) \in ForkDb
  BY SettleType DEF ForkDb, RemoveBlocks

(* set_max_size keeps it for a size that is not negative.                  *)
LEMMA SetMaxSizeType ==
    ASSUME NEW f \in ForkDb, NEW s \in Nat
    PROVE  SetMaxSize(f, s) \in ForkDb
<1> DEFINE keep(S) == {b \in S : f.head = Root \/ Num[b] >= Num[f.head] - s}
<1>1. keep(f.index) \in SUBSET Block /\ keep(f.unlinked) \in SUBSET Block
  BY DEF ForkDb
<1>2. [f EXCEPT !.max_size = s, !.index = keep(@), !.unlinked = keep(@)] \in ForkDb
  <2> HIDE DEF keep
  <2> QED
    BY <1>1 DEF ForkDb
<1> QED
  BY <1>2, SettleType DEF SetMaxSize

(* set_emergency_mode keeps it.                                            *)
LEMMA SetEmergencyModeType ==
    ASSUME NEW f \in ForkDb, NEW active \in BOOLEAN
    PROVE  SetEmergencyMode(f, active) \in ForkDb
  BY DEF ForkDb, SetEmergencyMode

-----------------------------------------------------------------------------
(* Lookups return an item or nothing.                                      *)
LEMMA ItemAtType ==
    ASSUME NEW f, NEW a, NEW n
    PROVE  ItemAt(f, a, n) \in Block \cup {Root}
  BY Zenon DEF ItemAt

(* fetch_block_on_main_branch_by_number returns a block or nothing.        *)
LEMMA FetchType ==
    ASSUME NEW f \in ForkDb, NEW n
    PROVE  FetchOnMainBranch(f, n) \in Block \cup {Root}
<1>1. AtNumber(f, n) \subseteq Block
  BY DEF AtNumber, ForkDb
<1>2. AtNumber(f, n) # {} => (CHOOSE b \in AtNumber(f, n) : TRUE) \in Block
  BY <1>1
<1>3. WalkMainBranchToNum(f, n) \in Block \cup {Root}
  BY ItemAtType DEF WalkMainBranchToNum
<1> QED
  BY <1>2, <1>3 DEF FetchOnMainBranch

(* A branch that fetch_branch_from finds has a block, and only blocks.     *)
LEMMA BranchFromType ==
    ASSUME NEW f \in ForkDb, NEW a, NEW b, BranchesFound(f, a, b)
    PROVE  BranchFrom(f, a, b) \in Seq(Block) \ {<<>>}
<1> DEFINE heights == MeetingHeights(f, a, b)
<1>1. a \in Block /\ Num[a] \in Nat
  BY BlockTree DEF BranchesFound, ForkDb
<1>2. heights \subseteq Nat /\ heights # {} /\ \A n \in heights : n <= Num[a]
  BY <1>1 DEF BranchesFound, MeetingHeights
<1>3. \E n \in heights : \A m \in heights : m <= n
  <2> HIDE DEF heights
  <2> QED
    BY <1>1, <1>2, GreatestExists
<1>4. PICK low \in heights : low = CHOOSE n \in heights : \A m \in heights : m <= n
  BY <1>3
<1>5. low \in 1 .. Num[a] /\ Reaches(f, a, low)
  BY <1>4 DEF MeetingHeights
<1> DEFINE len == Num[a] - low + 1
<1>6. len \in Nat \ {0}
  BY <1>1, <1>5
<1>7. \A i \in 1 .. len : ItemAt(f, a, low + i - 1) \in Block
  <2> TAKE i \in 1 .. len
  <2>1. low + i - 1 \in low .. Num[a]
    BY <1>1, <1>5
  <2> QED
    BY <1>5, <2>1, ItemAtType DEF Reaches
<1>8. BranchFrom(f, a, b) = [i \in 1 .. len |-> ItemAt(f, a, low + i - 1)]
  BY <1>4 DEF BranchFrom
<1> HIDE DEF len
<1>9. [i \in 1 .. len |-> ItemAt(f, a, low + i - 1)] \in Seq(Block) \ {<<>>}
  BY <1>6, <1>7
<1> QED
  BY <1>8, <1>9

-----------------------------------------------------------------------------
(* The invariant                                                           *)

Below(i) == IF i = 1 THEN Genesis ELSE chain[i-1]

ChainTypeOK ==
    /\ chain \in Seq(DbState) /\ committed \in Nat
    /\ block_log \in Seq(Block) /\ dlt_mode \in BOOLEAN

ChainIsDerived ==
    \A i \in 1 .. Len(chain) : /\ Prev[chain[i].id] = Below(i).id
                               /\ chain[i] = StateOn(Below(i), chain[i].id)

RecordsAreBehind ==
    \A i \in 1 .. Len(chain) : /\ Num[chain[i].id] = i /\ chain[i].lib <= i
                               /\ \A v \in Validator : chain[i].support[v].supported <= i

ChainInv == ChainTypeOK /\ ChainIsDerived /\ RecordsAreBehind /\ committed <= Len(chain)

Results == Thrown \cup {"none", "true", "false"}

LocalsTypeOK ==
    /\ fork \in ForkDb /\ op \in Locals /\ pc \in Labels
    /\ notes \in Seq(Block) /\ delivered \in Seq(Block)
    /\ ret \in Results /\ entry \in Block \cup {Root}

LocalsInv ==
    /\ LocalsTypeOK
    /\ pc # "idle" => op.block \in Block
    /\ pc = "link" => op.todo # <<>>
    /\ pc \in {"pop", "apply_new", "restore_pop", "restore_apply"} => op.second # <<>>

IInv == ChainInv /\ LocalsInv

(* The type invariant is the two type conjuncts of IInv.                   *)
LEMMA TypeFromParts == ChainTypeOK /\ LocalsTypeOK => TypeOK
  BY DEF ChainTypeOK, LocalsTypeOK, TypeOK, StateTypeOK, Results

-----------------------------------------------------------------------------
(* The state after a block                                                 *)

States == [id : Block \cup {Root}, lib : Nat, support : Support]

(* apply_block on a state whose numbers are behind its head: the new state *)
(* is well typed, LIB does not fall and stays at or below the block, and a *)
(* rise of LIB has the support of the threshold.                           *)
LEMMA StateOnFacts ==
    ASSUME NEW st \in States, NEW b \in Block, Prev[b] = st.id, st.lib <= Num[st.id],
           \A v \in Validator : st.support[v].supported <= Num[st.id]
    PROVE  LET s == StateOn(st, b) IN
           /\ s \in DbState /\ s.id = b /\ Num[b] = Num[st.id] + 1 /\ Num[b] \in Nat
           /\ st.lib <= s.lib /\ s.lib <= Num[b]
           /\ \A v \in Validator : s.support[v].supported <= Num[b]
           /\ s.lib > st.lib =>
                Cardinality(SlotsFrom(s.support, Sched[b], s.lib))
                    >= Len(Sched[b]) - Offset(Sched[b])
<1> DEFINE missed == MissSlots(st.support, Missed[b], Producer[b])
           runs   == IF Activates(b) THEN EndRuns(missed) ELSE missed
           signed == SignBlock(runs, Producer[b], Num[b])
           mode   == IsEmergency(b) \/ IsEmergency(Prev[b])
           lib    == NewLib(signed, Sched[b], st.lib, Num[b], mode)
<1>1. Num[st.id] \in Nat /\ Num[b] \in Nat \ {0} /\ Num[b] = Num[st.id] + 1
  BY BlockTree DEF States
<1>2. Producer[b] \in Validator /\ Sched[b] \in Seq(Validator) \ {<<>>}
  BY BlockContent
<1>3. missed \in Support /\ \A v \in Validator : missed[v].supported = st.support[v].supported
  BY RunUpdates DEF States
<1> HIDE DEF missed
<1>4. runs \in Support /\ \A v \in Validator : runs[v].supported = st.support[v].supported
  BY <1>3, RunUpdates
<1> HIDE DEF runs
<1>5. signed \in Support /\ \A v \in Validator :
          signed[v].supported \in {st.support[v].supported, Num[b]}
  <2>1. signed \in Support /\ \A v \in Validator :
            signed[v].supported \in {runs[v].supported, Num[b]}
    BY <1>1, <1>2, <1>4, SignBlockUpdate
  <2> QED
    BY <1>4, <2>1
<1>6. \A v \in Validator : signed[v].supported <= Num[b]
  BY <1>1, <1>5 DEF States, Support
<1> HIDE DEF signed
<1>7. mode \in BOOLEAN
  BY DEF IsEmergency
<1>8. st.lib \in Nat /\ st.lib <= Num[b]
  BY <1>1 DEF States
<1> HIDE DEF mode
<1>9. lib \in Nat /\ st.lib <= lib /\ lib <= Num[b]
  BY <1>1, <1>2, <1>5, <1>6, <1>7, <1>8, NewLibBounds
<1>10. lib > st.lib => Cardinality(SlotsFrom(signed, Sched[b], lib))
                           >= Len(Sched[b]) - Offset(Sched[b])
  BY <1>1, <1>2, <1>5, <1>6, <1>7, <1>8, NewLibHasQuorum
<1> HIDE DEF lib
<1>11. StateOn(st, b) = [id |-> b, support |-> signed, lib |-> lib]
  BY DEF StateOn, missed, runs, signed, mode, lib
<1> QED
  BY <1>1, <1>5, <1>6, <1>9, <1>10, <1>11 DEF DbState

(* The state at the head, the genesis state included, meets the hypotheses *)
(* of StateOnFacts.                                                        *)
LEMMA TopFacts ==
    ASSUME ChainInv
    PROVE  /\ Top \in States /\ Num[Top.id] = Len(chain) /\ Top.lib <= Num[Top.id]
           /\ \A v \in Validator : Top.support[v].supported <= Num[Top.id]
           /\ Len(chain) \in Nat /\ Top = Below(Len(chain) + 1)
<1>1. Len(chain) \in Nat
  BY DEF ChainInv, ChainTypeOK
<1>2. CASE chain = <<>>
  <2>1. Genesis \in States /\ Genesis.lib = 0 /\ Genesis.id = Root
        /\ \A v \in Validator : Genesis.support[v].supported = 0
    BY DEF Genesis, States, NoSupport, Support
  <2> QED
    BY <1>2, <2>1, BlockTree DEF Top, Below
<1>3. CASE chain # <<>>
  <2>1. Len(chain) \in 1 .. Len(chain) /\ Top = chain[Len(chain)]
    BY <1>1, <1>3 DEF ChainInv, ChainTypeOK, Top
  <2>2. Top \in DbState
    BY <2>1 DEF ChainInv, ChainTypeOK
  <2>3. Top \in States
    BY <2>2 DEF DbState, States
  <2>4. Top = Below(Len(chain) + 1)
    BY <1>1, <2>1 DEF Below
  <2> QED
    BY <1>1, <2>1, <2>3, <2>4 DEF ChainInv, RecordsAreBehind
<1> QED
  BY <1>2, <1>3

(* A block on its parent makes a state of the next height.                 *)
LEMMA StateAfterFacts ==
    ASSUME ChainInv, NEW b \in Block, Header(b)
    PROVE  LET s == StateAfter(b) IN
           /\ s \in DbState /\ s.id = b /\ Num[b] = Len(chain) + 1
           /\ Top.lib <= s.lib /\ s.lib \in Nat /\ s.lib <= Num[b]
           /\ \A v \in Validator : s.support[v].supported <= Num[b]
<1>1. Prev[b] = Top.id
  BY DEF Header, HeadId
<1>2. StateAfter(b) \in DbState => StateAfter(b).lib \in Nat
  BY DEF DbState
<1> QED
  BY <1>1, <1>2, TopFacts, StateOnFacts DEF StateAfter

(* Pushing the undo session of an applied block keeps the chain derived    *)
(* from its blocks and its records behind it.                              *)
LEMMA AppendState ==
    ASSUME ChainInv, NEW b \in Block, Header(b), chain' = Append(chain, StateAfter(b))
    PROVE  /\ chain' \in Seq(DbState) /\ Len(chain') = Len(chain) + 1
           /\ ChainIsDerived' /\ RecordsAreBehind'
<1> DEFINE s == StateAfter(b)
           n == Len(chain) + 1
<1>1. s \in DbState /\ s.id = b /\ Num[b] = n /\ s.lib <= n
      /\ \A v \in Validator : s.support[v].supported <= n
  BY StateAfterFacts
<1>2. s = StateOn(Below(n), b) /\ Prev[b] = Below(n).id
  BY TopFacts DEF StateAfter, Header, HeadId
<1> HIDE DEF s
<1>3. chain' \in Seq(DbState) /\ Len(chain') = n /\ n \in Nat \ {0} /\ chain'[n] = s
      /\ \A i \in 1 .. Len(chain) : chain'[i] = chain[i]
  BY <1>1 DEF s, ChainInv, ChainTypeOK
<1>4. \A i \in 1 .. n : Below(i)' = Below(i)
  BY <1>3 DEF Below
<1> HIDE DEF n
<1>5. \A i \in 1 .. n : i = n \/ i \in 1 .. Len(chain)
  BY <1>3 DEF n, ChainInv, ChainTypeOK
<1>6. ChainIsDerived'
  <2> SUFFICES ASSUME NEW i \in 1 .. n
               PROVE  /\ Prev[chain'[i].id] = Below(i)'.id
                      /\ chain'[i] = StateOn(Below(i)', chain'[i].id)
    BY <1>3 DEF ChainIsDerived
  <2>1. CASE i = n
    BY <2>1, <1>1, <1>2, <1>3, <1>4
  <2>2. CASE i \in 1 .. Len(chain)
    BY <2>2, <1>3, <1>4 DEF ChainInv, ChainIsDerived
  <2> QED
    BY <2>1, <2>2, <1>5
<1>7. RecordsAreBehind'
  <2> SUFFICES ASSUME NEW i \in 1 .. n
               PROVE  /\ Num[chain'[i].id] = i /\ chain'[i].lib <= i
                      /\ \A v \in Validator : chain'[i].support[v].supported <= i
    BY <1>3 DEF RecordsAreBehind
  <2>1. CASE i = n
    BY <2>1, <1>1, <1>3
  <2>2. CASE i \in 1 .. Len(chain)
    BY <2>2, <1>3 DEF ChainInv, RecordsAreBehind
  <2> QED
    BY <2>1, <2>2, <1>5
<1> QED
  BY <1>3, <1>6, <1>7 DEF n

-----------------------------------------------------------------------------
(* The block log gets blocks, and only blocks.                             *)
LEMMA LogUpToType ==
    ASSUME block_log \in Seq(Block), fork \in ForkDb, NEW n \in Nat, n >= Len(block_log),
           \A i \in Len(block_log) + 1 .. n : FetchOnMainBranch(fork, i) # Root
    PROVE  LogUpTo(n) \in Seq(Block)
<1> DEFINE len == Len(block_log)
           more == [i \in 1 .. n - len |-> FetchOnMainBranch(fork, len + i)]
<1>1. len \in Nat /\ n - len \in Nat
  OBVIOUS
<1>2. \A i \in 1 .. n - len : FetchOnMainBranch(fork, len + i) \in Block
  <2> TAKE i \in 1 .. n - len
  <2>1. len + i \in len + 1 .. n
    BY <1>1
  <2> QED
    BY <2>1, FetchType
<1>3. more \in Seq(Block)
  <2> HIDE DEF len
  <2> QED
    BY <1>1, <1>2
<1> QED
  BY <1>3 DEF LogUpTo

(* A block applied to its end (commit, log, fork database) keeps the       *)
(* invariant of the chain.                                                 *)
LEMMA ApplyKeepsChainInv ==
    ASSUME ChainInv, fork \in ForkDb, NEW b \in Block, Header(b), ApplyBlock(b)
    PROVE  ChainInv' /\ Len(chain') = Len(chain) + 1
<1> DEFINE lib == StateAfter(b).lib
<1>1. lib \in Nat /\ lib <= Len(chain) + 1
  BY StateAfterFacts
<1>2. chain' \in Seq(DbState) /\ Len(chain') = Len(chain) + 1 /\ ChainIsDerived'
      /\ RecordsAreBehind'
  BY AppendState DEF ApplyBlock
<1>3. committed' \in Nat /\ committed' <= Len(chain')
  BY <1>1, <1>2 DEF ApplyBlock, Larger, ChainInv, ChainTypeOK
<1>4. block_log' \in Seq(Block)
  <2>1. CASE DueForLog(b) = {}
    BY <2>1 DEF ApplyBlock, ChainInv, ChainTypeOK
  <2>2. CASE DueForLog(b) # {}
    <3>1. DueForLog(b) = Len(block_log) + 1 .. lib
      BY <2>2 DEF DueForLog
    <3>2. lib >= Len(block_log)
      BY <1>1, <2>2, <3>1 DEF ChainInv, ChainTypeOK
    <3>3. \A i \in Len(block_log) + 1 .. lib : FetchOnMainBranch(fork, i) # Root
      BY <3>1 DEF ApplyBlock, MissingForLog
    <3> HIDE DEF lib
    <3>4. LogUpTo(lib) \in Seq(Block)
      BY <1>1, <3>2, <3>3, LogUpToType DEF ChainInv, ChainTypeOK
    <3> QED
      BY <2>2, <3>4 DEF ApplyBlock, lib
  <2> QED
    BY <2>1, <2>2
<1>5. dlt_mode' \in BOOLEAN
  BY DEF ApplyBlock, ChainInv, ChainTypeOK
<1> QED
  BY <1>2, <1>3, <1>4, <1>5 DEF ChainInv, ChainTypeOK

(* A block whose log write fails half-way keeps it too, although           *)
(* commit(LIB) and part of the log are not undone.                         *)
LEMMA LogFailureKeepsChainInv ==
    ASSUME ChainInv, fork \in ForkDb, NEW b \in Block, Header(b), FailInLog(b)
    PROVE  ChainInv'
<1> DEFINE lib == StateAfter(b).lib
           miss == MissingForLog(b)
           first == Min(miss)
<1>1. lib \in Nat /\ lib <= Len(chain) + 1 /\ Num[b] = Len(chain) + 1 /\ Len(chain) \in Nat
  BY StateAfterFacts, TopFacts
<1>2. chain' \in Seq(DbState) /\ ChainIsDerived' /\ RecordsAreBehind'
  <2>1. CASE lib >= Num[b]
    BY <2>1, AppendState DEF FailInLog
  <2>2. CASE ~(lib >= Num[b])
    <3>1. chain' = chain
      BY <2>2 DEF FailInLog
    <3> QED
      BY <3>1 DEF ChainInv, ChainTypeOK, ChainIsDerived, RecordsAreBehind, Below
  <2> QED
    BY <2>1, <2>2
<1>3. committed' \in Nat /\ committed' <= Len(chain')
  <2>1. CASE lib >= Num[b]
    <3>1. Len(chain') = Len(chain) + 1
      BY <2>1, AppendState DEF FailInLog
    <3> QED
      BY <1>1, <3>1 DEF FailInLog, Larger, ChainInv, ChainTypeOK
  <2>2. CASE ~(lib >= Num[b])
    BY <1>1, <2>2 DEF FailInLog, Larger, ChainInv, ChainTypeOK
  <2> QED
    BY <2>1, <2>2
<1>4. block_log' \in Seq(Block)
  <2>1. miss # {} /\ miss \subseteq DueForLog(b)
    BY DEF FailInLog, MissingForLog
  <2>2. DueForLog(b) = Len(block_log) + 1 .. lib /\ Len(block_log) \in Nat
    BY <2>1 DEF DueForLog, ChainInv, ChainTypeOK
  <2>3. miss \subseteq Nat
    BY <1>1, <2>1, <2>2
  <2>4. first \in miss /\ \A m \in miss : first <= m
    <3>1. \E n \in miss : \A m \in miss : n <= m
      <4> HIDE DEF miss
      <4> QED
        BY <2>1, <2>3, LeastExists
    <3> QED
      BY <3>1 DEF Min
  <2>5. first - 1 \in Nat /\ first - 1 >= Len(block_log) /\ first <= lib
    BY <1>1, <2>1, <2>2, <2>4
  <2>6. \A i \in Len(block_log) + 1 .. first - 1 : FetchOnMainBranch(fork, i) # Root
    <3> SUFFICES ASSUME NEW i \in Len(block_log) + 1 .. first - 1,
                        FetchOnMainBranch(fork, i) = Root
                 PROVE  FALSE
      OBVIOUS
    <3> HIDE DEF first
    <3>1. i \in Len(block_log) + 1 .. lib /\ i < first
      <4>1. i \in Nat /\ first \in Nat /\ lib \in Nat /\ Len(block_log) \in Nat
        BY <1>1, <2>2, <2>3, <2>4
      <4> QED
        BY <2>5, <4>1
    <3>2. i \in miss
      BY <2>2, <3>1 DEF MissingForLog
    <3> QED
      BY <2>3, <2>4, <3>1, <3>2
  <2> HIDE DEF first, miss
  <2>7. LogUpTo(first - 1) \in Seq(Block)
    BY <2>5, <2>6, LogUpToType DEF ChainInv, ChainTypeOK
  <2> QED
    BY <2>7 DEF FailInLog, first, miss
<1>5. dlt_mode' \in BOOLEAN
  BY DEF FailInLog, ChainInv, ChainTypeOK
<1> QED
  BY <1>2, <1>3, <1>4, <1>5 DEF ChainInv, ChainTypeOK

(* pop_block keeps it: it does nothing at the committed revision.          *)
LEMMA PopKeepsChainInv ==
    ASSUME ChainInv, PopBlock
    PROVE  ChainInv'
<1>1. Len(chain) \in Nat /\ committed \in Nat /\ committed <= Len(chain)
  BY DEF ChainInv, ChainTypeOK
<1>2. CASE Len(chain) > committed
  <2>1. chain' = SubSeq(chain, 1, Len(chain) - 1)
    BY <1>2 DEF PopBlock, HeadNum
  <2>2. chain' \in Seq(DbState) /\ Len(chain') = Len(chain) - 1
        /\ \A i \in 1 .. Len(chain') : chain'[i] = chain[i] /\ i \in 1 .. Len(chain)
    <3> DEFINE n == Len(chain) - 1
    <3>1. n \in Nat /\ \A i \in 1 .. n : chain[i] \in DbState /\ i \in 1 .. Len(chain)
      BY <1>1, <1>2 DEF ChainInv, ChainTypeOK
    <3>2. /\ SubSeq(chain, 1, n) \in Seq(DbState)
          /\ Len(SubSeq(chain, 1, n)) = IF 1 <= n THEN n - 1 + 1 ELSE 0
          /\ \A i \in 1 .. n - 1 + 1 : SubSeq(chain, 1, n)[i] = chain[1 + i - 1]
      <4> HIDE DEF n
      <4> QED
        BY <3>1, SubSeqProperties
    <3> HIDE DEF n
    <3>3. \A i \in 1 .. n : i \in 1 .. n - 1 + 1 /\ 1 + i - 1 = i
      BY <3>1
    <3>4. Len(SubSeq(chain, 1, n)) = n
      BY <3>1, <3>2
    <3>5. chain' = SubSeq(chain, 1, n)
      BY <2>1 DEF n
    <3>6. \A i \in 1 .. n : chain'[i] = chain[i]
      <4> TAKE i \in 1 .. n
      <4>1. chain'[i] = chain[1 + i - 1] /\ 1 + i - 1 = i
        BY <3>2, <3>3, <3>5
      <4> QED
        BY <4>1
    <3> QED
      BY <3>1, <3>2, <3>4, <3>5, <3>6 DEF n
  <2>3. \A i \in 1 .. Len(chain') : Below(i)' = Below(i)
    BY <1>1, <2>2 DEF Below
  <2>4. ChainIsDerived'
    BY <2>2, <2>3 DEF ChainInv, ChainIsDerived
  <2>5. RecordsAreBehind'
    BY <2>2 DEF ChainInv, RecordsAreBehind
  <2>6. committed' = committed /\ block_log' = block_log /\ dlt_mode' = dlt_mode
    BY DEF PopBlock
  <2> QED
    BY <1>1, <1>2, <2>2, <2>4, <2>5, <2>6 DEF ChainInv, ChainTypeOK
<1>3. CASE ~(Len(chain) > committed)
  BY <1>3 DEF PopBlock, HeadNum, ChainInv, ChainTypeOK, ChainIsDerived, RecordsAreBehind, Below
<1> QED
  BY <1>2, <1>3

-----------------------------------------------------------------------------
(* Every step of push_block leaves the chain alone, applies a child of the *)
(* head, fails to while it writes the log, or pops.                        *)

Grows(b) == Header(b) /\ (ApplyBlock(b) \/ FailInLog(b))

ChainMove == NoChain \/ PopBlock \/ \E b \in Block : Grows(b)

(* The loops over a branch take a block off a sequence of blocks.          *)
LEMMA FirstIsBlock ==
    ASSUME LocalsInv, op.first # <<>>
    PROVE  op.first[1] \in Block /\ Tail(op.first) \in Seq(Block)
  BY DEF LocalsInv, LocalsTypeOK, Locals

(* Every step of push_block leaves the chain alone, applies one block on   *)
(* the head, fails in its log write, or pops the head.                     *)
LEMMA NextMovesChain ==
    ASSUME LocalsInv, Next
    PROVE  ChainMove
<1>1. ASSUME NEW b \in Block, Receive(b) PROVE ChainMove
  BY <1>1 DEF Receive, IgnoreKnown, RejectDeadFork, SeedParent, RejectFarBlock, Accept, Begin,
              ChainMove
<1>2. CASE ForkStep
  BY <1>2 DEF ForkStep, PushToForkDb, LinkChild, LinkReturn, FinishBase, ChainMove
<1>3. CASE DecideStep
  BY <1>3 DEF DecideStep, DecideApply, DecideStay, RejectWithoutHead, RejectBrokenLinks,
              StartSwitch, Switches, Deciding, ChainMove
<1>4. CASE SwitchStep
  <2>1. CASE ApplyNew
    BY <2>1, FirstIsBlock DEF ApplyNew, AppliesInSwitch, Applies, WrongSchedule, Grows, ChainMove
  <2>2. CASE ApplyNewFails
    BY <2>2, FirstIsBlock DEF ApplyNewFails, AppliesInSwitch, Applies, WrongSchedule, Grows,
                              ChainMove
  <2>3. CASE PopOld \/ PopFails \/ AbortAtLib \/ PopDone \/ SwitchDone
    BY <2>3 DEF PopOld, PopFails, AbortAtLib, PopDone, SwitchDone, ChainMove
  <2> QED
    BY <1>4, <2>1, <2>2, <2>3 DEF SwitchStep
<1>5. CASE RestoreStep
  <2>1. CASE RestoreApply
    BY <2>1, FirstIsBlock DEF RestoreApply, Applies, Grows, ChainMove
  <2>2. CASE RestoreApplyFails
    BY <2>2, FirstIsBlock DEF RestoreApplyFails, Applies, Grows, ChainMove
  <2>3. CASE RestorePop \/ RestorePopDone \/ RestoreDone
    BY <2>3 DEF RestorePop, RestorePopDone, RestoreDone, ChainMove
  <2> QED
    BY <1>5, <2>1, <2>2, <2>3 DEF RestoreStep
<1>6. CASE LinearStep
  <2>1. pc = "apply" => op.block \in Block
    BY DEF LocalsInv
  <2> QED
    BY <1>6, <2>1 DEF LinearStep, ApplyHere, KeepWrongSchedule, ApplyHereFails, Applies, Grows,
                      ChainMove
<1>7. CASE CascadeStep
  <2>1. CASE CascadeApply
    BY <2>1, FirstIsBlock DEF CascadeApply, Applies, Grows, ChainMove
  <2>2. CASE CascadeFails
    BY <2>2, FirstIsBlock DEF CascadeFails, Applies, Grows, ChainMove
  <2>3. CASE NoCascade \/ StartCascade \/ CascadeBroken \/ CascadeDone \/ CascadePop
             \/ CascadePopDone
    BY <2>3 DEF NoCascade, StartCascade, CascadeBroken, CascadeDone, CascadePop,
                CascadePopDone, Applied, ChainMove
  <2> QED
    BY <1>7, <2>1, <2>2, <2>3 DEF CascadeStep
<1> QED
  BY <1>1, <1>2, <1>3, <1>4, <1>5, <1>6, <1>7 DEF Next, Working

(* Each of these moves keeps the invariant of the chain.                   *)
LEMMA MoveKeepsChainInv ==
    ASSUME ChainInv, fork \in ForkDb, ChainMove
    PROVE  ChainInv'
<1>1. CASE NoChain
  BY <1>1 DEF NoChain, ChainInv, ChainTypeOK, ChainIsDerived, RecordsAreBehind, Below
<1>2. ASSUME NEW b \in Block, Grows(b) PROVE ChainInv'
  BY <1>2, ApplyKeepsChainInv, LogFailureKeepsChainInv DEF Grows
<1> QED
  BY <1>1, <1>2, PopKeepsChainInv DEF ChainMove

-----------------------------------------------------------------------------
(* The fork database and the locals of push_block                          *)

(* The locals of push_block are well typed between calls.                  *)
LEMMA NoOpType == NoOp \in Locals
  BY DEF NoOp, Locals

(* They are when a call has begun.                                         *)
LEMMA StartedOp ==
    ASSUME NEW b \in Block
    PROVE  [NoOp EXCEPT !.block = b] \in Locals /\ [NoOp EXCEPT !.block = b].block = b
  BY NoOpType DEF Locals

(* They are when _push_next has begun.                                     *)
LEMMA LinkingOp ==
    ASSUME NEW b \in Block, NEW c \in Block, NEW next \in {"base", "push"}
    PROVE  LET o == [NoOp EXCEPT !.block = b, !.todo = <<c>>, !.next = next]
           IN o \in Locals /\ o.block = b /\ o.todo # <<>>
<1>1. <<c>> \in Seq(Block) /\ <<c>> # <<>>
  OBVIOUS
<1> QED
  BY <1>1, NoOpType DEF Locals

(* head_block_id, head_block_num and LIB are well typed.                   *)
LEMMA HeadIdType ==
    ASSUME ChainInv
    PROVE  HeadId \in Block \cup {Root} /\ HeadNum \in Nat /\ Top.lib \in Nat
  BY TopFacts DEF HeadId, HeadNum, States

(* What fetch_block_by_id finds is a block.                                *)
LEMMA FetchedIsBlock ==
    ASSUME ChainTypeOK, fork \in ForkDb, NEW b, CanFetch(b)
    PROVE  b \in Block
  BY DEF CanFetch, IsKnownBlock, ForkDb, ChainTypeOK

(* Restarting the fork database at the head keeps its type.                *)
LEMMA StartedForkTypes ==
    ASSUME ChainInv, fork \in ForkDb
    PROVE  ForkWithHead \in ForkDb /\ ForkAtHead \in ForkDb
<1>1. CanFetch(HeadId) => HeadId \in Block
  BY FetchedIsBlock DEF ChainInv
<1>2. Reset(fork) \in ForkDb
  BY DEF Reset, ForkDb
<1>3. CanFetch(HeadId) => StartBlock(Reset(fork), HeadId) \in ForkDb
                          /\ StartBlock(fork, HeadId) \in ForkDb
  BY <1>1, <1>2, ForkDbUpdates
<1> QED
  BY <1>2, <1>3 DEF ForkWithHead, ForkAtHead

(* So does switching its emergency mode.                                   *)
LEMMA ForkWithModeType ==
    ASSUME fork \in ForkDb, NEW b
    PROVE  ForkWithMode(b) \in ForkDb
  BY SetEmergencyModeType DEF ForkWithMode

(* So does set_max_size after a block: the distance from LIB to the head   *)
(* is not negative.                                                        *)
LEMMA ForkAfterType ==
    ASSUME ChainInv, fork \in ForkDb, NEW b \in Block, Header(b)
    PROVE  ForkAfter(b) \in ForkDb
<1>1. Num[b] - StateAfter(b).lib + 1 \in Nat
  BY StateAfterFacts, TopFacts
<1>2. SetMaxSize(ForkWithMode(b), Num[b] - StateAfter(b).lib + 1) \in ForkDb
  BY <1>1, ForkWithModeType, SetMaxSizeType
<1> QED
  BY <1>2, SetEmergencyModeType DEF ForkAfter

(* A call that ends leaves no locals behind.                               *)
LEMMA FinishKeepsLocals ==
    ASSUME LocalsInv, NEW r \in Results, Finish(r), fork' \in ForkDb,
           entry' \in Block \cup {Root}
    PROVE  LocalsInv'
  BY NoOpType, EmptySeq DEF Finish, LocalsInv, LocalsTypeOK, Labels

(* The entry of a call                                                     *)
LEMMA ReceiveKeepsLocals ==
    ASSUME IInv, NEW b \in Block, Receive(b)
    PROVE  LocalsInv'
<1>1. fork \in ForkDb /\ LocalsInv /\ ChainInv
  BY DEF IInv, LocalsInv, LocalsTypeOK
<1>2. entry' \in Block \cup {Root}
  BY <1>1, HeadIdType DEF Receive, IgnoreKnown, RejectDeadFork, SeedParent, RejectFarBlock,
                          Accept, Begin
<1>3. {"false", "unlinkable", "too_old"} \subseteq Results
  BY DEF Results, Thrown
<1>4. CASE IgnoreKnown(b)
  <2>1. CASE Finish("false") /\ fork' = fork
    BY <1>1, <1>2, <1>3, <2>1, FinishKeepsLocals
  <2>2. CASE fork' = InsertBaseItem(fork, b) /\ pc' = "link"
             /\ op' = [NoOp EXCEPT !.block = b, !.todo = <<b>>, !.next = "base"]
             /\ UNCHANGED <<notes, delivered, ret>>
    <3>1. fork' \in ForkDb
      BY <1>1, <2>2, ForkDbUpdates
    <3>2. op' \in Locals /\ op'.block = b /\ op'.todo # <<>>
      BY <2>2, LinkingOp
    <3> QED
      BY <1>1, <1>2, <2>2, <3>1, <3>2 DEF LocalsInv, LocalsTypeOK, Labels
  <2> QED
    BY <1>4, <2>1, <2>2 DEF IgnoreKnown
<1>5. CASE RejectDeadFork(b)
  BY <1>1, <1>2, <1>3, <1>5, FinishKeepsLocals DEF RejectDeadFork
<1>6. CASE SeedParent(b)
  <2> DEFINE p == Prev[b]
  <2>1. p \in Block
    BY <1>1, <1>6, FetchedIsBlock DEF SeedParent, ChainInv
  <2>2. CASE fork' = InsertItem(fork, p) /\ pc' = "link"
             /\ op' = [NoOp EXCEPT !.block = b, !.todo = <<p>>, !.next = "push"]
             /\ UNCHANGED <<notes, delivered, ret>>
    <3> HIDE DEF p
    <3>1. fork' \in ForkDb
      BY <1>1, <2>1, <2>2, ForkDbUpdates
    <3>2. op' \in Locals /\ op'.block = b /\ op'.todo # <<>>
      BY <2>1, <2>2, LinkingOp
    <3> QED
      BY <1>1, <1>2, <2>2, <3>1, <3>2 DEF LocalsInv, LocalsTypeOK, Labels
  <2>3. CASE fork' = StoreUnlinked(fork, p) /\ Finish("unlinkable")
    BY <1>1, <1>2, <1>3, <2>1, <2>3, ForkDbUpdates, FinishKeepsLocals
  <2>4. CASE fork' = fork /\ Finish("too_old")
    BY <1>1, <1>2, <1>3, <2>4, FinishKeepsLocals
  <2> QED
    BY <1>6, <2>2, <2>3, <2>4 DEF SeedParent
<1>7. CASE RejectFarBlock(b)
  BY <1>1, <1>2, <1>3, <1>7, FinishKeepsLocals DEF RejectFarBlock
<1>8. CASE Accept(b)
  <2>1. op' \in Locals /\ op'.block = b
    BY <1>8, StartedOp DEF Accept
  <2> QED
    BY <1>1, <1>2, <1>8, <2>1 DEF Accept, LocalsInv, LocalsTypeOK, Labels
<1> QED
  BY <1>4, <1>5, <1>6, <1>7, <1>8 DEF Receive

(* The fork database takes a block and what waited for it                  *)
LEMMA ForkStepKeepsLocals ==
    ASSUME IInv, ForkStep
    PROVE  LocalsInv'
<1>1. fork \in ForkDb /\ LocalsInv /\ ChainInv /\ op \in Locals /\ entry \in Block \cup {Root}
  BY DEF IInv, LocalsInv, LocalsTypeOK
<1>2. {"false", "unlinkable", "too_old"} \subseteq Results
  BY DEF Results, Thrown
<1>3. entry' \in Block \cup {Root}
  BY <1>1 DEF ForkStep, PushToForkDb, LinkChild, LinkReturn, FinishBase, Goto
<1>4. pc # "idle" /\ op.block \in Block
  BY <1>1 DEF ForkStep, PushToForkDb, LinkChild, LinkReturn, FinishBase, LocalsInv
<1>5. CASE PushToForkDb
  <2> DEFINE b == op.block
             f == ForkWithHead
  <2>1. f \in ForkDb /\ InsertItem(f, b) \in ForkDb /\ StoreUnlinked(f, b) \in ForkDb
    BY <1>1, <1>4, StartedForkTypes, ForkDbUpdates
  <2> HIDE DEF f
  <2>2. CASE fork' = f /\ Goto("decide") /\ UNCHANGED <<op, notes>>
    BY <1>1, <1>3, <1>4, <2>1, <2>2 DEF Goto, LocalsInv, LocalsTypeOK, Labels
  <2>3. CASE fork' = InsertItem(f, b) /\ Goto("link") /\ UNCHANGED notes
             /\ op' = [op EXCEPT !.todo = <<b>>, !.next = "decide"]
    <3>1. <<b>> \in Seq(Block) /\ <<b>> # <<>>
      BY <1>4
    <3>2. op' \in Locals /\ op'.block = b /\ op'.todo = <<b>>
      BY <1>1, <2>3, <3>1 DEF Locals
    <3> QED
      BY <1>1, <1>3, <1>4, <2>1, <2>3, <3>1, <3>2 DEF Goto, LocalsInv, LocalsTypeOK, Labels
  <2>4. CASE fork' = f /\ Finish("too_old")
    BY <1>1, <1>2, <1>3, <2>1, <2>4, FinishKeepsLocals
  <2>5. CASE fork' = StoreUnlinked(f, b) /\ (Finish("false") \/ Finish("unlinkable"))
    BY <1>1, <1>2, <1>3, <2>1, <2>5, FinishKeepsLocals
  <2> QED
    BY <1>5, <2>2, <2>3, <2>4, <2>5 DEF PushToForkDb, f
<1>6. CASE LinkChild
  <2>1. PICK c \in WaitingFor(fork, Linking) :
          LET f == TakeUnlinked(fork, c) IN
          \/ fork' = f /\ UNCHANGED <<pc, op, ret, notes, delivered>>
          \/ /\ fork' = InsertItem(f, c)
             /\ op' = [op EXCEPT !.todo = Append(@, c)]
             /\ UNCHANGED <<pc, ret, notes, delivered>>
          \/ fork' = f /\ Finish("too_old")
    BY <1>6 DEF LinkChild
  <2>2. c \in Block
    BY <1>1 DEF WaitingFor, ForkDb
  <2> DEFINE f == TakeUnlinked(fork, c)
  <2>3. f \in ForkDb /\ InsertItem(f, c) \in ForkDb
    BY <1>1, <2>2, ForkDbUpdates
  <2> HIDE DEF f
  <2>4. CASE fork' = f /\ UNCHANGED <<pc, op, ret, notes, delivered>>
    BY <1>1, <1>3, <2>3, <2>4 DEF LocalsInv, LocalsTypeOK
  <2>5. CASE fork' = InsertItem(f, c) /\ op' = [op EXCEPT !.todo = Append(@, c)]
             /\ UNCHANGED <<pc, ret, notes, delivered>>
    <3>1. Append(op.todo, c) \in Seq(Block) /\ Append(op.todo, c) # <<>>
      <4>1. op.todo \in Seq(Block)
        BY <1>1 DEF Locals
      <4> QED
        BY <2>2, <4>1, AppendProperties
    <3>2. op' \in Locals /\ op'.block = op.block /\ op'.todo # <<>> /\ op'.second = op.second
      BY <1>1, <2>5, <3>1 DEF Locals
    <3> QED
      BY <1>1, <1>3, <2>3, <2>5, <3>2 DEF LocalsInv, LocalsTypeOK
  <2>6. CASE fork' = f /\ Finish("too_old")
    BY <1>1, <1>2, <1>3, <2>3, <2>6, FinishKeepsLocals
  <2> QED
    BY <2>1, <2>4, <2>5, <2>6 DEF f
<1>7. CASE LinkReturn
  <2> DEFINE rest == SubSeq(op.todo, 1, Len(op.todo) - 1)
  <2>1. op.todo \in Seq(Block) /\ op.todo # <<>> /\ Len(op.todo) \in Nat \ {0}
    BY <1>1, <1>7 DEF LinkReturn, LocalsInv, Locals
  <2>2. rest \in Seq(Block) /\ (Len(op.todo) > 1 => rest # <<>>)
    <3>1. \A i \in 1 .. Len(op.todo) - 1 : op.todo[i] \in Block
      BY <2>1
    <3>2. rest \in Seq(Block)
          /\ Len(rest) = IF 1 <= Len(op.todo) - 1 THEN Len(op.todo) - 1 - 1 + 1 ELSE 0
      BY <2>1, <3>1, SubSeqProperties
    <3> HIDE DEF rest
    <3>3. Len(op.todo) > 1 => Len(rest) # 0
      BY <2>1, <3>2
    <3> QED
      BY <3>2, <3>3, EmptySeq
  <2> HIDE DEF rest
  <2>3. op' \in Locals /\ op'.block = op.block /\ op'.todo = rest /\ op'.next = op.next
    BY <1>1, <1>7, <2>2 DEF LinkReturn, Locals, rest
  <2>4. pc' = (IF Len(op.todo) > 1 THEN "link" ELSE op.next)
        /\ op.next \in {"idle", "base", "push", "decide"}
        /\ UNCHANGED <<fork, notes, delivered, ret>>
    BY <1>1, <1>7 DEF LinkReturn, Goto, Locals
  <2> QED
    BY <1>1, <1>3, <1>4, <2>2, <2>3, <2>4 DEF LocalsInv, LocalsTypeOK, Labels
<1>8. CASE FinishBase
  BY <1>1, <1>2, <1>3, <1>4, <1>8, ForkDbUpdates, FinishKeepsLocals DEF FinishBase
<1> QED
  BY <1>5, <1>6, <1>7, <1>8 DEF ForkStep

(* The fork choice                                                         *)
LEMMA DecideKeepsLocals ==
    ASSUME IInv, DecideStep
    PROVE  LocalsInv'
<1>1. fork \in ForkDb /\ LocalsInv /\ ChainInv /\ op \in Locals /\ entry \in Block \cup {Root}
  BY DEF IInv, LocalsInv, LocalsTypeOK
<1>2. {"false", "unlinkable"} \subseteq Results
  BY DEF Results, Thrown
<1>3. pc = "decide" /\ entry' = entry /\ op.block \in Block
  BY <1>1 DEF DecideStep, DecideApply, DecideStay, RejectWithoutHead, RejectBrokenLinks,
              StartSwitch, Switches, Deciding, LocalsInv
<1>4. CASE DecideApply
  BY <1>1, <1>3, <1>4 DEF DecideApply, Goto, LocalsInv, LocalsTypeOK, Labels
<1>5. CASE DecideStay
  BY <1>1, <1>2, <1>3, <1>5, FinishKeepsLocals DEF DecideStay
<1>6. CASE RejectWithoutHead
  BY <1>1, <1>2, <1>3, <1>6, RemoveBlocksType, FinishKeepsLocals DEF RejectWithoutHead
<1>7. CASE RejectBrokenLinks
  BY <1>1, <1>2, <1>3, <1>7, StartedForkTypes, FinishKeepsLocals DEF RejectBrokenLinks
<1>8. CASE StartSwitch
  <2> DEFINE first  == BranchFrom(fork, NewHead, HeadId)
             second == BranchFrom(fork, HeadId, NewHead)
             linear == second = <<HeadId>> /\ first[1] = HeadId
  <2>1. BranchesFound(fork, NewHead, HeadId) /\ BranchesFound(fork, HeadId, NewHead)
    <3>1. BranchesFound(fork, NewHead, HeadId) /\ {NewHead, HeadId} \subseteq Block
      BY <1>1, <1>8 DEF StartSwitch, BranchesFound, ForkDb
    <3>2. MeetingHeights(fork, NewHead, HeadId) = MeetingHeights(fork, HeadId, NewHead)
      BY <3>1, BlockTree DEF MeetingHeights
    <3> QED
      BY <3>1, <3>2 DEF BranchesFound
  <2>2. first \in Seq(Block) \ {<<>>} /\ second \in Seq(Block) \ {<<>>}
    BY <1>1, <2>1, BranchFromType
  <2>3. linear \in BOOLEAN
    OBVIOUS
  <2> HIDE DEF first, second, linear
  <2>4. (IF linear THEN Tail(first) ELSE first) \in Seq(Block)
    BY <2>2
  <2>5. NewHead \in Block \cup {Root} /\ Top.lib \in Nat
    BY <1>1, HeadIdType DEF NewHead, ForkDb
  <2>6. op' = [op EXCEPT !.head = NewHead, !.second = second, !.linear = linear,
                         !.first = IF linear THEN Tail(first) ELSE first, !.lib = Top.lib]
        /\ pc' \in {"apply_new", "pop"} /\ UNCHANGED <<fork, notes, delivered, ret>>
    BY <1>8 DEF StartSwitch, Goto, first, second, linear
  <2>7. op' \in Locals /\ op'.block = op.block /\ op'.second = second
    BY <1>1, <2>2, <2>3, <2>4, <2>5, <2>6 DEF Locals
  <2> QED
    BY <1>1, <1>3, <2>2, <2>6, <2>7 DEF LocalsInv, LocalsTypeOK, Labels
<1> QED
  BY <1>4, <1>5, <1>6, <1>7, <1>8 DEF DecideStep

(* The loops that pop and the loops that apply                             *)
LEMMA PopKeepsLocals ==
    ASSUME LocalsInv, PopBlock, UNCHANGED <<notes, pc, op, ret, entry, delivered>>
    PROVE  LocalsInv'
<1>1. fork' \in ForkDb
  BY PopHeadType DEF PopBlock, CanPop, LocalsInv, LocalsTypeOK
<1> QED
  BY <1>1 DEF LocalsInv, LocalsTypeOK

(* After apply_block the fork database and the notifications are well      *)
(* typed.                                                                  *)
LEMMA ApplyTypes ==
    ASSUME IInv, NEW b \in Block, Header(b), ApplyBlock(b)
    PROVE  fork' \in ForkDb /\ notes' \in Seq(Block)
<1>1. fork \in ForkDb /\ notes \in Seq(Block) /\ ChainInv
  BY DEF IInv, LocalsInv, LocalsTypeOK
<1>2. fork' = ForkAfter(b) /\ notes' = Append(notes, b)
  BY DEF ApplyBlock
<1> QED
  BY <1>1, <1>2, ForkAfterType, AppendProperties

ApplyFirst ==
    /\ op.first # <<>> /\ Header(op.first[1]) /\ ApplyBlock(op.first[1])
    /\ op' = [op EXCEPT !.first = Tail(@)]
    /\ UNCHANGED <<pc, ret, entry, delivered>>

(* One turn of a loop that applies a branch keeps the invariant of the     *)
(* locals.                                                                 *)
LEMMA ApplyFirstKeepsLocals ==
    ASSUME IInv, ApplyFirst
    PROVE  LocalsInv'
<1>1. LocalsInv /\ op \in Locals
  BY DEF IInv, LocalsInv, LocalsTypeOK
<1>2. op.first[1] \in Block /\ Tail(op.first) \in Seq(Block)
  BY <1>1, FirstIsBlock DEF ApplyFirst
<1>3. fork' \in ForkDb /\ notes' \in Seq(Block)
  BY <1>2, ApplyTypes DEF ApplyFirst
<1>4. op' \in Locals /\ op'.block = op.block /\ op'.todo = op.todo /\ op'.second = op.second
  BY <1>1, <1>2 DEF ApplyFirst, Locals
<1>5. UNCHANGED <<pc, ret, entry, delivered>>
  BY DEF ApplyFirst
<1> QED
  BY <1>1, <1>3, <1>4, <1>5 DEF LocalsInv, LocalsTypeOK

(* The fork switch                                                         *)
LEMMA SwitchKeepsLocals ==
    ASSUME IInv, SwitchStep
    PROVE  LocalsInv'
<1>1. fork \in ForkDb /\ LocalsInv /\ ChainInv /\ op \in Locals /\ entry \in Block \cup {Root}
  BY DEF IInv, LocalsInv, LocalsTypeOK
<1>2. {"true", "unlinkable", "assert"} \subseteq Results
  BY DEF Results, Thrown
<1>3. CASE PopOld
  BY <1>1, <1>3, PopKeepsLocals DEF PopOld
<1>4. CASE PopFails
  BY <1>1, <1>2, <1>4, FinishKeepsLocals DEF PopFails
<1>5. CASE AbortAtLib
  BY <1>1, <1>2, <1>5, RemoveBlocksType, FinishKeepsLocals DEF AbortAtLib
<1>6. CASE PopDone
  BY <1>1, <1>6 DEF PopDone, Goto, LocalsInv, LocalsTypeOK, Labels
<1>7. CASE ApplyNew
  <2>1. ApplyFirst
    BY <1>7 DEF ApplyNew, AppliesInSwitch, Applies, WrongSchedule, ApplyFirst
  <2> QED
    BY <2>1, ApplyFirstKeepsLocals
<1>8. CASE ApplyNewFails
  <2> DEFINE rest == {op.first[i] : i \in 1 .. Len(op.first)}
  <2>1. fork' = RemoveBlocks(fork, rest) \/ fork' = RemoveBlocks(ForkWithMode(op.first[1]), rest)
    BY <1>8 DEF ApplyNewFails
  <2> HIDE DEF rest
  <2>2. fork' \in ForkDb
    BY <1>1, <2>1, ForkWithModeType, RemoveBlocksType
  <2>3. op' = [op EXCEPT !.first = <<>>, !.lib = Top.lib] /\ pc' = "restore_pop"
        /\ pc = "apply_new" /\ UNCHANGED <<notes, delivered, ret, entry>>
    BY <1>8 DEF ApplyNewFails, Goto
  <2>4. op' \in Locals /\ op'.block = op.block /\ op'.second = op.second
    BY <1>1, <2>3, HeadIdType, EmptySeq DEF Locals
  <2> QED
    BY <1>1, <2>2, <2>3, <2>4 DEF LocalsInv, LocalsTypeOK, Labels
<1>9. CASE SwitchDone
  <2>1. op.head \in Block \cup {Root}
    BY <1>1 DEF Locals
  <2> QED
    BY <1>1, <1>2, <1>9, <2>1, SetHeadType, FinishKeepsLocals DEF SwitchDone
<1> QED
  BY <1>3, <1>4, <1>5, <1>6, <1>7, <1>8, <1>9 DEF SwitchStep

(* Back to the old branch                                                  *)
LEMMA RestoreKeepsLocals ==
    ASSUME IInv, RestoreStep
    PROVE  LocalsInv'
<1>1. fork \in ForkDb /\ LocalsInv /\ ChainInv /\ op \in Locals /\ entry \in Block \cup {Root}
  BY DEF IInv, LocalsInv, LocalsTypeOK
<1>2. {"false", "rejected", "assert"} \subseteq Results
  BY DEF Results, Thrown
<1>3. pc \in {"restore_pop", "restore_apply"} =>
          /\ op.second \in Seq(Block) /\ op.second # <<>>
          /\ op.second[1] \in Block /\ op.second[Len(op.second)] \in Block
  <2>1. op.second \in Seq(Block)
    BY <1>1 DEF Locals
  <2> QED
    BY <1>1, <2>1, EmptySeq, ElementOfSeq DEF LocalsInv
<1>4. CASE RestorePop
  BY <1>1, <1>4, PopKeepsLocals DEF RestorePop
<1>5. CASE RestorePopDone
  <2>1. pc = "restore_pop" /\ entry' = entry
    BY <1>5 DEF RestorePopDone
  <2>2. CASE fork' = SetHead(fork, op.second[1]) /\ Finish("false")
    BY <1>1, <1>2, <1>3, <2>1, <2>2, SetHeadType, FinishKeepsLocals
  <2>3. CASE Goto("restore_apply") /\ UNCHANGED <<fork, notes>>
             /\ op' = [op EXCEPT !.first = op.second]
    <3>1. op' \in Locals /\ op'.block = op.block /\ op'.second = op.second
      BY <1>1, <1>3, <2>1, <2>3 DEF Locals
    <3> QED
      BY <1>1, <2>1, <2>3, <3>1 DEF Goto, LocalsInv, LocalsTypeOK, Labels
  <2> QED
    BY <1>5, <2>2, <2>3 DEF RestorePopDone
<1>6. CASE RestoreApply
  <2>1. ApplyFirst
    BY <1>6 DEF RestoreApply, Applies, ApplyFirst
  <2> QED
    BY <2>1, ApplyFirstKeepsLocals
<1>7. CASE RestoreApplyFails
  <2>1. fork' \in ForkDb
    BY <1>1, <1>7, ForkWithModeType DEF RestoreApplyFails
  <2>2. entry' = entry /\ (Finish("rejected") \/ Finish("assert"))
    BY <1>7 DEF RestoreApplyFails
  <2> QED
    BY <1>1, <1>2, <2>1, <2>2, FinishKeepsLocals
<1>8. CASE RestoreDone
  BY <1>1, <1>2, <1>3, <1>8, SetHeadType, FinishKeepsLocals DEF RestoreDone
<1> QED
  BY <1>4, <1>5, <1>6, <1>7, <1>8 DEF RestoreStep

(* The linear push                                                         *)
LEMMA LinearKeepsLocals ==
    ASSUME IInv, LinearStep
    PROVE  LocalsInv'
<1>1. fork \in ForkDb /\ LocalsInv /\ ChainInv /\ op \in Locals /\ entry \in Block \cup {Root}
  BY DEF IInv, LocalsInv, LocalsTypeOK
<1>2. {"false", "rejected"} \subseteq Results
  BY DEF Results, Thrown
<1>3. pc = "apply" => op.block \in Block
  BY <1>1 DEF LocalsInv
<1>4. CASE ApplyHere
  <2>1. fork' \in ForkDb /\ notes' \in Seq(Block)
    BY <1>3, <1>4, ApplyTypes DEF ApplyHere, Applies
  <2> QED
    BY <1>1, <1>3, <1>4, <2>1 DEF ApplyHere, Goto, LocalsInv, LocalsTypeOK, Labels
<1>5. CASE KeepWrongSchedule
  BY <1>1, <1>2, <1>5, FinishKeepsLocals DEF KeepWrongSchedule
<1>6. CASE ApplyHereFails
  <2>1. fork' \in ForkDb
    BY <1>1, <1>6, ForkWithModeType, RemoveBlocksType DEF ApplyHereFails
  <2> QED
    BY <1>1, <1>2, <1>6, <2>1, FinishKeepsLocals DEF ApplyHereFails
<1> QED
  BY <1>4, <1>5, <1>6 DEF LinearStep

(* The cascade above an applied block                                      *)
LEMMA CascadeKeepsLocals ==
    ASSUME IInv, CascadeStep
    PROVE  LocalsInv'
<1>1. fork \in ForkDb /\ LocalsInv /\ ChainInv /\ op \in Locals /\ entry \in Block \cup {Root}
  BY DEF IInv, LocalsInv, LocalsTypeOK
<1>2. "true" \in Results
  BY DEF Results, Thrown
<1>3. Pruned \in ForkDb
  BY <1>1, RemoveBlocksType DEF Pruned
<1>4. (IF CanFetch(HeadId) THEN HeadId ELSE Root) \in Block \cup {Root} /\ Top.lib \in Nat
  BY <1>1, HeadIdType
<1>5. CASE NoCascade
  BY <1>1, <1>2, <1>3, <1>5, FinishKeepsLocals DEF NoCascade, Applied
<1>6. CASE StartCascade
  <2> DEFINE f == Pruned
             rest == Tail(BranchFrom(f, f.head, HeadId))
  <2>1. BranchesFound(f, f.head, HeadId) /\ fork' = f /\ pc = "applied"
        /\ op' = [op EXCEPT !.head = f.head, !.first = rest]
        /\ pc' = "cascade" /\ UNCHANGED <<notes, delivered, ret, entry>>
    BY <1>6 DEF StartCascade, Goto, Applied
  <2> HIDE DEF f
  <2>2. f \in ForkDb
    BY <1>3 DEF f
  <2>3. f.head \in Block \cup {Root} /\ rest \in Seq(Block)
    BY <2>1, <2>2, BranchFromType DEF ForkDb
  <2> HIDE DEF rest
  <2>4. op' \in Locals /\ op'.block = op.block
    BY <1>1, <2>1, <2>3 DEF Locals
  <2> QED
    BY <1>1, <2>1, <2>2, <2>4 DEF LocalsInv, LocalsTypeOK, Labels
<1>7. CASE CascadeBroken
  <2>1. fork' = Pruned /\ pc = "applied" /\ pc' = "cascade_pop"
        /\ op' = [op EXCEPT !.blk = IF CanFetch(HeadId) THEN HeadId ELSE Root, !.lib = Top.lib]
        /\ UNCHANGED <<notes, delivered, ret, entry>>
    BY <1>7 DEF CascadeBroken, Goto, Applied
  <2>2. op' \in Locals /\ op'.block = op.block
    BY <1>1, <1>4, <2>1 DEF Locals
  <2> QED
    BY <1>1, <1>3, <2>1, <2>2 DEF LocalsInv, LocalsTypeOK, Labels
<1>8. CASE CascadeApply
  <2>1. ApplyFirst
    BY <1>8 DEF CascadeApply, Applies, ApplyFirst
  <2> QED
    BY <2>1, ApplyFirstKeepsLocals
<1>9. CASE CascadeDone
  <2>1. op.head \in Block \cup {Root}
    BY <1>1 DEF Locals
  <2> QED
    BY <1>1, <1>2, <1>9, <2>1, SetHeadType, FinishKeepsLocals DEF CascadeDone
<1>10. CASE CascadeFails
  <2>1. fork' \in ForkDb
    BY <1>1, <1>10, ForkWithModeType DEF CascadeFails
  <2>2. op' = [op EXCEPT !.first = <<>>, !.lib = Top.lib,
                         !.blk = IF CanFetch(HeadId) THEN HeadId ELSE Root]
        /\ pc = "cascade" /\ pc' = "cascade_pop" /\ UNCHANGED <<notes, delivered, ret, entry>>
    BY <1>10 DEF CascadeFails, Goto
  <2>3. op' \in Locals /\ op'.block = op.block
    BY <1>1, <1>4, <2>2, EmptySeq DEF Locals
  <2> QED
    BY <1>1, <2>1, <2>2, <2>3 DEF LocalsInv, LocalsTypeOK, Labels
<1>11. CASE CascadePop
  BY <1>1, <1>11, PopKeepsLocals DEF CascadePop
<1>12. CASE CascadePopDone
  <2>1. Reset(fork) \in ForkDb
    BY <1>1 DEF Reset, ForkDb
  <2>2. op.blk # Root => op.blk \in Block
    BY <1>1 DEF Locals
  <2>3. fork' \in ForkDb
    BY <1>12, <2>1, <2>2, ForkDbUpdates DEF CascadePopDone
  <2> QED
    BY <1>1, <1>2, <1>12, <2>3, FinishKeepsLocals DEF CascadePopDone
<1> QED
  BY <1>5, <1>6, <1>7, <1>8, <1>9, <1>10, <1>11, <1>12 DEF CascadeStep

-----------------------------------------------------------------------------
(* The inductive invariant                                                 *)

(* An empty database satisfies the inductive invariant.                    *)
LEMMA InitEstablishes == Init => IInv
<1> SUFFICES ASSUME Init PROVE IInv
  OBVIOUS
<1>1. ChainInv
  <2>1. chain = <<>> /\ committed = 0 /\ block_log = <<>> /\ dlt_mode = FALSE
    BY DEF Init
  <2>2. Len(chain) = 0 /\ 1 .. Len(chain) = {}
    BY <2>1
  <2>3. ChainTypeOK
    BY <2>1, EmptySeq DEF ChainTypeOK
  <2>4. ChainIsDerived /\ RecordsAreBehind
    BY <2>2 DEF ChainIsDerived, RecordsAreBehind
  <2> QED
    BY <2>1, <2>2, <2>3, <2>4 DEF ChainInv
<1>2. EmptyForkDb \in ForkDb
  BY DefaultMaxSizeIsPositive DEF EmptyForkDb, ForkDb
<1>3. LocalsInv
  BY <1>2, NoOpType, EmptySeq DEF Init, LocalsInv, LocalsTypeOK, Labels, Results
<1> QED
  BY <1>1, <1>3 DEF IInv

(* Every step of push_block keeps the inductive invariant.                 *)
LEMMA NextKeeps == IInv /\ [Next]_vars => IInv'
<1> SUFFICES ASSUME IInv, [Next]_vars PROVE IInv'
  OBVIOUS
<1>1. LocalsInv /\ ChainInv /\ fork \in ForkDb
  BY DEF IInv, LocalsInv, LocalsTypeOK
<1>2. CASE UNCHANGED vars
  BY <1>1, <1>2 DEF IInv, vars, ChainInv, ChainTypeOK, ChainIsDerived, RecordsAreBehind, Below,
                    LocalsInv, LocalsTypeOK
<1>3. CASE Next
  <2>1. ChainInv'
    BY <1>1, <1>3, NextMovesChain, MoveKeepsChainInv
  <2>2. LocalsInv'
    BY <1>3, ReceiveKeepsLocals, ForkStepKeepsLocals, DecideKeepsLocals, SwitchKeepsLocals,
       RestoreKeepsLocals, LinearKeepsLocals, CascadeKeepsLocals DEF Next, Working
  <2> QED
    BY <2>1, <2>2 DEF IInv
<1> QED
  BY <1>2, <1>3

(* The inductive invariant holds whatever blocks arrive in whatever order: *)
(* the chain is the result of applying its blocks, the committed revision  *)
(* and LIB are never above the head, and the locals of push_block are      *)
(* where its loops need them.                                              *)
THEOREM Invariance == Spec => []IInv
  BY InitEstablishes, NextKeeps, PTL DEF Spec

(* push_block keeps its types: no id is looked up that is not a block, and *)
(* _max_size, the distance from LIB to the head, is never negative.        *)
THEOREM TypeCorrect == Spec => []TypeOK
<1>1. IInv => TypeOK
  BY TypeFromParts DEF IInv, ChainInv, LocalsInv
<1> QED
  BY <1>1, Invariance, PTL

(* In a chain that is derived from its blocks LIB rose with its support.    *)
LEMMA DerivedHasSupport == ChainInv => LibHasSupport
<1> SUFFICES ASSUME ChainInv, NEW i \in 1 .. Len(chain), chain[i].lib > Below(i).lib
             PROVE  Cardinality(SlotsFrom(chain[i].support, Sched[chain[i].id], chain[i].lib))
                        >= Len(Sched[chain[i].id]) - Offset(Sched[chain[i].id])
  BY DEF LibHasSupport, Below, Genesis
<1>1. Len(chain) \in Nat /\ chain[i] \in DbState /\ i \in Nat \ {0}
  BY DEF ChainInv, ChainTypeOK
<1>2. Below(i) \in States /\ Below(i).lib <= Num[Below(i).id]
      /\ \A v \in Validator : Below(i).support[v].supported <= Num[Below(i).id]
  <2>1. CASE i = 1
    <3>1. Genesis \in States /\ Genesis.lib = 0 /\ Genesis.id = Root
          /\ \A v \in Validator : Genesis.support[v].supported = 0
      BY DEF Genesis, States, NoSupport, Support
    <3> QED
      BY <2>1, <3>1, BlockTree DEF Below
  <2>2. CASE i # 1
    <3>1. i - 1 \in 1 .. Len(chain) /\ Below(i) = chain[i-1] /\ chain[i-1] \in DbState
      BY <1>1, <2>2 DEF Below, ChainInv, ChainTypeOK
    <3>2. Below(i) \in States
      BY <3>1 DEF DbState, States
    <3> QED
      BY <3>1, <3>2 DEF ChainInv, RecordsAreBehind
  <2> QED
    BY <2>1, <2>2
<1>3. chain[i] = StateOn(Below(i), chain[i].id) /\ Prev[chain[i].id] = Below(i).id
  BY DEF ChainInv, ChainIsDerived
<1>4. chain[i].id \in Block
  BY <1>1 DEF DbState
<1> QED
  BY <1>2, <1>3, <1>4, StateOnFacts

(* Every block that raised the last irreversible block number did so with  *)
(* the support of the threshold (update_last_irreversible_block).          *)
THEOREM IrreversibleHasSupport == Spec => []LibHasSupport
<1>1. IInv => LibHasSupport
  BY DerivedHasSupport DEF IInv
<1> QED
  BY <1>1, Invariance, PTL

-----------------------------------------------------------------------------
(* The refinement: a move of the chain is a step of FinalChain.            *)

Ids == [i \in 1 .. Len(chain) |-> chain[i].id]

(* The abstract chain is the sequence of ids of the states.                *)
LEMMA IdsFacts ==
    ASSUME ChainInv
    PROVE  /\ Ids \in Seq(Block) /\ Len(Ids) = Len(chain) /\ Len(chain) \in Nat
           /\ Final!LastOf(Ids) = HeadId
<1>1. Len(chain) \in Nat /\ \A i \in 1 .. Len(chain) : chain[i].id \in Block
  <2>1. Len(chain) \in Nat /\ \A i \in 1 .. Len(chain) : chain[i] \in DbState
    BY DEF ChainInv, ChainTypeOK
  <2> QED
    BY <2>1 DEF DbState
<1>2. Ids \in Seq(Block) /\ Len(Ids) = Len(chain) /\ \A i \in 1 .. Len(chain) : Ids[i] = chain[i].id
  BY <1>1 DEF Ids
<1>3. CASE chain = <<>>
  <2>1. Len(Ids) = 0
    BY <1>2, <1>3
  <2>2. Ids = <<>>
    BY <1>2, <2>1, EmptySeq
  <2> QED
    BY <1>1, <1>2, <1>3, <2>2 DEF Final!LastOf, HeadId, Top, Genesis
<1>4. CASE chain # <<>>
  <2>1. Len(chain) \in 1 .. Len(chain) /\ Len(Ids) # 0
    BY <1>1, <1>2, <1>4, EmptySeq DEF ChainInv, ChainTypeOK
  <2>2. Ids # <<>>
    BY <2>1
  <2> QED
    BY <1>1, <1>2, <1>4, <2>1, <2>2 DEF Final!LastOf, HeadId, Top
<1> QED
  BY <1>3, <1>4

(* Applying a block extends the abstract chain and settles part of it.     *)
LEMMA GrowthRefines ==
    ASSUME ChainInv, fork \in ForkDb, NEW b \in Block, Header(b),
           chain' = Append(chain, StateAfter(b)),
           committed' = Larger(committed, StateAfter(b).lib)
    PROVE  Ids' = Append(Ids, b) /\ Prev[b] = Final!LastOf(Ids)
           /\ committed' \in committed .. Len(Ids')
<1> DEFINE s == StateAfter(b)
           n == Len(chain) + 1
<1>1. s \in DbState /\ s.id = b /\ s.lib \in Nat /\ s.lib <= n
  BY StateAfterFacts
<1>2. Len(chain) \in Nat /\ Ids \in Seq(Block) /\ Len(Ids) = Len(chain)
      /\ Final!LastOf(Ids) = HeadId
  BY IdsFacts
<1> HIDE DEF s
<1>3. Len(chain') = n /\ chain'[n] = s /\ \A i \in 1 .. Len(chain) : chain'[i] = chain[i]
  BY <1>1 DEF s, ChainInv, ChainTypeOK
<1>4. Ids' = Append(Ids, b)
  <2>1. Ids' = [i \in 1 .. n |-> chain'[i].id]
    BY <1>3 DEF Ids
  <2>2. \A i \in 1 .. n : chain'[i].id = IF i = n THEN b ELSE Ids[i]
    BY <1>1, <1>2, <1>3 DEF Ids
  <2>3. n \in Nat /\ \A i \in 1 .. n : i # n => i \in 1 .. Len(Ids)
    BY <1>2
  <2>4. Append(Ids, b) \in Seq(Block) /\ Len(Append(Ids, b)) = n
        /\ \A i \in 1 .. n : Append(Ids, b)[i] = IF i = n THEN b ELSE Ids[i]
    BY <1>2, <2>3, AppendProperties
  <2> HIDE DEF n
  <2>5. \A i \in 1 .. n : chain'[i].id \in Block
    BY <1>2, <2>2, <2>3, ElementOfSeq
  <2>6. Ids' \in Seq(Block) /\ Len(Ids') = n
    <3> DEFINE ids == [i \in 1 .. n |-> chain'[i].id]
    <3>1. ids \in [1 .. n -> Block]
      BY <2>5
    <3>2. ids \in Seq(Block) /\ Len(ids) = n
      <4> HIDE DEF ids
      <4> QED
        BY <2>3, <3>1
    <3> QED
      BY <2>1, <3>2
  <2> QED
    BY <2>1, <2>2, <2>4, <2>6, SeqEqual
<1>5. Len(Ids') = n
  BY <1>2, <1>4
<1>6. committed' \in committed .. n
  BY <1>1, <1>2 DEF s, Larger, ChainInv, ChainTypeOK
<1> QED
  BY <1>2, <1>4, <1>5, <1>6 DEF Header

(* push_block, for every tree of blocks and every order of arrival, only   *)
(* does to the chain what FinalChain allows: it never takes back a block   *)
(* that chainbase has committed.                                           *)
THEOREM CommittedIsFinal == Spec => ImplementsFinalChain
<1>1. Init => Final!Init
  <2> SUFFICES ASSUME Init PROVE Final!Init
    OBVIOUS
  <2>1. chain = <<>> /\ committed = 0
    BY DEF Init
  <2>2. IInv
    BY InitEstablishes
  <2>3. Ids \in Seq(Block) /\ Len(Ids) = 0
    BY <2>1, <2>2, IdsFacts DEF IInv
  <2>4. Ids = <<>>
    BY <2>3, EmptySeq
  <2> QED
    BY <2>1, <2>4 DEF Final!Init, Ids
<1>2. IInv /\ IInv' /\ [Next]_vars => [Final!Next]_<<Ids, committed>>
  <2> SUFFICES ASSUME IInv, [Next]_vars
               PROVE  Final!Next \/ UNCHANGED <<Ids, committed>>
    BY DEF Ids
  <2>1. LocalsInv /\ ChainInv /\ fork \in ForkDb /\ Ids \in Seq(Block) /\ Len(Ids) = Len(chain)
        /\ Len(chain) \in Nat /\ committed \in Nat /\ committed <= Len(chain)
    BY IdsFacts DEF IInv, LocalsInv, LocalsTypeOK, ChainInv, ChainTypeOK
  <2>2. CASE chain' = chain /\ committed' = committed
    BY <2>2 DEF Ids
  <2>3. CASE PopBlock /\ Len(chain) > committed
    <3>1. chain' = SubSeq(chain, 1, Len(chain) - 1) /\ committed' = committed
      BY <2>3 DEF PopBlock, HeadNum
    <3>2. Ids' = SubSeq(Ids, 1, Len(Ids) - 1)
      BY <2>1, <2>3, <3>1 DEF Ids, ChainInv, ChainTypeOK
    <3>3. Final!Retract
      BY <2>1, <2>3, <3>1, <3>2 DEF Final!Retract, Ids
    <3> QED
      BY <3>3 DEF Final!Next
  <2>4. ASSUME NEW b \in Block, Header(b), chain' = Append(chain, StateAfter(b)),
               committed' = Larger(committed, StateAfter(b).lib)
        PROVE  Final!Next
    <3>1. Ids' = Append(Ids, b) /\ Prev[b] = Final!LastOf(Ids)
          /\ committed' \in committed .. Len(Ids')
      BY <2>1, <2>4, GrowthRefines
    <3>2. Final!Extend
      BY <3>1 DEF Final!Extend, Ids
    <3> QED
      BY <3>2 DEF Final!Next
  <2>5. ASSUME NEW b \in Block, Header(b), FailInLog(b), ~(StateAfter(b).lib >= Num[b])
        PROVE  Final!Next
    <3>1. chain' = chain /\ committed' = Larger(committed, StateAfter(b).lib)
      BY <2>5 DEF FailInLog
    <3>2. StateAfter(b).lib \in Nat /\ StateAfter(b).lib <= Len(chain)
      BY <2>1, <2>5, StateAfterFacts
    <3>3. committed' \in committed .. Len(Ids) /\ Ids' = Ids
      BY <2>1, <3>1, <3>2 DEF Larger, Ids
    <3>4. Final!Finalize
      BY <3>3 DEF Final!Finalize, Ids
    <3> QED
      BY <3>4 DEF Final!Next
  <2>6. CASE UNCHANGED vars
    BY <2>2, <2>6 DEF vars
  <2>7. CASE Next
    <3>1. ChainMove
      BY <2>1, <2>7, NextMovesChain
    <3>2. CASE NoChain
      BY <2>2, <3>2 DEF NoChain
    <3>3. CASE PopBlock
      BY <2>1, <2>2, <2>3, <3>3 DEF PopBlock, HeadNum
    <3>4. ASSUME NEW b \in Block, Grows(b) PROVE Final!Next
      BY <3>4, <2>4, <2>5 DEF Grows, ApplyBlock, FailInLog
    <3> QED
      BY <3>1, <3>2, <3>3, <3>4 DEF ChainMove
  <2> QED
    BY <2>6, <2>7
<1> QED
  BY <1>1, <1>2, Invariance, PTL DEF Spec, ImplementsFinalChain, Final!Spec, Ids
=============================================================================
