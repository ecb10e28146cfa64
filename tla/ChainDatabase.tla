---------------------------- MODULE ChainDatabase ---------------------------
(***************************************************************************)
(* database::push_block (libraries/chain/database.cpp) with everything it  *)
(* drives: the fork database, the undo stack of chainbase, the block log   *)
(* and the deferred applied_block notifications, for a node that is not in *)
(* DLT mode.                                                               *)
(*                                                                         *)
(* push_block holds the write lock, so no other writer interleaves with    *)
(* it; it is cut into steps (pc) because the process can crash between any *)
(* two of them and because most of its hazards are half-done loops.        *)
(*                                                                         *)
(* A block's content is reduced to what push_block can tell apart.  The    *)
(* state after a block is a function of the chain below it, so what depends*)
(* on that state is a constant of the block: the validity verdict, the     *)
(* validators whose slots it skipped, the schedule in force and whether    *)
(* the emergency mode is on after it.                                      *)
(***************************************************************************)
EXTENDS ForkDatabase, ValidatorSupport, FiniteSetsExt

CONSTANTS
    Producer,       \* Producer[b]: the validator field of block b
    Verdict,        \* Verdict[b]: what apply_block says on its own parent
    Missed,         \* Missed[b]: validators whose slots b skips
    Sched,          \* Sched[b]: the schedule slots when b updates LIB
    Emergency,      \* blocks after which emergency_consensus_active holds
    Votes,          \* votes of the validators
    Hardfork12,     \* has_hardfork(CHAIN_HARDFORK_12)
    MaxGap          \* 100: farther unlinkable blocks are not stored

ASSUME BlockContent ==
    /\ Producer \in [Block -> Validator]
    /\ Verdict \in [Block -> {"ok", "schedule", "invalid"}]
    /\ Missed \in [Block -> SUBSET Validator]
    /\ Sched \in [Block -> Seq(Validator) \ {<<>>}]
    /\ Emergency \subseteq Block
    /\ Votes \in [Validator -> Nat]
    /\ Hardfork12 \in BOOLEAN /\ MaxGap \in Nat

VARIABLES
    fork,       \* _fork_db
    chain,      \* the state after each applied block, from block 1 to head
    committed,  \* the revision up to which chainbase has dropped undo states
    block_log,  \* _block_log: the block at every height
    dlt_mode,   \* _dlt_mode: the block log is not written
    notes,      \* _pending_block_notifications
    delivered,  \* the notifications sent by the last push_block
    pc,         \* where push_block is
    op,         \* its local variables
    ret,        \* how the last push_block ended
    entry       \* history: head_block_id when the running push_block began

vars == <<fork, chain, committed, block_log, dlt_mode, notes, delivered, pc, op,
          ret, entry>>

DbState == [id : Block, lib : Nat, support : Support]

Genesis == [id |-> Root, lib |-> 0, support |-> NoSupport]

Top == IF chain = <<>> THEN Genesis ELSE chain[Len(chain)]

HeadId == Top.id

HeadNum == Len(chain)

IsEmergency(b) == b \in Emergency

(* fetch_block_by_id: the fork database, then the block log.               *)
CanFetch(b) == IsKnownBlock(fork, b) \/ b \in {block_log[i] : i \in 1 .. Len(block_log)}

(* find_block_id_for_num: the block summaries hold the applied chain.      *)
IsOnChain(b) == Num[b] <= HeadNum /\ chain[Num[b]].id = b

NoOp == [block |-> Root, head |-> Root, first |-> <<>>, second |-> <<>>,
         linear |-> FALSE, lib |-> 0, todo |-> <<>>, next |-> "idle", blk |-> Root]

Thrown == {"unlinkable", "too_old", "assert", "rejected"}

-----------------------------------------------------------------------------
(* apply_block                                                             *)

Header(b) == Prev[b] = HeadId

Applies(b) == Header(b) /\ Verdict[b] = "ok"

WrongSchedule(b) == Header(b) /\ Verdict[b] = "schedule"

Activates(b) == IsEmergency(b) /\ ~IsEmergency(Prev[b])

Deactivates(b) == ~IsEmergency(b) /\ IsEmergency(Prev[b])

StateOn(st, b) ==
    LET missed == MissSlots(st.support, Missed[b], Producer[b])
        runs   == IF Activates(b) THEN EndRuns(missed) ELSE missed
        signed == SignBlock(runs, Producer[b], Num[b])
    IN [id |-> b, support |-> signed,
        lib |-> NewLib(signed, Sched[b], st.lib, Num[b],
                       IsEmergency(b) \/ IsEmergency(Prev[b]))]

StateAfter(b) == StateOn(Top, b)

(* The irreversible blocks that are not in the log yet are read from the   *)
(* fork database; the first one that is missing fails an assertion.        *)
DueForLog(b) == IF dlt_mode THEN {} ELSE Len(block_log) + 1 .. StateAfter(b).lib

MissingForLog(b) == {n \in DueForLog(b) : FetchOnMainBranch(fork, n) = Root}

Larger(m, n) == IF m > n THEN m ELSE n

(* Mutant of LogUpTo: one block that is still reversible is written.       *)
LogUpToOneMore(n) == block_log \o [i \in 1 .. n - Len(block_log) + 1 |->
                                       FetchOnMainBranch(fork, Len(block_log) + i)]

LogUpTo(n) == block_log \o [i \in 1 .. n - Len(block_log) |->
                                FetchOnMainBranch(fork, Len(block_log) + i)]

ForkWithMode(b) ==
    IF Activates(b) THEN SetEmergencyMode(fork, TRUE) ELSE fork

(* Mutants of ForkAfter: the operands of the size swapped; the end of the  *)
(* emergency mode forgotten.                                               *)
ForkAfterSwapped(b) == SetMaxSize(ForkWithMode(b), StateAfter(b).lib - Num[b] + 1)

ForkAfterStaysInMode(b) == SetMaxSize(ForkWithMode(b), Num[b] - StateAfter(b).lib + 1)

ForkAfter(b) ==
    LET f == SetMaxSize(ForkWithMode(b), Num[b] - StateAfter(b).lib + 1)
    IN IF Deactivates(b) THEN SetEmergencyMode(f, FALSE) ELSE f

(* _apply_block to its end, and session.push().  commit(LIB) has dropped   *)
(* the undo states up to LIB.                                              *)
ApplyBlock(b) ==
    /\ MissingForLog(b) = {}
    /\ chain' = Append(chain, StateAfter(b))
    /\ committed' = Larger(committed, StateAfter(b).lib)
    /\ block_log' = IF DueForLog(b) = {} THEN block_log ELSE LogUpTo(StateAfter(b).lib)
    /\ fork' = ForkAfter(b)
    /\ notes' = Append(notes, b)
    /\ UNCHANGED dlt_mode

(* The block the log needs is not in the fork database: the session of b   *)
(* is undone, commit(LIB) and the blocks written so far are not.           *)
FailInLog(b) ==
    /\ MissingForLog(b) # {}
    /\ committed' = Larger(committed, StateAfter(b).lib)
    /\ chain' = IF StateAfter(b).lib >= Num[b] THEN Append(chain, StateAfter(b)) ELSE chain
    /\ block_log' = LogUpTo(Min(MissingForLog(b)) - 1)
    /\ UNCHANGED dlt_mode

(* pop_block: chainbase has no undo state at or below committed, where     *)
(* undo() does nothing.                                                    *)
CanPop == CanFetch(HeadId) /\ CanPopHead(fork)

(* Mutants of PopBlock: undo() below the committed revision; no pop of the *)
(* fork database.                                                          *)
PopBlockCommitted ==
    /\ CanPop /\ fork' = PopHead(fork)
    /\ chain' = SubSeq(chain, 1, HeadNum - 1)
    /\ UNCHANGED <<committed, block_log, dlt_mode>>

PopBlockKeepsFork ==
    /\ CanPop /\ fork' = fork
    /\ chain' = IF HeadNum > committed THEN SubSeq(chain, 1, HeadNum - 1) ELSE chain
    /\ UNCHANGED <<committed, block_log, dlt_mode>>

PopBlock ==
    /\ CanPop
    /\ fork' = PopHead(fork)
    /\ chain' = IF HeadNum > committed THEN SubSeq(chain, 1, HeadNum - 1) ELSE chain
    /\ UNCHANGED <<committed, block_log, dlt_mode>>

-----------------------------------------------------------------------------
(* Leaving push_block: a normal return delivers the notifications, an      *)
(* exception drops them.                                                   *)

Finish(r) ==
    /\ pc' = "idle" /\ op' = NoOp /\ ret' = r /\ notes' = <<>>
    /\ delivered' = IF r \in Thrown THEN <<>> ELSE notes

Goto(label) == pc' = label /\ UNCHANGED <<delivered, ret, entry>>

(* The exception leaves fork, chain and log as they are.                   *)
NoChain == UNCHANGED <<chain, committed, block_log, dlt_mode>>

-----------------------------------------------------------------------------
(* _push_block: the checks before the fork database                        *)

Begin ==
    /\ pc = "idle"
    /\ entry' = HeadId
    /\ NoChain

(* Already on our chain: keep it in the fork database as an anchor.        *)
IgnoreKnown(b) ==
    /\ Begin /\ IsOnChain(b)
    /\ \/ IsKnownBlock(fork, b) /\ fork' = fork /\ Finish("false")
       \/ /\ ~IsKnownBlock(fork, b)
          /\ fork' = InsertBaseItem(fork, b)
          /\ pc' = "link"
          /\ op' = [NoOp EXCEPT !.block = b, !.todo = <<b>>, !.next = "base"]
          /\ UNCHANGED <<notes, delivered, ret>>

OffChainWithUnknownParent(b) ==
    /\ Num[b] <= HeadNum /\ ~IsOnChain(b)
    /\ Prev[b] # Root /\ ~IsKnownBlock(fork, Prev[b])

RejectDeadFork(b) ==
    /\ Begin /\ OffChainWithUnknownParent(b) /\ ~CanFetch(Prev[b])
    /\ fork' = fork
    /\ Finish("unlinkable")

(* The parent comes from the block log: it is pushed first.                *)
SeedParent(b) ==
    LET p == Prev[b] IN
    /\ Begin /\ OffChainWithUnknownParent(b) /\ CanFetch(p)
    /\ \/ /\ PushOutcome(fork, p) = "inserted"
          /\ fork' = InsertItem(fork, p)
          /\ pc' = "link"
          /\ op' = [NoOp EXCEPT !.block = b, !.todo = <<p>>, !.next = "push"]
          /\ UNCHANGED <<notes, delivered, ret>>
       \/ /\ PushOutcome(fork, p) = "unlinkable"
          /\ fork' = StoreUnlinked(fork, p) /\ Finish("unlinkable")
       \/ /\ PushOutcome(fork, p) = "too_old"
          /\ fork' = fork /\ Finish("too_old")

(* The parent is not our head and the block is ahead of it.                *)
ExpectUnlinkable(b) == Num[b] > HeadNum /\ Prev[b] \notin {Root, HeadId}

RejectFarBlock(b) ==
    /\ Begin /\ ExpectUnlinkable(b) /\ Num[b] - HeadNum > MaxGap
    /\ fork' = fork
    /\ Finish("false")

Accept(b) ==
    /\ Begin
    /\ ~IsOnChain(b) /\ ~OffChainWithUnknownParent(b)
    /\ ~(ExpectUnlinkable(b) /\ Num[b] - HeadNum > MaxGap)
    /\ fork' = fork
    /\ pc' = "push"
    /\ op' = [NoOp EXCEPT !.block = b]
    /\ UNCHANGED <<notes, delivered, ret>>

-----------------------------------------------------------------------------
(* The fork database takes the block, then whatever waited for it.         *)

ForkWithHead ==
    IF Prev[op.block] = HeadId /\ ~IsKnownBlock(fork, HeadId) /\ CanFetch(HeadId)
    THEN StartBlock(fork, HeadId) ELSE fork

PushToForkDb ==
    LET b == op.block
        f == ForkWithHead IN
    /\ pc = "push"
    /\ NoChain /\ entry' = entry
    /\ \/ /\ PushOutcome(f, b) = "known"
          /\ fork' = f /\ Goto("decide") /\ UNCHANGED <<op, notes>>
       \/ /\ PushOutcome(f, b) = "inserted"
          /\ fork' = InsertItem(f, b) /\ Goto("link")
          /\ op' = [op EXCEPT !.todo = <<b>>, !.next = "decide"]
          /\ UNCHANGED notes
       \/ /\ PushOutcome(f, b) = "too_old"
          /\ fork' = f /\ Finish("too_old")
       \/ /\ PushOutcome(f, b) = "unlinkable"
          /\ fork' = StoreUnlinked(f, b)
          /\ Finish(IF ExpectUnlinkable(b) THEN "false" ELSE "unlinkable")

(* _push_next, depth first: op.todo is the stack of its recursive calls.   *)
Linking == op.todo[Len(op.todo)]

LinkChild ==
    /\ pc = "link"
    /\ NoChain /\ entry' = entry
    /\ \E c \in WaitingFor(fork, Linking) :
        LET f == TakeUnlinked(fork, c) IN
        \/ /\ PushOutcome(f, c) = "known"
           /\ fork' = f /\ UNCHANGED <<pc, op, ret, notes, delivered>>
        \/ /\ PushOutcome(f, c) = "inserted"
           /\ fork' = InsertItem(f, c)
           /\ op' = [op EXCEPT !.todo = Append(@, c)]
           /\ UNCHANGED <<pc, ret, notes, delivered>>
        \/ /\ PushOutcome(f, c) = "too_old"
           /\ fork' = f /\ Finish("too_old")

LinkReturn ==
    /\ pc = "link" /\ WaitingFor(fork, Linking) = {}
    /\ Goto(IF Len(op.todo) > 1 THEN "link" ELSE op.next)
    /\ op' = [op EXCEPT !.todo = SubSeq(@, 1, Len(@) - 1)]
    /\ UNCHANGED <<fork, notes>> /\ NoChain

FinishBase ==
    /\ pc = "base"
    /\ fork' = RepairChildPrevLinks(fork, op.block)
    /\ Finish("false")
    /\ NoChain /\ entry' = entry

-----------------------------------------------------------------------------
(* The fork choice                                                         *)

NewHead == fork.head

(* Votes of the distinct validators of a branch; the committee has none.   *)
BranchWeight(branch) ==
    LET producers == {Producer[branch[i]] : i \in 1 .. Len(branch)} \ {Committee}
    IN MapThenSumSet(LAMBDA v : Votes[v], producers)

HasEmergencyBlock(branch) ==
    \E i \in 1 .. Len(branch) : Producer[branch[i]] = Committee

(* The longer branch gets a tenth of its weight as a bonus.                *)
Weighted(branch, longer) ==
    BranchWeight(branch) + (IF longer THEN BranchWeight(branch) \div 10 ELSE 0)

(* Mutants of Heavier: the branches swapped; the emergency rule forgotten. *)
HeavierSwapped(a, b) ==
    /\ BranchesFound(fork, a, b)
    /\ Weighted(BranchFrom(fork, b, a), Num[b] > Num[a])
         > Weighted(BranchFrom(fork, a, b), Num[a] > Num[b])

HeavierByVotesOnly(a, b) ==
    /\ BranchesFound(fork, a, b)
    /\ Weighted(BranchFrom(fork, a, b), Num[a] > Num[b])
         > Weighted(BranchFrom(fork, b, a), Num[b] > Num[a])

(* compare_fork_branches(a, b) > 0; every exception inside it counts as a  *)
(* tie.                                                                    *)
Heavier(a, b) ==
    LET x == BranchFrom(fork, a, b)
        y == BranchFrom(fork, b, a) IN
    /\ BranchesFound(fork, a, b)
    /\ IF IsEmergency(HeadId) /\ HasEmergencyBlock(x) # HasEmergencyBlock(y)
       THEN HasEmergencyBlock(x)
       ELSE Weighted(x, Num[a] > Num[b]) > Weighted(y, Num[b] > Num[a])

ShouldSwitch ==
    IF Hardfork12
    THEN /\ Num[NewHead] >= HeadNum
         /\ IsKnownBlock(fork, HeadId)
         /\ \/ Heavier(NewHead, HeadId)
            \/ ~Heavier(HeadId, NewHead) /\ Num[NewHead] > HeadNum
    ELSE Num[NewHead] > HeadNum

GoesToApply == Prev[op.block] = HeadId \/ Prev[NewHead] = HeadId

Deciding == pc = "decide" /\ NoChain /\ entry' = entry

DecideApply ==
    /\ Deciding /\ GoesToApply
    /\ Goto("apply") /\ UNCHANGED <<fork, op, notes>>

DecideStay ==
    /\ Deciding /\ ~GoesToApply /\ ~ShouldSwitch
    /\ fork' = fork /\ Finish("false")

(* Before hardfork 12 the head may be absent from the fork database.       *)
RejectWithoutHead ==
    /\ Deciding /\ ~GoesToApply /\ ShouldSwitch /\ ~IsKnownBlock(fork, HeadId)
    /\ fork' = RemoveBlocks(fork, {NewHead}) /\ Finish("unlinkable")

ForkAtHead == IF CanFetch(HeadId) THEN StartBlock(Reset(fork), HeadId) ELSE Reset(fork)

Switches == /\ Deciding /\ ~GoesToApply /\ ShouldSwitch
            /\ IsKnownBlock(fork, HeadId)

RejectBrokenLinks ==
    /\ Switches /\ ~BranchesFound(fork, NewHead, HeadId)
    /\ fork' = ForkAtHead /\ Finish("unlinkable")

(* A linear extension: the head itself is the last block of both branches. *)
StartSwitch ==
    LET first  == BranchFrom(fork, NewHead, HeadId)
        second == BranchFrom(fork, HeadId, NewHead)
        linear == second = <<HeadId>> /\ first[1] = HeadId IN
    /\ Switches /\ BranchesFound(fork, NewHead, HeadId)
    /\ op' = [op EXCEPT !.head = NewHead, !.second = second, !.linear = linear,
                        !.first = IF linear THEN Tail(first) ELSE first,
                        !.lib = Top.lib]
    /\ Goto(IF linear THEN "apply_new" ELSE "pop")
    /\ UNCHANGED <<fork, notes>>

-----------------------------------------------------------------------------
(* The fork switch                                                         *)

ForkPoint == IF op.linear THEN op.second[1] ELSE Prev[op.second[1]]

PopOld ==
    /\ pc = "pop" /\ HeadId # ForkPoint /\ HeadNum > op.lib
    /\ PopBlock
    /\ UNCHANGED <<notes, pc, op, ret, entry, delivered>>

(* pop_block failed an assertion; the exception leaves push_block.         *)
PopFails ==
    /\ \/ pc = "pop" /\ HeadId # ForkPoint /\ HeadNum > op.lib
       \/ pc = "restore_pop" /\ HeadId # ForkPoint /\ HeadNum > op.lib
       \/ pc = "cascade_pop" /\ HeadNum > Num[op.block] /\ HeadNum > op.lib
    /\ ~CanPop
    /\ fork' = fork /\ Finish("assert")
    /\ NoChain /\ entry' = entry

AbortAtLib ==
    /\ pc = "pop" /\ HeadId # ForkPoint /\ HeadNum <= op.lib
    /\ fork' = RemoveBlocks(fork, {op.head}) /\ Finish("unlinkable")
    /\ NoChain /\ entry' = entry

PopDone ==
    /\ pc = "pop" /\ HeadId = ForkPoint
    /\ Goto("apply_new")
    /\ UNCHANGED <<fork, op, notes>> /\ NoChain

(* A block of the new branch that only misses the schedule is applied with *)
(* skip_validator_schedule_check.                                          *)
AppliesInSwitch(b) == Applies(b) \/ WrongSchedule(b)

ApplyNew ==
    /\ pc = "apply_new" /\ op.first # <<>>
    /\ AppliesInSwitch(op.first[1]) /\ ApplyBlock(op.first[1])
    /\ op' = [op EXCEPT !.first = Tail(@)]
    /\ UNCHANGED <<pc, ret, entry, delivered>>

(* Mutant of ApplyNewFails: the exception is passed on, without recovery.  *)
ApplyNewFailsGivesUp ==
    /\ pc = "apply_new" /\ op.first # <<>> /\ ~AppliesInSwitch(op.first[1])
    /\ fork' = RemoveBlocks(fork, {op.first[i] : i \in 1 .. Len(op.first)})
    /\ Finish("rejected") /\ NoChain /\ entry' = entry

(* The blocks of the branch that were not applied leave the fork database. *)
ApplyNewFails ==
    LET b == op.first[1]
        rest == {op.first[i] : i \in 1 .. Len(op.first)} IN
    /\ pc = "apply_new" /\ op.first # <<>>
    /\ \/ ~AppliesInSwitch(b) /\ fork' = RemoveBlocks(fork, rest) /\ NoChain
       \/ AppliesInSwitch(b) /\ FailInLog(b) /\ fork' = RemoveBlocks(ForkWithMode(b), rest)
    /\ op' = [op EXCEPT !.first = <<>>, !.lib = Top.lib]
    /\ Goto("restore_pop") /\ UNCHANGED notes

SwitchDone ==
    /\ pc = "apply_new" /\ op.first = <<>>
    /\ fork' = SetHead(fork, op.head) /\ Finish("true")
    /\ NoChain /\ entry' = entry

(* Back to the old branch.                                                 *)
RestorePop ==
    /\ pc = "restore_pop" /\ HeadId # ForkPoint /\ HeadNum > op.lib
    /\ PopBlock
    /\ UNCHANGED <<notes, pc, op, ret, entry, delivered>>

(* Mutant of RestorePopDone: the old branch is not applied again.          *)
RestorePopDoneStops ==
    /\ pc = "restore_pop" /\ (HeadId = ForkPoint \/ HeadNum <= op.lib)
    /\ NoChain /\ entry' = entry
    /\ fork' = SetHead(fork, HeadId) /\ Finish("false")

RestorePopDone ==
    /\ pc = "restore_pop" /\ (HeadId = ForkPoint \/ HeadNum <= op.lib)
    /\ NoChain /\ entry' = entry
    /\ \/ op.linear /\ fork' = SetHead(fork, op.second[1]) /\ Finish("false")
       \/ /\ ~op.linear /\ Goto("restore_apply") /\ UNCHANGED <<fork, notes>>
          /\ op' = [op EXCEPT !.first = op.second]

RestoreApply ==
    /\ pc = "restore_apply" /\ op.first # <<>>
    /\ Applies(op.first[1]) /\ ApplyBlock(op.first[1])
    /\ op' = [op EXCEPT !.first = Tail(@)]
    /\ UNCHANGED <<pc, ret, entry, delivered>>

RestoreApplyFails ==
    LET b == op.first[1] IN
    /\ pc = "restore_apply" /\ op.first # <<>>
    /\ \/ ~Applies(b) /\ fork' = fork /\ NoChain
       \/ Applies(b) /\ FailInLog(b) /\ fork' = ForkWithMode(b)
    /\ Finish(IF WrongSchedule(b) THEN "rejected" ELSE "assert")
    /\ entry' = entry

RestoreDone ==
    /\ pc = "restore_apply" /\ op.first = <<>>
    /\ fork' = SetHead(fork, op.second[Len(op.second)]) /\ Finish("false")
    /\ NoChain /\ entry' = entry

-----------------------------------------------------------------------------
(* The linear push                                                         *)

ApplyHere ==
    /\ pc = "apply" /\ Applies(op.block) /\ ApplyBlock(op.block)
    /\ Goto("applied") /\ UNCHANGED op

(* Kept in the fork database as a competing tip.                           *)
KeepWrongSchedule ==
    /\ pc = "apply" /\ WrongSchedule(op.block)
    /\ fork' = fork /\ Finish("false")
    /\ NoChain /\ entry' = entry

ApplyHereFails ==
    LET b == op.block IN
    /\ pc = "apply" /\ ~WrongSchedule(b)
    /\ \/ ~Applies(b) /\ fork' = RemoveBlocks(fork, {b}) /\ NoChain
       \/ Applies(b) /\ FailInLog(b) /\ fork' = RemoveBlocks(ForkWithMode(b), {b})
    /\ Finish("rejected") /\ entry' = entry

(* Competing blocks of this height whose parent is unknown are dropped;    *)
(* then the blocks that _push_next linked above the new head are applied.  *)
Pruned == RemoveBlocks(fork, {c \in AtNumber(fork, Num[op.block]) :
                                 c # op.block /\ ~IsKnownBlock(fork, Prev[c])})

CascadeDue(f) == Num[f.head] > Num[op.block] /\ Num[f.head] > HeadNum /\ IsKnownBlock(f, HeadId)

Applied == pc = "applied" /\ NoChain /\ entry' = entry

NoCascade ==
    LET f == Pruned IN
    /\ Applied /\ fork' = f
    /\ \/ ~CascadeDue(f)
       \/ /\ CascadeDue(f) /\ BranchesFound(f, f.head, HeadId)
          /\ BranchFrom(f, f.head, HeadId)[1] # HeadId
    /\ Finish("true")

StartCascade ==
    LET f == Pruned IN
    /\ Applied /\ fork' = f
    /\ CascadeDue(f) /\ BranchesFound(f, f.head, HeadId)
    /\ BranchFrom(f, f.head, HeadId)[1] = HeadId
    /\ Goto("cascade")
    /\ op' = [op EXCEPT !.head = f.head, !.first = Tail(BranchFrom(f, f.head, HeadId))]
    /\ UNCHANGED notes

CascadeBroken ==
    LET f == Pruned IN
    /\ Applied /\ CascadeDue(f) /\ ~BranchesFound(f, f.head, HeadId)
    /\ fork' = f /\ Goto("cascade_pop")
    /\ op' = [op EXCEPT !.blk = IF CanFetch(HeadId) THEN HeadId ELSE Root, !.lib = Top.lib]
    /\ UNCHANGED notes

CascadeApply ==
    /\ pc = "cascade" /\ op.first # <<>>
    /\ Applies(op.first[1]) /\ ApplyBlock(op.first[1])
    /\ op' = [op EXCEPT !.first = Tail(@)]
    /\ UNCHANGED <<pc, ret, entry, delivered>>

CascadeDone ==
    /\ pc = "cascade" /\ op.first = <<>>
    /\ fork' = SetHead(fork, op.head) /\ Finish("true")
    /\ NoChain /\ entry' = entry

(* The block to restart the fork database from is read before the blocks   *)
(* of the cascade are popped.                                              *)
CascadeFails ==
    LET b == op.first[1] IN
    /\ pc = "cascade" /\ op.first # <<>>
    /\ \/ ~Applies(b) /\ fork' = fork /\ NoChain
       \/ Applies(b) /\ FailInLog(b) /\ fork' = ForkWithMode(b)
    /\ op' = [op EXCEPT !.first = <<>>, !.lib = Top.lib,
                        !.blk = IF CanFetch(HeadId) THEN HeadId ELSE Root]
    /\ Goto("cascade_pop") /\ UNCHANGED notes

CascadePop ==
    /\ pc = "cascade_pop" /\ HeadNum > Num[op.block] /\ HeadNum > op.lib
    /\ PopBlock
    /\ UNCHANGED <<notes, pc, op, ret, entry, delivered>>

(* Mutant of CascadePopDone: the fork database is not started again.       *)
CascadePopDoneEmpty ==
    /\ pc = "cascade_pop" /\ (HeadNum <= Num[op.block] \/ HeadNum <= op.lib)
    /\ fork' = Reset(fork) /\ Finish("true")
    /\ NoChain /\ entry' = entry

CascadePopDone ==
    /\ pc = "cascade_pop" /\ (HeadNum <= Num[op.block] \/ HeadNum <= op.lib)
    /\ fork' = IF op.blk = Root THEN Reset(fork) ELSE StartBlock(Reset(fork), op.blk)
    /\ Finish("true")
    /\ NoChain /\ entry' = entry

-----------------------------------------------------------------------------
Init ==
    /\ fork = EmptyForkDb /\ chain = <<>> /\ committed = 0 /\ block_log = <<>>
    /\ dlt_mode = FALSE
    /\ notes = <<>> /\ delivered = <<>> /\ pc = "idle" /\ op = NoOp
    /\ ret = "none" /\ entry = Root

Receive(b) == IgnoreKnown(b) \/ RejectDeadFork(b) \/ SeedParent(b)
              \/ RejectFarBlock(b) \/ Accept(b)

ForkStep == PushToForkDb \/ LinkChild \/ LinkReturn \/ FinishBase

DecideStep == DecideApply \/ DecideStay \/ RejectWithoutHead
              \/ RejectBrokenLinks \/ StartSwitch

SwitchStep == PopOld \/ PopFails \/ AbortAtLib \/ PopDone \/ ApplyNew
              \/ ApplyNewFails \/ SwitchDone

RestoreStep == RestorePop \/ RestorePopDone \/ RestoreApply
               \/ RestoreApplyFails \/ RestoreDone

LinearStep == ApplyHere \/ KeepWrongSchedule \/ ApplyHereFails

CascadeStep == NoCascade \/ StartCascade \/ CascadeBroken \/ CascadeApply
               \/ CascadeDone \/ CascadeFails \/ CascadePop \/ CascadePopDone

Working == ForkStep \/ DecideStep \/ SwitchStep \/ RestoreStep \/ LinearStep \/ CascadeStep

Next == (\E b \in Block : Receive(b)) \/ Working

Spec == Init /\ [][Next]_vars

(* A call of push_block that has begun runs on: it holds the write lock.   *)
WorkSpec == Spec /\ WF_vars(Working)

-----------------------------------------------------------------------------
(* Properties                                                              *)

Labels == {"idle", "push", "link", "base", "decide", "pop", "apply_new", "restore_pop",
           "restore_apply", "apply", "applied", "cascade", "cascade_pop"}

Locals == [block : Block \cup {Root}, head : Block \cup {Root}, first : Seq(Block),
           second : Seq(Block), linear : BOOLEAN, lib : Nat, todo : Seq(Block),
           next : {"idle", "base", "push", "decide"}, blk : Block \cup {Root}]

StateTypeOK ==
    /\ fork \in ForkDb /\ op \in Locals
    /\ chain \in Seq(DbState) /\ committed \in Nat
    /\ block_log \in Seq(Block) /\ dlt_mode \in BOOLEAN
    /\ notes \in Seq(Block) /\ delivered \in Seq(Block)
    /\ ret \in Thrown \cup {"none", "true", "false"}
    /\ entry \in Block \cup {Root}

(* The state and the locals of push_block keep their types.                *)
TypeOK == StateTypeOK /\ pc \in Labels

Final == INSTANCE FinalChain WITH
             blocks <- [i \in 1 .. Len(chain) |-> chain[i].id], final <- committed

(* push_block, with every pop, re-application and failed recovery, only    *)
(* grows the chain by a child of its head or cuts it above the revision    *)
(* that chainbase has committed: a block that became irreversible is never *)
(* replaced (apply_block, pop_block and commit in the loops of             *)
(* _push_block).                                                           *)
ImplementsFinalChain == Final!Spec

(* A block that raises the last irreversible block number raises it to a   *)
(* height that the threshold supports: all slots of the schedule but the   *)
(* tolerated ones belong to validators whose last_supported_block_num has  *)
(* reached it, through forks, missed slots and the emergency cap (the      *)
(* nth_element of update_last_irreversible_block).                         *)
LibHasSupport ==
    \A i \in 1 .. Len(chain) :
        chain[i].lib > (IF i = 1 THEN 0 ELSE chain[i-1].lib) =>
            LET slots == Sched[chain[i].id] IN
            Cardinality(SlotsFrom(chain[i].support, slots, chain[i].lib))
                >= Len(slots) - Offset(slots)

(* Between two calls the head of the database is an item of the fork       *)
(* database, so that the next block links and the next fork switch finds   *)
(* both branches.  It survives pruning, switches, a switch whose first     *)
(* block fails and a cascade whose first block fails.  It does not survive *)
(* a cascade that fails after it applied a block: the block to restart the *)
(* fork database from is read before the pops, so it is one of the popped. *)
HeadIsForkItem == pc = "idle" /\ chain # <<>> => HeadId \in fork.index

(* A call that throws leaves the head where it was: the comment of         *)
(* push_block promises that every partial change is unwound.               *)
FailureKeepsHead == pc = "idle" /\ ret \in Thrown => HeadId = entry

(* A call that returns false has not moved the head, also when it popped   *)
(* the old branch and had to apply it again.                               *)
FalseKeepsHead == pc = "idle" /\ ret = "false" => HeadId = entry

(* The applied_block notifications that a call delivers are for blocks of  *)
(* the chain it leaves, never for blocks that it rolled back: push_block   *)
(* discards the notifications of rolled back blocks.  It does so only when *)
(* an exception leaves the call; the cascade catches its own.              *)
NotesAreOnChain == pc = "idle" => \A i \in 1 .. Len(delivered) : IsOnChain(delivered[i])

(* The block log holds the blocks of the chain: what                       *)
(* update_last_irreversible_block takes from the main branch of the fork   *)
(* database is what the database has applied.                              *)
LogFollowsChain ==
    \A i \in 1 .. Len(block_log) : i <= Len(chain) /\ block_log[i] = chain[i].id

(* Every pop of a fork switch, a recovery or a cascade undoes a block: the *)
(* guard on the last irreversible block number keeps the loops away from   *)
(* revisions that chainbase has committed, where undo() does nothing.      *)
PopsAreUndoable ==
    HeadNum > op.lib /\ \/ pc \in {"pop", "restore_pop"} /\ HeadId # ForkPoint
                        \/ pc = "cascade_pop" /\ HeadNum > Num[op.block]
    => HeadNum > committed

(* The flag of the fork database is the emergency_consensus_active of the  *)
(* head, through activation, deactivation and fork switches.               *)
ForkModeInSync == pc = "idle" => fork.emergency = IsEmergency(HeadId)

(* A node in the emergency mode does not leave its branch for one without  *)
(* a block of the committee, however heavy its votes.                      *)
EmergencyBranchWins ==
    pc = "idle" /\ entry # Root /\ IsEmergency(entry) /\ ~IsOnChain(entry)
        => HasEmergencyBlock([i \in 1 .. Len(chain) |-> chain[i].id])

(* Every call of push_block ends: no pop loop runs for ever on a revision  *)
(* that cannot be undone.                                                  *)
PushReturns == (pc # "idle") ~> (pc = "idle")
=============================================================================
