--------------------------- MODULE ChainNodeProofs ---------------------------
(***************************************************************************)
(* A node that crashes at any step, opens its files again and replays its  *)
(* log, any number of times, for every tree of blocks and every schedule:  *)
(* what it keeps of the chain database's invariant.                        *)
(*                                                                         *)
(* The shared memory file always holds a chain that is derived from its    *)
(* blocks; what push_block keeps in its locals holds while it runs, and    *)
(* begins anew when the node is ready again.                               *)
(***************************************************************************)
EXTENDS ChainNode, ChainDatabaseProofs

(* The locals of push_block are well typed, whatever the process does.     *)
MemoryTypeOK ==
    /\ fork \in ForkDb /\ op \in Locals
    /\ notes \in Seq(Block) /\ delivered \in Seq(Block)
    /\ ret \in Results /\ entry \in Block \cup {Root}

(* A replay has a log to read.                                             *)
NodeInv ==
    /\ ChainInv /\ MemoryTypeOK
    /\ pc \in Labels \cup {"down", "replay", "stopped"}
    /\ pc \in Labels => LocalsInv /\ ~replaying
    /\ replaying \in BOOLEAN /\ crashes \in 0 .. MaxCrashes
    /\ (pc = "replay" \/ replaying) => block_log # <<>>

(* push_block only runs in a process that is up.                           *)
LEMMA WorksWhenUp == Next => pc \in Labels
<1>1. ASSUME NEW b \in Block, Receive(b) PROVE pc \in Labels
  BY <1>1 DEF Receive, IgnoreKnown, RejectDeadFork, SeedParent, RejectFarBlock, Accept, Begin,
              Labels
<1>2. ForkStep => pc \in Labels
  BY DEF ForkStep, PushToForkDb, LinkChild, LinkReturn, FinishBase, Labels
<1>3. DecideStep => pc \in Labels
  BY DEF DecideStep, DecideApply, DecideStay, RejectWithoutHead, RejectBrokenLinks,
         StartSwitch, Switches, Deciding, Labels
<1>4. SwitchStep => pc \in Labels
  BY DEF SwitchStep, PopOld, PopFails, AbortAtLib, PopDone, ApplyNew, ApplyNewFails, SwitchDone,
         Labels
<1>5. RestoreStep => pc \in Labels
  BY DEF RestoreStep, RestorePop, RestorePopDone, RestoreApply, RestoreApplyFails, RestoreDone,
         Labels
<1>6. LinearStep => pc \in Labels
  BY DEF LinearStep, ApplyHere, KeepWrongSchedule, ApplyHereFails, Labels
<1>7. CascadeStep => pc \in Labels
  BY DEF CascadeStep, NoCascade, StartCascade, CascadeBroken, CascadeApply, CascadeDone,
         CascadeFails, CascadePop, CascadePopDone, Applied, Labels
<1> QED
  BY <1>1, <1>2, <1>3, <1>4, <1>5, <1>6, <1>7 DEF Next, Working

(* Undoing the states above n, which is not below the committed revision,  *)
(* keeps the chain derived from its blocks.                                *)
LEMMA TruncationKeepsChain ==
    ASSUME ChainInv, NEW n \in Nat, committed <= n, n <= Len(chain),
           chain' = SubSeq(chain, 1, n), committed' = committed,
           block_log' = block_log, dlt_mode' \in BOOLEAN
    PROVE  ChainInv' /\ Len(chain') = n /\ \A i \in 1 .. n : chain'[i] = chain[i]
<1>1. Len(chain) \in Nat /\ chain \in Seq(DbState)
  BY DEF ChainInv, ChainTypeOK
<1>2. \A i \in 1 .. n : chain[i] \in DbState /\ i \in 1 .. Len(chain)
  BY <1>1
<1>3. /\ SubSeq(chain, 1, n) \in Seq(DbState)
      /\ Len(SubSeq(chain, 1, n)) = IF 1 <= n THEN n - 1 + 1 ELSE 0
      /\ \A i \in 1 .. n - 1 + 1 : SubSeq(chain, 1, n)[i] = chain[1 + i - 1]
  BY <1>2, SubSeqProperties
<1>4. \A i \in 1 .. n : i \in 1 .. n - 1 + 1 /\ 1 + i - 1 = i
  OBVIOUS
<1>5. chain' \in Seq(DbState) /\ Len(chain') = n
  BY <1>3
<1>6. \A i \in 1 .. n : chain'[i] = chain[i]
  <2> TAKE i \in 1 .. n
  <2>1. chain'[i] = chain[1 + i - 1] /\ 1 + i - 1 = i
    BY <1>3, <1>4
  <2> QED
    BY <2>1
<1>7. \A i \in 1 .. n : Below(i)' = Below(i)
  BY <1>6 DEF Below
<1>8. ChainIsDerived' /\ RecordsAreBehind'
  <2>1. ChainIsDerived'
    BY <1>2, <1>5, <1>6, <1>7 DEF ChainInv, ChainIsDerived
  <2>2. RecordsAreBehind'
    BY <1>2, <1>5, <1>6 DEF ChainInv, RecordsAreBehind
  <2> QED
    BY <2>1, <2>2
<1> QED
  BY <1>5, <1>6, <1>8 DEF ChainInv, ChainTypeOK

(* A chain that nothing touches stays derived from its blocks.             *)
LEMMA SameChain ==
    ASSUME ChainInv, chain' = chain, block_log' = block_log, dlt_mode' \in BOOLEAN,
           committed' \in Nat, committed' <= Len(chain)
    PROVE  ChainInv'
  BY DEF ChainInv, ChainTypeOK, ChainIsDerived, RecordsAreBehind, Below

-----------------------------------------------------------------------------
(* Crashes                                                                 *)

(* A dead process has no locals and an empty fork database.                *)
LEMMA DownMemory ==
    ASSUME NodeInv, Down
    PROVE  /\ MemoryTypeOK' /\ pc' = "down" /\ crashes' \in 0 .. MaxCrashes
           /\ replaying' = replaying /\ block_log' = block_log /\ chain' = chain
           /\ dlt_mode' \in BOOLEAN
<1>1. fork' \in ForkDb
  BY DefaultMaxSizeIsPositive DEF Down, EmptyForkDb, ForkDb
<1>2. crashes' \in 0 .. MaxCrashes
  BY NodeConstants DEF NodeInv, Down
<1> QED
  BY <1>1, <1>2, NoOpType, EmptySeq DEF Down, MemoryTypeOK, Results

LEMMA DownKeeps ==
    ASSUME NodeInv, Down, committed' \in Nat, committed' <= Len(chain)
    PROVE  NodeInv'
<1>1. ChainInv'
  BY DownMemory, SameChain DEF NodeInv
<1> QED
  BY <1>1, DownMemory DEF NodeInv, Labels

(* What a block had committed before the crash was below it.               *)
LEMMA CrashKeeps ==
    ASSUME NodeInv, Crash \/ CrashBeforeLog
    PROVE  NodeInv' /\ chain' = chain /\ committed' >= committed
<1>1. committed \in Nat /\ committed <= Len(chain) /\ Len(chain) \in Nat
  BY DEF NodeInv, ChainInv, ChainTypeOK
<1>2. CASE Crash
  <2>1. Down /\ committed' = committed
    BY <1>2 DEF Crash
  <2>2. committed' \in Nat /\ committed' <= Len(chain) /\ committed' >= committed
    BY <1>1, <2>1
  <2> QED
    BY <2>1, <2>2, DownKeeps, DownMemory
<1>3. CASE CrashBeforeLog
  <2>1. PICK b \in Applying : /\ Applies(b) /\ StateAfter(b).lib < Num[b] /\ Down
                              /\ committed' = Larger(committed, StateAfter(b).lib)
    BY <1>3 DEF CrashBeforeLog
  <2>2. LocalsInv
    <3>1. pc \in Labels
      BY <2>1 DEF Applying, Labels
    <3> QED
      BY <3>1 DEF NodeInv
  <2>3. b \in Block
    BY <2>1, <2>2, FirstIsBlock DEF Applying, LocalsInv
  <2>4. StateAfter(b).lib \in Nat /\ Num[b] = Len(chain) + 1
    BY <2>1, <2>3, StateAfterFacts DEF Applies, NodeInv
  <2>5. committed' \in Nat /\ committed' <= Len(chain) /\ committed' >= committed
    BY <1>1, <2>1, <2>4 DEF Larger
  <2> QED
    BY <2>1, <2>5, DownKeeps DEF Down
<1> QED
  BY <1>2, <1>3

-----------------------------------------------------------------------------
(* open, replay                                                            *)

(* The fork database is seeded with blocks of the log.                     *)
LEMMA SeededType ==
    ASSUME ChainInv, committed # 0, ~LogBehind
    PROVE  Seeded \in ForkDb
<1>1. committed \in Nat \ {0} /\ committed <= Len(block_log) /\ block_log \in Seq(Block)
  BY DEF ChainInv, ChainTypeOK, LogBehind
<1>2. SeedStart \in 1 .. committed
  BY <1>1, NodeConstants DEF SeedStart
<1>3. \A i \in SeedStart .. committed : block_log[i] \in Block
  BY <1>1, <1>2
<1> DEFINE items == {block_log[i] : i \in SeedStart .. committed}
           head == block_log[committed]
           base == block_log[SeedStart]
<1>4. items \in SUBSET Block /\ head \in Block /\ base \in Block
  BY <1>1, <1>2, <1>3
<1>5. EmptyForkDb \in ForkDb
  BY DefaultMaxSizeIsPositive DEF EmptyForkDb, ForkDb
<1>6. Seeded = Settle([EmptyForkDb EXCEPT !.index = items, !.head = head,
                                          !.broken = {head, base}])
  BY DEF Seeded
<1> HIDE DEF items, head, base
<1>7. [EmptyForkDb EXCEPT !.index = items, !.head = head, !.broken = {head, base}] \in ForkDb
  BY <1>4, <1>5 DEF ForkDb
<1> QED
  BY <1>6, <1>7, SettleType

(* A replay is due only when there is a log.                               *)
LEMMA ReplayHasLog ==
    ASSUME ChainInv, ReplayDue
    PROVE  block_log # <<>>
<1>1. committed \in Nat /\ block_log \in Seq(Block) /\ Len(block_log) \in Nat
  BY DEF ChainInv, ChainTypeOK
<1>2. ~Matches => committed # 0 /\ ~(Len(block_log) < committed)
  BY DEF Matches
<1>3. ~SeedLinks => committed # 0 /\ ~(Len(block_log) < committed)
  <2> SUFFICES ASSUME ~SeedLinks PROVE committed # 0 /\ ~(Len(block_log) < committed)
    OBVIOUS
  <2>1. SeedStart .. committed - 1 # {} /\ ~(Len(block_log) < committed)
    BY DEF SeedLinks
  <2>2. SeedStart \in Nat \ {0}
    BY <1>1, NodeConstants DEF SeedStart
  <2> QED
    BY <1>1, <2>1, <2>2
<1>4. ~Matches \/ ~SeedLinks => Len(block_log) # 0
  BY <1>1, <1>2, <1>3
<1> QED
  BY <1>1, <1>4, EmptySeq DEF ReplayDue, OpenThrows

(* The node is ready for the next block.                                   *)
LEMMA ReadyLocals ==
    ASSUME MemoryTypeOK, fork' \in ForkDb, pc' = "idle",
           UNCHANGED <<notes, delivered, op, ret, entry>>
    PROVE  LocalsInv' /\ MemoryTypeOK'
  BY DEF LocalsInv, LocalsTypeOK, MemoryTypeOK, Labels

LEMMA OpenKeeps ==
    ASSUME NodeInv, Open
    PROVE  NodeInv' /\ \A i \in 1 .. committed : i <= Len(chain') /\ chain'[i] = chain[i]
<1>1. ChainInv /\ MemoryTypeOK
  BY DEF NodeInv
<1>2. committed \in Nat /\ committed <= Len(chain)
  BY <1>1 DEF ChainInv, ChainTypeOK
<1>3. /\ chain' = SubSeq(chain, 1, committed) /\ committed' = committed
      /\ block_log' = block_log /\ dlt_mode' \in BOOLEAN
  BY DEF Open, Reopened, LogBehind
<1>4. /\ ChainInv' /\ Len(chain') = committed
      /\ \A i \in 1 .. committed : chain'[i] = chain[i]
  BY <1>1, <1>2, <1>3, TruncationKeepsChain
<1>5. fork' \in ForkDb
  <2>1. EmptyForkDb \in ForkDb
    BY DefaultMaxSizeIsPositive DEF EmptyForkDb, ForkDb
  <2>2. PICK f \in ForkDb : fork' = WithMode(f)
    BY <1>1, <2>1, SeededType DEF Open
  <2> QED
    BY <2>2, SetEmergencyModeType DEF WithMode
<1>6. LocalsInv' /\ MemoryTypeOK'
  BY <1>1, <1>5, ReadyLocals DEF Open
<1> QED
  BY <1>2, <1>4, <1>6 DEF Open, NodeInv, Labels

LEMMA StartReplayKeeps ==
    ASSUME NodeInv, StartReplay
    PROVE  NodeInv'
<1>1. ChainInv'
  <2>1. chain' = <<>> /\ committed' = 0 /\ block_log' = block_log /\ dlt_mode' \in BOOLEAN
    BY DEF StartReplay, OpenThrows, LogBehind
  <2>2. Len(chain') = 0 /\ 1 .. Len(chain') = {} /\ chain' \in Seq(DbState)
    BY <2>1, EmptySeq
  <2>3. ChainIsDerived' /\ RecordsAreBehind'
    BY <2>2 DEF ChainIsDerived, RecordsAreBehind
  <2> QED
    BY <2>1, <2>2, <2>3 DEF NodeInv, ChainInv, ChainTypeOK
<1>2. fork' \in ForkDb
  <2>1. EmptyForkDb \in ForkDb
    BY DefaultMaxSizeIsPositive DEF EmptyForkDb, ForkDb
  <2> QED
    BY <2>1, SetEmergencyModeType DEF StartReplay, WithMode
<1>3. block_log' # <<>>
  BY ReplayHasLog DEF StartReplay, NodeInv
<1> QED
  BY <1>1, <1>2, <1>3 DEF StartReplay, NodeInv, MemoryTypeOK, Labels

(* The next block of the log is applied and committed.                     *)
LEMMA ReplayNextKeeps ==
    ASSUME NodeInv, ReplayNext
    PROVE  NodeInv' /\ \A i \in 1 .. Len(chain) : i <= Len(chain') /\ chain'[i] = chain[i]
<1> DEFINE b == ReplayBlock
<1>1. ChainInv /\ MemoryTypeOK
  BY DEF NodeInv
<1>2. Len(chain) \in Nat /\ Len(block_log) \in Nat /\ block_log \in Seq(Block)
  BY <1>1 DEF ChainInv, ChainTypeOK
<1>3. b \in Block
  BY <1>2 DEF ReplayNext, ReplayBlock
<1>4. Header(b)
  BY DEF ReplayNext, Replays, Header
<1> HIDE DEF b
<1>5. chain' = Append(chain, StateAfter(b)) /\ committed' = Len(chain) + 1
      /\ fork' = ForkAfter(b)
  BY DEF ReplayNext, b
<1>6. /\ chain' \in Seq(DbState) /\ Len(chain') = Len(chain) + 1
      /\ ChainIsDerived' /\ RecordsAreBehind'
  BY <1>1, <1>3, <1>4, <1>5, AppendState
<1>7. ChainInv'
  BY <1>1, <1>2, <1>5, <1>6 DEF ReplayNext, ChainInv, ChainTypeOK
<1>8. fork' \in ForkDb
  BY <1>1, <1>3, <1>4, <1>5, ForkAfterType DEF MemoryTypeOK
<1>9. \A i \in 1 .. Len(chain) : i <= Len(chain') /\ chain'[i] = chain[i]
  <2>1. StateAfter(b) \in DbState
    BY <1>1, <1>3, <1>4, StateAfterFacts
  <2> QED
    BY <1>1, <1>2, <1>5, <1>6, <2>1 DEF ChainInv, ChainTypeOK
<1> QED
  BY <1>7, <1>8, <1>9 DEF ReplayNext, NodeInv, MemoryTypeOK, Labels

LEMMA ReplayDoneKeeps ==
    ASSUME NodeInv, ReplayDone
    PROVE  NodeInv'
<1>1. ChainInv /\ MemoryTypeOK /\ block_log # <<>>
  BY DEF NodeInv, ReplayDone
<1>2. block_log[Len(block_log)] \in Block
  <2>1. block_log \in Seq(Block) /\ Len(block_log) \in Nat /\ Len(block_log) # 0
    BY <1>1, EmptySeq DEF ChainInv, ChainTypeOK
  <2> QED
    BY <2>1
<1>3. fork' \in ForkDb
  BY <1>1, <1>2, ForkDbUpdates DEF ReplayDone, MemoryTypeOK
<1>4. LocalsInv' /\ MemoryTypeOK'
  BY <1>1, <1>3, ReadyLocals DEF ReplayDone
<1>5. ChainInv'
  BY <1>1, SameChain DEF ReplayDone, ChainInv, ChainTypeOK
<1> QED
  BY <1>4, <1>5 DEF ReplayDone, NodeInv, Labels

(* A replay that goes on or gives up touches no file.                      *)
LEMMA ReplayHalts ==
    ASSUME NodeInv, ResumeReplay \/ ReplayFails
    PROVE  NodeInv' /\ chain' = chain
<1>1. ChainInv /\ MemoryTypeOK
  BY DEF NodeInv
<1>2. /\ UNCHANGED <<fork, chain, committed, block_log, notes, delivered, op, ret, entry,
                     replaying, crashes>>
      /\ dlt_mode' \in BOOLEAN /\ pc' \in {"replay", "stopped"}
      /\ pc' = "replay" => replaying
  BY <1>1 DEF ResumeReplay, ReplayFails, ChainInv, ChainTypeOK
<1>3. ChainInv'
  BY <1>1, <1>2, SameChain DEF ChainInv, ChainTypeOK
<1> QED
  BY <1>1, <1>2, <1>3 DEF NodeInv, MemoryTypeOK, Labels

-----------------------------------------------------------------------------
(* push_block in a process that is up keeps all of it.                     *)
LEMMA PushKeeps ==
    ASSUME NodeInv, Next, UNCHANGED <<replaying, crashes>>
    PROVE  NodeInv' /\ ChainMove
<1>1. LocalsInv /\ IInv
  BY WorksWhenUp DEF NodeInv, IInv
<1>2. IInv'
  BY <1>1, NextKeeps
<1>3. ChainMove
  BY <1>1, NextMovesChain
<1>4. ~replaying'
  BY WorksWhenUp DEF NodeInv
<1> QED
  BY <1>2, <1>3, <1>4 DEF NodeInv, IInv, LocalsInv, LocalsTypeOK, MemoryTypeOK, Labels

LEMMA NodeStart == NodeInit => NodeInv
<1> SUFFICES ASSUME NodeInit PROVE NodeInv
  OBVIOUS
<1>1. IInv
  BY InitEstablishes DEF NodeInit
<1>2. pc \in Labels /\ LocalsInv /\ ChainInv /\ MemoryTypeOK
  BY <1>1 DEF IInv, LocalsInv, LocalsTypeOK, MemoryTypeOK
<1>3. ~replaying /\ replaying \in BOOLEAN /\ crashes \in 0 .. MaxCrashes /\ pc # "replay"
  <2>1. replaying = FALSE /\ crashes = 0
    BY DEF NodeInit
  <2>2. pc # "replay"
    BY DEF NodeInit, Init
  <2>3. ~replaying /\ replaying \in BOOLEAN
    BY <2>1
  <2>4. crashes \in 0 .. MaxCrashes
    BY <2>1, NodeConstants
  <2> QED
    BY <2>2, <2>3, <2>4
<1> QED
  BY <1>2, <1>3 DEF NodeInv

LEMMA NodeIdle ==
    ASSUME NodeInv, UNCHANGED nodeVars
    PROVE  NodeInv'
<1>1. ChainInv'
  BY SameChain DEF NodeInv, nodeVars, vars, ChainInv, ChainTypeOK
<1> QED
  BY <1>1 DEF NodeInv, nodeVars, vars, MemoryTypeOK, LocalsInv, LocalsTypeOK

LEMMA NodeKeeps == NodeInv /\ [NodeNext]_nodeVars => NodeInv'
<1> SUFFICES ASSUME NodeInv, [NodeNext]_nodeVars PROVE NodeInv'
  OBVIOUS
<1>1. CASE Next /\ UNCHANGED <<replaying, crashes>>
  BY <1>1, PushKeeps
<1>2. CASE Crash \/ CrashBeforeLog
  BY <1>2, CrashKeeps
<1>3. CASE Startup
  BY <1>3, OpenKeeps, StartReplayKeeps, ReplayNextKeeps, ReplayDoneKeeps, ReplayHalts
     DEF Startup
<1>4. CASE UNCHANGED nodeVars
  BY <1>4, NodeIdle
<1> QED
  BY <1>1, <1>2, <1>3, <1>4 DEF NodeNext

(***************************************************************************)
(* Wherever in push_block, open or reindex the process dies, the chain in  *)
(* the shared memory file is derived from its blocks, what is committed is *)
(* on it, and push_block finds what it needs when it runs again.           *)
(***************************************************************************)
THEOREM NodeInvariant == NodeSpec => []NodeInv
  BY NodeStart, NodeKeeps, PTL DEF NodeSpec

(***************************************************************************)
(* A node keeps its types through crashes, open and replay: it never reads *)
(* the log past its end, replays without one, or seeds the fork database   *)
(* with anything but blocks (database::open, reindex).                     *)
(***************************************************************************)
THEOREM NodeTypeCorrect == NodeSpec => []NodeTypeOK
<1>1. NodeInv => NodeTypeOK
  BY DEF NodeInv, NodeTypeOK, MemoryTypeOK, StateTypeOK, ChainInv, ChainTypeOK, Results
<1> QED
  BY <1>1, NodeInvariant, PTL

(***************************************************************************)
(* After any number of crashes and replays every rise of the last          *)
(* irreversible block still has the support of the threshold               *)
(* (update_last_irreversible_block, while syncing and while replaying).    *)
(***************************************************************************)
THEOREM SupportSurvivesRestart == NodeSpec => []LibHasSupport
<1>1. NodeInv => LibHasSupport
  BY DerivedHasSupport DEF NodeInv
<1> QED
  BY <1>1, NodeInvariant, PTL

-----------------------------------------------------------------------------
(* Committed blocks                                                        *)

CommittedKept == \A i \in 1 .. committed : i <= Len(chain') /\ chain'[i].id = chain[i].id

(* push_block undoes nothing at or below the committed revision.           *)
LEMMA MoveKeepsCommitted ==
    ASSUME ChainInv, fork \in ForkDb, ChainMove
    PROVE  CommittedKept
<1>1. /\ Len(chain) \in Nat /\ committed \in Nat /\ committed <= Len(chain)
      /\ chain \in Seq(DbState)
  BY DEF ChainInv, ChainTypeOK
<1>2. CASE chain' = chain
  BY <1>1, <1>2 DEF CommittedKept
<1>3. CASE PopBlock /\ Len(chain) > committed
  <2>1. /\ chain' = SubSeq(chain, 1, Len(chain) - 1) /\ committed' = committed
        /\ block_log' = block_log /\ dlt_mode' \in BOOLEAN
    BY <1>3 DEF PopBlock, HeadNum, ChainInv, ChainTypeOK
  <2>2. Len(chain) - 1 \in Nat /\ committed <= Len(chain) - 1
    BY <1>1, <1>3
  <2>3. Len(chain') = Len(chain) - 1 /\ \A i \in 1 .. Len(chain) - 1 : chain'[i] = chain[i]
    <3>1. PICK n \in Nat : n = Len(chain) - 1
      BY <2>2
    <3>2. Len(chain') = n /\ \A i \in 1 .. n : chain'[i] = chain[i]
      BY <1>1, <2>1, <2>2, <3>1, TruncationKeepsChain
    <3> QED
      BY <3>1, <3>2
  <2> QED
    BY <1>1, <2>2, <2>3 DEF CommittedKept
<1>4. ASSUME NEW b \in Block, Header(b), chain' = Append(chain, StateAfter(b))
      PROVE  CommittedKept
  <2>1. StateAfter(b) \in DbState
    BY <1>4, StateAfterFacts
  <2>2. Len(chain') = Len(chain) + 1 /\ \A i \in 1 .. Len(chain) : chain'[i] = chain[i]
    BY <1>1, <1>4, <2>1
  <2> QED
    BY <1>1, <2>2 DEF CommittedKept
<1> QED
  BY <1>2, <1>3, <1>4 DEF ChainMove, NoChain, PopBlock, HeadNum, Grows, ApplyBlock, FailInLog

(***************************************************************************)
(* No crash, reopening or interrupted replay takes a committed block off   *)
(* the chain; only the wipe before a replay does (undo_all in              *)
(* database::open, the wipe in the chain plugin).                          *)
(***************************************************************************)
THEOREM CommittedOutlivesCrashes == NodeSpec => CommittedSurvivesCrash
<1> DEFINE Wipe == pc = "down" /\ pc' = "replay"
<1>1. NodeInv /\ [NodeNext]_nodeVars => [Wipe \/ CommittedKept]_nodeVars
  <2> SUFFICES ASSUME NodeInv, NodeNext PROVE Wipe \/ CommittedKept
    BY DEF CommittedKept
  <2>1. committed \in Nat /\ committed <= Len(chain) /\ Len(chain) \in Nat
    BY DEF NodeInv, ChainInv, ChainTypeOK
  <2>2. chain' = chain => CommittedKept
    BY <2>1 DEF CommittedKept
  <2>3. CASE Next /\ UNCHANGED <<replaying, crashes>>
    BY <2>3, PushKeeps, MoveKeepsCommitted DEF NodeInv, MemoryTypeOK
  <2>4. CASE Crash \/ CrashBeforeLog
    BY <2>2, <2>4, CrashKeeps
  <2>5. CASE Open
    BY <2>5, OpenKeeps DEF CommittedKept
  <2>6. CASE ReplayNext
    BY <2>1, <2>6, ReplayNextKeeps DEF CommittedKept
  <2>7. CASE ResumeReplay \/ ReplayFails
    BY <2>2, <2>7, ReplayHalts
  <2>8. CASE ReplayDone
    BY <2>2, <2>8 DEF ReplayDone
  <2>9. CASE StartReplay
    BY <2>9 DEF StartReplay
  <2> QED
    BY <2>3, <2>4, <2>5, <2>6, <2>7, <2>8, <2>9 DEF NodeNext, Startup
<1> QED
  BY <1>1, NodeInvariant, PTL DEF NodeSpec, CommittedSurvivesCrash, CommittedKept
=============================================================================
