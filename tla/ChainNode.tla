------------------------------ MODULE ChainNode -----------------------------
(***************************************************************************)
(* A node around its chain database: the process may crash at any step of  *)
(* push_block; database::open, the start-up of the chain plugin and        *)
(* database::reindex bring it back.                                        *)
(*                                                                         *)
(* The shared memory file (chain, committed) and the block log survive a   *)
(* crash; the fork database, the notifications and _dlt_mode do not.  The  *)
(* node has replay-if-corrupted on, no snapshots and no DLT block log.     *)
(***************************************************************************)
EXTENDS ChainDatabase

CONSTANTS
    SeedDepth,      \* FORK_DB_SEED_DEPTH
    MaxCrashes      \* bound: how often the process crashes

ASSUME NodeConstants == SeedDepth \in Nat \ {0} /\ MaxCrashes \in Nat

VARIABLES
    replaying,  \* the revision of the shared memory file is not set yet
    crashes     \* how often the process has crashed

nodeVars == <<vars, replaying, crashes>>

-----------------------------------------------------------------------------
(* Crashes                                                                 *)

Down ==
    /\ fork' = EmptyForkDb /\ notes' = <<>> /\ delivered' = <<>>
    /\ op' = NoOp /\ pc' = "down" /\ ret' = "none" /\ entry' = Root
    /\ dlt_mode' = FALSE /\ UNCHANGED <<chain, block_log, replaying>>
    /\ crashes < MaxCrashes /\ crashes' = crashes + 1

Crash == pc \notin {"down", "stopped"} /\ Down /\ UNCHANGED committed

(* A crash in apply_block after commit(LIB), before the log is written.    *)
(* The session of the block itself is still there and will be undone.      *)
Applying == IF pc = "apply" THEN {op.block}
            ELSE IF pc \in {"apply_new", "restore_apply", "cascade"} /\ op.first # <<>>
                 THEN {op.first[1]} ELSE {}

CrashBeforeLog ==
    \E b \in Applying :
        /\ Applies(b) /\ StateAfter(b).lib < Num[b]
        /\ Down /\ committed' = Larger(committed, StateAfter(b).lib)

-----------------------------------------------------------------------------
(* database::open: undo_all() goes back to the committed revision.         *)

(* Mutant of Reopened: one block too many is undone.                       *)
ReopenedTooFar == SubSeq(chain, 1, committed - 1)

Reopened == SubSeq(chain, 1, committed)

Matches == committed = 0 \/ Len(block_log) < committed
           \/ block_log[committed] = chain[committed].id

(* The fork database is started at the head and seeded with the blocks of  *)
(* the log below it, oldest first; one that does not link throws.          *)
SeedStart == IF committed > SeedDepth THEN committed - SeedDepth + 1 ELSE 1

SeedLinks ==
    Len(block_log) < committed
    \/ \A n \in SeedStart .. committed - 1 :
          Prev[block_log[n]] \in {Root} \cup {block_log[m] : m \in SeedStart .. n - 1}

OpenThrows == ~Matches \/ ~SeedLinks

(* The head is not in the block log: open() turns the DLT mode on and      *)
(* leaves the fork database empty.                                         *)
LogBehind == Len(block_log) < committed

Seeded ==
    LET head == block_log[committed] IN
    Settle([EmptyForkDb EXCEPT
        !.index = {block_log[i] : i \in SeedStart .. committed},
        !.head = head, !.broken = {head, block_log[SeedStart]}])

WithMode(f) == SetEmergencyMode(f, committed > 0 /\ IsEmergency(chain[committed].id))

(* The plugin replays the log when open() threw, or when the head of the   *)
(* log is not at the revision of the state.                                *)
ReplayDue == OpenThrows \/ (block_log # <<>> /\ Len(block_log) # committed)

Open ==
    /\ pc = "down" /\ ~replaying /\ ~ReplayDue
    /\ chain' = Reopened
    /\ fork' = WithMode(IF committed = 0 \/ LogBehind THEN EmptyForkDb ELSE Seeded)
    /\ dlt_mode' = LogBehind
    /\ pc' = "idle"
    /\ UNCHANGED <<committed, block_log, notes, delivered, op, ret, entry, replaying,
                   crashes>>

-----------------------------------------------------------------------------
(* replay_db and database::reindex                                         *)

(* The shared memory file is wiped: open() threw, or the revision is not   *)
(* behind the log, which is never ahead of what was committed.  _dlt_mode  *)
(* and the mode of the fork database keep what open() set.                 *)
StartReplay ==
    /\ pc = "down" /\ ~replaying /\ ReplayDue
    /\ chain' = <<>> /\ committed' = 0 /\ replaying' = TRUE
    /\ fork' = IF OpenThrows THEN EmptyForkDb ELSE WithMode(EmptyForkDb)
    /\ dlt_mode' = (~OpenThrows /\ LogBehind)
    /\ pc' = "replay"
    /\ UNCHANGED <<block_log, notes, delivered, op, ret, entry, crashes>>

(* An interrupted replay: open() finds a revision that is not the head and *)
(* throws before it looks at the log; the replay goes on above the head.   *)
ResumeReplay ==
    /\ pc = "down" /\ replaying /\ Len(chain) < Len(block_log)
    /\ pc' = "replay" /\ dlt_mode' = FALSE
    /\ UNCHANGED <<fork, chain, committed, block_log, notes, delivered, op, ret, entry,
                   replaying, crashes>>

ReplayBlock == block_log[Len(chain) + 1]

(* Replayed blocks have no undo state and skip the schedule check.         *)
Replays(b) == Prev[b] = HeadId /\ Verdict[b] # "invalid"

ReplayNext ==
    /\ pc = "replay" /\ Len(chain) < Len(block_log) /\ Replays(ReplayBlock)
    /\ chain' = Append(chain, StateAfter(ReplayBlock))
    /\ committed' = Len(chain) + 1
    /\ fork' = ForkAfter(ReplayBlock)
    /\ UNCHANGED <<block_log, dlt_mode, notes, delivered, pc, op, ret, entry, replaying,
                   crashes>>

ReplayDone ==
    /\ pc = "replay" /\ Len(chain) = Len(block_log)
    /\ fork' = StartBlock(fork, block_log[Len(block_log)])
    /\ replaying' = FALSE /\ pc' = "idle"
    /\ UNCHANGED <<chain, committed, block_log, dlt_mode, notes, delivered, op, ret, entry, crashes>>

(* A block that does not apply, or no block left to read after the replay  *)
(* was interrupted behind the last one: the exception ends the process.    *)
ReplayFails ==
    /\ \/ pc = "replay" /\ Len(chain) < Len(block_log) /\ ~Replays(ReplayBlock)
       \/ pc = "down" /\ replaying /\ Len(chain) = Len(block_log)
    /\ pc' = "stopped"
    /\ UNCHANGED <<fork, chain, committed, block_log, dlt_mode, notes, delivered, op, ret,
                   entry, replaying, crashes>>

-----------------------------------------------------------------------------
NodeInit == Init /\ replaying = FALSE /\ crashes = 0

Startup == Open \/ StartReplay \/ ResumeReplay \/ ReplayNext \/ ReplayDone \/ ReplayFails

NodeNext == \/ Next /\ UNCHANGED <<replaying, crashes>>
            \/ Crash \/ CrashBeforeLog
            \/ Startup

NodeSpec == NodeInit /\ [][NodeNext]_nodeVars

-----------------------------------------------------------------------------
(* Properties                                                              *)

(* The state, the locals and the phases of the process keep their types.   *)
NodeTypeOK ==
    /\ StateTypeOK /\ pc \in Labels \cup {"down", "replay", "stopped"}
    /\ replaying \in BOOLEAN /\ crashes \in 0 .. MaxCrashes

(* Whenever the node is ready for a block, the block log is a prefix of    *)
(* its chain, wherever in push_block, open or reindex it crashed before.   *)
LogIsOnChain == pc = "idle" => LogFollowsChain

(* Only the wipe before a replay takes a committed block off the chain: no *)
(* crash, reopening or interrupted replay does.                            *)
CommittedSurvivesCrash ==
    [][(pc = "down" /\ pc' = "replay")
       \/ \A i \in 1 .. committed : i <= Len(chain') /\ chain'[i].id = chain[i].id]_nodeVars

(* A state that agrees with its block log opens without an exception: the  *)
(* seeding of the fork database finds every block's parent.                *)
CleanLogOpens ==
    pc = "down" /\ ~replaying /\ Len(block_log) = committed /\ LogFollowsChain => ~OpenThrows
=============================================================================
