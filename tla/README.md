# Verification of the VIZ node

TLA+ models of viz-cpp-node, in four groups:

- the consensus core: how a node takes blocks in any order, chooses between
  branches, decides what is irreversible, writes it to disk, and comes back after
  a crash;
- the ledger: what the operations in a block and the housekeeping at its end do
  to tokens, shares, votes and everything that has a deadline;
- the P2P node: how it follows its peers through lost connections, bans, foreign
  chains and snapshot pauses;
- the rolling block log of a node loaded from a snapshot, write by write.

TLC checks the models on small instances. TLAPS proves, for every value of the
constants, the central safety results of the consensus core and of a node that
crashes and replays, almost every invariant of the ledger, and what keeps the
sockets, handlers and inboxes of the P2P node together.

## 1. The system

`vizd` is a plugin host around one `database` object (`libraries/chain`).

| component | state | operations | interacts with |
|---|---|---|---|
| fork database (`fork_database.cpp`) | linked blocks by id, unlinked blocks, `_head`, weak `prev` pointers, `_max_size`, emergency flag | `push_block`, `_push_next`, `pop_block`, `fetch_branch_from`, `set_max_size`, `insert_as_base`, `remove` | called by the chain database only |
| chain database (`database.cpp`) | chainbase objects with a stack of undo states, block log, queued notifications, pending transactions | `push_block`, `pop_block`, `apply_block`, `generate_block`, `push_transaction` | fork database, logs, plugins (signals) |
| irreversibility | per validator `current_run`, `last_supported_block_num`; LIB | `update_signing_validator`, `update_last_irreversible_block` | `commit` of chainbase, block log, window of the fork database |
| validator schedule, emergency consensus | shuffled slots, `emergency_consensus_active`, penalties | `update_validator_schedule`, `update_global_dynamic_data` | fork choice, LIB cap |
| start-up (`plugins/chain`) | shared memory file, block log, DLT block log | `open`, `reindex`, wipe, snapshot load | everything |
| pending transactions (`db_with.hpp`) | `_pending_tx`, `_popped_tx` | restore after every block | chain database |
| P2P node (`libraries/network`) | peers and their states, gap filling, a queue while paused | range requests, broadcasts, bans, time-outs | `push_block` through `accept_block`, fibers on one thread |
| block production, validator guard | production loop, deferral on fork collision | `maybe_validate_block` | `generate_block` |
| evaluators, proposals, committee, invites, subscriptions, escrow | chain objects with life cycles | one evaluator per operation, expirations per block | `apply_block` |
| snapshots, DLT block log | files | create, serve, load, truncate | start-up, LIB update |
| APIs, indexes, wallet | views | queries | notifications |

What is hard: `push_block` is one call under a write lock, but it is a nest of
loops (link waiting blocks, pop the old branch, apply the new one, recover,
cascade), each of which can stop half-way by an exception; three heads (database,
fork database, block log) have to agree afterwards; `commit(LIB)` inside
`apply_block` makes part of the work irrevocable; and the process may die between
any two steps. `PROJECT.json` lists these hazards at their lines.

What makes each part correct: the fork database keeps the head linked; the chain
database never replaces what it committed, restores its head when a switch fails,
returns from every call, and follows the heavier branch; LIB rises only with the
support of the threshold; the log is a prefix of the chain; a restart loses
nothing that was committed. The ledger creates and loses no token, counts every
share and vote once, and handles each deadline in the block it falls into. The P2P
node ends up connected and with the blocks of its chain, and leaves no flag set
that stops production or gap filling. The rolling log can always be opened and
each of its blocks is where the index says.

## 2. Modules

| module | models | role |
|---|---|---|
| `ForkDatabase` | `fork_database.cpp` | a record and one operator per method |
| `ValidatorSupport` | the three functions that move LIB | operators on validator records |
| `ChainDatabase` | `push_block`, `_push_block`, `pop_block`, `apply_block`, log and notifications | the state machine: variables, one action per step |
| `FinalChain` | nothing: the promise | abstract specification that `ChainDatabase` implements |
| `ChainNode` | crash, `open`, plugin start-up, `reindex` | composes the chain database with a process that dies |
| `Accounts` | `account_object`, funds and totals, votes, and the helpers of `database.cpp` that move tokens and shares | what all ledger modules share |
| `Vesting` | transfers, deposits, withdrawals with routes, delegation, account creation | one action per evaluator, one per processing loop |
| `Voting` | votes for validators, proxies | the same |
| `Awards` | emission, rewards of validators and their stakeholders, awards, special accounts | the same |
| `Escrow`, `Invites`, `AccountMarket`, `Committee`, `Subscriptions`, `Proposals` | the objects of those names with their evaluators and expirations | the same |
| `Ledger` | the housekeeping of `_apply_block` in its order | composes the ledger modules; their joint properties |
| `PeerSync` | `dlt_p2p_node.cpp` | the connections, handlers and periodic checks of one node |
| `DltBlockLog` | `dlt_block_log.cpp` and its callers | files, operations as lists of writes, crashes |
| `MCChain`, `MCForks`, `MCNode`, `MCLedger`, `MCPeers` | | the block tree, the genesis, the networks and the settings of the runs |
| `NumberSets` | | lemmas on finite sets of numbers, sums, sequences and folds |
| `ChainDatabaseProofs`, `ChainNodeProofs` | | theorems: LIB, fork database and `push_block`; a node that crashes |
| `AccountsProofs`, `LedgerProofs`, `MoneyProofs`, `StakeProofs` | | the helpers; phases and deadlines; tokens; shares, votes and the theorems of the ledger |
| `PeerSyncProofs` | | theorems: the P2P node |

**State.** `chain` is the stack of states, one per applied block (id, LIB,
validator records): `undo()` takes the last one off, `commit(n)` raises
`committed`, below which `undo()` does nothing. chainbase is a submodule outside
the tree; this is what `database.cpp` relies on (the comments at
`database.cpp:1968` and `:6483` describe it). `fork` is the fork database,
`block_log` the block at every height, `notes` the queued and `delivered` the
sent notifications, `pc` and `op` the position and the locals of the running
`_push_block`, `ret` its result. `entry` is a history variable: the head when the
call began.

**Actions.** One call is a sequence of steps, cut at every loop iteration and
every call that can throw: `IgnoreKnown`, `RejectDeadFork`, `SeedParent`,
`RejectFarBlock`, `Accept` (lines 1676-1800); `PushToForkDb`, `LinkChild`,
`LinkReturn`, `FinishBase` (the recursion of `_push_next` is a stack in
`op.todo`); `DecideApply`, `DecideStay`, `RejectWithoutHead`,
`RejectBrokenLinks`, `StartSwitch` (1849-1961); `PopOld`, `PopFails`,
`AbortAtLib`, `PopDone`, `ApplyNew`, `ApplyNewFails`, `SwitchDone` (1962-2156);
`RestorePop`, `RestorePopDone`, `RestoreApply`, `RestoreApplyFails`,
`RestoreDone` (2037-2105); `ApplyHere`, `KeepWrongSchedule`, `ApplyHereFails`
(2163-2212); `NoCascade`, `StartCascade`, `CascadeBroken`, `CascadeApply`,
`CascadeDone`, `CascadeFails`, `CascadePop`, `CascadePopDone` (2214-2317).
`ApplyBlock` is the whole of `apply_block` up to `session.push()`; `FailInLog` is
its one failure that cannot be undone, the assertion after `commit(LIB)`.

**Blocks.** The blocks of the network are a constant tree (`Prev`, `Num`,
`IdRank` for the order of ids). What a block contains is reduced to what
`push_block` can tell apart, and since the state after a block is a function of
the chain below it, this is a constant of the block: `Producer`, `Verdict` ("ok",
"schedule" for `wrong_scheduled_validator_exception`, "invalid" for everything
else, which is found before the block changes anything outside its undo session),
`Missed`, `Sched`, `Emergency`.

**Node.** `ChainNode` adds `Crash` between any two steps, `CrashBeforeLog`
(between `commit` and the log write), `Open`, and the replay that the chain
plugin starts when `open()` throws or the log is not at the revision of the
state: `StartReplay`, `ResumeReplay`, `ReplayNext`, `ReplayDone`, `ReplayFails`.
The node runs with `replay-if-corrupted`, without snapshots and without a DLT
block log.

**Ledger.** The chain has passed hardfork 13. An operation is applied at the time of
the block before it (`head_block_time` while a transaction is evaluated); `NextBlock`
advances the time and `phase` then walks through `Phases`, the order of the calls in
`_apply_block`: expired proposals, delegations, closed objects, funds, epoch
distribution, withdrawals, recovery, escrows, auctions, special accounts, committee
requests and payments, subscriptions. A phase with several due objects takes one step
for each; `EndBlock` needs all of them done. The helpers (`AdjustBalance`,
`CreateVesting`, `AdjustProxied`...) are operators on a record of the shared
variables, as the functions of `database` are, and an evaluator is a composition of
them behind its assertions. Divisions are the code's truncating ones. The accounts
have only the fields that tokens, votes and the sale and recovery of an account depend
on; a signature, a memo or a URL is not part of an operation. A proposal holds
transfers and is approved by accounts with their own keys.

**Peers.** The node is a set of fibers of one thread: a reader for each peer, the
periodic task, the fiber that resumes after a pause. A handler is cut only where it
calls `accept_block` (`EnterAccept`, `LeaveAccept`), which is where the code waits.
`OnHello`, `OnHelloReply`, `OnForkStatus`, `OnSoftBan`, `OnPausedBlocks`,
`OnBlockRange`, `OnGapFill`, `OnBlock` are the handlers, `SyncStagnation`,
`SyncCatchup`, `ForwardBehind`, `ForwardStagnation`, `RequestGapFill`, `Isolated`
and `PeriodicCatchup` the checks of `periodic_task`, `Pause`, `SetResumeFlags` and
`RunResume` the calls of the snapshot plugin. A peer runs the same program: its
answer is put into the inbox when the request is sent. It is in DLT mode, as this
node is: its ranges end at the head of its log, about its LIB and so below its head,
and say there that they are the last (`RangeReply`, `NextAvailable`); a request from
that block on is answered with nothing. The node turns to FORWARD while it is still
behind, and the last blocks come by gap filling or as broadcasts. The environment
loses connections, lets dials fail, corrupts answers, bans this node, and offers
blocks of another chain. Time is left out: a time-out may have passed whenever the
code looks at it. Three orders of time are assumed: a handler ends before the
isolation reset looks at its peer, a connect fiber ends before its peer's back-off,
and gap filling, which is tried every 5 seconds, is tried between two checks that
ask for ranges, which are 15 or 30 seconds apart (`net.tried`).

**Rolling log.** An operation of `dlt_block_log` is the list `todo` of its writes
and file operations; `FileStep` does the first of them and `Crash` may come between
any two. `calls` are the operations that `update_last_irreversible_block`,
`database::open` or the end of `load_snapshot` make one after the other. What was
written stays (memory mapped files of a process that dies); `committed` is where
chainbase restarts, so LIB may fall at a crash while the files do not.

## 3. What the runs check

The consensus runs take blocks from one tree: `a1 <- a2 <- a3 <- a4` and, above
`a1`, the branch `b2 <- b3 <- b4`. `MCForks` has besides a network with an emergency:
`e1 <- e2 <- e3 <- e4` and, above `e1`, `f2 <- f3` and `g2 <- g3`. This is enough for
every path of the code: a fork of up to three blocks on each side, blocks that arrive
three heights too early, switches there and back, a failure at the first, a middle or
the last block of a branch, and a LIB that moves up to three blocks behind the head.

| run | setting | properties | shows |
|---|---|---|---|
| `Forks` | the node is in one of two networks. Two branches: three of four validators build `a1..a4`, one builds `b2, b3`; fair delivery. Emergency: the committee builds `e2, e3` and hands back at `e4`; two validators build `f` and `g`, and `g2` is invalid | `TypeOK`, `LibHasSupport`, `HeadIsForkItem`, `SyncsToTip`, `ForkModeInSync`, `EmergencyBranchWins`, `FailureKeepsHead`, `FalseKeepsHead` | with two branches the node ends on the majority's and LIB has its support; in the emergency the mode of the fork database follows the head, the committee's branch is not left, a switch whose first block fails is undone completely; in both the head stays an item of the fork database |
| `AnyOrder` | longest-chain rule, an invalid block, one off schedule, blocks up to three heights early | `ImplementsFinalChain`, `PushReturns` | committed blocks are never replaced; every call returns |
| `Restart` | two crashes anywhere | `NodeTypeOK`, `LogIsOnChain`, `CommittedSurvivesCrash` | committed blocks survive crashes; the log is a prefix of the chain |
| `Ledger` | nine families of operations over four blocks | see below | tokens, shares and votes add up; deadlines are met |
| `Peers` | a peer on the chain of the node and one on another, eight small networks | `PeerTypeOK`, `LiveHasSocket`, `CatchesUp`, `CatchupEnds`, `GapFillEnds` | the node always catches up; the flags of a pause and of gap filling are cleared |
| `BlockWindow` | the rolling log from an empty directory to LIB 10, three crashes, one snapshot loaded on top | `OpenSucceeds`, `LogReadable`, `TruncationKeeps`, `AppendsInPlace`, `LogReachesLib` | the log opens after every crash, its index is right, a truncation keeps its window, no assertion of `append` fails, the log catches up with LIB |
| `LogBranch` | the two branches of `Forks` with `b4`, one height early | `LogFollowsChain` **violated** | an irreversible height is logged with the block of the branch that lost |
| `Recovery` | `a4` invalid | `FailureKeepsHead` **violated** | a switch that fails in its middle throws with the head moved |
| `StaleNotes` | the same, blocks up to three heights early | `NotesAreOnChain` **violated** | plugins are told of a block that the call has rolled back |
| `UndoGuard` | two validators on both branches | `PopsAreUndoable` **violated** | the LIB guard of the pop loop falls with the popped blocks, `commit` does not |
| `SeedDepth` | seeding depth 2, log of 3 | `CleanLogOpens` **violated** | `open()` throws on a log longer than the seeding depth |
| `FixedAward` | awards to a beneficiary with the full weight | `SupplyConserved` **violated** | the surplus of a fixed award is paid twice |

The properties of `Ledger`:

- `SupplyConserved`: balances, bids, escrows, invites, funds and unpaid rewards add
  up to `current_supply`, rounding included;
- `SharesAddUp`, `DelegationsAddUp`, `SharesBacked`: shares of the accounts add up
  to the total, delegated and received shares agree with the delegations and those
  that expire, and no share is lent and withdrawn at once;
- `VotesAddUp`, `ProxiesAddUp`: a validator's votes are the stakes of its voters
  and of those who delegate to them through chains of proxies;
- `RewardSharesAddUp`: `total_reward_shares` is what has not expired;
- `BidsReserved`, `AuctionsCanEnd`: a reserved balance is exactly the leading bids;
  every standing bid is on an account the expiration visits, with a seller to pay;
- `FundCoversRequests`: the fund is never overdrawn, and a worker has received what
  the votes granted when its request is closed;
- `NoEscrowOverdue`, `ProposalsOnTime`: no object outlives its deadline at the end
  of a block; `SubscriptionsOnTime`: since a block renews one subscription only, each
  is late by fewer blocks than there are subscription objects;
- `ApprovalsMatchProposals`, `ProposalsAllOrNothing`: the index of required
  approvals is that of the open proposals; an expiring proposal applies all of its
  operations with all approvals, or none.

The six violations are disagreements between the code and its own comments and
documents, with the lines in `findings` of `PROJECT.json`. The counterexamples, in short:

- *LogBranch*: the minority's branch is higher, so `_head` stays on it; the
  majority's branch is heavier, so the database applies it. When LIB rises,
  `fetch_block_on_main_branch_by_number` walks down from `_head`.
- *Recovery*: the old branch is popped (each pop moves `_head` down), two blocks
  of the new one are applied (`_head` does not move up), the third fails; popping
  the two moves `_head` below the fork point, where the assertion throws.
- *StaleNotes*: `a3` and `a4` wait for `a2`. The push of `a2` links them, applies `a2`
  and, in the cascade, `a3`; `a4` fails and `a3` is popped. The call returns true, so
  the queue is not cleared and delivers `a2` and `a3`. The same handler restarts the
  fork database from the block it read before the pops (`database.cpp:2299`), `a3`,
  against the comment in lines 2294-2298; `HeadIsForkItem` fails in this setting.
- *UndoGuard*: switch from a branch with LIB 2 to one whose blocks give LIB 1
  after the pop; the revision 2 is committed, the guard says 1.
- *SeedDepth*: the first block of the seeding window has no parent in the fork
  database, which holds only the head.
- *FixedAward*: a beneficiary's part is taken of everything the energy is worth,
  which may exceed the fixed amount; the surplus over that amount goes to the
  committee as a whole.

**Bounds.** `MaxGap` (100 in the code) is 3 or 1: with 1 only the next height
is deferred, with 3 a block at distance 4 is rejected. `MinRun` is 0 instead of 2, so
that LIB moves within four blocks; `Threshold` is the code's 75. `DefaultMaxSize` is never the limit after the first
LIB update, as in the code. `SeedDepth` (100) is 10, or 2 in the run about it.
`MaxCrashes` is 2: one crash in a call and one during the recovery from it. No
constraint cuts the state graphs; all of them are finite and explored completely.

`MCLedger` starts from a genesis of two or three users with 8 tokens and 8 shares
each. A behaviour has a focus, the families of operations it takes, and a budget of
2 to 5 operations in the blocks up to `LastOps` = 2; it ends with block `Horizon` =
4, after every period (1 or 2 blocks) that an operation may start has passed. The
budget of a family is the length of its longest life cycle: an escrow is created,
approved twice, disputed and released; a sale is offered, bid for twice and bought
or stopped by a recovery. Percentages are parts of `Full` = 4, so that every
division has a remainder somewhere. `ProxyDepth` is 2 of the code's 4: a chain that
is exactly long enough, and one that is too long. `Weights` are 0 and 1 of 4 in
`Ledger`, where a fixed award stays within its amount, and 4 in `FixedAward`.
`Tokens`, `Fees`, `Percents`, `Weights`, `Periods`, `Levels`, `Opinions`, `Workers`
and `Actors` are the values an operation may carry. `LedgerSpec` leaves them open and
has neither budget nor horizon: it is what the theorems are about, from every
`LedgerInit`, and `MCLedger` takes a part of its behaviours.

`MCPeers` bounds each network by one or two faults or one pause. `StrikeLimit` is 4
(10 in the code). It cannot be much smaller: ranges that end at the peer's LIB hold
blocks the node knows, and each of them is a strike of the honest peer (see the
observations). `RangeSize` is 3 (200), above `Lag` + 1 as in the code, `Lag` 1 the
distance of LIB from the head, and one network has a log of more than one range.
`Order` and `Earliest` say which peer the loops meet first and where its log starts.

`BlockWindow` uses the thresholds of the code (1000 blocks behind, fewer than 10
blocks) and a window of 2 blocks, so that a truncation, which waits for twice the
window, happens at the fifth block. Three crashes are one in an operation, one in
the recovery from it and one in the recovery from that.

**Fairness.** `WorkSpec` says that a call which has begun goes on: it holds the
write lock and waits for nobody. `ForksSpec` says so for the network of the two
branches and adds that a block the node has not applied is offered again: peers
answer each range and gap-fill request with it, and the P2P node keeps requesting
above its head. It is used for `SyncsToTip` only; the network with the emergency, of
which no run asks that anything happens, has no fairness.
`PushReturns` needs `WorkSpec`. `PeerSpec` has weak fairness for dialling, for the
readers (receiving and noticing a closed socket), for leaving `accept_block`, for
the periodic checks, which run every five seconds, and for the end of a pause;
strong fairness for `EnterAccept`, since a fiber in `call_accept_block` looks at the
flag again and again while others take and release it, and for `RequestGapFill`,
whose wait for room in an inbox is a bound of the model. That a dial succeeds again
and again is what lets a connection come back; everything that goes wrong is
bounded by the faults of a network and needs no fairness. The safety runs assume no
fairness.

`Restart` does not check for deadlock because a failed replay ends the process,
`Peers` because a node at its peers' head has nothing to do, `BlockWindow` because
LIB stops at `MaxLib`.

**Observations.** Met while modelling; they bound what the runs show.

- After a failed cascade `push_block` restarts the fork database from a head read
  before the cascade (`database.cpp:2299`). With an invalid `b2` in the two branches of
  `Forks` this loses blocks that the log needs for the next LIB, and `SyncsToTip`
  fails: the node is stuck until it restarts. When a later block of the cascade
  fails, the block it restarts from was popped, and `HeadIsForkItem` fails (setting of
  `StaleNotes`). `ForkModeInSync` fails when `e3`, a block of the emergency, is invalid
  and found so in a cascade. In `Forks` the invalid block is the first of its branch,
  so that a switch or a cascade fails at its first block and nothing is popped.
- An answer that holds only blocks the node knows counts as a strike, although an
  honest peer gives it whenever its LIB is not above the node's head; ten of them ban
  the peer (`dlt_p2p_node.cpp:1577`). And when head
  minus LIB is at least the size of a range a node makes progress by gap filling
  only (`PeerSync` takes `RangeSize` > `Lag` + 1).
- `transition_to_forward` clears the catch-up flag before the queue of a pause is
  drained (`dlt_p2p_node.cpp:2607-2616`), while `snapshot-pause-workflow.md` keeps
  it until then. The resume fiber and the periodic task may both drain the queue,
  as two loops over one vector. A second pause during a drain drops what is left.
- Bridging and gap filling may settle on a peer of another chain when the logs of
  the peers on the own chain start above the node's head.
- A crash between `commit(LIB)` and the append leaves a gap; the next LIB resets the
  rolling log and its history is lost. A log of one block, which is what loading a
  snapshot writes so that `open()` can fill the fork database from it
  (`plugins/snapshot/plugin.cpp:1786-1790`), is taken for a corrupted one by
  `is_consistent_with` and reset at the next start. A crash inside an append leaves
  zeros at the end of the file, whose number reads as 1, and the log is reset.
- An empty block log after a crash before the first write switches the DLT mode on
  (`database.cpp:391`).

## 4. What is proved

The theorems hold for every value of the constants under the assumptions that the
modules name, which are what the code or its inputs guarantee.

**Consensus core** (`ChainDatabaseProofs`), for every block tree, schedule,
threshold, set of validators and order of arrival. Assumptions: `BlockTree` (a
block's number is its parent's plus one), `IdsAreOrdered`, `SupportConstants`,
`BlockContent` (a schedule is not empty).

- `SupportedNumHasQuorum`, `NewLibHasQuorum`: the chosen number is supported by
  all slots but `Offset`, also with the emergency cap. The argument: the numbers
  of a finite schedule have a least one that enough slots are at or below
  (`NumberSets`); were fewer slots at or above it, the slots strictly below would
  already exceed the offset.
- `Invariance`: `Spec => []IInv`. `IInv` is `ChainInv` (each state of `chain` is
  `StateOn` of the one below and the block; LIB, all support numbers and
  `committed` are at or below the height they belong to) and `LocalsInv` (the
  fork database is well typed; during a loop the locals it reads are blocks and
  not empty). `TypeOK` alone is not inductive: that `head - LIB + 1` is a natural
  number needs LIB at or below the head, hence the support numbers, hence that
  every state is derived from the one below.
- `TypeCorrect`: `Spec => []TypeOK`.
- `IrreversibleHasSupport`: `Spec => []LibHasSupport`, from `ChainIsDerived` and
  `NewLibHasQuorum`.
- `CommittedIsFinal`: `Spec => ImplementsFinalChain`. Every step of `push_block`
  leaves the chain, applies one block on the head, fails in the log write, or
  pops the head (`NextMovesChain`); each maps to `Extend`, `Retract`, `Finalize`
  or a stutter.

**A node that crashes** (`ChainNodeProofs`), for any number of crashes. `NodeInv`
splits `IInv`: `ChainInv` is a fact about the shared memory file and survives a
crash, an opening and each block of a replay; `LocalsInv` is one about a running
`push_block`, and holds only while the process is up and not replaying; besides, a
replay always has a log to read.

- `NodeInvariant`, and from it `NodeTypeCorrect` (`NodeTypeOK`) and
  `SupportSurvivesRestart` (`LibHasSupport` through crashes and replays).
- `CommittedOutlivesCrashes`: an action property. No crash, opening or interrupted
  replay takes a committed block off the chain; only the wipe before a replay does.

**Ledger** (`AccountsProofs`, `LedgerProofs`, `MoneyProofs`, `StakeProofs`), for
any accounts, amounts, percentages, periods and depth of proxies, and any number of
operations in a block. Assumptions: those of each module on its constants, of which
the one worth naming is that the three special accounts are different and sign
nothing.

- `LedgerInvariant`: `LedgerSpec => []LedgerInv`. `Core` says that the accounts are
  well formed, that their shares add up to the total (`Gap` = 0), that each account
  has the shares it lent and is paying out (`Covered`), that the proxies count the
  stakes as they are (`Proxied`), and that the treasury is not in debt; `Families`
  relates each kind of object to the accounts and totals it stands for; `PhaseType`,
  `ProposalInv`, `EscrowInv`, `SubInv` are about deadlines. None of the properties is
  inductive on its own: that no division by the share price creates shares needs the
  totals, that a withdrawal can be paid needs what is lent, that a request can be paid
  needs what the fund owes to the others.
- `SharesCorrect`, `DelegationsCorrect`, `LentSharesAreThere`, `RewardSharesCorrect`,
  `BidsCorrect`, `AuctionsCorrect`, `CommitteeCorrect`, `EscrowsCorrect`,
  `SubscriptionsCorrect`, `ProposalsCorrect`, `ApprovalsCorrect` state the
  invariants of the run `Ledger`, `ProposalsExecuteWhole` its action property.
- Tokens: `Excess` is what accounts, funds, escrows and invites hold beyond
  `current_supply`. Every step leaves it as it is but a fixed award whose worth
  exceeds its amount (`OvershootingAward`, see the run `FixedAward`), which can only
  raise it. Hence `OnlyAwardsAddTokens`, `SupplyIsCovered` (no step loses a token),
  and `SupplyCorrect`: `SupplyConserved` for `ExactSpec`, the behaviours without such
  an award.
- `VotesCorrect`: `validators_voted_for` is the number of vote objects of an
  account, no two of them for one validator.
- `ProxiesCorrect`: `ProxiesAddUp`, what an account holds as proxied votes is the
  stake of the accounts whose chain of proxies reaches it, distance by distance. Not
  inductive as it stands: `adjust_proxied_validator_votes` adds along the chain above
  an account, and would add twice on a chain that returns to where it was. `Proxied`
  says that each count is the sum of what the direct followers bring (`Tallied`),
  that the accounts can be ranked below their proxies (`Ranked`: no chain returns),
  and that the special accounts have no proxy (`Direct`: deposits to them report
  nothing). A new proxy is ranked because `ProxyAccepted` refuses a chain that is not
  over before `ProxyDepth` or that leads back (`ProxyRanked`: a chain that is too
  long would be an injection into the accounts that were counted). In between, as
  when shares have changed and the proxies are not yet told, `CountedAs` says as what
  the stakes of the one account concerned are counted; `StakesTaken`, `StakesGiven`
  and `SharesReported` bring it back. Every operation on the ledger either keeps
  stakes and proxies or is one of these (`Carries`, a part of `Pays` and `Moves`).

**P2P node** (`PeerSyncProofs`), for any number of peers, honest or not, their logs,
the order of `_peer_states`, all limits, and any numbers of faults and pauses.
Assumptions: `PeerConstants`, `PeerOrder`, `PeerLimits`, `PeersAreNoDrains`.

- `PeerInvariance`: `PeerSpec => []SyncInv`. A peer has a socket exactly when it is
  handshaking, active or syncing, and what is left of a closed one is read no more
  (`Wired`); a handler that waits in `accept_block` has a peer with a socket, or is
  that of a range whose peer was banned meanwhile (`Attached`); a peer that is
  dialled has no connection; a message of an honest peer claims no block it has not;
  whoever holds `accept_block` is in a handler. The handlers are compositions of a
  few operators, and the proof follows them: each either *talks* (no socket and no
  life of a disconnected peer changes) or *judges* one peer (it may be banned too).
  `LiveHasSocket` alone is not inductive: a handler that goes on after its wait
  must not revive a peer that lost its socket in between, which is why
  `on_dlt_block_range_reply` looks for a ban (the mutant without that look breaks it).
- `PeerTypeCorrect` (`PeerTypeOK`, with the limits of queue and retries) and
  `SocketsOfLivePeers` (`LiveHasSocket`).

**Only model-checked**, and why:

- Liveness (`SyncsToTip`, `PushReturns`, `CatchesUp`, `CatchupEnds`, `GapFillEnds`):
  fairness and ENABLED are out of the prover's reach.
- `HeadIsForkItem`, `EmergencyBranchWins`, `ForkModeInSync`,
  `FailureKeepsHead`, `FalseKeepsHead`, `LogIsOnChain`: they hold in the settings of
  their runs and not in all (see the violated runs and the observations), or depend on
  the recursive walk `ItemAt`.
- `VotesAddUp`: holds where the number of votes divides every change of stake;
  the code rounds each change on its own.
- The properties of `DltBlockLog`: its operations are lists of writes, and what
  such a list leaves behind is an induction over the list.

## 5. What is not modelled

- In the consensus modules: the content of blocks beyond the verdict; checkpoints
  and the limit on undo history (part of the verdict); the correction of
  `current_aslot` after a relaxed linear extension.
- Memory: `bad_alloc`, the deferred resize, the marker files of interrupted
  `undo_all` and resize.
- Post-validation of blocks: `apply_block_post_validation` has no caller. The
  records that `create_block_post_validation` writes are taken as false; with one
  scheduled validator the threshold of `check_block_post_validation_chain` is
  zero, a case the runs leave out.
- Operations that move no tokens, shares or votes: authorities and metadata,
  validator properties and their median, custom operations, the retired content
  operations; bandwidth; hardforks and the state before hardfork 13. Of accounts: the
  referrer. Of votes: the assertion of `adjust_validator_vote` that a validator has no
  more of them than there are shares (`database.cpp:3555`), so that the ledger takes
  steps which the code would refuse. Of proposals: operations other than transfers,
  authorities made of other accounts, approvals by key, proposals in proposals.
- In the P2P node: peers that are not in DLT mode (their log starts at 0, ends at
  their head, and they read blocks from the fork database only,
  `p2p_plugin.cpp:65-116`), peers and a node whose log is not open, a peer of another
  chain that still keeps blocks of ours, the check of the block before the log (the
  logs start at block 1 or where `Earliest` says); incoming connections and the
  connection limit, expiry of peers, duplicate node ids, the send queue, peer
  exchange, the mempool, the tracking of fork resolution, the lengths of time-outs and
  back-offs, the blacklist of rejected gaps. `expected_next_block` is a choice.
- In the rolling log: `verify_mapping` and `heal_if_stale`, which repair a mapping
  whose size is out of date; a loss of power; a `memcpy` that is cut in two.
- Snapshots: the files, their transfer and the sessions of the server. What the end
  of `load_snapshot` does to the rolling log and LIB is in `DltBlockLog`, the pause
  around a snapshot in `PeerSync`.
- Pending transactions, block production, the validator guard, the computation of
  the schedule and of the emergency mode.
- Serialization, signatures, APIs, index plugins, the wallet: formats and views.
  The wallet's word list and client code are most of the remaining lines.

## 6. Plan

1. `PendingTransactions`: no transaction is lost or applied twice across pops,
   switches and the execution limit.
2. `Emergency`: schedule, activation, hybrid override, penalties and exit computed
   from state instead of constants; LIB progress during an emergency.
3. `Network`: two nodes with one chain database each; agreement of their
   committed chains, and convergence at equal height during an emergency.
4. `Production`: the validator plugin's loop and the guard against the fork choice
   and the catch-up flag of `PeerSync`.
5. Sessions of the snapshot server; the DLT branch of `ChainNode`, with
   `DltBlockLog` in place of the block log.
6. Theorems: what `DltBlockLog` keeps; agreement of two nodes from
   `CommittedIsFinal` and an assumption on the faulty validators.
