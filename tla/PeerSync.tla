------------------------------ MODULE PeerSync ------------------------------
(* How the P2P node follows its peers (libraries/network/dlt_p2p_node.cpp):  *)
(* the life of a connection, the SYNC and FORWARD modes, range requests, gap *)
(* filling, bans, and the pause while a snapshot is written.                 *)
(*                                                                           *)
(* Everything runs in fibers of one thread: a reader for each peer, the      *)
(* periodic task and the fiber that drains the queue of a pause.  A handler  *)
(* is cut where it calls accept_block, the only call in which it waits for   *)
(* another fiber.                                                            *)
(*                                                                           *)
(* Time is left out: a time-out may have passed whenever the code looks at   *)
(* it.  A peer is the same program on the other side, in DLT mode as this    *)
(* node; its answer is put into the inbox when the request is sent.          *)
EXTENDS Integers, FiniteSets, FiniteSetsExt, SequencesExt

CONSTANTS
    Peers,          \* the peers this node dials
    Honest,         \* the peers on the chain of this node; the others are on a
                    \* chain that left it before the window of the fork database
    Order,          \* the peers in the order of _peer_states
    Earliest,       \* the first block in the log of each peer; the log of this
                    \* node starts at block 1
    Start,          \* the head of this node when it starts
    Scenarios,      \* bounds of a behaviour, see ScenarioBounds
    Lag,            \* blocks from LIB to head
    FallBehind,     \* FORWARD_FALLBEHIND_THRESHOLD
    RangeSize,      \* blocks in the answer to a range request
    GapSize,        \* GAP_FILL_MAX_BLOCKS
    StrikeLimit,    \* SPAM_STRIKE_THRESHOLD
    ForkOnlyLimit,  \* FORK_ONLY_BATCH_LIMIT
    RetryLimit,     \* SYNC_STAGNATION_MAX_RETRIES
    QueueLimit,     \* PAUSED_QUEUE_MAX
    MaxInbox        \* unread messages of a peer (bound)

\* The peers in the configuration, the head of the honest ones at the start and at
\* the end, the head of the others, and the numbers of faults of the network and
\* the node and of snapshots.
ScenarioBounds == [peers : SUBSET Peers, tip : Nat, last : Nat, other : Nat,
                   faults : Nat, pauses : Nat]

ASSUME PeerConstants ==
    /\ IsFiniteSet(Peers) /\ Honest \subseteq Peers
    /\ Start \in Nat \ {0}
    /\ \A s \in Scenarios : s \in ScenarioBounds /\ Start <= s.tip /\ s.tip <= s.last

ASSUME PeerOrder ==
    /\ Order \in Seq(Peers) /\ Peers = {Order[i] : i \in DOMAIN Order}
    /\ Earliest \in [Peers -> Nat]

\* With a StrikeLimit of 0 a good packet would ban its peer.
ASSUME PeerLimits ==
    /\ {Lag, FallBehind, RangeSize, GapSize, ForkOnlyLimit, QueueLimit} \subseteq Nat
    /\ {StrikeLimit, RetryLimit} \subseteq Nat \ {0}

VARIABLES
    head,       \* the head block number of the chain database
    stored,     \* blocks in the fork database that are not on the chain
    tip,        \* the head of the honest peers
    net,        \* the members of dlt_p2p_node and of the peers, see NetState
    inbox,      \* by peer: the messages not read yet
    work,       \* by fiber: the handler it is in
    busy,       \* _accept_block_in_progress: the fiber in accept_block
    dialing,    \* the peers with a connect fiber
    limits,     \* the scenario
    faults, pauses

vars == <<head, stored, tip, net, inbox, work, busy, dialing, limits, faults, pauses>>

Drains == {"resume", "periodic"}
Fibers == Peers \cup Drains
NoFiber == "none"

ASSUME PeersAreNoDrains == Peers \cap (Drains \cup {NoFiber}) = {}

\* A block is its number and whether it is on the chain of this node.
Block(p, n) == [n |-> n, main |-> p \in Honest]
PeerTip(p) == IF p \in Honest THEN tip ELSE limits.other

\* get_dlt_latest_block of a peer: its log ends at its LIB.
LogHead(p) == Max({0, PeerTip(p) - Lag})

\* The handlers are operators on a record S of the state they change.
State == [net |-> net, inbox |-> inbox, head |-> head, stored |-> stored]

\* Op(e), where TLC evaluates e only once.
With(e, Op(_)) == CHOOSE r \in {Op(v) : v \in {e}} : TRUE

Becomes(S) ==
    \E T \in {S} :
       net' = T.net /\ inbox' = T.inbox /\ head' = T.head /\ stored' = T.stored

Lib(S) == IF S.head > Lag THEN S.head - Lag ELSE 0

\* is_known_block: on the chain, or anywhere in the fork database.
Known(S, b) == (b.main /\ b.n <= S.head) \/ b \in S.stored

Idle == [kind |-> "idle", todo |-> <<>>, applied |-> FALSE, fork |-> FALSE,
         next |-> 0, timed |-> FALSE]

\* dlt_peer_state, and whether _connections has its socket.  peer_dlt_latest
\* is left out: it never exceeds peer_head_num.  expected_next_block is left
\* out: whether it takes a block for a duplicate is a choice.
NewPeer == [life |-> "disconnected", sock |-> FALSE, head |-> 0, head_id |-> 0,
            earliest |-> 0, exchange |-> FALSE, strikes |-> 0, fork_only |-> 0,
            fallback |-> FALSE]

Live == {"active", "syncing"}

----------------------------------------------------------------------------
\* Messages, bans and modes.

Deliver(S, p, m) ==
    IF S.net.peer[p].sock THEN [S EXCEPT !.inbox[p] = Append(@, m)] ELSE S

\* The socket of p is closed, and what the peer has sent is lost.
Close(S, p, life) ==
    LET r == [S.net.peer[p] EXCEPT !.life = life, !.sock = FALSE]
    IN  [S EXCEPT !.net.peer[p] = r, !.inbox[p] = <<>>]

\* soft_ban_peer: the reader of the peer finds the socket closed later on.
SoftBan(S, p) == Close(S, p, "banned")

\* record_packet_result
RecordPacket(S, p, good) ==
    LET strikes == IF good THEN 0 ELSE S.net.peer[p].strikes + 1
        T == [S EXCEPT !.net.peer[p].strikes = strikes]
    IN  IF strikes >= StrikeLimit THEN SoftBan(T, p) ELSE T

\* What the transition makes of a peer: no longer asked, and one of ours where we
\* know its head.
Realigned(S, p) ==
    LET r == S.net.peer[p]
        life == IF r.life = "syncing" THEN "active" ELSE r.life
        knows == life = "active" /\ r.head > 0 /\ Known(S, Block(p, r.head_id))
    IN  [r EXCEPT !.life = life, !.exchange = @ \/ knows]

\* transition_to_forward
ToForward(S) ==
    IF S.net.status = "FORWARD" THEN [S EXCEPT !.net.catchup = FALSE]
    ELSE [S EXCEPT !.net.catchup = FALSE, !.net.status = "FORWARD", !.net.retries = 0,
                   !.net.peer = [p \in Peers |-> Realigned(S, p)]]

ToSync(S) ==
    IF S.net.status = "SYNC" THEN S
    ELSE [S EXCEPT !.net.status = "SYNC", !.net.retries = 0, !.net.timed = TRUE]

AnyAhead(S) == \E p \in Peers : /\ S.net.peer[p].life \in Live
                                /\ S.net.peer[p].head > S.head

----------------------------------------------------------------------------
\* Range requests.

\* The next block that an answer ending with block n tells of: none at the end of
\* the log, although the peer has blocks above it.
NextAvailable(p, n) == IF n < LogHead(p) THEN n + 1 ELSE 0

\* The peer answers with the blocks of its log; empty when all that is asked for
\* is above it.
RangeReply(p, from, to) ==
    LET first == Max({from, Earliest[p]})
        end == Min({to, LogHead(p)})
    IN  [type |-> "range", first |-> first, end |-> end,
         next |-> IF first <= end THEN NextAvailable(p, end) ELSE 0]

\* The answer to dlt_get_block, from the log or the fork database; "not available"
\* changes nothing.
RequestBlock(S, p, n) ==
    IF n \in Earliest[p]..PeerTip(p)
    THEN Deliver(S, p, [type |-> "block", first |-> n, next |-> NextAvailable(p, n)])
    ELSE S

\* From our head, so that the block of the peer at this height is seen too;
\* from LIB when far behind.
RangeStart(S, p) ==
    IF S.net.peer[p].head - S.head > FallBehind /\ Lib(S) \in 1..(S.head - 1)
    THEN Lib(S) ELSE S.head

NeedsBridge(S, p) == RangeStart(S, p) < S.net.peer[p].earliest

Bridges(S, p) ==
    {q \in Peers \ {p} : /\ S.net.peer[q].life \in Live
                         /\ S.net.peer[q].earliest \in 1..RangeStart(S, p)
                         /\ S.net.peer[q].head > S.head}

\* The peer that request_blocks_from_peer ends up asking.  It calls itself for
\* the bridging peer, which may have to be bridged in its turn, with LIB as the
\* start; a third bridge starts at LIB or below.
Bridge(S, p) ==
    IF NeedsBridge(S, p) /\ Bridges(S, p) # {}
    THEN Order[Min({i \in DOMAIN Order : Order[i] \in Bridges(S, p)})] ELSE p

SendRangeRequest(S, p) ==
    LET r == S.net.peer[p]
        start == Max({RangeStart(S, p), r.earliest})
        end == Min({start + RangeSize - 1, r.head})
    IN  IF start > r.head THEN S
        ELSE Deliver([S EXCEPT !.net.peer[p].life = "syncing"],
                     p, RangeReply(p, start, end))

AskPeer(S, p) ==
    IF S.head < S.net.peer[p].head
    THEN LET request(q) == SendRangeRequest(S, q)
             second(q) == With(Bridge(S, q), request)
         IN  With(Bridge(S, p), second)
    ELSE IF S.net.status = "SYNC" /\ ~AnyAhead(S) THEN ToForward(S) ELSE S

\* request_blocks_from_peer
RequestBlocks(S, p) == LET ask(T) == AskPeer(T, p) IN With(S, ask)

\* A loop over _peer_states that asks the live peers, or those that exchange blocks
\* with us and are ahead.
AskIf(S, p, ahead) ==
    LET r == S.net.peer[p]
        wanted == IF ahead THEN r.life = "active" /\ r.exchange /\ r.head > S.head
                  ELSE r.life \in Live
    IN  IF wanted THEN RequestBlocks(S, p) ELSE S

RequestFrom(S, ahead) == FoldLeft(LAMBDA T, p : AskIf(T, p, ahead), S, Order)

\* check_sync_catchup, with an active peer.
CheckSyncCatchup(S) ==
    IF /\ S.net.status = "SYNC"
       /\ \E p \in Peers : S.net.peer[p].life \in Live /\ S.net.peer[p].head > 0
       /\ ~AnyAhead(S)
       /\ S.net.seen <= S.head + FallBehind
    THEN ToForward(S) ELSE S

----------------------------------------------------------------------------
\* Connections.

Init ==
    /\ limits \in Scenarios
    /\ head = Start /\ stored = {} /\ tip = limits.tip
    /\ net = [status |-> "SYNC", retries |-> 0, timed |-> FALSE, seen |-> 0,
              gap |-> FALSE, tried |-> FALSE, override |-> 0, catchup |-> FALSE, paused |-> FALSE,
              resuming |-> FALSE, queue |-> {}, peer |-> [p \in Peers |-> NewPeer]]
    /\ inbox = [p \in Peers |-> <<>>]
    /\ work = [f \in Fibers |-> Idle]
    /\ busy = NoFiber /\ dialing = {} /\ faults = 0 /\ pauses = 0

Fault == faults < limits.faults /\ faults' = faults + 1

\* periodic_reconnect_check and connect_to_peer.  A connect fiber is taken to
\* end before the back-off of its peer, so that a peer has at most one.
Dial(p) ==
    /\ work["periodic"] = Idle
    /\ p \in limits.peers /\ net.peer[p].life = "disconnected" /\ p \notin dialing
    /\ dialing' = dialing \cup {p}
    /\ Becomes([State EXCEPT !.net.peer[p] = [NewPeer EXCEPT !.life = "connecting"]])
    /\ UNCHANGED <<tip, work, busy, limits, faults, pauses>>

\* The answer of a peer to our hello: our head is in its log or just before it, or
\* it knows our LIB.  A peer on another chain keeps no block of ours.
HelloReply(S, p) == [type |-> "hello_reply",
                     exchange |-> /\ p \in Honest
                                  /\ \/ S.head \in (Earliest[p] - 1)..LogHead(p)
                                     \/ Lib(S) \in Earliest[p]..PeerTip(p)]

\* The peer says hello, and answers ours.
DialSucceeds(p) ==
    /\ p \in dialing /\ dialing' = dialing \ {p}
    /\ LET r == [net.peer[p] EXCEPT !.life = "handshaking", !.sock = TRUE]
           T == [State EXCEPT !.net.peer[p] = r]
           hello == [type |-> "hello", head |-> PeerTip(p)]
       IN  Becomes(Deliver(Deliver(T, p, hello), p, HelloReply(T, p)))
    /\ UNCHANGED <<tip, work, busy, limits, faults, pauses>>

DialFails(p) ==
    /\ Fault
    /\ p \in dialing /\ dialing' = dialing \ {p}
    /\ Becomes([State EXCEPT !.net.peer[p].life = "disconnected"])
    /\ UNCHANGED <<tip, work, busy, limits, pauses>>

\* As if the cancelled reader left the flag set.
HandleDisconnectInAccept(p) ==
    /\ Becomes(Close(State, p, "disconnected"))
    /\ work' = [work EXCEPT ![p] = Idle]
    /\ UNCHANGED <<tip, busy, dialing, limits, pauses>>

\* handle_disconnect: the socket is closed and the reader is cancelled, in
\* call_accept_block too, which clears the flag on every exception.
HandleDisconnect(p) ==
    /\ Becomes(Close(State, p, "disconnected"))
    /\ work' = [work EXCEPT ![p] = Idle]
    /\ busy' = IF busy = p THEN NoFiber ELSE busy
    /\ UNCHANGED <<tip, dialing, limits, pauses>>

\* The connection breaks: the reader sees it between two messages, a writer at
\* any time.  What the peer has sent is lost.
ConnectionLost(p) == Fault /\ net.peer[p].sock /\ HandleDisconnect(p)

\* periodic_lifecycle_timeout_check.  The connect fiber goes on.
LifecycleTimeout(p) ==
    /\ Fault
    /\ work["periodic"] = Idle
    /\ net.peer[p].life \in {"connecting", "handshaking"}
    /\ HandleDisconnect(p)

\* The reader of a banned peer finds the socket closed.  The peer then waits for
\* its next dial as any other, before the loop of periodic_task that unbans
\* could find it.
ReaderEnds(p) ==
    /\ net.peer[p].life \notin {"disconnected", "connecting"} /\ ~net.peer[p].sock
    /\ work[p] = Idle
    /\ HandleDisconnect(p) /\ UNCHANGED faults

\* emergency_peer_reset, from check_sync_catchup or check_forward_stagnation.
\* What it does for disconnected peers is a matter of time only.  A handler is
\* taken to end before ISOLATION_RESET_SEC.
Isolated ==
    /\ ~net.paused /\ work["periodic"] = Idle
    /\ \A p \in Peers : work[p] = Idle
    /\ \A p \in Peers : net.peer[p].life \notin Live
    /\ LET reset(r) == IF r.life # "banned" THEN r
                       ELSE [r EXCEPT !.life = "disconnected", !.strikes = 0]
           T == [ToSync(State) EXCEPT !.net.retries = 0]
       IN  Becomes([T EXCEPT !.net.peer = [p \in Peers |-> reset(net.peer[p])]])
    /\ UNCHANGED <<tip, work, busy, dialing, limits, faults, pauses>>

----------------------------------------------------------------------------
\* Messages.

\* What the reader of p does next: m is taken out of the inbox.
Reads(p, type) ==
    /\ work[p] = Idle /\ inbox[p] # <<>>
    /\ inbox[p][1].type = type

Rest(p) == [State EXCEPT !.inbox[p] = Tail(@)]

NoWork == UNCHANGED <<tip, work, busy, dialing, limits, faults, pauses>>

\* check_fork_alignment: we know the head of the peer, where it is in the range of
\* our log, or its LIB.
Aligned(p, n) ==
    \/ n <= Lib(State) /\ Known(State, Block(p, n))
    \/ n > Lag /\ Known(State, Block(p, n - Lag))

OnHello(p) ==
    /\ Reads(p, "hello")
    /\ LET n == inbox[p][1].head
           exchange == Aligned(p, n)
           active == net.peer[p].life = "handshaking"
                     /\ (exchange \/ net.status = "SYNC")
           r == [net.peer[p] EXCEPT
                    !.head = n, !.head_id = n, !.earliest = Earliest[p],
                    !.exchange = exchange, !.life = IF active THEN "active" ELSE @]
           U == RecordPacket([Rest(p) EXCEPT !.net.peer[p] = r], p, TRUE)
       IN  Becomes(IF net.status = "SYNC" /\ exchange THEN RequestBlocks(U, p) ELSE U)
    /\ NoWork

OnHelloReply(p) ==
    /\ Reads(p, "hello_reply")
    /\ LET r == [net.peer[p] EXCEPT
                    !.exchange = @ \/ inbox[p][1].exchange,
                    !.life = IF @ \in {"handshaking", "syncing"} THEN "active" ELSE @]
           U == RecordPacket([Rest(p) EXCEPT !.net.peer[p] = r], p, TRUE)
           behind == U.net.peer[p].head > head + FallBehind
       IN  Becomes(IF U.net.peer[p].exchange /\ (net.status = "SYNC" \/ behind)
                   THEN RequestBlocks(ToSync(U), p) ELSE U)
    /\ NoWork

\* on_dlt_fork_status; the peers are in FORWARD mode all the time.
OnForkStatus(p) ==
    /\ Reads(p, "fork_status")
    /\ LET n == inbox[p][1].head
           r == [net.peer[p] EXCEPT !.head = n, !.head_id = n, !.earliest = Earliest[p]]
           T == [Rest(p) EXCEPT !.net.peer[p] = r, !.net.seen = Max({@, n})]
       IN  Becomes(RecordPacket(T, p, TRUE))
    /\ NoWork

\* on_dlt_soft_ban; dropped while paused.
OnSoftBan(p) ==
    /\ Reads(p, "soft_ban")
    /\ Becomes(IF net.paused THEN Rest(p) ELSE SoftBan(Rest(p), p))
    /\ NoWork

MessageBlocks(p, m) ==
    IF m.type = "block" THEN <<Block(p, m.first)>>
    ELSE [i \in 1..Max({0, m.end - m.first + 1}) |-> Block(p, m.first + i - 1)]

\* As if the queue of a pause had no limit.
OnPausedBlocksUnlimited(p) ==
    /\ net.paused
    /\ \E type \in {"block", "range", "gap"} : Reads(p, type)
    /\ LET blocks == MessageBlocks(p, inbox[p][1])
       IN  Becomes([Rest(p) EXCEPT !.net.queue =
              @ \cup {blocks[i] : i \in DOMAIN blocks}])
    /\ NoWork

\* on_message while paused: the blocks are kept for later, up to the limit.
OnPausedBlocks(p) ==
    /\ net.paused
    /\ \E type \in {"block", "range", "gap"} : Reads(p, type)
    /\ LET blocks == MessageBlocks(p, inbox[p][1])
           room == Max({0, QueueLimit - Cardinality(net.queue)})
       IN  Becomes([Rest(p) EXCEPT !.net.queue =
              @ \cup {blocks[i] : i \in 1..Min({Len(blocks), room})}])
    /\ NoWork

----------------------------------------------------------------------------
\* Blocks on their way into the database, one at a time.

\* accept_block of the plugin on push_block: "dead" for a block at or below our
\* head whose parent is not known, unless the node has just started.
Results(b) ==
    IF ~b.main THEN (IF b.n <= head THEN {"dead", "fork"} ELSE {"fork"})
    ELSE IF b.n <= head THEN {"known"}
    ELSE IF b.n = head + 1 THEN {"accepted"} ELSE {"fork"}

\* The failures of this node: no memory left for now, or any other exception.
LocalFailures == IF faults < limits.faults THEN {"resize", "rejected"} ELSE {}

\* A block next to the head is applied with the blocks waiting above it.
NewHead(b) == Max({n \in b.n..limits.last :
                    \A k \in (b.n + 1)..n : [n |-> k, main |-> TRUE] \in stored})

After(b, result) ==
    CASE result = "fork" -> [State EXCEPT !.stored = @ \cup {b}]
      [] result = "accepted" ->
            [State EXCEPT !.head = NewHead(b),
                          !.stored = {c \in @ : ~c.main \/ c.n > NewHead(b)}]
      [] OTHER -> State

\* Exchange with the peer is on once it has given us a block of our chain.
Applied(S, f) ==
    LET T == [S EXCEPT !.net.timed = TRUE]
    IN  IF f \in Peers THEN [T EXCEPT !.net.peer[f].exchange = TRUE] ELSE T

\* A dead block in a gap reply of a peer that is ahead: our own blocks may be the
\* dead ones, and the next gap filling starts at LIB.
LosingFork(S, p) ==
    LET T == IF Lib(S) \in 1..(S.head - 1)
             THEN [S EXCEPT !.net.override = Lib(S)] ELSE S
    IN  RequestBlocks(ToSync(T), p)

\* The end of on_dlt_block_reply: a peer whose range could not be read goes on
\* with single blocks.
BlockTaken(S, p, next) ==
    LET T == RecordPacket(S, p, TRUE)
    IN  IF ~T.net.peer[p].fallback \/ T.net.status # "SYNC" THEN T
        ELSE IF next > 0 THEN RequestBlock(T, p, next)
        ELSE CheckSyncCatchup([T EXCEPT !.net.peer[p].fallback = FALSE])

\* What fiber f does with the result for one block.
Reaction(S, f, w, result) ==
    IF w.kind = "block"
    THEN CASE result = "accepted" ->
                 BlockTaken(CheckSyncCatchup(Applied(S, f)), f, w.next)
           [] result \in {"known", "fork"} -> BlockTaken(S, f, w.next)
           [] result = "dead" -> SoftBan(S, f)
           [] OTHER -> RecordPacket(S, f, result = "resize")
    ELSE IF result = "accepted" THEN Applied(S, f)
    ELSE IF f \notin Peers THEN S
    ELSE CASE result = "dead" ->
                 IF w.kind = "gap" /\ S.net.peer[f].head > S.head
                 THEN LosingFork(S, f) ELSE SoftBan(S, f)
           [] result = "resize" -> RecordPacket(S, f, TRUE)
           [] OTHER -> S

\* As if the end of the handler did not look at the ban.
EndRangeOfBanned(S, p, w) ==
    LET T == RecordPacket(S, p, w.applied \/ w.fork)
        U == [T EXCEPT !.net.peer[p].fork_only = IF w.applied THEN 0 ELSE @ + 1]
    IN  IF T.net.status # "SYNC" THEN T
        ELSE IF w.applied
        THEN IF w.next = 0 THEN ToForward(U) ELSE RequestBlocks(U, p)
        ELSE IF ~w.fork \/ w.next = 0 THEN T
        ELSE IF U.net.peer[p].fork_only >= ForkOnlyLimit THEN SoftBan(U, p)
        ELSE RequestBlocks(U, p)

\* After the loop of on_dlt_block_range_reply: nothing more for a peer banned
\* meanwhile, by a block or by block_validation_timeout.
EndRange(S, p, w) ==
    LET T == RecordPacket(S, p, w.applied \/ w.fork)
        U == [T EXCEPT !.net.peer[p].fork_only = IF w.applied THEN 0 ELSE @ + 1]
    IN  IF S.net.peer[p].life = "banned" THEN S
        ELSE IF T.net.status # "SYNC" THEN T
        ELSE IF w.applied
        THEN IF w.next = 0 THEN ToForward(U) ELSE RequestBlocks(U, p)
        ELSE IF ~w.fork \/ w.next = 0 THEN T
        ELSE IF U.net.peer[p].fork_only >= ForkOnlyLimit THEN SoftBan(U, p)
        ELSE RequestBlocks(U, p)

\* As if only the transition to FORWARD ended the catching up.
EndDrainKeepsFlag(S) == [S EXCEPT !.net.queue = {}]

\* After a drain: the queue is empty, and unless a peer is ahead the node may
\* produce again.
EndDrain(S) == [S EXCEPT !.net.queue = {},
                         !.net.catchup = @ /\ AnyAhead(S)]

\* The blocks that the loop of a handler still offers: none once block processing
\* is paused; a range may skip the blocks it knows, where expected_next_block is
\* past them.
Remaining(S, w) ==
    IF S.net.paused THEN {<<>>}
    ELSE {SubSeq(w.todo, k, Len(w.todo)) : k \in
            {k \in 1..(Len(w.todo) + 1) :
                \/ k = 1
                \/ /\ w.kind = "range"
                   /\ \A i \in 1..(k - 1) : Known(S, w.todo[i])}}

\* The loop of fiber f goes on with w, or ends.
Continue(S, f, w) ==
    LET ended == CASE w.kind = "range" -> EndRange(S, f, w)
                   [] w.kind = "gap" -> RecordPacket(S, f, TRUE)
                   [] w.kind = "block" -> S
                   [] w.kind = "drain" -> EndDrain(S)
    IN  \E rest \in Remaining(S, w) :
          /\ Becomes(IF rest # <<>> THEN S ELSE ended)
          /\ work' = [work EXCEPT ![f] =
                        IF rest # <<>> THEN [w EXCEPT !.todo = rest] ELSE Idle]

----------------------------------------------------------------------------
\* Messages with blocks.

\* The start of on_dlt_block_range_reply.
OnBlockRange(p) ==
    /\ ~net.paused /\ Reads(p, "range")
    /\ LET m == inbox[p][1]
           T == [Rest(p) EXCEPT !.net.peer[p].head = Max({@, m.end}),
                                !.net.seen = Max({@, m.end})]
           w == [Idle EXCEPT !.kind = "range", !.todo = MessageBlocks(p, m),
                             !.next = m.next, !.timed = TRUE]
       IN  IF m.first > m.end
           THEN Becomes(RecordPacket(Rest(p), p, TRUE)) /\ UNCHANGED work
           ELSE Continue(T, p, w)
    /\ UNCHANGED <<tip, busy, dialing, limits, faults, pauses>>

\* The start of on_dlt_gap_fill_reply: whoever answers ends the gap filling.
OnGapFill(p) ==
    /\ ~net.paused /\ Reads(p, "gap")
    /\ LET m == inbox[p][1]
           empty == m.first > m.end
           T == [Rest(p) EXCEPT !.net.gap = FALSE]
       IN  /\ Becomes(IF empty THEN RecordPacket(T, p, TRUE) ELSE T)
           /\ work' = IF empty THEN work
                      ELSE [work EXCEPT ![p] =
                              [Idle EXCEPT !.kind = "gap", !.todo = MessageBlocks(p, m)]]
    /\ UNCHANGED <<tip, busy, dialing, limits, faults, pauses>>

\* The start of on_dlt_block_reply.  Where expected_next_block finds the block
\* out of order, the handler may drop a block it knows, or ask for the parent of
\* a block next to our head that links to another block than our head.  The gap
\* filling it may request is RequestGapFill.
OnBlock(p) ==
    /\ ~net.paused /\ Reads(p, "block")
    /\ LET m == inbox[p][1]
           b == Block(p, m.first)
           T == [Rest(p) EXCEPT !.net.peer[p].head = Max({@, b.n}),
                                !.net.seen = Max({@, b.n})]
           taken == [work EXCEPT ![p] =
                        [Idle EXCEPT !.kind = "block", !.todo = <<b>>, !.next = m.next]]
       IN  \/ Becomes(T) /\ work' = taken
           \/ Known(State, b) /\ Becomes(RecordPacket(T, p, TRUE)) /\ UNCHANGED work
           \/ b.n = head + 1 /\ ~b.main
              /\ Becomes(RequestBlock(T, p, head)) /\ work' = taken
    /\ UNCHANGED <<tip, busy, dialing, limits, faults, pauses>>

\* A range reply that cannot be unpacked: single blocks are asked for from LIB.
CorruptRange(p) ==
    /\ Fault
    /\ ~net.paused /\ Reads(p, "range")
    /\ LET from == IF Lib(State) > 0 THEN Lib(State) ELSE head
           T == [Rest(p) EXCEPT !.net.peer[p].fallback = TRUE]
       IN  Becomes(IF net.status = "SYNC" THEN RequestBlock(T, p, from) ELSE T)
    /\ UNCHANGED <<tip, work, busy, dialing, limits, pauses>>

----------------------------------------------------------------------------
\* The blocks in the database.

\* call_accept_block: a fiber spins until no other one is in accept_block.
EnterAccept(f) ==
    /\ work[f] # Idle /\ busy = NoFiber /\ busy' = f
    /\ UNCHANGED <<head, stored, tip, net, inbox, work, dialing, limits, faults, pauses>>

\* accept_block returns to its handler.
LeaveAccept(f) ==
    /\ work[f] # Idle /\ busy = f /\ busy' = NoFiber
    /\ LET w == work[f]
           b == Head(w.todo)
       IN  \E result \in Results(b) \cup LocalFailures :
             LET breaks == result = "resize" \/ (result = "dead" /\ f \in Peers)
             IN  /\ faults' = IF result \in LocalFailures THEN faults + 1 ELSE faults
                 /\ Continue(Reaction(After(b, result), f, w, result), f,
                       [w EXCEPT !.todo = IF breaks THEN <<>> ELSE Tail(@),
                                 !.applied = @ \/ result = "accepted",
                                 !.fork = @ \/ result = "fork"])
    /\ UNCHANGED <<tip, dialing, limits, pauses>>

\* block_validation_timeout: a range that takes long is a strike, once.
BatchTimeout(p) ==
    /\ Fault
    /\ work["periodic"] = Idle /\ work[p].timed
    /\ Becomes(RecordPacket(State, p, FALSE))
    /\ work' = [work EXCEPT ![p].timed = FALSE]
    /\ UNCHANGED <<tip, busy, dialing, limits, pauses>>

----------------------------------------------------------------------------
\* The checks of periodic_task, in an order of their own; the fiber of the task
\* may be in a drain instead.  request_gap_fill is called every five seconds, and a
\* request of it blocks the next one for 15 seconds at most; so it has been called
\* between two of the checks that ask for ranges, which are 30 seconds apart or
\* wait for a grace period (net.tried).

Periodic ==
    /\ ~net.paused /\ work["periodic"] = Idle
    /\ \A p \in Peers : Len(inbox[p]) < MaxInbox
    /\ UNCHANGED <<tip, work, busy, dialing, limits, faults, pauses>>

\* A check that asks for ranges.
RangeCheck == Periodic /\ net.tried

Untried == [State EXCEPT !.net.tried = FALSE]

SyncStagnation ==
    /\ RangeCheck
    /\ net.status = "SYNC" /\ net.timed
    /\ LET T == [Untried EXCEPT !.net.retries = @ + 1]
       IN  Becomes(IF T.net.retries >= RetryLimit THEN ToForward(T)
                   ELSE RequestFrom(T, FALSE))

SyncCatchup == Periodic /\ net.status = "SYNC" /\ Becomes(CheckSyncCatchup(State))

\* check_forward_behind, after its grace period.
ForwardBehind ==
    /\ RangeCheck /\ net.status = "FORWARD"
    /\ \E p \in Peers : /\ net.peer[p].life = "active"
                        /\ net.peer[p].head > head + FallBehind
    /\ Becomes(RequestFrom(ToSync(Untried), TRUE))

\* check_forward_stagnation with live peers; Isolated without.
ForwardStagnation ==
    /\ RangeCheck /\ net.status = "FORWARD" /\ AnyAhead(State)
    /\ Becomes(RequestFrom(ToSync(Untried), TRUE))

GapStart == IF net.override \in 1..(head - 1) THEN net.override ELSE head

\* The live peers that can serve the block after start.
GapServers == {p \in Peers : /\ net.peer[p].life \in Live
                             /\ net.peer[p].earliest <= GapStart + 1
                             /\ net.peer[p].head > GapStart}

AskForGap ==
    LET best == {p \in GapServers : net.peer[p].exchange}
        top == Max({GapStart} \cup {net.peer[p].head : p \in best})
        asked == IF best # {} THEN {p \in best : net.peer[p].head = top} ELSE GapServers
        ceiling == Max({top, net.seen})
        T == [State EXCEPT !.net.override = 0, !.net.tried = TRUE,
                           !.net.gap = asked # {} /\ ceiling > GapStart]
        reply(p) == [type |-> "gap", first |-> Max({GapStart, Earliest[p]}), next |-> 0,
                     end |-> Min({ceiling, GapStart + GapSize - 1, PeerTip(p)})]
    IN  IF asked = {} \/ ceiling <= GapStart THEN Becomes(T)
        ELSE \E p \in {Order[Min({i \in DOMAIN Order : Order[i] \in asked})]} :
                Becomes(Deliver(T, p, reply(p)))

\* As if the answer to the last request were waited for.
RequestGapFillWaits == Periodic /\ ~net.gap /\ AskForGap

\* request_gap_fill, from the periodic task or for a block out of order.  The last
\* request may have timed out.
RequestGapFill == Periodic /\ AskForGap

----------------------------------------------------------------------------
\* The pause while a snapshot is written.

Pause ==
    /\ ~net.paused /\ pauses < limits.pauses /\ pauses' = pauses + 1
    /\ Becomes([State EXCEPT !.net.paused = TRUE])
    /\ UNCHANGED <<tip, work, busy, dialing, limits, faults>>

\* set_resume_flags, in the thread of the snapshot.
SetResumeFlags ==
    /\ net.paused
    /\ Becomes([State EXCEPT !.net.catchup = TRUE, !.net.paused = FALSE,
                             !.net.resuming = TRUE])
    /\ UNCHANGED <<tip, work, busy, dialing, limits, faults, pauses>>

\* The blocks in the order of their numbers; std::sort leaves the order of two blocks
\* with one number open.
Sorted(blocks) == {s \in SetToSeqs(blocks) :
                     \A i, j \in DOMAIN s : i < j => s[i].n <= s[j].n}

\* drain_paused_block_queue
StartDrain(S, f) ==
    \E todo \in Sorted(net.queue) :
       Continue(S, f, [Idle EXCEPT !.kind = "drain", !.todo = todo])

\* run_resume_on_p2p_thread: drain the queue, or say hello to learn what the
\* peers have.
RunResume ==
    /\ net.resuming /\ work["resume"] = Idle
    /\ LET T == [State EXCEPT !.net.resuming = FALSE]
           greeted == {p \in Peers : net.peer[p].life \in Live /\ net.peer[p].sock}
           answers == [p \in Peers |-> IF p \in greeted
                                       THEN Append(inbox[p], HelloReply(State, p))
                                       ELSE inbox[p]]
       IN  IF net.queue # {} THEN StartDrain(T, "resume")
           ELSE Becomes([T EXCEPT !.inbox = answers]) /\ UNCHANGED work
    /\ UNCHANGED <<tip, busy, dialing, limits, faults, pauses>>

\* The end of periodic_task.  It may find the queue while the fiber of the resume
\* still drains it; the code then has two loops over one vector, and each of them
\* is taken to reach the blocks that were in it.
PeriodicCatchup ==
    /\ ~net.paused /\ work["periodic"] = Idle /\ net.catchup
    /\ IF net.queue # {} THEN StartDrain(State, "periodic")
       ELSE Becomes(EndDrain(State)) /\ UNCHANGED work
    /\ UNCHANGED <<tip, busy, dialing, limits, faults, pauses>>

----------------------------------------------------------------------------
\* The peers.

Quiet(p) == Len(inbox[p]) < MaxInbox

\* An honest peer has a new block; it reaches any of the peers that relay it.
Grow ==
    /\ tip < limits.last /\ tip' = tip + 1
    /\ \E senders \in SUBSET {p \in Honest : net.peer[p].sock /\ Quiet(p)} :
         LET news == [type |-> "block", first |-> tip + 1, next |-> 0]
         IN  inbox' = [p \in Peers |-> IF p \in senders THEN Append(inbox[p], news)
                                       ELSE inbox[p]]
    /\ UNCHANGED <<head, stored, net, work, busy, dialing, limits, faults, pauses>>

\* broadcast_block_post_validation of a peer whose head is not the one it told us last.
PeerStatus(p) ==
    /\ net.peer[p].sock /\ Quiet(p)
    /\ net.peer[p].head_id # PeerTip(p)
    /\ \A i \in DOMAIN inbox[p] : inbox[p][i].type \notin {"fork_status", "hello"}
    /\ Becomes(Deliver(State, p, [type |-> "fork_status", head |-> PeerTip(p)]))
    /\ UNCHANGED <<tip, work, busy, dialing, limits, faults, pauses>>

PeerBansUs(p) ==
    /\ Fault
    /\ net.peer[p].sock /\ Quiet(p)
    /\ Becomes(Deliver(State, p, [type |-> "soft_ban"]))
    /\ UNCHANGED <<tip, work, busy, dialing, limits, pauses>>

\* A peer of another chain sends its last block.
OtherBlock(p) ==
    /\ Fault
    /\ p \notin Honest /\ net.peer[p].sock /\ Quiet(p)
    /\ Becomes(Deliver(State, p, [type |-> "block", first |-> limits.other, next |-> 0]))
    /\ UNCHANGED <<tip, work, busy, dialing, limits, pauses>>

----------------------------------------------------------------------------
Receive(p) ==
    \/ OnHello(p) \/ OnHelloReply(p) \/ OnForkStatus(p) \/ OnSoftBan(p)
    \/ OnPausedBlocks(p) \/ OnBlockRange(p) \/ OnGapFill(p) \/ OnBlock(p)

Next ==
    \/ \E p \in Peers :
         \/ Dial(p) \/ DialSucceeds(p) \/ DialFails(p)
         \/ ConnectionLost(p) \/ LifecycleTimeout(p) \/ ReaderEnds(p)
         \/ Receive(p) \/ CorruptRange(p) \/ BatchTimeout(p)
         \/ PeerStatus(p) \/ PeerBansUs(p) \/ OtherBlock(p)
    \/ \E f \in Fibers : EnterAccept(f) \/ LeaveAccept(f)
    \/ SyncStagnation \/ SyncCatchup \/ ForwardBehind \/ ForwardStagnation
    \/ RequestGapFill \/ Isolated
    \/ Pause \/ SetResumeFlags \/ RunResume \/ PeriodicCatchup
    \/ Grow

\* The fibers of a thread take turns, the periodic task runs every five seconds,
\* a dial ends and a snapshot too.  A fiber that spins in call_accept_block looks
\* at the flag often enough to find it down.  The inbox that RequestGapFill waits
\* for is a bound of the model.
Fairness ==
    /\ \A p \in Peers : /\ WF_vars(Dial(p)) /\ WF_vars(DialSucceeds(p))
                        /\ WF_vars(ReaderEnds(p)) /\ WF_vars(Receive(p))
    /\ \A f \in Fibers : SF_vars(EnterAccept(f)) /\ WF_vars(LeaveAccept(f))
    /\ WF_vars(SyncStagnation) /\ WF_vars(SyncCatchup) /\ WF_vars(ForwardBehind)
    /\ WF_vars(ForwardStagnation) /\ SF_vars(RequestGapFill) /\ WF_vars(Isolated)
    /\ WF_vars(SetResumeFlags) /\ WF_vars(RunResume) /\ WF_vars(PeriodicCatchup)

PeerSpec == Init /\ [][Next]_vars /\ Fairness

----------------------------------------------------------------------------
\* Properties.

\* The state of the node, its limits included: the queue of the pause and the
\* retries stay within theirs, and the fiber that holds accept_block is in a
\* handler with a block left.
PeerTypeOK ==
    /\ head \in Start..limits.last /\ head <= tip /\ tip <= limits.last
    /\ net.retries \in 0..RetryLimit /\ Cardinality(net.queue) <= QueueLimit
    /\ DOMAIN net = {"status", "retries", "timed", "seen", "gap", "tried", "override",
                     "catchup", "paused", "resuming", "queue", "peer"}
    /\ busy \in Fibers \cup {NoFiber} /\ dialing \subseteq Peers
    /\ \A f \in Fibers : (work[f] = Idle) <=> (work[f].todo = <<>>)
    /\ busy # NoFiber => work[busy] # Idle

\* A peer the node counts as connected has a socket: what is asked of it can be
\* answered, and its reader will find out when the connection breaks.
LiveHasSocket ==
    \A p \in Peers : net.peer[p].life \in Live \cup {"handshaking"} => net.peer[p].sock

\* Whatever was lost or broken before, the node is again and again connected to
\* the peers on its chain and has all the blocks they have told it of.
CatchesUp ==
    []<>(\A p \in Honest \cap limits.peers :
            net.peer[p].life \in Live /\ net.peer[p].head <= head)

\* The flag that keeps the validator plugin from producing after a pause is
\* cleared.
CatchupEnds == net.catchup ~> ~net.catchup

\* Among peers on our chain, a request to fill a gap whose answer is lost, with
\* the connection or in the queue of a pause, does not block the next ones.
GapFillEnds == (limits.peers \subseteq Honest) => []<>~net.gap

=============================================================================
