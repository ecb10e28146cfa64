--------------------------- MODULE PeerSyncProofs ---------------------------
(* A peer the node counts as connected has a socket, whatever its handlers,  *)
(* checks, bans and time-outs do in which order.                             *)
EXTENDS PeerSync, NumberSets, TLAPS

----------------------------------------------------------------------------
(* The states of the node. *)

Up == Live \cup {"handshaking"}
Down == {"disconnected", "connecting", "banned"}

PeerRecords ==
    [life : Up \cup Down, sock : BOOLEAN, head : Int, head_id : Int,
     earliest : Int, exchange : BOOLEAN, strikes : Nat, fork_only : Nat,
     fallback : BOOLEAN]

\* A block on the chain is one the honest peers have.
Blocks == {b \in [n : Int, main : BOOLEAN] : b.main => b.n <= tip}

NetStates ==
    [status : {"SYNC", "FORWARD"}, retries : 0..RetryLimit, timed : BOOLEAN,
     seen : Int, gap : BOOLEAN, tried : BOOLEAN, override : Int, catchup : BOOLEAN,
     paused : BOOLEAN, resuming : BOOLEAN, queue : SUBSET Blocks,
     peer : [Peers -> PeerRecords]]

\* What p may send: what it claims of the chain is true.
Messages(p) ==
    [type : {"hello", "fork_status"}, head : Int]
    \cup [type : {"hello_reply"}, exchange : BOOLEAN]
    \cup [type : {"soft_ban"}]
    \cup {m \in [type : {"range", "gap"}, first : Int, end : Int, next : Int] :
            p \in Honest => m.end <= tip}
    \cup {m \in [type : {"block"}, first : Int, next : Int] :
            p \in Honest => m.first <= tip}

AllMessages == UNION {Messages(p) : p \in Peers}

Inboxes == {b \in [Peers -> Seq(AllMessages)] : \A p \in Peers : b[p] \in Seq(Messages(p))}

NodeStates == [net : NetStates, inbox : Inboxes, head : Nat, stored : SUBSET Blocks]

\* The life of a peer in a state S, and whether it has a socket.
LifeOf(S, p) == S.net.peer[p].life
Sock(S, p) == S.net.peer[p].sock

\* The sockets are those of the peers that are up, and what was in the inbox of
\* another is gone.
Wired(S) == \A p \in Peers : /\ Sock(S, p) = (LifeOf(S, p) \in Up)
                             /\ ~Sock(S, p) => S.inbox[p] = <<>>

Good == {S \in NodeStates : Wired(S)}

\* T has the chain, the blocks and the queue of S.
SameBlocks(S, T) == T.head = S.head /\ T.stored = S.stored /\ T.net.queue = S.net.queue

KeepsPeer(S, T, p) ==
    Sock(T, p) = Sock(S, p) /\ (~Sock(S, p) => LifeOf(T, p) = LifeOf(S, p))

\* From S to T the node talks to its peers and breaks with none.
Talks(S, T) ==
    S \in Good /\ T \in Good /\ SameBlocks(S, T) /\ \A p \in Peers : KeepsPeer(S, T, p)

\* It may ban p.
Judges(S, T, p) ==
    /\ S \in Good /\ T \in Good /\ SameBlocks(S, T)
    /\ \A q \in Peers : KeepsPeer(S, T, q) \/ (q = p /\ LifeOf(T, q) = "banned")

LEMMA TalksReflexive == ASSUME NEW S \in Good PROVE Talks(S, S)
BY DEF Talks, SameBlocks, KeepsPeer

LEMMA TalksTransitive ==
    ASSUME NEW S, NEW T, NEW U, Talks(S, T), Talks(T, U) PROVE Talks(S, U)
BY DEF Talks, SameBlocks, KeepsPeer

LEMMA TalksJudges ==
    ASSUME NEW S, NEW T, NEW p, Talks(S, T) PROVE Judges(S, T, p)
BY DEF Talks, Judges

LEMMA JudgesTransitive ==
    ASSUME NEW S, NEW T, NEW U, NEW p, Judges(S, T, p), Judges(T, U, p) PROVE Judges(S, U, p)
<1>1. SameBlocks(S, U) /\ S \in Good /\ U \in Good
  BY DEF Judges, SameBlocks
<1>2. ASSUME NEW q \in Peers PROVE KeepsPeer(S, U, q) \/ (q = p /\ LifeOf(U, q) = "banned")
  <2>1. KeepsPeer(S, T, q) \/ (q = p /\ LifeOf(T, q) = "banned")
    BY DEF Judges
  <2>2. KeepsPeer(T, U, q) \/ (q = p /\ LifeOf(U, q) = "banned")
    BY DEF Judges
  <2>3. T \in Good => (Sock(T, q) = (LifeOf(T, q) \in Up))
    BY DEF Good, Wired
  <2>4. T \in Good
    BY DEF Judges
  <2>5. LifeOf(T, q) = "banned" => ~Sock(T, q)
    BY <2>3, <2>4 DEF Up, Live
  <2> QED
    BY <2>1, <2>2, <2>5 DEF KeepsPeer
<1> QED
  BY <1>1, <1>2 DEF Judges

----------------------------------------------------------------------------
(* Changes of a part of the state. *)

WithPeer(S, p, r) == [S EXCEPT !.net.peer[p] = r]
WithInbox(S, p, q) == [S EXCEPT !.inbox[p] = q]
WithNet(S, n) == [S EXCEPT !.net = n]

LEMMA StateParts ==
    ASSUME NEW S \in NodeStates
    PROVE  /\ S.net \in NetStates /\ S.inbox \in Inboxes /\ S.head \in Nat
           /\ S.stored \in SUBSET Blocks
           /\ \A p \in Peers : S.net.peer[p] \in PeerRecords /\ S.inbox[p] \in Seq(Messages(p))
BY DEF NodeStates, NetStates, Inboxes

LEMMA WithNetState ==
    ASSUME NEW S \in NodeStates, NEW n \in NetStates
    PROVE  /\ WithNet(S, n) \in NodeStates /\ WithNet(S, n).net = n
           /\ WithNet(S, n).inbox = S.inbox /\ WithNet(S, n).head = S.head
           /\ WithNet(S, n).stored = S.stored
BY DEF WithNet, NodeStates

LEMMA WithPeerState ==
    ASSUME NEW S \in NodeStates, NEW p \in Peers, NEW r \in PeerRecords
    PROVE  /\ WithPeer(S, p, r) \in NodeStates
           /\ WithPeer(S, p, r).net.peer = [S.net.peer EXCEPT ![p] = r]
           /\ WithPeer(S, p, r).net.queue = S.net.queue
           /\ WithPeer(S, p, r).inbox = S.inbox /\ WithPeer(S, p, r).head = S.head
           /\ WithPeer(S, p, r).stored = S.stored
           /\ WithPeer(S, p, r).net.status = S.net.status
           /\ WithPeer(S, p, r).net.paused = S.net.paused
<1>1. PICK n : n = [S.net EXCEPT !.peer[p] = r]
  OBVIOUS
<1>2. S.net \in NetStates
  BY StateParts
<1>3. /\ n \in NetStates /\ n.peer = [S.net.peer EXCEPT ![p] = r] /\ n.queue = S.net.queue
      /\ n.status = S.net.status /\ n.paused = S.net.paused
  BY <1>1, <1>2 DEF NetStates
<1>4. WithPeer(S, p, r) = WithNet(S, n)
  BY <1>1 DEF WithPeer, WithNet, NodeStates
<1> QED
  BY <1>3, <1>4, WithNetState

LEMMA WithInboxState ==
    ASSUME NEW S \in NodeStates, NEW p \in Peers, NEW q \in Seq(Messages(p))
    PROVE  /\ WithInbox(S, p, q) \in NodeStates
           /\ WithInbox(S, p, q).inbox = [S.inbox EXCEPT ![p] = q]
           /\ WithInbox(S, p, q).net = S.net
           /\ WithInbox(S, p, q).head = S.head
           /\ WithInbox(S, p, q).stored = S.stored
<1>1. PICK b : b = [S.inbox EXCEPT ![p] = q]
  OBVIOUS
<1>2. S.inbox \in Inboxes
  BY StateParts
<1>3. Messages(p) \subseteq AllMessages
  BY DEF AllMessages
<1>4. q \in Seq(AllMessages)
  BY <1>3
<1>5. b \in Inboxes
  BY <1>1, <1>2, <1>4 DEF Inboxes
<1> QED
  BY <1>1, <1>5 DEF WithInbox, NodeStates

\* A new record for p that keeps its socket, and its life when it has none.
LEMMA PeerTalks ==
    ASSUME NEW S \in Good, NEW p \in Peers, NEW r \in PeerRecords,
           r.sock = Sock(S, p), r.sock => r.life \in Up,
           ~r.sock => r.life = LifeOf(S, p)
    PROVE  Talks(S, WithPeer(S, p, r))
<1>1. PICK T : T = WithPeer(S, p, r)
  OBVIOUS
<1>2. S \in NodeStates /\ Wired(S)
  BY DEF Good
<1>3. /\ T \in NodeStates /\ T.net.peer = [S.net.peer EXCEPT ![p] = r]
      /\ SameBlocks(S, T) /\ T.inbox = S.inbox
  BY <1>1, <1>2, WithPeerState DEF SameBlocks
<1>4. S.net.peer \in [Peers -> PeerRecords]
  BY <1>2 DEF NodeStates, NetStates
<1>5. ASSUME NEW q \in Peers
      PROVE  /\ KeepsPeer(S, T, q) /\ Sock(T, q) = (LifeOf(T, q) \in Up)
             /\ ~Sock(T, q) => T.inbox[q] = <<>>
  <2>1. Sock(S, q) = (LifeOf(S, q) \in Up) /\ (~Sock(S, q) => S.inbox[q] = <<>>)
    BY <1>2 DEF Wired
  <2>2. CASE q = p
    <3>1. T.net.peer[q] = r
      BY <1>3, <1>4, <2>2
    <3>2. r.sock \in BOOLEAN
      BY DEF PeerRecords
    <3> QED
      BY <1>3, <2>1, <2>2, <3>1, <3>2 DEF KeepsPeer, Sock, LifeOf
  <2>3. CASE q # p
    <3>1. T.net.peer[q] = S.net.peer[q]
      BY <1>3, <1>4, <2>3
    <3> QED
      BY <1>3, <2>1, <3>1 DEF KeepsPeer, Sock, LifeOf
  <2> QED
    BY <2>2, <2>3
<1>6. Wired(T)
  BY <1>5 DEF Wired
<1> QED
  BY <1>1, <1>3, <1>5, <1>6 DEF Talks, Good

\* A change of the other members of the node.
LEMMA NetTalks ==
    ASSUME NEW S \in Good, NEW n \in NetStates, n.peer = S.net.peer, n.queue = S.net.queue
    PROVE  Talks(S, WithNet(S, n))
<1>1. PICK T : T = WithNet(S, n)
  OBVIOUS
<1>2. S \in NodeStates /\ Wired(S)
  BY DEF Good
<1>3. T \in NodeStates /\ T.net = n /\ SameBlocks(S, T) /\ T.inbox = S.inbox
  BY <1>1, <1>2, WithNetState DEF SameBlocks
<1>4. \A q \in Peers : T.net.peer[q] = S.net.peer[q]
  BY <1>3
<1>5. Wired(T) /\ \A q \in Peers : KeepsPeer(S, T, q)
  BY <1>2, <1>3, <1>4 DEF Wired, KeepsPeer, Sock, LifeOf
<1> QED
  BY <1>1, <1>3, <1>5 DEF Talks, Good

LEMMA InboxTalks ==
    ASSUME NEW S \in Good, NEW p \in Peers, NEW q \in Seq(Messages(p)),
           Sock(S, p) \/ q = <<>>
    PROVE  Talks(S, WithInbox(S, p, q))
<1>1. PICK T : T = WithInbox(S, p, q)
  OBVIOUS
<1>2. S \in NodeStates /\ Wired(S)
  BY DEF Good
<1>3. /\ T \in NodeStates /\ T.net = S.net /\ SameBlocks(S, T)
      /\ T.inbox = [S.inbox EXCEPT ![p] = q]
  BY <1>1, <1>2, WithInboxState DEF SameBlocks
<1>4. \A c \in Peers : T.inbox[c] = IF c = p THEN q ELSE S.inbox[c]
  BY <1>2, <1>3 DEF NodeStates, Inboxes
<1>5. ASSUME NEW c \in Peers
      PROVE  /\ KeepsPeer(S, T, c) /\ Sock(T, c) = (LifeOf(T, c) \in Up)
             /\ ~Sock(T, c) => T.inbox[c] = <<>>
  <2>1. Sock(S, c) = (LifeOf(S, c) \in Up) /\ (~Sock(S, c) => S.inbox[c] = <<>>)
    BY <1>2 DEF Wired
  <2>2. Sock(T, c) = Sock(S, c) /\ LifeOf(T, c) = LifeOf(S, c)
    BY <1>3 DEF Sock, LifeOf
  <2> QED
    BY <1>4, <2>1, <2>2 DEF KeepsPeer
<1>6. Wired(T)
  BY <1>5 DEF Wired
<1> QED
  BY <1>1, <1>3, <1>5, <1>6 DEF Talks, Good

\* Deliver
LEMMA DeliverTalks ==
    ASSUME NEW S \in Good, NEW p \in Peers, NEW m \in Messages(p)
    PROVE  Talks(S, Deliver(S, p, m))
<1>1. CASE Sock(S, p)
  <2>1. PICK q : q = Append(S.inbox[p], m)
    OBVIOUS
  <2>2. S \in NodeStates
    BY DEF Good
  <2>3. S.inbox[p] \in Seq(Messages(p))
    BY <2>2, StateParts
  <2>4. q \in Seq(Messages(p))
    BY <2>1, <2>3
  <2>5. Deliver(S, p, m) = WithInbox(S, p, q)
    BY <1>1, <2>1 DEF Deliver, WithInbox, Sock
  <2> QED
    BY <1>1, <2>4, <2>5, InboxTalks
<1>2. CASE ~Sock(S, p)
  <2>1. Deliver(S, p, m) = S
    BY <1>2 DEF Deliver, Sock
  <2> QED
    BY <2>1, TalksReflexive
<1> QED
  BY <1>1, <1>2

\* The end of a connection, by a ban or otherwise.
LEMMA CloseState ==
    ASSUME NEW S \in Good, NEW p \in Peers, NEW life \in Down
    PROVE  /\ Close(S, p, life) \in Good /\ SameBlocks(S, Close(S, p, life))
           /\ LifeOf(Close(S, p, life), p) = life /\ ~Sock(Close(S, p, life), p)
           /\ \A q \in Peers \ {p} : /\ LifeOf(Close(S, p, life), q) = LifeOf(S, q)
                                     /\ Sock(Close(S, p, life), q) = Sock(S, q)
<1>1. PICK r : r = [S.net.peer[p] EXCEPT !.life = life, !.sock = FALSE]
  OBVIOUS
<1>2. PICK U : U = WithPeer(S, p, r)
  OBVIOUS
<1>3. PICK T : T = WithInbox(U, p, <<>>)
  OBVIOUS
<1>4. S \in NodeStates /\ Wired(S)
  BY DEF Good
<1>5. S.net.peer[p] \in PeerRecords /\ S.net.peer \in [Peers -> PeerRecords]
  BY <1>4, StateParts DEF NetStates
<1>6. r \in PeerRecords /\ r.life = life /\ r.sock = FALSE
  BY <1>1, <1>5 DEF PeerRecords
<1>7. /\ U \in NodeStates /\ U.net.peer = [S.net.peer EXCEPT ![p] = r]
      /\ SameBlocks(S, U) /\ U.inbox = S.inbox
  BY <1>2, <1>4, <1>6, WithPeerState DEF SameBlocks
<1>8. <<>> \in Seq(Messages(p))
  OBVIOUS
<1>9. /\ T \in NodeStates /\ T.net = U.net /\ SameBlocks(S, T)
      /\ T.inbox = [U.inbox EXCEPT ![p] = <<>>]
  BY <1>3, <1>7, <1>8, WithInboxState DEF SameBlocks
<1>10. Close(S, p, life) = T
  BY <1>1, <1>2, <1>3 DEF Close, WithInbox, WithPeer
<1>11. LifeOf(T, p) = life /\ Sock(T, p) = FALSE /\ T.inbox[p] = <<>>
  BY <1>4, <1>5, <1>6, <1>7, <1>9 DEF LifeOf, Sock, NodeStates, Inboxes
<1>12. ASSUME NEW q \in Peers, q # p
       PROVE  LifeOf(T, q) = LifeOf(S, q) /\ Sock(T, q) = Sock(S, q) /\ T.inbox[q] = S.inbox[q]
  BY <1>4, <1>5, <1>6, <1>7, <1>9, <1>12 DEF LifeOf, Sock, NodeStates, Inboxes
<1>13. life \notin Up
  BY DEF Up, Live, Down
<1>14. Wired(T)
  <2>0. (LifeOf(T, p) \in Up) = FALSE
    BY <1>11, <1>13
  <2>1. Sock(T, p) = (LifeOf(T, p) \in Up)
    BY <1>11, <2>0
  <2>2. \A q \in Peers : Sock(T, q) = (LifeOf(T, q) \in Up)
    BY <1>4, <1>12, <2>1 DEF Wired
  <2>3. \A q \in Peers : ~Sock(T, q) => T.inbox[q] = <<>>
    BY <1>4, <1>11, <1>12 DEF Wired
  <2> QED
    BY <2>2, <2>3 DEF Wired
<1>15. ~Sock(T, p)
  BY <1>11
<1> QED
  BY <1>9, <1>10, <1>11, <1>12, <1>14, <1>15 DEF Good

\* soft_ban_peer
LEMMA SoftBanJudges ==
    ASSUME NEW S \in Good, NEW p \in Peers
    PROVE  Judges(S, SoftBan(S, p), p) /\ LifeOf(SoftBan(S, p), p) = "banned"
<1>1. PICK T : T = Close(S, p, "banned")
  OBVIOUS
<1>2. "banned" \in Down
  BY DEF Down
<1>3. /\ T \in Good /\ SameBlocks(S, T) /\ LifeOf(T, p) = "banned"
      /\ \A q \in Peers \ {p} : LifeOf(T, q) = LifeOf(S, q) /\ Sock(T, q) = Sock(S, q)
  BY <1>1, <1>2, CloseState
<1>4. SoftBan(S, p) = T
  BY <1>1 DEF SoftBan
<1> QED
  BY <1>3, <1>4 DEF Judges, KeepsPeer

\* record_packet_result; a good packet bans nobody.
LEMMA RecordPacketJudges ==
    ASSUME NEW S \in Good, NEW p \in Peers, NEW good \in BOOLEAN
    PROVE  /\ Judges(S, RecordPacket(S, p, good), p)
           /\ good => Talks(S, RecordPacket(S, p, good))
<1>1. PICK k : k = IF good THEN 0 ELSE S.net.peer[p].strikes + 1
  OBVIOUS
<1>2. PICK r : r = [S.net.peer[p] EXCEPT !.strikes = k]
  OBVIOUS
<1>3. PICK T : T = WithPeer(S, p, r)
  OBVIOUS
<1>4. S \in NodeStates
  BY DEF Good
<1>5. S.net.peer[p] \in PeerRecords
  BY <1>4, StateParts
<1>6. k \in Nat /\ (good => k = 0)
  BY <1>1, <1>5 DEF PeerRecords
<1>7. r \in PeerRecords /\ r.sock = Sock(S, p) /\ r.life = LifeOf(S, p)
  BY <1>2, <1>5, <1>6 DEF PeerRecords, Sock, LifeOf
<1>8. r.sock => r.life \in Up
  BY <1>7 DEF Good, Wired
<1>9. Talks(S, T)
  BY <1>3, <1>7, <1>8, PeerTalks
<1>10. T \in Good /\ Judges(S, T, p)
  BY <1>9, TalksJudges DEF Talks
<1>11. Judges(T, SoftBan(T, p), p)
  BY <1>10, SoftBanJudges
<1>12. T = [S EXCEPT !.net.peer[p].strikes = k]
  BY <1>2, <1>3 DEF WithPeer
<1>13. RecordPacket(S, p, good) = IF k >= StrikeLimit THEN SoftBan(T, p) ELSE T
  BY <1>1, <1>12, Zenon DEF RecordPacket
<1>14. CASE k >= StrikeLimit
  <2>1. ~good
    BY <1>6, <1>14, PeerLimits
  <2>2. Judges(S, SoftBan(T, p), p)
    BY <1>10, <1>11, JudgesTransitive
  <2> QED
    BY <1>13, <1>14, <2>1, <2>2
<1>15. CASE ~(k >= StrikeLimit)
  BY <1>9, <1>10, <1>13, <1>15
<1> QED
  BY <1>14, <1>15

\* transition_to_forward and its opposite.
LEMMA ToForwardTalks == ASSUME NEW S \in Good PROVE Talks(S, ToForward(S))
<1>1. S \in NodeStates /\ Wired(S)
  BY DEF Good
<1>2. S.net \in NetStates
  BY <1>1, StateParts
<1>3. PICK n : n = [S.net EXCEPT !.catchup = FALSE]
  OBVIOUS
<1>4. n \in NetStates /\ n.peer = S.net.peer /\ n.queue = S.net.queue
  BY <1>2, <1>3 DEF NetStates
<1>5. PICK T : T = WithNet(S, n)
  OBVIOUS
<1>6. Talks(S, T)
  BY <1>4, <1>5, NetTalks
<1>7. T = [S EXCEPT !.net.catchup = FALSE]
  BY <1>3, <1>5 DEF WithNet
<1>8. CASE S.net.status = "FORWARD"
  <2>1. ToForward(S) = T
    BY <1>7, <1>8 DEF ToForward
  <2> QED
    BY <1>6, <2>1
<1>9. CASE S.net.status # "FORWARD"
  <2> DEFINE peers == [p \in Peers |-> Realigned(S, p)]
  <2>2. ASSUME NEW p \in Peers
        PROVE  /\ Realigned(S, p) \in PeerRecords /\ Realigned(S, p).sock = Sock(S, p)
               /\ Realigned(S, p).life = IF LifeOf(S, p) = "syncing" THEN "active" ELSE LifeOf(S, p)
    <3>1. PICK a : a = S.net.peer[p]
      OBVIOUS
    <3>2. a \in PeerRecords
      BY <1>1, <3>1, StateParts
    <3>3. PICK b : b = IF a.life = "syncing" THEN "active" ELSE a.life
      OBVIOUS
    <3>4. b \in Up \cup Down
      BY <3>2, <3>3 DEF PeerRecords, Up, Live
    <3>5. PICK e : e = (a.exchange \/ (b = "active" /\ a.head > 0
                                       /\ Known(S, Block(p, a.head_id))))
      OBVIOUS
    <3>6. e \in BOOLEAN
      BY <3>5
    <3>7. Realigned(S, p) = [a EXCEPT !.life = b, !.exchange = e]
      BY <3>1, <3>2, <3>3, <3>5 DEF PeerRecords, Realigned
    <3>8. PICK r : r = [a EXCEPT !.life = b, !.exchange = e]
      OBVIOUS
    <3>9. r \in PeerRecords /\ r.sock = a.sock /\ r.life = b
      BY <3>2, <3>4, <3>6, <3>8 DEF PeerRecords
    <3> QED
      BY <3>1, <3>3, <3>7, <3>8, <3>9 DEF Sock, LifeOf
  <2>3. PICK P : P = peers
    OBVIOUS
  <2>4. DOMAIN P = Peers /\ P = [p \in Peers |-> P[p]]
        /\ \A p \in Peers : P[p] = Realigned(S, p)
    BY <2>3
  <2> HIDE DEF peers
  <2>5. P \in [Peers -> PeerRecords]
    BY <2>2, <2>4
  <2>6. PICK m : m = [S.net EXCEPT !.catchup = FALSE, !.status = "FORWARD", !.retries = 0, !.peer = P]
    OBVIOUS
  <2>8. 0 \in 0..RetryLimit
    BY PeerLimits
  <2>9. m \in NetStates /\ m.peer = P /\ m.queue = S.net.queue
    BY <1>2, <2>5, <2>6, <2>8 DEF NetStates
  <2>10. PICK V : V = WithNet(S, m)
    OBVIOUS
  <2>11. V \in NodeStates /\ V.net = m /\ V.inbox = S.inbox /\ SameBlocks(S, V)
    BY <1>1, <2>9, <2>10, WithNetState DEF SameBlocks
  <2>12. ToForward(S) = V
    <3>1. [S EXCEPT !.net.catchup = FALSE, !.net.status = "FORWARD", !.net.retries = 0,
                    !.net.peer = P] = [S EXCEPT !.net = m]
      BY <1>1, <1>2, <2>6 DEF NodeStates, NetStates
    <3>2. ToForward(S) = [S EXCEPT !.net.catchup = FALSE, !.net.status = "FORWARD",
                                   !.net.retries = 0, !.net.peer = P]
      BY <1>9, <2>3 DEF ToForward, peers
    <3> QED
      BY <2>10, <3>1, <3>2 DEF WithNet
  <2>13. \A p \in Peers : Sock(V, p) = Sock(S, p)
                          /\ LifeOf(V, p) = IF LifeOf(S, p) = "syncing" THEN "active" ELSE LifeOf(S, p)
    BY <2>2, <2>4, <2>9, <2>11 DEF Sock, LifeOf
  <2>14. ASSUME NEW p \in Peers
         PROVE  /\ Sock(V, p) = (LifeOf(V, p) \in Up) /\ KeepsPeer(S, V, p)
                /\ ~Sock(V, p) => V.inbox[p] = <<>>
    <3>1. Sock(S, p) = (LifeOf(S, p) \in Up) /\ (~Sock(S, p) => S.inbox[p] = <<>>)
      BY <1>1 DEF Wired
    <3>2. (LifeOf(V, p) \in Up) = (LifeOf(S, p) \in Up)
      BY <2>13 DEF Up, Live
    <3>3. ~Sock(S, p) => LifeOf(S, p) # "syncing"
      BY <3>1 DEF Up, Live
    <3> QED
      BY <2>11, <2>13, <3>1, <3>2, <3>3 DEF KeepsPeer
  <2>15. V \in Good
    BY <2>11, <2>14 DEF Good, Wired
  <2> QED
    BY <2>11, <2>12, <2>14, <2>15 DEF Talks
<1> QED
  BY <1>8, <1>9

LEMMA ToSyncTalks == ASSUME NEW S \in Good PROVE Talks(S, ToSync(S))
<1>1. S \in NodeStates
  BY DEF Good
<1>2. S.net \in NetStates
  BY <1>1, StateParts
<1>3. PICK n : n = [S.net EXCEPT !.status = "SYNC", !.retries = 0, !.timed = TRUE]
  OBVIOUS
<1>4. 0 \in 0..RetryLimit
  BY PeerLimits
<1>5. n \in NetStates /\ n.peer = S.net.peer /\ n.queue = S.net.queue
  BY <1>2, <1>3, <1>4 DEF NetStates
<1>6. Talks(S, WithNet(S, n))
  BY <1>5, NetTalks
<1>7. CASE S.net.status = "SYNC"
  <2>1. ToSync(S) = S
    BY <1>7 DEF ToSync
  <2> QED
    BY <2>1, TalksReflexive
<1>8. CASE S.net.status # "SYNC"
  <2>1. [S EXCEPT !.net.status = "SYNC", !.net.retries = 0, !.net.timed = TRUE] = [S EXCEPT !.net = n]
    BY <1>1, <1>2, <1>3 DEF NodeStates, NetStates
  <2>2. ToSync(S) = WithNet(S, n)
    BY <1>8, <2>1 DEF ToSync, WithNet
  <2> QED
    BY <1>6, <2>2
<1> QED
  BY <1>7, <1>8

LEMMA CheckSyncCatchupTalks == ASSUME NEW S \in Good PROVE Talks(S, CheckSyncCatchup(S))
BY ToForwardTalks, TalksReflexive DEF CheckSyncCatchup

----------------------------------------------------------------------------
(* Requests. *)

Tips == tip \in Nat /\ limits \in ScenarioBounds

LEMMA PeerTipIsKnown ==
    ASSUME Tips, NEW p \in Peers
    PROVE  PeerTip(p) \in Int /\ (p \in Honest => PeerTip(p) = tip) /\ Earliest[p] \in Int
BY PeerOrder DEF Tips, PeerTip, ScenarioBounds

\* A log ends at the head of its peer at the latest.
LEMMA LogHeadIsKnown ==
    ASSUME Tips, NEW p \in Peers
    PROVE  LogHead(p) \in Int /\ (p \in Honest => LogHead(p) <= tip)
<1>1. PICK l \in Int : l = PeerTip(p) - Lag
  BY PeerTipIsKnown, PeerLimits
<1>2. LogHead(p) = IF 0 >= l THEN 0 ELSE l
  BY <1>1, MaxOfTwo DEF LogHead
<1> QED
  BY <1>1, <1>2, PeerTipIsKnown, PeerLimits DEF Tips

LEMMA NextAvailableIsInt ==
    ASSUME NEW p, NEW n \in Int PROVE NextAvailable(p, n) \in Int
BY DEF NextAvailable

\* request of a single block.
LEMMA RequestBlockTalks ==
    ASSUME Tips, NEW S \in Good, NEW p \in Peers, NEW n \in Int
    PROVE  Talks(S, RequestBlock(S, p, n))
<1>1. CASE n \in Earliest[p]..PeerTip(p)
  <2>1. PICK m : m = [type |-> "block", first |-> n, next |-> NextAvailable(p, n)]
    OBVIOUS
  <2>2. n <= PeerTip(p)
    BY <1>1, PeerTipIsKnown
  <2>3. p \in Honest => n <= tip
    BY <2>2, PeerTipIsKnown
  <2>4. m \in [type : {"block"}, first : Int, next : Int]
    BY <2>1, NextAvailableIsInt
  <2>5. m \in Messages(p)
    BY <2>1, <2>3, <2>4 DEF Messages
  <2>6. RequestBlock(S, p, n) = Deliver(S, p, m)
    BY <1>1, <2>1 DEF RequestBlock
  <2> QED
    BY <2>5, <2>6, DeliverTalks
<1>2. CASE n \notin Earliest[p]..PeerTip(p)
  <2>1. RequestBlock(S, p, n) = S
    BY <1>2 DEF RequestBlock
  <2> QED
    BY <2>1, TalksReflexive
<1> QED
  BY <1>1, <1>2

LEMMA RangeReplyIsMessage ==
    ASSUME Tips, NEW p \in Peers, NEW from \in Int, NEW to \in Int
    PROVE  RangeReply(p, from, to) \in Messages(p)
<1>1. PICK a : a = Max({from, Earliest[p]})
  OBVIOUS
<1>2. PICK z : z = Min({to, LogHead(p)})
  OBVIOUS
<1>3. a \in Int
  BY <1>1, MaxOfTwo, PeerTipIsKnown
<1>4. z \in Int /\ z <= LogHead(p)
  BY <1>2, MinOfTwo, LogHeadIsKnown
<1>5. p \in Honest => z <= tip
  BY <1>4, LogHeadIsKnown DEF Tips
<1>10. PICK k \in Int : k = IF a <= z THEN NextAvailable(p, z) ELSE 0
  BY <1>4, NextAvailableIsInt
<1>6. PICK m : m = [type |-> "range", first |-> a, end |-> z, next |-> k]
  OBVIOUS
<1>7. m \in [type : {"range", "gap"}, first : Int, end : Int, next : Int]
  BY <1>3, <1>4, <1>6
<1>8. m \in Messages(p)
  BY <1>5, <1>6, <1>7 DEF Messages
<1>9. RangeReply(p, from, to) = m
  BY <1>1, <1>2, <1>6, <1>10 DEF RangeReply
<1> QED
  BY <1>8, <1>9

LEMMA LibIsNat ==
    ASSUME NEW S \in NodeStates PROVE Lib(S) \in Nat
BY PeerLimits DEF Lib, NodeStates

LEMMA RangeStartIsInt ==
    ASSUME NEW S \in NodeStates, NEW p \in Peers PROVE RangeStart(S, p) \in Int
BY LibIsNat DEF RangeStart, NodeStates

LEMMA SendRangeRequestTalks ==
    ASSUME Tips, NEW S \in Good, NEW p \in Peers, Sock(S, p)
    PROVE  Talks(S, SendRangeRequest(S, p))
<1>1. S \in NodeStates
  BY DEF Good
<1>2. PICK r : r = S.net.peer[p]
  OBVIOUS
<1>3. r \in PeerRecords /\ r.sock
  BY <1>1, <1>2, StateParts DEF Sock
<1>4. PICK a : a = Max({RangeStart(S, p), r.earliest})
  OBVIOUS
<1>5. a \in Int
  BY <1>1, <1>3, <1>4, RangeStartIsInt, MaxOfTwo DEF PeerRecords
<1>6. PICK z : z = Min({a + RangeSize - 1, r.head})
  OBVIOUS
<1>7. z \in Int
  <2>1. a + RangeSize - 1 \in Int /\ r.head \in Int
    BY <1>3, <1>5, PeerLimits DEF PeerRecords
  <2> QED
    BY <1>6, <2>1, MinOfTwo
<1>8. PICK T : T = WithPeer(S, p, [r EXCEPT !.life = "syncing"])
  OBVIOUS
<1>9. Talks(S, T)
  <2>1. PICK u : u = [r EXCEPT !.life = "syncing"]
    OBVIOUS
  <2>2. u \in PeerRecords /\ u.life = "syncing" /\ u.sock = Sock(S, p) /\ u.sock
    BY <1>2, <1>3, <2>1 DEF PeerRecords, Up, Live, Sock
  <2>3. u.life \in Up
    BY <2>2 DEF Up, Live
  <2> QED
    BY <1>8, <2>1, <2>2, <2>3, PeerTalks
<1>10. T = [S EXCEPT !.net.peer[p].life = "syncing"]
  BY <1>2, <1>8 DEF WithPeer
<1>11. SendRangeRequest(S, p) = IF a > r.head THEN S ELSE Deliver(T, p, RangeReply(p, a, z))
  BY <1>2, <1>4, <1>6, <1>10 DEF SendRangeRequest
<1>12. T \in Good
  BY <1>9 DEF Talks
<1>13. Talks(T, Deliver(T, p, RangeReply(p, a, z)))
  BY <1>5, <1>7, <1>12, RangeReplyIsMessage, DeliverTalks
<1> QED
  BY <1>9, <1>11, <1>13, TalksReflexive, TalksTransitive

\* The peer that is asked is up.
LEMMA BridgeIsUp ==
    ASSUME NEW S \in Good, NEW p \in Peers, Sock(S, p)
    PROVE  Bridge(S, p) \in Peers /\ Sock(S, Bridge(S, p))
<1>1. CASE NeedsBridge(S, p) /\ Bridges(S, p) # {}
  <2>1. PICK I : I = {i \in DOMAIN Order : Order[i] \in Bridges(S, p)}
    OBVIOUS
  <2>2. I \subseteq Nat
    BY <2>1, PeerOrder
  <2>3. I # {}
    <3>1. PICK q \in Peers : q \in Bridges(S, p)
      BY <1>1 DEF Bridges
    <3> QED
      BY <2>1, <3>1, PeerOrder
  <2>4. PICK i \in I : \A j \in I : i <= j
    BY <2>2, <2>3, LeastExists
  <2>5. Min(I) \in I
    BY <2>2, <2>4 DEF Min
  <2>6. Bridge(S, p) = Order[Min(I)]
    BY <1>1, <2>1 DEF Bridge
  <2>7. Bridge(S, p) \in Bridges(S, p)
    BY <2>1, <2>5, <2>6
  <2>8. Bridge(S, p) \in Peers /\ LifeOf(S, Bridge(S, p)) \in Live
    BY <2>7 DEF Bridges, LifeOf
  <2> QED
    BY <2>8 DEF Good, Wired, Up
<1>2. CASE ~(NeedsBridge(S, p) /\ Bridges(S, p) # {})
  <2>1. Bridge(S, p) = p
    BY <1>2 DEF Bridge
  <2> QED
    BY <2>1
<1> QED
  BY <1>1, <1>2

LEMMA AskPeerTalks ==
    ASSUME Tips, NEW S \in Good, NEW p \in Peers, Sock(S, p)
    PROVE  Talks(S, AskPeer(S, p))
<1>1. PICK b : b = Bridge(S, p)
  OBVIOUS
<1>2. b \in Peers /\ Sock(S, b)
  BY <1>1, BridgeIsUp
<1>3. PICK c : c = Bridge(S, b)
  OBVIOUS
<1>4. c \in Peers /\ Sock(S, c)
  BY <1>2, <1>3, BridgeIsUp
<1>5. Talks(S, SendRangeRequest(S, c))
  BY <1>4, SendRangeRequestTalks
<1>6. CASE S.head < S.net.peer[p].head
  <2> DEFINE request(q) == SendRangeRequest(S, q)
             second(q) == With(Bridge(S, q), request)
  <2>1. AskPeer(S, p) = With(b, second)
    BY <1>1, <1>6 DEF AskPeer
  <2>2. With(b, second) = second(b)
    BY Zenon DEF With
  <2>3. second(b) = SendRangeRequest(S, c)
    BY <1>3, Zenon DEF With
  <2> QED
    BY <1>5, <2>1, <2>2, <2>3
<1>7. CASE ~(S.head < S.net.peer[p].head)
  BY <1>7, ToForwardTalks, TalksReflexive DEF AskPeer
<1> QED
  BY <1>6, <1>7

\* request_blocks_from_peer
LEMMA RequestBlocksTalks ==
    ASSUME Tips, NEW S \in Good, NEW p \in Peers, Sock(S, p)
    PROVE  Talks(S, RequestBlocks(S, p))
<1>1. RequestBlocks(S, p) = AskPeer(S, p)
  BY Zenon DEF RequestBlocks, With
<1> QED
  BY <1>1, AskPeerTalks

\* The loop over the peers.
LEMMA AskIfTalks ==
    ASSUME Tips, NEW S \in Good, NEW p \in Peers, NEW ahead \in BOOLEAN
    PROVE  Talks(S, AskIf(S, p, ahead))
<1>1. CASE LifeOf(S, p) \in Live
  <2>1. Sock(S, p)
    BY <1>1 DEF Good, Wired, Up
  <2>2. Talks(S, RequestBlocks(S, p))
    BY <2>1, RequestBlocksTalks
  <2> QED
    BY <2>2, TalksReflexive DEF AskIf
<1>2. CASE LifeOf(S, p) \notin Live
  <2>1. AskIf(S, p, ahead) = S
    BY <1>2 DEF AskIf, LifeOf, Live
  <2> QED
    BY <2>1, TalksReflexive
<1> QED
  BY <1>1, <1>2

IsRound(g, S, ahead) ==
    g = [s \in SUBSET DOMAIN Order |->
            IF s = {} THEN S
            ELSE LET i == Max(s) IN AskIf(g[s \ {i}], Order[i], ahead)]

LEMMA RequestFromDef ==
    ASSUME NEW S, NEW ahead
    PROVE  RequestFrom(S, ahead) = (CHOOSE g : IsRound(g, S, ahead))[DOMAIN Order]
BY DEF RequestFrom, FoldLeft, MapThenFoldSet, IsRound

LEMMA RequestFromTalks ==
    ASSUME Tips, NEW S \in Good, NEW ahead \in BOOLEAN
    PROVE  Talks(S, RequestFrom(S, ahead))
<1>1. PICK D : D = DOMAIN Order
  OBVIOUS
<1>2. PICK n \in Nat : D = 1..n
  BY <1>1, PeerOrder
<1>3. IsFiniteSet(D) /\ D \subseteq Nat
  BY <1>2, FS_Interval
<1>4. \A i \in D : Order[i] \in Peers
  BY <1>1, PeerOrder
<1>5. PICK c : c = [s \in SUBSET D |-> Max(s)]
  OBVIOUS
<1>6. ASSUME NEW s \in SUBSET D, s # {} PROVE c[s] \in s
  <2>1. \E m \in s : \A k \in s : k <= m
    <3>1. s \subseteq Nat /\ \A k \in s : k <= n
      BY <1>2
    <3> QED
      BY <1>6, <3>1, GreatestExists
  <2>2. \E m \in s : \A k \in s : m >= k
    BY <1>3, <2>1
  <2>3. Max(s) \in s
    BY <2>2 DEF Max
  <2> QED
    BY <1>5, <2>3
<1>7. Picks(c, D)
  BY <1>6 DEF Picks
<1>8. PICK L : L = {T \in Good : Talks(S, T)}
  OBVIOUS
<1>9. S \in L
  BY <1>8, TalksReflexive
<1>10. PICK f : f = [q \in D \X L |-> AskIf(q[2], Order[q[1]], ahead)]
  OBVIOUS
<1>11. ASSUME NEW i \in D, NEW T \in L
       PROVE  f[i, T] = AskIf(T, Order[i], ahead) /\ f[i, T] \in L
  <2>1. T \in Good /\ Talks(S, T)
    BY <1>8
  <2>2. Talks(T, AskIf(T, Order[i], ahead))
    BY <1>4, <2>1, AskIfTalks
  <2>3. Talks(S, AskIf(T, Order[i], ahead)) /\ AskIf(T, Order[i], ahead) \in Good
    BY <2>1, <2>2, TalksTransitive DEF Talks
  <2> QED
    BY <1>8, <1>10, <2>3
<1>12. PICK R : R = (SUBSET D) \X L
  OBVIOUS
<1>13. Kept(R, f, D, L)
  BY <1>11, <1>12 DEF Kept
<1>14. <<{}, S>> \in R /\ R \subseteq (SUBSET D) \X L
  BY <1>9, <1>12
<1>15. PICK g : IsFoldBy(g, c, f, S, D)
  BY <1>3, <1>7, FoldByExists
<1>16. \A s \in SUBSET D : g[s] \in L
  <2>1. Follows(g, f, S, D, L)
    BY <1>7, <1>15, FoldByFollows
  <2>2. \A s \in SUBSET D : <<s, g[s]>> \in R
    BY <1>3, <1>13, <1>14, <2>1, FoldReaches
  <2> QED
    BY <1>12, <2>2
<1>17. ASSUME NEW s \in SUBSET D, s # {}
       PROVE  f[c[s], g[s \ {c[s]}]] = LET i == Max(s) IN AskIf(g[s \ {i}], Order[i], ahead)
  <2>1. PICK i : i = Max(s)
    OBVIOUS
  <2>2. c[s] = i /\ i \in s
    BY <1>5, <1>6, <1>17, <2>1
  <2>3. g[s \ {i}] \in L
    BY <1>16
  <2>4. f[i, g[s \ {i}]] = AskIf(g[s \ {i}], Order[i], ahead)
    BY <1>11, <2>2, <2>3
  <2> QED
    BY <2>1, <2>2, <2>4
<1>18. IsRound(g, S, ahead)
  BY <1>1, <1>15, <1>17 DEF IsFoldBy, IsRound
<1>19. PICK h : h = CHOOSE e : IsRound(e, S, ahead)
  OBVIOUS
<1>20. IsRound(h, S, ahead)
  BY <1>18, <1>19
<1>21. h[{}] = S
  BY <1>20 DEF IsRound
<1>22. ASSUME NEW s \in SUBSET D, s # {}
       PROVE  \E i \in s : h[s \ {i}] \in L => h[s] = f[i, h[s \ {i}]]
  <2>1. PICK i : i = Max(s)
    OBVIOUS
  <2>2. i \in s /\ i \in D
    BY <1>5, <1>6, <1>22, <2>1
  <2>3. h[s] = AskIf(h[s \ {i}], Order[i], ahead)
    BY <1>1, <1>20, <1>22, <2>1 DEF IsRound
  <2> QED
    BY <1>11, <2>2, <2>3
<1>23. Follows(h, f, S, D, L)
  BY <1>21, <1>22 DEF Follows
<1>24. <<D, h[D]>> \in R
  BY <1>3, <1>13, <1>14, <1>23, FoldReaches
<1>25. RequestFrom(S, ahead) \in L
  BY <1>1, <1>12, <1>19, <1>24, RequestFromDef
<1> QED
  BY <1>8, <1>25

----------------------------------------------------------------------------
(* What a handler does with the result for a block, and at its end. *)

Works ==
    [kind : {"idle", "range", "gap", "block", "drain"}, todo : Seq(Blocks),
     applied : BOOLEAN, fork : BOOLEAN, next : Int, timed : BOOLEAN]

Handlers == {"range", "gap", "block"}

\* The handler that a fiber is in; a block alone is all of its message.
Jobs(f) ==
    {w \in Works : /\ (w.kind = "idle") = (w = Idle) /\ (w.todo = <<>>) = (w = Idle)
                   /\ w.timed => w.kind = "range"
                   /\ f \in Peers => w.kind \in Handlers \cup {"idle"}
                   /\ f \in Drains => w.kind \in {"drain", "idle"}
                   /\ w.kind = "block" => Len(w.todo) = 1}

\* Only the handler of a range goes on when its peer is banned meanwhile.
Attached(S, p, w) == Sock(S, p) \/ (LifeOf(S, p) = "banned" /\ w.kind = "range")

LEMMA TalksKeepsSock ==
    ASSUME NEW S, NEW T, NEW p \in Peers, Talks(S, T), Sock(S, p) PROVE Sock(T, p)
BY DEF Talks, KeepsPeer

LEMMA JudgesKeepsRange ==
    ASSUME NEW S, NEW T, NEW p \in Peers, Judges(S, T, p), NEW w, Attached(S, p, w),
           w.kind = "range"
    PROVE  Attached(T, p, w)
BY DEF Judges, KeepsPeer, Attached

LEMMA TalksKeepsAttached ==
    ASSUME NEW S, NEW T, NEW p \in Peers, Talks(S, T), NEW w, Attached(S, p, w)
    PROVE  Attached(T, p, w)
BY DEF Talks, KeepsPeer, Attached

\* A change of a peer's record that is not about its connection.
LEMMA NoteTalks ==
    ASSUME NEW S \in Good, NEW p \in Peers, NEW r \in PeerRecords,
           r.sock = Sock(S, p), r.life = LifeOf(S, p)
    PROVE  Talks(S, WithPeer(S, p, r))
<1>1. r.sock => r.life \in Up
  BY DEF Good, Wired
<1> QED
  BY <1>1, PeerTalks

LEMMA AppliedTalks ==
    ASSUME NEW S \in Good, NEW f PROVE Talks(S, Applied(S, f))
<1>1. S \in NodeStates
  BY DEF Good
<1>2. PICK n : n = [S.net EXCEPT !.timed = TRUE]
  OBVIOUS
<1>3. n \in NetStates /\ n.peer = S.net.peer /\ n.queue = S.net.queue
  BY <1>1, <1>2, StateParts DEF NetStates
<1>4. PICK T : T = WithNet(S, n)
  OBVIOUS
<1>5. Talks(S, T) /\ T \in Good /\ T \in NodeStates
  BY <1>3, <1>4, NetTalks DEF Talks, Good
<1>6. T = [S EXCEPT !.net.timed = TRUE]
  BY <1>2, <1>4 DEF WithNet
<1>7. CASE f \in Peers
  <2>1. PICK r : r = [T.net.peer[f] EXCEPT !.exchange = TRUE]
    OBVIOUS
  <2>2. T.net.peer[f] \in PeerRecords
    BY <1>5, <1>7, StateParts
  <2>3. r \in PeerRecords /\ r.sock = Sock(T, f) /\ r.life = LifeOf(T, f)
    BY <2>1, <2>2 DEF PeerRecords, Sock, LifeOf
  <2>4. Talks(T, WithPeer(T, f, r))
    BY <1>5, <1>7, <2>3, NoteTalks
  <2>5. Applied(S, f) = WithPeer(T, f, r)
    BY <1>6, <1>7, <2>1 DEF Applied, WithPeer
  <2> QED
    BY <1>5, <2>4, <2>5, TalksTransitive
<1>8. CASE f \notin Peers
  BY <1>5, <1>6, <1>8 DEF Applied
<1> QED
  BY <1>7, <1>8

LEMMA LosingForkTalks ==
    ASSUME Tips, NEW S \in Good, NEW p \in Peers, Sock(S, p)
    PROVE  Talks(S, LosingFork(S, p))
<1>1. S \in NodeStates
  BY DEF Good
<1>2. PICK n : n = [S.net EXCEPT !.override = Lib(S)]
  OBVIOUS
<1>3. Lib(S) \in Int
  BY <1>1, LibIsNat
<1>4. n \in NetStates /\ n.peer = S.net.peer /\ n.queue = S.net.queue
  BY <1>1, <1>2, <1>3, StateParts DEF NetStates
<1>5. PICK T : T = IF Lib(S) \in 1..(S.head - 1) THEN WithNet(S, n) ELSE S
  OBVIOUS
<1>6. Talks(S, T)
  BY <1>4, <1>5, NetTalks, TalksReflexive
<1>7. PICK U : U = ToSync(T)
  OBVIOUS
<1>8. Talks(S, U) /\ U \in Good /\ Sock(U, p)
  <2>1. T \in Good
    BY <1>6 DEF Talks
  <2>2. Talks(S, U)
    BY <1>6, <1>7, <2>1, ToSyncTalks, TalksTransitive
  <2> QED
    BY <2>2, TalksKeepsSock DEF Talks
<1>9. Talks(U, RequestBlocks(U, p))
  BY <1>8, RequestBlocksTalks
<1>10. LosingFork(S, p) = RequestBlocks(U, p)
  BY <1>2, <1>5, <1>7 DEF LosingFork, WithNet
<1> QED
  BY <1>8, <1>9, <1>10, TalksTransitive

LEMMA BlockTakenTalks ==
    ASSUME Tips, NEW S \in Good, NEW p \in Peers, NEW next \in Int
    PROVE  Talks(S, BlockTaken(S, p, next))
<1>1. PICK T : T = RecordPacket(S, p, TRUE)
  OBVIOUS
<1>2. Talks(S, T)
  BY <1>1, RecordPacketJudges
<1>3. T \in Good /\ T \in NodeStates
  BY <1>2 DEF Talks, Good
<1>4. Talks(T, RequestBlock(T, p, next))
  BY <1>3, RequestBlockTalks
<1>5. PICK r : r = [T.net.peer[p] EXCEPT !.fallback = FALSE]
  OBVIOUS
<1>6. T.net.peer[p] \in PeerRecords
  BY <1>3, StateParts
<1>7. r \in PeerRecords /\ r.sock = Sock(T, p) /\ r.life = LifeOf(T, p)
  BY <1>5, <1>6 DEF PeerRecords, Sock, LifeOf
<1>8. PICK U : U = WithPeer(T, p, r)
  OBVIOUS
<1>9. Talks(T, U) /\ U \in Good
  BY <1>3, <1>7, <1>8, NoteTalks DEF Talks
<1>10. Talks(T, CheckSyncCatchup(U))
  BY <1>9, CheckSyncCatchupTalks, TalksTransitive
<1>11. U = [T EXCEPT !.net.peer[p].fallback = FALSE]
  BY <1>5, <1>8 DEF WithPeer
<1>12. BlockTaken(S, p, next) \in {T, RequestBlock(T, p, next), CheckSyncCatchup(U)}
  BY <1>1, <1>11 DEF BlockTaken
<1> QED
  BY <1>2, <1>4, <1>10, <1>12, TalksTransitive

Outcomes == {"dead", "fork", "known", "accepted", "resize", "rejected"}

\* What a reader makes of the result: it may ban its peer, and when it goes on with
\* the blocks of a gap, it did not.
LEMMA ReactionJudges ==
    ASSUME Tips, NEW S \in Good, NEW p \in Peers, NEW w \in Works, w.kind \in Handlers,
           Attached(S, p, w), NEW result \in Outcomes
    PROVE  /\ Judges(S, Reaction(S, p, w, result), p)
           /\ result # "dead" /\ w.kind # "block" => Attached(Reaction(S, p, w, result), p, w)
<1>1. w.next \in Int
  BY DEF Works
<1>2. CASE w.kind = "block"
  <2>1. CASE result = "accepted"
    <3>1. Talks(S, Applied(S, p)) /\ Applied(S, p) \in Good
      BY AppliedTalks DEF Talks
    <3>2. PICK T : T = CheckSyncCatchup(Applied(S, p))
      OBVIOUS
    <3>3. Talks(S, T) /\ T \in Good
      BY <3>1, <3>2, CheckSyncCatchupTalks, TalksTransitive DEF Talks
    <3>4. Talks(S, BlockTaken(T, p, w.next))
      BY <1>1, <3>3, BlockTakenTalks, TalksTransitive
    <3>5. Reaction(S, p, w, result) = BlockTaken(T, p, w.next)
      BY <1>2, <2>1, <3>2 DEF Reaction
    <3> QED
      BY <1>2, <3>4, <3>5, TalksJudges
  <2>2. CASE result \in {"known", "fork"}
    <3>1. Reaction(S, p, w, result) = BlockTaken(S, p, w.next)
      BY <1>2, <2>2 DEF Reaction
    <3> QED
      BY <1>1, <1>2, <3>1, BlockTakenTalks, TalksJudges
  <2>3. CASE result = "dead"
    <3>1. Reaction(S, p, w, result) = SoftBan(S, p)
      BY <1>2, <2>3 DEF Reaction
    <3> QED
      BY <1>2, <3>1, SoftBanJudges
  <2>4. CASE result \in {"resize", "rejected"}
    <3>1. Reaction(S, p, w, result) = RecordPacket(S, p, result = "resize")
      BY <1>2, <2>4 DEF Reaction
    <3> QED
      BY <1>2, <3>1, RecordPacketJudges
  <2> QED
    BY <2>1, <2>2, <2>3, <2>4 DEF Outcomes
<1>3. CASE w.kind # "block"
  <2>1. CASE result = "accepted"
    <3>1. Reaction(S, p, w, result) = Applied(S, p)
      BY <1>3, <2>1 DEF Reaction
    <3> QED
      BY <3>1, AppliedTalks, TalksJudges, TalksKeepsAttached
  <2>2. CASE result = "dead"
    <3>1. CASE w.kind = "gap" /\ S.net.peer[p].head > S.head
      <4>1. Sock(S, p)
        BY <3>1 DEF Attached
      <4>2. Reaction(S, p, w, result) = LosingFork(S, p)
        BY <1>3, <2>2, <3>1 DEF Reaction
      <4> QED
        BY <2>2, <4>1, <4>2, LosingForkTalks, TalksJudges
    <3>2. CASE ~(w.kind = "gap" /\ S.net.peer[p].head > S.head)
      <4>1. Reaction(S, p, w, result) = SoftBan(S, p)
        BY <1>3, <2>2, <3>2 DEF Reaction
      <4> QED
        BY <2>2, <4>1, SoftBanJudges
    <3> QED
      BY <3>1, <3>2
  <2>3. CASE result = "resize"
    <3>1. Reaction(S, p, w, result) = RecordPacket(S, p, TRUE)
      BY <1>3, <2>3 DEF Reaction
    <3> QED
      BY <3>1, RecordPacketJudges, TalksJudges, TalksKeepsAttached
  <2>4. CASE result \in {"known", "fork", "rejected"}
    <3>1. Reaction(S, p, w, result) = S
      BY <1>3, <2>4 DEF Reaction
    <3> QED
      BY <3>1, TalksReflexive, TalksJudges
  <2> QED
    BY <2>1, <2>2, <2>3, <2>4 DEF Outcomes
<1> QED
  BY <1>2, <1>3

LEMMA DrainReacts ==
    ASSUME NEW S \in Good, NEW f \in Drains, NEW w, w.kind = "drain", NEW result
    PROVE  Talks(S, Reaction(S, f, w, result))
<1>1. f \notin Peers
  BY PeersAreNoDrains
<1>2. Reaction(S, f, w, result) = IF result = "accepted" THEN Applied(S, f) ELSE S
  BY <1>1 DEF Reaction
<1> QED
  BY <1>2, AppliedTalks, TalksReflexive

\* The end of the loops.
LEMMA EndRangeJudges ==
    ASSUME Tips, NEW S \in Good, NEW p \in Peers, NEW w \in Works, Attached(S, p, w)
    PROVE  Judges(S, EndRange(S, p, w), p)
<1>1. PICK good : good = (w.applied \/ w.fork)
  OBVIOUS
<1>2. good \in BOOLEAN
  BY <1>1
<1>3. PICK T : T = RecordPacket(S, p, good)
  OBVIOUS
<1>4. Judges(S, T, p) /\ (good => Talks(S, T))
  BY <1>2, <1>3, RecordPacketJudges
<1>5. T \in Good /\ T \in NodeStates
  BY <1>4 DEF Judges, Good
<1>6. PICK r : r = [T.net.peer[p] EXCEPT !.fork_only = IF w.applied THEN 0 ELSE @ + 1]
  OBVIOUS
<1>7. T.net.peer[p] \in PeerRecords
  BY <1>5, StateParts
<1>8. r \in PeerRecords /\ r.sock = Sock(T, p) /\ r.life = LifeOf(T, p)
  BY <1>6, <1>7 DEF PeerRecords, Sock, LifeOf
<1>9. PICK U : U = WithPeer(T, p, r)
  OBVIOUS
<1>10. Talks(T, U) /\ U \in Good
  BY <1>5, <1>8, <1>9, NoteTalks DEF Talks
<1>11. U = [T EXCEPT !.net.peer[p].fork_only = IF w.applied THEN 0 ELSE @ + 1]
  BY <1>6, <1>9 DEF WithPeer
<1>12. Judges(S, U, p)
  BY <1>4, <1>10, TalksJudges, JudgesTransitive
<1>13. Judges(S, ToForward(U), p) /\ Judges(S, SoftBan(U, p), p)
  BY <1>10, <1>12, ToForwardTalks, SoftBanJudges, TalksJudges, JudgesTransitive
<1>14. S.net.peer[p].life # "banned" /\ good => Judges(S, RequestBlocks(U, p), p)
  <2> SUFFICES ASSUME S.net.peer[p].life # "banned", good PROVE Judges(S, RequestBlocks(U, p), p)
    OBVIOUS
  <2>1. Sock(S, p)
    BY DEF Attached, LifeOf
  <2>2. Sock(U, p)
    BY <1>4, <1>10, <2>1, TalksKeepsSock
  <2> QED
    BY <1>10, <1>12, <2>2, RequestBlocksTalks, TalksJudges, JudgesTransitive
<1>15. \/ EndRange(S, p, w) \in {S, T, ToForward(U), SoftBan(U, p)}
       \/ EndRange(S, p, w) = RequestBlocks(U, p) /\ S.net.peer[p].life # "banned" /\ good
  BY <1>1, <1>3, <1>11 DEF EndRange
<1>16. Judges(S, S, p)
  BY TalksReflexive, TalksJudges
<1> QED
  BY <1>4, <1>13, <1>14, <1>15, <1>16

\* From S to T a fiber goes through a queue of the pause.
Drained(S, T) ==
    /\ S \in Good /\ T \in Good /\ T.head = S.head /\ T.net.queue \subseteq S.net.queue
    /\ \A p \in Peers : KeepsPeer(S, T, p)

LEMMA TalksDrained == ASSUME NEW S, NEW T, Talks(S, T) PROVE Drained(S, T)
BY DEF Talks, Drained, SameBlocks

LEMMA EndDrainDrained == ASSUME NEW S \in Good PROVE Drained(S, EndDrain(S))
<1>1. S \in NodeStates /\ Wired(S)
  BY DEF Good
<1>2. S.net \in NetStates
  BY <1>1, StateParts
<1>3. PICK e : e = (S.net.catchup /\ AnyAhead(S))
  OBVIOUS
<1>4. e \in BOOLEAN
  BY <1>3
<1>5. PICK n : n = [S.net EXCEPT !.queue = {}, !.catchup = e]
  OBVIOUS
<1>6. n \in NetStates /\ n.peer = S.net.peer /\ n.queue = {}
  BY <1>2, <1>4, <1>5 DEF NetStates
<1>7. PICK T : T = WithNet(S, n)
  OBVIOUS
<1>8. T \in NodeStates /\ T.net = n /\ T.inbox = S.inbox /\ T.head = S.head
  BY <1>1, <1>6, <1>7, WithNetState
<1>9. \A p \in Peers : T.net.peer[p] = S.net.peer[p]
  BY <1>6, <1>8
<1>10. Wired(T) /\ \A p \in Peers : KeepsPeer(S, T, p)
  BY <1>1, <1>8, <1>9 DEF Wired, KeepsPeer, Sock, LifeOf
<1>11. EndDrain(S) = T
  <2>1. EndDrain(S) = [S EXCEPT !.net.queue = {}, !.net.catchup = e]
    BY <1>1, <1>2, <1>3 DEF EndDrain, NodeStates, NetStates
  <2>2. [S EXCEPT !.net.queue = {}, !.net.catchup = e] = [S EXCEPT !.net = n]
    BY <1>1, <1>2, <1>5 DEF NodeStates, NetStates
  <2> QED
    BY <1>7, <2>1, <2>2 DEF WithNet
<1> QED
  BY <1>6, <1>8, <1>10, <1>11 DEF Drained, Good

LEMMA RemainingBlocks ==
    ASSUME NEW S, NEW w, w.todo \in Seq(Blocks), NEW rest \in Remaining(S, w)
    PROVE  /\ rest \in Seq(Blocks)
           /\ w.todo = <<>> => rest = <<>>
           /\ w.kind # "range" => rest \in {<<>>, w.todo}
<1>1. CASE S.net.paused
  BY <1>1 DEF Remaining
<1>2. CASE ~S.net.paused
  <2>1. PICK k \in 1..(Len(w.todo) + 1) :
            rest = SubSeq(w.todo, k, Len(w.todo)) /\ (k = 1 \/ w.kind = "range")
    BY <1>2 DEF Remaining
  <2>2. PICK n \in Nat : n = Len(w.todo)
    OBVIOUS
  <2>3. rest \in Seq(Blocks)
    <3>1. \A j \in k..n : w.todo[j] \in Blocks
      BY <2>2
    <3> QED
      BY <2>1, <2>2, <3>1
  <2>4. w.todo = <<>> => rest = <<>>
    <3> SUFFICES ASSUME w.todo = <<>> PROVE rest = <<>>
      OBVIOUS
    <3>1. n = 0 /\ k = 1
      BY <2>1, <2>2
    <3> QED
      BY <2>1, <2>2, <3>1
  <2>5. k = 1 => rest = w.todo
    BY <2>1, <2>2
  <2> QED
    BY <2>1, <2>3, <2>4, <2>5
<1> QED
  BY <1>1, <1>2

LEMMA IdleJob == ASSUME NEW f \in Fibers PROVE Idle \in Jobs(f)
<1>1. Idle \in Works
  BY DEF Idle, Works
<1>2. Idle.kind = "idle" /\ Idle.todo = <<>> /\ Idle.timed = FALSE
  BY DEF Idle
<1> QED
  BY <1>1, <1>2 DEF Jobs

\* A job with fewer blocks left.
LEMMA RestJob ==
    ASSUME NEW f \in Fibers, NEW w \in Works, w.timed => w.kind = "range",
           f \in Peers => w.kind \in {"range", "gap"}, f \in Drains => w.kind = "drain",
           NEW rest \in Seq(Blocks), rest # <<>>
    PROVE  /\ [w EXCEPT !.todo = rest] \in Jobs(f)
           /\ [w EXCEPT !.todo = rest].kind = w.kind
<1>1. PICK v : v = [w EXCEPT !.todo = rest]
  OBVIOUS
<1>2. v \in Works /\ v.kind = w.kind /\ v.todo = rest /\ v.timed = w.timed
  BY <1>1 DEF Works
<1>3. v.kind \in {"range", "gap", "drain"}
  BY <1>2 DEF Fibers
<1>4. v # Idle /\ v.kind # "idle" /\ v.kind # "block"
  BY <1>3 DEF Idle
<1>5. (v.kind = "idle") = (v = Idle) /\ (v.todo = <<>>) = (v = Idle)
  BY <1>2, <1>4
<1>6. f \in Peers => v.kind \in Handlers
  BY <1>2 DEF Handlers
<1> QED
  BY <1>1, <1>2, <1>4, <1>5, <1>6 DEF Jobs

\* The loop of a reader.
LEMMA ContinueJudges ==
    ASSUME Tips, NEW S \in Good, NEW p \in Peers, NEW w \in Works, w.kind \in Handlers,
           w.timed => w.kind = "range", w.kind = "range" => Attached(S, p, w),
           w.todo # <<>> => Attached(S, p, w) /\ w.kind # "block", Continue(S, p, w)
    PROVE  \E T, v : /\ Becomes(T) /\ Judges(S, T, p) /\ work' = [work EXCEPT ![p] = v]
                     /\ v \in Jobs(p) /\ (v # Idle => Attached(T, p, v))
<1> DEFINE ended == CASE w.kind = "range" -> EndRange(S, p, w)
                      [] w.kind = "gap" -> RecordPacket(S, p, TRUE)
                      [] w.kind = "block" -> S
                      [] w.kind = "drain" -> EndDrain(S)
<1>1. PICK rest \in Remaining(S, w) :
        /\ Becomes(IF rest # <<>> THEN S ELSE ended)
        /\ work' = [work EXCEPT ![p] = IF rest # <<>> THEN [w EXCEPT !.todo = rest] ELSE Idle]
  BY Zenon DEF Continue
<1>2. p \in Fibers
  BY DEF Fibers
<1>3. w.todo \in Seq(Blocks)
  BY DEF Works
<1>4. rest \in Seq(Blocks) /\ (w.todo = <<>> => rest = <<>>)
  BY <1>3, RemainingBlocks
<1>5. CASE rest # <<>>
  <2>1. Attached(S, p, w) /\ w.kind \in {"range", "gap"}
    BY <1>4, <1>5 DEF Handlers
  <2>2. p \notin Drains
    BY PeersAreNoDrains
  <2>3. PICK v : v = [w EXCEPT !.todo = rest]
    OBVIOUS
  <2>4. v \in Jobs(p) /\ v.kind = w.kind
    BY <1>2, <1>4, <1>5, <2>1, <2>2, <2>3, RestJob
  <2>5. Attached(S, p, v)
    BY <2>1, <2>4 DEF Attached
  <2>6. Becomes(S) /\ work' = [work EXCEPT ![p] = v]
    BY <1>1, <1>5, <2>3
  <2>7. Judges(S, S, p)
    BY TalksReflexive, TalksJudges
  <2> QED
    BY <2>4, <2>5, <2>6, <2>7
<1>6. CASE rest = <<>>
  <2>1. Becomes(ended) /\ work' = [work EXCEPT ![p] = Idle]
    BY <1>1, <1>6
  <2>2. Judges(S, ended, p)
    <3>1. CASE w.kind = "range"
      <4>1. ended = EndRange(S, p, w)
        BY <3>1
      <4> QED
        BY <3>1, <4>1, EndRangeJudges
    <3>2. CASE w.kind = "gap"
      <4>1. ended = RecordPacket(S, p, TRUE)
        BY <3>2
      <4> QED
        BY <4>1, RecordPacketJudges
    <3>3. CASE w.kind = "block"
      <4>1. ended = S
        BY <3>3
      <4> QED
        BY <4>1, TalksReflexive, TalksJudges
    <3> HIDE DEF ended
    <3> QED
      BY <3>1, <3>2, <3>3 DEF Handlers
  <2>3. Idle \in Jobs(p)
    BY <1>2, IdleJob
  <2> HIDE DEF ended
  <2> QED
    BY <2>1, <2>2, <2>3
<1> QED
  BY <1>5, <1>6

\* The loop of a drain.
LEMMA ContinueDrains ==
    ASSUME NEW S \in Good, NEW f \in Drains, NEW w \in Works, w.kind = "drain",
           ~w.timed, Continue(S, f, w)
    PROVE  \E T, v : /\ Becomes(T) /\ Drained(S, T) /\ work' = [work EXCEPT ![f] = v]
                     /\ v \in Jobs(f)
<1> DEFINE ended == CASE w.kind = "range" -> EndRange(S, f, w)
                      [] w.kind = "gap" -> RecordPacket(S, f, TRUE)
                      [] w.kind = "block" -> S
                      [] w.kind = "drain" -> EndDrain(S)
<1>1. PICK rest \in Remaining(S, w) :
        /\ Becomes(IF rest # <<>> THEN S ELSE ended)
        /\ work' = [work EXCEPT ![f] = IF rest # <<>> THEN [w EXCEPT !.todo = rest] ELSE Idle]
  BY Zenon DEF Continue
<1>2. f \in Fibers /\ f \notin Peers
  BY PeersAreNoDrains DEF Fibers
<1>3. rest \in Seq(Blocks)
  BY RemainingBlocks DEF Works
<1>4. CASE rest # <<>>
  <2>1. PICK v : v = [w EXCEPT !.todo = rest]
    OBVIOUS
  <2>2. v \in Jobs(f)
    BY <1>2, <1>3, <1>4, <2>1, RestJob
  <2>3. Becomes(S) /\ work' = [work EXCEPT ![f] = v]
    BY <1>1, <1>4, <2>1
  <2> QED
    BY <2>2, <2>3, TalksReflexive, TalksDrained
<1>5. CASE rest = <<>>
  <2>1. Becomes(ended) /\ work' = [work EXCEPT ![f] = Idle]
    BY <1>1, <1>5
  <2>2. ended = EndDrain(S)
    OBVIOUS
  <2> HIDE DEF ended
  <2> QED
    BY <1>2, <2>1, <2>2, EndDrainDrained, IdleJob
<1> QED
  BY <1>4, <1>5

----------------------------------------------------------------------------
(* The inductive invariant. *)

TipsOK == Tips /\ limits \in Scenarios /\ limits.last \in Nat /\ tip <= limits.last

NodeOK(S) ==
    /\ S \in Good /\ Start <= S.head /\ S.head <= tip
    /\ IsFiniteSet(S.net.queue) /\ Cardinality(S.net.queue) <= QueueLimit

WorkOK(S, W) ==
    /\ W \in [Fibers -> Works] /\ \A f \in Fibers : W[f] \in Jobs(f)
    /\ \A p \in Peers : W[p] # Idle => Attached(S, p, W[p])

\* A peer is dialled while it has no connection.
DialOK(S, D) ==
    D \subseteq Peers /\ \A p \in D : LifeOf(S, p) \in {"disconnected", "connecting"}

BusyOK(W, f) == f \in Fibers \cup {NoFiber} /\ (f # NoFiber => W[f] # Idle)

SyncInv ==
    /\ TipsOK /\ NodeOK(State)
    /\ WorkOK(State, work) /\ DialOK(State, dialing) /\ BusyOK(work, busy)

LEMMA StateFields ==
    /\ State.net = net /\ State.inbox = inbox /\ State.head = head /\ State.stored = stored
BY DEF State

LEMMA SameSets ==
    ASSUME tip' = tip
    PROVE  Good' = Good /\ Works' = Works /\ \A f : Jobs(f)' = Jobs(f)
<1>1. Blocks' = Blocks
  BY DEF Blocks
<1>2. NetStates' = NetStates
  BY <1>1 DEF NetStates
<1>3. \A p : Messages(p)' = Messages(p)
  BY DEF Messages
<1>4. AllMessages' = AllMessages
  BY <1>3 DEF AllMessages
<1>5. Inboxes' = Inboxes
  BY <1>3, <1>4 DEF Inboxes
<1>6. NodeStates' = NodeStates
  BY <1>1, <1>2, <1>5 DEF NodeStates
<1>7. Works' = Works
  BY <1>1 DEF Works
<1>8. Good' = Good
  BY <1>6 DEF Good
<1>9. \A f : Jobs(f)' = Jobs(f)
  BY <1>7 DEF Jobs
<1> QED
  BY <1>7, <1>8, <1>9

LEMMA NextState ==
    ASSUME NEW T \in NodeStates, Becomes(T) PROVE State' = T
BY DEF Becomes, State, NodeStates

LEMMA StepOK ==
    ASSUME SyncInv, tip' = tip, limits' = limits,
           NEW T, Becomes(T), NodeOK(T), NEW W, work' = W, WorkOK(T, W),
           NEW D, dialing' = D, DialOK(T, D), NEW b, busy' = b, BusyOK(W, b)
    PROVE  SyncInv'
<1>1. State' = T
  BY NextState DEF NodeOK, Good
<1>2. TipsOK'
  BY DEF SyncInv, TipsOK, Tips
<1>3. NodeOK(State)'
  BY <1>1, SameSets DEF NodeOK
<1>4. WorkOK(State, work)'
  BY <1>1, SameSets DEF WorkOK
<1>5. DialOK(State, dialing)'
  BY <1>1 DEF DialOK
<1>6. BusyOK(work, busy)'
  BY DEF BusyOK
<1> QED
  BY <1>2, <1>3, <1>4, <1>5, <1>6 DEF SyncInv

\* A step of the node in which the handlers stay where they are.
LEMMA JudgeStep ==
    ASSUME SyncInv, NEW p \in Peers, NEW T, Becomes(T), Judges(State, T, p),
           UNCHANGED <<tip, work, busy, dialing, limits>>,
           Talks(State, T) \/ Attached(State, p, work[p]),
           Talks(State, T) \/ work[p] = Idle \/ work[p].kind = "range"
    PROVE  SyncInv'
<1>1. PICK S : S = State
  OBVIOUS
<1>2. /\ S \in Good /\ NodeOK(S) /\ WorkOK(S, work) /\ DialOK(S, dialing) /\ BusyOK(work, busy)
  BY <1>1 DEF SyncInv, NodeOK
<1>3. NodeOK(T)
  BY <1>1, <1>2 DEF Judges, SameBlocks, NodeOK
<1>4. ASSUME NEW q \in Peers, work[q] # Idle PROVE Attached(T, q, work[q])
  <2>1. Attached(S, q, work[q])
    BY <1>2, <1>4 DEF WorkOK
  <2>2. CASE KeepsPeer(S, T, q)
    BY <2>1, <2>2 DEF KeepsPeer, Attached
  <2>3. CASE ~KeepsPeer(S, T, q)
    <3>1. q = p /\ LifeOf(T, q) = "banned" /\ ~Talks(S, T)
      BY <1>1, <2>3 DEF Judges, Talks
    <3>2. work[q].kind = "range"
      BY <1>1, <1>4, <3>1
    <3> QED
      BY <3>1, <3>2 DEF Attached
  <2> QED
    BY <2>2, <2>3
<1>5. WorkOK(T, work)
  BY <1>2, <1>4 DEF WorkOK
<1>6. ASSUME NEW q \in dialing PROVE LifeOf(T, q) = LifeOf(S, q)
  <2>1. q \in Peers /\ LifeOf(S, q) \in {"disconnected", "connecting"}
    BY <1>2 DEF DialOK
  <2>2. ~Sock(S, q)
    BY <1>2, <2>1 DEF Good, Wired, Up, Live
  <2>3. CASE KeepsPeer(S, T, q)
    BY <2>2, <2>3 DEF KeepsPeer
  <2>4. CASE ~KeepsPeer(S, T, q)
    <3>1. q = p /\ ~Talks(S, T)
      BY <1>1, <2>1, <2>4 DEF Judges, Talks
    <3>2. Attached(S, q, work[q])
      BY <1>1, <3>1
    <3> QED
      BY <2>1, <2>2, <3>2 DEF Attached
  <2> QED
    BY <2>3, <2>4
<1>7. DialOK(T, dialing)
  BY <1>2, <1>6 DEF DialOK
<1>8. tip' = tip /\ limits' = limits /\ work' = work /\ dialing' = dialing /\ busy' = busy
  OBVIOUS
<1> QED
  BY <1>2, <1>3, <1>5, <1>7, <1>8, StepOK

LEMMA TalkStep ==
    ASSUME SyncInv, NEW T, Becomes(T), Talks(State, T),
           UNCHANGED <<tip, work, busy, dialing, limits>>
    PROVE  SyncInv'
<1>1. PICK S : S = State
  OBVIOUS
<1>2. /\ S \in Good /\ NodeOK(S) /\ WorkOK(S, work) /\ DialOK(S, dialing) /\ BusyOK(work, busy)
  BY <1>1 DEF SyncInv, NodeOK
<1>3. NodeOK(T)
  BY <1>1, <1>2 DEF Talks, SameBlocks, NodeOK
<1>4. \A q \in Peers : KeepsPeer(S, T, q)
  BY <1>1 DEF Talks
<1>5. WorkOK(T, work)
  BY <1>2, <1>4 DEF WorkOK, KeepsPeer, Attached
<1>6. \A q \in dialing : q \in Peers /\ ~Sock(S, q)
  BY <1>2 DEF DialOK, Good, Wired, Up, Live
<1>7. DialOK(T, dialing)
  BY <1>2, <1>4, <1>6 DEF DialOK, KeepsPeer
<1>8. tip' = tip /\ limits' = limits /\ work' = work /\ dialing' = dialing /\ busy' = busy
  OBVIOUS
<1> QED
  BY <1>2, <1>3, <1>5, <1>7, <1>8, StepOK

----------------------------------------------------------------------------
(* The initial state, and the steps of connections. *)

LEMMA InvFacts ==
    ASSUME SyncInv
    PROVE  /\ State \in Good /\ State \in NodeStates /\ Tips /\ NodeOK(State)
           /\ WorkOK(State, work) /\ DialOK(State, dialing) /\ BusyOK(work, busy)
BY DEF SyncInv, NodeOK, Good, TipsOK

LEMMA NewPeerRecord ==
    NewPeer \in PeerRecords /\ NewPeer.sock = FALSE /\ NewPeer.life = "disconnected"
BY DEF NewPeer, PeerRecords, Down

LEMMA InitSyncInv == Init => SyncInv
<1> SUFFICES ASSUME Init PROVE SyncInv
  OBVIOUS
<1>1. /\ limits \in ScenarioBounds /\ limits \in Scenarios
      /\ Start <= limits.tip /\ limits.tip <= limits.last
  BY PeerConstants DEF Init
<1>2. limits.tip \in Nat /\ limits.last \in Nat /\ Start \in Nat
  BY <1>1, PeerConstants DEF ScenarioBounds
<1>3. TipsOK
  BY <1>1, <1>2 DEF Init, TipsOK, Tips
<1>4. NewPeer \in PeerRecords /\ NewPeer.sock = FALSE /\ NewPeer.life = "disconnected"
  BY NewPeerRecord
<1>5. 0 \in 0..RetryLimit
  BY PeerLimits
<1>6. net.peer \in [Peers -> PeerRecords] /\ \A p \in Peers : net.peer[p] = NewPeer
  BY <1>4 DEF Init
<1>7. net \in NetStates /\ net.queue = {}
  <2>1. /\ net.status = "SYNC" /\ net.retries = 0 /\ net.queue = {}
        /\ net = [status |-> "SYNC", retries |-> 0, timed |-> FALSE, seen |-> 0,
                  gap |-> FALSE, tried |-> FALSE, override |-> 0, catchup |-> FALSE,
                  paused |-> FALSE, resuming |-> FALSE, queue |-> {}, peer |-> net.peer]
    BY DEF Init
  <2>2. PICK P \in [Peers -> PeerRecords] : P = net.peer
    BY <1>6
  <2>3. PICK z : z = 0
    OBVIOUS
  <2>4. z \in Int /\ z \in 0..RetryLimit /\ {} \in SUBSET Blocks
    BY <1>5, <2>3
  <2>5. net = [status |-> "SYNC", retries |-> z, timed |-> FALSE, seen |-> z,
               gap |-> FALSE, tried |-> FALSE, override |-> z, catchup |-> FALSE,
               paused |-> FALSE, resuming |-> FALSE, queue |-> {}, peer |-> P]
    BY <2>1, <2>2, <2>3
  <2>6. net \in NetStates
    BY <2>4, <2>5 DEF NetStates
  <2> QED
    BY <2>1, <2>6
<1>8. inbox \in Inboxes /\ \A p \in Peers : inbox[p] = <<>>
  <2>1. inbox = [p \in Peers |-> <<>>]
    BY DEF Init
  <2>2. <<>> \in Seq(AllMessages) /\ \A p \in Peers : <<>> \in Seq(Messages(p))
    OBVIOUS
  <2> QED
    BY <2>1, <2>2 DEF Inboxes
<1>9. State \in NodeStates
  BY <1>2, <1>7, <1>8 DEF Init, State, NodeStates
<1>10. "disconnected" \notin Up
  BY DEF Up, Live
<1>11. Wired(State)
  <2>1. \A p \in Peers : Sock(State, p) = FALSE /\ LifeOf(State, p) = "disconnected"
    BY <1>4, <1>6, StateFields DEF Sock, LifeOf
  <2>2. \A p \in Peers : (LifeOf(State, p) \in Up) = FALSE
    BY <1>10, <2>1
  <2> QED
    BY <1>8, <2>1, <2>2, StateFields DEF Wired
<1>12. NodeOK(State)
  BY <1>2, <1>7, <1>9, <1>11, <1>1, StateFields, FS_EmptySet, PeerLimits DEF NodeOK, Good, Init
<1>13. WorkOK(State, work)
  <2>1. \A f \in Fibers : work[f] = Idle /\ Idle \in Jobs(f)
    BY IdleJob DEF Init
  <2>2. work \in [Fibers -> Works]
    BY <2>1 DEF Init, Jobs
  <2> QED
    BY <2>1, <2>2 DEF WorkOK, Fibers
<1>14. DialOK(State, dialing) /\ BusyOK(work, busy)
  BY DEF DialOK, BusyOK, Init
<1> QED
  BY <1>3, <1>12, <1>13, <1>14 DEF SyncInv

\* A step that changes one peer, whose reader is idle after it.
LEMMA PeerStep ==
    ASSUME SyncInv, tip' = tip, limits' = limits, NEW p \in Peers,
           NEW T \in Good, Becomes(T), SameBlocks(State, T),
           \A q \in Peers \ {p} : /\ LifeOf(T, q) = LifeOf(State, q)
                                  /\ Sock(T, q) = Sock(State, q),
           work' = [work EXCEPT ![p] = Idle],
           NEW D, dialing' = D, D \subseteq Peers, D \ {p} \subseteq dialing,
           p \in D => LifeOf(T, p) \in {"disconnected", "connecting"},
           busy' \in {busy, NoFiber}, busy = p => busy' = NoFiber
    PROVE  SyncInv'
<1>1. PICK S : S = State
  OBVIOUS
<1>2. NodeOK(S) /\ WorkOK(S, work) /\ DialOK(S, dialing) /\ BusyOK(work, busy)
  BY <1>1, InvFacts
<1>3. NodeOK(T)
  BY <1>1, <1>2 DEF SameBlocks, NodeOK
<1>4. PICK W : W = [work EXCEPT ![p] = Idle]
  OBVIOUS
<1>5. p \in Fibers /\ Idle \in Jobs(p) /\ Idle \in Works
  BY IdleJob DEF Fibers, Jobs
<1>6. /\ W \in [Fibers -> Works] /\ W[p] = Idle
      /\ \A f \in Fibers \ {p} : W[f] = work[f]
  BY <1>2, <1>4, <1>5 DEF WorkOK
<1>7. WorkOK(T, W)
  <2>1. \A f \in Fibers : W[f] \in Jobs(f)
    BY <1>2, <1>5, <1>6 DEF WorkOK
  <2>2. ASSUME NEW q \in Peers, W[q] # Idle PROVE Attached(T, q, W[q])
    <3>1. q \in Peers \ {p} /\ W[q] = work[q]
      BY <1>6, <2>2 DEF Fibers
    <3>2. Attached(S, q, work[q])
      BY <1>2, <2>2, <3>1 DEF WorkOK
    <3> QED
      BY <1>1, <3>1, <3>2 DEF Attached
  <2> QED
    BY <1>6, <2>1, <2>2 DEF WorkOK
<1>8. DialOK(T, D)
  BY <1>1, <1>2 DEF DialOK
<1>9. PICK b : b = busy'
  OBVIOUS
<1>10. BusyOK(W, b)
  BY <1>2, <1>6, <1>9 DEF BusyOK
<1> QED
  BY <1>3, <1>4, <1>7, <1>8, <1>9, <1>10, StepOK

\* The record of a peer that is not handled is changed.
LEMMA RecordState ==
    ASSUME NEW S \in Good, NEW p \in Peers, NEW r \in PeerRecords,
           r.sock = (r.life \in Up), r.sock \/ S.inbox[p] = <<>>
    PROVE  /\ WithPeer(S, p, r) \in Good /\ SameBlocks(S, WithPeer(S, p, r))
           /\ LifeOf(WithPeer(S, p, r), p) = r.life /\ Sock(WithPeer(S, p, r), p) = r.sock
           /\ \A q \in Peers \ {p} : /\ LifeOf(WithPeer(S, p, r), q) = LifeOf(S, q)
                                     /\ Sock(WithPeer(S, p, r), q) = Sock(S, q)
<1>1. PICK T : T = WithPeer(S, p, r)
  OBVIOUS
<1>2. S \in NodeStates /\ Wired(S)
  BY DEF Good
<1>3. /\ T \in NodeStates /\ T.net.peer = [S.net.peer EXCEPT ![p] = r]
      /\ SameBlocks(S, T) /\ T.inbox = S.inbox
  BY <1>1, <1>2, WithPeerState DEF SameBlocks
<1>4. S.net.peer \in [Peers -> PeerRecords]
  BY <1>2, StateParts DEF NetStates
<1>5. T.net.peer[p] = r /\ \A q \in Peers \ {p} : T.net.peer[q] = S.net.peer[q]
  BY <1>3, <1>4
<1>6. LifeOf(T, p) = r.life /\ Sock(T, p) = r.sock
  BY <1>5 DEF LifeOf, Sock
<1>7. \A q \in Peers \ {p} : LifeOf(T, q) = LifeOf(S, q) /\ Sock(T, q) = Sock(S, q)
  BY <1>5 DEF LifeOf, Sock
<1>8. Wired(T)
  <2>1. Sock(T, p) = (LifeOf(T, p) \in Up) /\ (~Sock(T, p) => T.inbox[p] = <<>>)
    BY <1>3, <1>6
  <2> QED
    BY <1>2, <1>3, <1>7, <2>1 DEF Wired
<1> QED
  BY <1>1, <1>3, <1>6, <1>7, <1>8 DEF Good

\* A dial begins, ends well, or fails.
LEMMA DialStep == ASSUME SyncInv, NEW p \in Peers, Dial(p) PROVE SyncInv'
<1>1. PICK S : S = State
  OBVIOUS
<1>2. S \in Good /\ S \in NodeStates /\ WorkOK(S, work) /\ DialOK(S, dialing) /\ BusyOK(work, busy)
  BY <1>1, InvFacts
<1>3. LifeOf(S, p) = "disconnected"
  BY <1>1, StateFields DEF Dial, LifeOf
<1>4. ~Sock(S, p) /\ S.inbox[p] = <<>>
  BY <1>2, <1>3 DEF Good, Wired, Up, Live
<1>5. work[p] = Idle
  BY <1>2, <1>3, <1>4 DEF WorkOK, Attached
<1>6. PICK r : r = [NewPeer EXCEPT !.life = "connecting"]
  OBVIOUS
<1>7. r \in PeerRecords /\ r.life = "connecting" /\ r.sock = FALSE
  BY <1>6, NewPeerRecord DEF PeerRecords, Down
<1>17. (r.life \in Up) = FALSE
  BY <1>7 DEF Up, Live
<1>8. r.sock = (r.life \in Up)
  BY <1>7, <1>17
<1>9. PICK T : T = WithPeer(S, p, r)
  OBVIOUS
<1>10. /\ T \in Good /\ SameBlocks(S, T) /\ LifeOf(T, p) = "connecting"
       /\ \A q \in Peers \ {p} : LifeOf(T, q) = LifeOf(S, q) /\ Sock(T, q) = Sock(S, q)
  BY <1>2, <1>4, <1>7, <1>8, <1>9, RecordState
<1>11. Becomes(T)
  BY <1>1, <1>6, <1>9 DEF Dial, WithPeer
<1>12. work' = [work EXCEPT ![p] = Idle]
  <2>1. work \in [Fibers -> Works] /\ p \in Fibers
    BY <1>2 DEF WorkOK, Fibers
  <2> QED
    BY <1>5, <2>1 DEF Dial
<1>13. PICK D : D = dialing \cup {p}
  OBVIOUS
<1>14. D \subseteq Peers /\ D \ {p} \subseteq dialing
  BY <1>2, <1>13 DEF DialOK
<1>15. busy # p
  BY <1>2, <1>5, PeersAreNoDrains DEF BusyOK
<1>16. dialing' = D /\ tip' = tip /\ limits' = limits /\ busy' = busy
  BY <1>13 DEF Dial
<1> QED
  BY <1>1, <1>10, <1>11, <1>12, <1>14, <1>15, <1>16, PeerStep

\* No reader runs for a peer that is dialled.
LEMMA DialledIsIdle ==
    ASSUME SyncInv, NEW p \in Peers, LifeOf(State, p) \in {"disconnected", "connecting"}
    PROVE  /\ ~Sock(State, p) /\ State.inbox[p] = <<>> /\ work[p] = Idle /\ busy # p
           /\ work = [work EXCEPT ![p] = Idle]
<1>1. PICK S : S = State
  OBVIOUS
<1>2. S \in Good /\ WorkOK(S, work) /\ BusyOK(work, busy)
  BY <1>1, InvFacts
<1>3. ~Sock(S, p) /\ S.inbox[p] = <<>>
  BY <1>1, <1>2 DEF Good, Wired, Up, Live
<1>4. work[p] = Idle
  BY <1>1, <1>2, <1>3 DEF WorkOK, Attached
<1>5. busy # p
  BY <1>2, <1>4, PeersAreNoDrains DEF BusyOK
<1>6. work \in [Fibers -> Works] /\ p \in Fibers
  BY <1>2 DEF WorkOK, Fibers
<1> QED
  BY <1>1, <1>3, <1>4, <1>5, <1>6

LEMMA HelloMessages ==
    ASSUME Tips, NEW S, NEW p \in Peers
    PROVE  /\ [type |-> "hello", head |-> PeerTip(p)] \in Messages(p)
           /\ [type |-> "fork_status", head |-> PeerTip(p)] \in Messages(p)
           /\ [type |-> "soft_ban"] \in Messages(p)
           /\ HelloReply(S, p) \in Messages(p)
<1>1. PICK n \in Int : n = PeerTip(p)
  BY PeerTipIsKnown
<1>2. PICK e \in BOOLEAN : e = (p \in Honest /\ (\/ S.head \in (Earliest[p] - 1)..LogHead(p)
                                                \/ Lib(S) \in Earliest[p]..PeerTip(p)))
  OBVIOUS
<1>3. HelloReply(S, p) = [type |-> "hello_reply", exchange |-> e]
  BY <1>2 DEF HelloReply
<1> QED
  BY <1>1, <1>3 DEF Messages

LEMMA DialSucceedsStep == ASSUME SyncInv, NEW p \in Peers, DialSucceeds(p) PROVE SyncInv'
<1>1. PICK S : S = State
  OBVIOUS
<1>2. S \in Good /\ S \in NodeStates /\ DialOK(S, dialing) /\ Tips
  BY <1>1, InvFacts
<1>3. LifeOf(S, p) \in {"disconnected", "connecting"}
  BY <1>2 DEF DialSucceeds, DialOK
<1>4. ~Sock(S, p) /\ S.inbox[p] = <<>> /\ busy # p /\ work = [work EXCEPT ![p] = Idle]
  BY <1>1, <1>3, DialledIsIdle
<1>5. PICK r : r = [S.net.peer[p] EXCEPT !.life = "handshaking", !.sock = TRUE]
  OBVIOUS
<1>6. r \in PeerRecords /\ r.life = "handshaking" /\ r.sock = TRUE
  BY <1>2, <1>5, StateParts DEF PeerRecords, Up
<1>7. (r.life \in Up) = TRUE
  BY <1>6 DEF Up
<1>8. r.sock = (r.life \in Up) /\ r.sock
  BY <1>6, <1>7
<1>9. PICK T : T = WithPeer(S, p, r)
  OBVIOUS
<1>10. /\ T \in Good /\ SameBlocks(S, T) /\ Sock(T, p)
       /\ \A q \in Peers \ {p} : LifeOf(T, q) = LifeOf(S, q) /\ Sock(T, q) = Sock(S, q)
  BY <1>2, <1>8, <1>6, <1>9, RecordState
<1>11. PICK m : m = [type |-> "hello", head |-> PeerTip(p)]
  OBVIOUS
<1>12. PICK a : a = HelloReply(T, p)
  OBVIOUS
<1>13. m \in Messages(p) /\ a \in Messages(p)
  BY <1>2, <1>11, <1>12, HelloMessages
<1>14. PICK U : U = Deliver(T, p, m)
  OBVIOUS
<1>15. Talks(T, U) /\ U \in Good
  BY <1>10, <1>13, <1>14, DeliverTalks DEF Talks
<1>16. PICK V : V = Deliver(U, p, a)
  OBVIOUS
<1>17. Talks(T, V) /\ V \in Good
  BY <1>13, <1>15, <1>16, DeliverTalks, TalksTransitive DEF Talks
<1>18. SameBlocks(S, V)
  BY <1>10, <1>17 DEF Talks, SameBlocks
<1>19. ASSUME NEW q \in Peers \ {p}
       PROVE  LifeOf(V, q) = LifeOf(S, q) /\ Sock(V, q) = Sock(S, q)
  <2>1. V.net.peer = T.net.peer
    BY <1>14, <1>16 DEF Deliver
  <2> QED
    BY <1>10, <2>1 DEF LifeOf, Sock
<1>20. Becomes(V)
  BY <1>1, <1>5, <1>9, <1>11, <1>12, <1>14, <1>16, StateFields DEF DialSucceeds, WithPeer
<1>21. PICK D : D = dialing \ {p}
  OBVIOUS
<1>22. D \subseteq Peers /\ D \ {p} \subseteq dialing /\ p \notin D
  BY <1>2, <1>21 DEF DialOK
<1>23. dialing' = D /\ tip' = tip /\ limits' = limits /\ busy' = busy /\ work' = work
  BY <1>21 DEF DialSucceeds
<1> QED
  BY <1>1, <1>4, <1>17, <1>18, <1>19, <1>20, <1>22, <1>23, PeerStep

LEMMA DialFailsStep == ASSUME SyncInv, NEW p \in Peers, DialFails(p) PROVE SyncInv'
<1>1. PICK S : S = State
  OBVIOUS
<1>2. S \in Good /\ S \in NodeStates /\ DialOK(S, dialing)
  BY <1>1, InvFacts
<1>3. LifeOf(S, p) \in {"disconnected", "connecting"}
  BY <1>2 DEF DialFails, DialOK
<1>4. /\ ~Sock(S, p) /\ S.inbox[p] = <<>> /\ busy # p
      /\ work = [work EXCEPT ![p] = Idle]
  BY <1>1, <1>3, DialledIsIdle
<1>5. PICK r : r = [S.net.peer[p] EXCEPT !.life = "disconnected"]
  OBVIOUS
<1>6. r \in PeerRecords /\ r.life = "disconnected" /\ r.sock = Sock(S, p)
  BY <1>2, <1>5, StateParts DEF PeerRecords, Down, Sock
<1>7. r.sock = FALSE /\ (r.life \in Up) = FALSE
  BY <1>4, <1>6 DEF Up, Live
<1>8. r.sock = (r.life \in Up)
  BY <1>7
<1>9. PICK T : T = WithPeer(S, p, r)
  OBVIOUS
<1>10. /\ T \in Good /\ SameBlocks(S, T) /\ LifeOf(T, p) = "disconnected"
       /\ \A q \in Peers \ {p} : LifeOf(T, q) = LifeOf(S, q) /\ Sock(T, q) = Sock(S, q)
  BY <1>2, <1>4, <1>6, <1>8, <1>9, RecordState
<1>11. Becomes(T)
  BY <1>1, <1>5, <1>9 DEF DialFails, WithPeer
<1>12. PICK D : D = dialing \ {p}
  OBVIOUS
<1>13. D \subseteq Peers /\ D \ {p} \subseteq dialing /\ p \notin D
  BY <1>2, <1>12 DEF DialOK
<1>14. dialing' = D /\ tip' = tip /\ limits' = limits /\ busy' = busy /\ work' = work
  BY <1>12 DEF DialFails
<1> QED
  BY <1>1, <1>4, <1>10, <1>11, <1>13, <1>14, PeerStep

\* A connection ends: broken, timed out, or found closed after a ban.
LEMMA DisconnectStep == ASSUME SyncInv, NEW p \in Peers, HandleDisconnect(p) PROVE SyncInv'
<1>1. PICK S : S = State
  OBVIOUS
<1>2. S \in Good /\ DialOK(S, dialing)
  BY <1>1, InvFacts
<1>3. PICK T : T = Close(S, p, "disconnected")
  OBVIOUS
<1>4. "disconnected" \in Down
  BY DEF Down
<1>5. /\ T \in Good /\ SameBlocks(S, T) /\ LifeOf(T, p) = "disconnected"
      /\ \A q \in Peers \ {p} : LifeOf(T, q) = LifeOf(S, q) /\ Sock(T, q) = Sock(S, q)
  BY <1>2, <1>3, <1>4, CloseState
<1>6. Becomes(T) /\ work' = [work EXCEPT ![p] = Idle]
  BY <1>1, <1>3 DEF HandleDisconnect
<1>7. dialing \subseteq Peers
  BY <1>2 DEF DialOK
<1>8. tip' = tip /\ limits' = limits /\ dialing' = dialing
  BY DEF HandleDisconnect
<1>9. busy' \in {busy, NoFiber} /\ (busy = p => busy' = NoFiber)
  BY DEF HandleDisconnect
<1> QED
  BY <1>1, <1>5, <1>6, <1>7, <1>8, <1>9, PeerStep

----------------------------------------------------------------------------
(* Messages. *)

\* The message is taken out of the inbox.
LEMMA ReadFacts ==
    ASSUME SyncInv, NEW p \in Peers, NEW type, Reads(p, type)
    PROVE  /\ Talks(State, Rest(p)) /\ Rest(p) \in Good /\ Rest(p).net = net
           /\ Sock(State, p) /\ Sock(Rest(p), p) /\ work[p] = Idle
           /\ inbox[p][1] \in Messages(p) /\ inbox[p][1].type = type
<1>1. PICK S : S = State
  OBVIOUS
<1>2. S \in Good /\ S \in NodeStates
  BY <1>1, InvFacts
<1>3. S.inbox = inbox /\ S.net = net
  BY <1>1, StateFields
<1>4. inbox[p] \in Seq(Messages(p)) /\ inbox[p] # <<>>
  BY <1>2, <1>3, StateParts DEF Reads
<1>5. inbox[p][1] \in Messages(p) /\ Tail(inbox[p]) \in Seq(Messages(p))
  BY <1>4
<1>6. Sock(S, p)
  BY <1>2, <1>3, <1>4 DEF Good, Wired
<1>7. PICK q : q = Tail(inbox[p])
  OBVIOUS
<1>8. Rest(p) = WithInbox(S, p, q)
  BY <1>1, <1>3, <1>7 DEF Rest, WithInbox
<1>9. Talks(S, Rest(p))
  BY <1>2, <1>5, <1>6, <1>7, <1>8, InboxTalks
<1>10. Rest(p).net = net
  <2>1. q \in Seq(Messages(p))
    BY <1>5, <1>7
  <2>2. WithInbox(S, p, q).net = S.net
    BY <1>2, <2>1, WithInboxState
  <2> QED
    BY <1>3, <1>8, <2>2
<1>11. Rest(p) \in Good /\ Sock(Rest(p), p)
  BY <1>6, <1>9, TalksKeepsSock DEF Talks
<1> QED
  BY <1>1, <1>5, <1>6, <1>9, <1>10, <1>11 DEF Reads

\* A new record for a connected peer, and a good packet.
LEMMA RecordedTalks ==
    ASSUME NEW S \in Good, NEW p \in Peers, Sock(S, p), NEW r \in PeerRecords,
           r.sock = TRUE, r.life \in Up
    PROVE  /\ Talks(S, RecordPacket(WithPeer(S, p, r), p, TRUE))
           /\ RecordPacket(WithPeer(S, p, r), p, TRUE) \in Good
           /\ Sock(RecordPacket(WithPeer(S, p, r), p, TRUE), p)
<1>1. PICK T : T = WithPeer(S, p, r)
  OBVIOUS
<1>2. Sock(S, p) = TRUE
  <2>1. Sock(S, p) \in BOOLEAN
    BY StateParts DEF Good, Sock, PeerRecords
  <2> QED
    BY <2>1
<1>3. Talks(S, T) /\ T \in Good
  BY <1>1, <1>2, PeerTalks DEF Talks
<1>4. PICK U : U = RecordPacket(T, p, TRUE)
  OBVIOUS
<1>5. Talks(S, U)
  BY <1>3, <1>4, RecordPacketJudges, TalksTransitive
<1> QED
  BY <1>1, <1>4, <1>5, TalksKeepsSock DEF Talks

LEMMA OnHelloStep == ASSUME SyncInv, NEW p \in Peers, OnHello(p) PROVE SyncInv'
<1>1. Reads(p, "hello")
  BY DEF OnHello
<1>2. PICK S : S = Rest(p)
  OBVIOUS
<1>3. PICK m : m = inbox[p][1]
  OBVIOUS
<1>4. /\ Talks(State, S) /\ S \in Good /\ S.net = net /\ Sock(S, p)
      /\ m \in Messages(p) /\ m.type = "hello"
  BY <1>1, <1>2, <1>3, ReadFacts
<1>5. m.head \in Int
  BY <1>4 DEF Messages
<1>6. PICK e : e = Aligned(p, m.head)
  OBVIOUS
<1>7. e \in BOOLEAN
  BY <1>6 DEF Aligned
<1>8. PICK a : a = (net.peer[p].life = "handshaking" /\ (e \/ net.status = "SYNC"))
  OBVIOUS
<1>9. PICK r : r = [net.peer[p] EXCEPT
                       !.head = m.head, !.head_id = m.head, !.earliest = Earliest[p],
                       !.exchange = e, !.life = IF a THEN "active" ELSE @]
  OBVIOUS
<1>10. r \in PeerRecords /\ r.sock = TRUE /\ r.life \in Up
  <2>1. /\ net.peer[p] \in PeerRecords /\ net.peer[p].sock
        /\ net.peer[p].life \in Up
    BY <1>4, StateParts DEF Good, Wired, Sock, LifeOf
  <2>2. Earliest[p] \in Int
    BY PeerOrder
  <2> QED
    BY <1>5, <1>7, <1>9, <2>1, <2>2 DEF PeerRecords, Up, Live
<1>11. PICK U : U = RecordPacket(WithPeer(S, p, r), p, TRUE)
  OBVIOUS
<1>12. Talks(State, U) /\ U \in Good /\ Sock(U, p)
  BY <1>4, <1>10, <1>11, RecordedTalks, TalksTransitive
<1>13. Talks(State, RequestBlocks(U, p))
  BY <1>12, InvFacts, RequestBlocksTalks, TalksTransitive
<1>14. PICK T : T = IF net.status = "SYNC" /\ e THEN RequestBlocks(U, p) ELSE U
  OBVIOUS
<1>15. Becomes(T)
  BY <1>2, <1>3, <1>6, <1>8, <1>9, <1>11, <1>14 DEF OnHello, WithPeer
<1>16. Talks(State, T)
  BY <1>12, <1>13, <1>14
<1> QED
  BY <1>15, <1>16, TalkStep DEF OnHello, NoWork

LEMMA OnHelloReplyStep == ASSUME SyncInv, NEW p \in Peers, OnHelloReply(p) PROVE SyncInv'
<1>1. Reads(p, "hello_reply")
  BY DEF OnHelloReply
<1>2. PICK S : S = Rest(p)
  OBVIOUS
<1>3. PICK m : m = inbox[p][1]
  OBVIOUS
<1>4. /\ Talks(State, S) /\ S \in Good /\ S.net = net /\ Sock(S, p)
      /\ m \in Messages(p) /\ m.type = "hello_reply"
  BY <1>1, <1>2, <1>3, ReadFacts
<1>5. PICK r : r = [net.peer[p] EXCEPT
                       !.exchange = @ \/ m.exchange,
                       !.life = IF @ \in {"handshaking", "syncing"} THEN "active" ELSE @]
  OBVIOUS
<1>6. r \in PeerRecords /\ r.sock = TRUE /\ r.life \in Up
  <2>1. /\ net.peer[p] \in PeerRecords /\ net.peer[p].sock
        /\ net.peer[p].life \in Up
    BY <1>4, StateParts DEF Good, Wired, Sock, LifeOf
  <2>2. PICK e : e = (net.peer[p].exchange \/ m.exchange)
    OBVIOUS
  <2>3. e \in BOOLEAN
    BY <2>2
  <2>4. PICK l : l = IF net.peer[p].life \in {"handshaking", "syncing"} THEN "active"
                     ELSE net.peer[p].life
    OBVIOUS
  <2>5. l \in Up /\ "active" \in Up
    BY <2>1, <2>4 DEF Up, Live
  <2>6. r = [net.peer[p] EXCEPT !.exchange = e, !.life = l]
    BY <1>5, <2>1, <2>2, <2>4 DEF PeerRecords
  <2> QED
    BY <2>1, <2>3, <2>5, <2>6 DEF PeerRecords
<1>7. PICK U : U = RecordPacket(WithPeer(S, p, r), p, TRUE)
  OBVIOUS
<1>8. Talks(State, U) /\ U \in Good /\ Sock(U, p)
  BY <1>4, <1>6, <1>7, RecordedTalks, TalksTransitive
<1>9. PICK V : V = ToSync(U)
  OBVIOUS
<1>10. Talks(U, V) /\ V \in Good /\ Sock(V, p)
  BY <1>8, <1>9, ToSyncTalks, TalksKeepsSock DEF Talks
<1>11. Talks(State, RequestBlocks(V, p))
  BY <1>8, <1>10, InvFacts, RequestBlocksTalks, TalksTransitive
<1>12. PICK T : T = IF /\ U.net.peer[p].exchange
                       /\ (net.status = "SYNC" \/ U.net.peer[p].head > head + FallBehind)
                    THEN RequestBlocks(V, p) ELSE U
  OBVIOUS
<1>13. Becomes(T)
  BY <1>2, <1>3, <1>5, <1>7, <1>9, <1>12 DEF OnHelloReply, WithPeer
<1>14. Talks(State, T)
  BY <1>8, <1>11, <1>12
<1> QED
  BY <1>13, <1>14, TalkStep DEF OnHelloReply, NoWork

LEMMA OnForkStatusStep == ASSUME SyncInv, NEW p \in Peers, OnForkStatus(p) PROVE SyncInv'
<1>1. Reads(p, "fork_status")
  BY DEF OnForkStatus
<1>2. PICK S : S = Rest(p)
  OBVIOUS
<1>3. PICK m : m = inbox[p][1]
  OBVIOUS
<1>4. /\ Talks(State, S) /\ S \in Good /\ S.net = net /\ Sock(S, p)
      /\ m \in Messages(p) /\ m.type = "fork_status"
  BY <1>1, <1>2, <1>3, ReadFacts
<1>5. m.head \in Int
  BY <1>4 DEF Messages
<1>6. PICK r : r = [net.peer[p] EXCEPT !.head = m.head, !.head_id = m.head,
                                       !.earliest = Earliest[p]]
  OBVIOUS
<1>7. r \in PeerRecords /\ r.sock = TRUE /\ r.life \in Up
  <2>1. /\ net.peer[p] \in PeerRecords /\ net.peer[p].sock
        /\ net.peer[p].life \in Up
    BY <1>4, StateParts DEF Good, Wired, Sock, LifeOf
  <2>2. Earliest[p] \in Int
    BY PeerOrder
  <2> QED
    BY <1>5, <1>6, <2>1, <2>2 DEF PeerRecords
<1>8. PICK z : z = Max({net.seen, m.head})
  OBVIOUS
<1>9. PICK n : n = [net EXCEPT !.seen = z]
  OBVIOUS
<1>10. S.net \in NetStates
  BY <1>4, StateParts DEF Good
<1>11. z \in Int
  BY <1>4, <1>5, <1>8, <1>10, MaxOfTwo DEF NetStates
<1>12. n \in NetStates /\ n.peer = S.net.peer /\ n.queue = S.net.queue
  BY <1>4, <1>9, <1>10, <1>11 DEF NetStates
<1>13. PICK R : R = WithNet(S, n)
  OBVIOUS
<1>14. Talks(S, R) /\ R \in Good /\ Sock(R, p)
  BY <1>4, <1>12, <1>13, NetTalks, TalksKeepsSock DEF Talks
<1>15. PICK U : U = RecordPacket(WithPeer(R, p, r), p, TRUE)
  OBVIOUS
<1>16. Talks(State, U)
  BY <1>4, <1>7, <1>14, <1>15, RecordedTalks, TalksTransitive
<1>17. [S EXCEPT !.net.peer[p] = r, !.net.seen = Max({@, m.head})] = WithPeer(R, p, r)
  <2>1. [S EXCEPT !.net.peer[p] = r, !.net.seen = Max({@, m.head})]
          = [S EXCEPT !.net = [[S.net EXCEPT !.peer[p] = r] EXCEPT !.seen = z]]
    BY <1>4, <1>8, <1>10 DEF Good, NodeStates, NetStates
  <2>2. WithPeer(R, p, r) = [S EXCEPT !.net = [n EXCEPT !.peer[p] = r]]
    BY <1>4, <1>13 DEF WithPeer, WithNet, Good, NodeStates
  <2>3. [[S.net EXCEPT !.peer[p] = r] EXCEPT !.seen = z] = [n EXCEPT !.peer[p] = r]
    BY <1>4, <1>9, <1>10 DEF NetStates
  <2> QED
    BY <2>1, <2>2, <2>3
<1>18. Becomes(U)
  BY <1>2, <1>3, <1>6, <1>15, <1>17 DEF OnForkStatus
<1> QED
  BY <1>16, <1>18, TalkStep DEF OnForkStatus, NoWork

LEMMA OnSoftBanStep == ASSUME SyncInv, NEW p \in Peers, OnSoftBan(p) PROVE SyncInv'
<1>1. Reads(p, "soft_ban")
  BY DEF OnSoftBan
<1>2. /\ Talks(State, Rest(p)) /\ Rest(p) \in Good /\ Sock(State, p) /\ work[p] = Idle
  BY <1>1, ReadFacts
<1>3. PICK T : T = IF net.paused THEN Rest(p) ELSE SoftBan(Rest(p), p)
  OBVIOUS
<1>4. Becomes(T)
  BY <1>3 DEF OnSoftBan
<1>5. Judges(State, T, p)
  BY <1>2, <1>3, SoftBanJudges, TalksJudges, JudgesTransitive
<1>6. Attached(State, p, work[p])
  BY <1>2 DEF Attached
<1> QED
  BY <1>2, <1>4, <1>5, <1>6, JudgeStep DEF OnSoftBan, NoWork

\* The first blocks of a message.
LEMMA FirstBlocks ==
    ASSUME NEW s, NEW k \in Nat
    PROVE  /\ IsFiniteSet({s[i] : i \in 1..k}) /\ Cardinality({s[i] : i \in 1..k}) <= k
           /\ Cardinality({s[i] : i \in 1..k}) \in Nat
<1>1. PICK X : X = {s[i] : i \in 1..k}
  OBVIOUS
<1>2. PICK f : f = [i \in 1..k |-> s[i]]
  OBVIOUS
<1>3. f \in [1..k -> X]
  BY <1>1, <1>2
<1>4. \A x \in X : \E i \in 1..k : f[i] = x
  BY <1>1, <1>2
<1>5. f \in Surjection(1..k, X)
  BY <1>3, <1>4 DEF Surjection
<1>6. IsFiniteSet(1..k) /\ Cardinality(1..k) = k
  BY FS_Interval
<1>7. IsFiniteSet(X) /\ Cardinality(X) <= k
  BY <1>5, <1>6, FS_Surjection
<1>8. Cardinality(X) \in Nat
  BY <1>7, FS_CardinalityType
<1> QED
  BY <1>1, <1>7, <1>8

\* The blocks of a message are true, and a range that is not empty has some.
LEMMA MessageBlocksTrue ==
    ASSUME Tips, NEW p \in Peers, NEW m \in Messages(p), m.type \in {"block", "range", "gap"}
    PROVE  /\ MessageBlocks(p, m) \in Seq(Blocks)
           /\ m.first \in Int /\ m.next \in Int
           /\ m.type = "block" => Block(p, m.first) \in Blocks
           /\ m.type # "block" =>
                 m.end \in Int /\ (m.first <= m.end => MessageBlocks(p, m) # <<>>)
<1>0. tip \in Nat
  BY DEF Tips
<1>1. \A n \in Int : (p \in Honest => n <= tip) => Block(p, n) \in Blocks
  <2> SUFFICES ASSUME NEW n \in Int, p \in Honest => n <= tip PROVE Block(p, n) \in Blocks
    OBVIOUS
  <2>1. PICK h : h = (p \in Honest)
    OBVIOUS
  <2>4. h \in BOOLEAN
    BY <2>1
  <2>2. Block(p, n) = [n |-> n, main |-> h]
    BY <2>1 DEF Block
  <2>3. h => n <= tip
    BY <2>1
  <2> QED
    BY <2>2, <2>3, <2>4 DEF Blocks
<1>2. CASE m.type = "block"
  <2>1. m.first \in Int /\ m.next \in Int /\ (p \in Honest => m.first <= tip)
    BY <1>2 DEF Messages
  <2>2. Block(p, m.first) \in Blocks
    BY <1>1, <2>1
  <2>3. MessageBlocks(p, m) = <<Block(p, m.first)>>
    BY <1>2 DEF MessageBlocks
  <2> QED
    BY <1>2, <2>1, <2>2, <2>3
<1>3. CASE m.type \in {"range", "gap"}
  <2>1. /\ m.first \in Int /\ m.next \in Int /\ m.end \in Int
        /\ p \in Honest => m.end <= tip
    BY <1>3 DEF Messages
  <2>2. PICK k : k = Max({0, m.end - m.first + 1})
    OBVIOUS
  <2>3. k \in Int /\ k >= 0 /\ k >= m.end - m.first + 1 /\ (k = 0 \/ k = m.end - m.first + 1)
    BY <2>1, <2>2, MaxOfTwo
  <2>4. PICK s : s = MessageBlocks(p, m)
    OBVIOUS
  <2>5. s = [i \in 1..k |-> Block(p, m.first + i - 1)]
    BY <1>3, <2>2, <2>4 DEF MessageBlocks
  <2>6. ASSUME NEW i \in 1..k PROVE s[i] \in Blocks
    <3>1. m.first + i - 1 \in Int /\ m.first + i - 1 <= m.end
      BY <2>1, <2>3
    <3>2. p \in Honest => m.first + i - 1 <= tip
      BY <1>0, <2>1, <3>1
    <3> QED
      BY <1>1, <2>5, <3>1, <3>2
  <2>7. s \in Seq(Blocks) /\ Len(s) = k
    <3>1. s \in [1..k -> Blocks] /\ k \in Nat
      BY <2>3, <2>5, <2>6
    <3> QED
      BY <3>1
  <2>8. m.first <= m.end => s # <<>>
    BY <2>1, <2>3, <2>7
  <2> QED
    BY <1>3, <2>1, <2>4, <2>7, <2>8
<1> QED
  BY <1>2, <1>3

LEMMA OnPausedBlocksStep == ASSUME SyncInv, NEW p \in Peers, OnPausedBlocks(p) PROVE SyncInv'
<1>1. PICK type \in {"block", "range", "gap"} : Reads(p, type)
  BY DEF OnPausedBlocks
<1>2. PICK S : S = Rest(p)
  OBVIOUS
<1>3. PICK m : m = inbox[p][1]
  OBVIOUS
<1>4. /\ Talks(State, S) /\ S \in Good /\ S \in NodeStates /\ S.net = net
      /\ m \in Messages(p) /\ m.type \in {"block", "range", "gap"}
  BY <1>1, <1>2, <1>3, ReadFacts DEF Good
<1>5. PICK s : s = MessageBlocks(p, m)
  OBVIOUS
<1>6. s \in Seq(Blocks)
  BY <1>4, <1>5, InvFacts, MessageBlocksTrue
<1>7. PICK Q : Q = net.queue
  OBVIOUS
<1>8. Q \in SUBSET Blocks /\ net \in NetStates
  BY <1>4, <1>7, StateParts DEF NetStates
<1>9. IsFiniteSet(Q) /\ Cardinality(Q) <= QueueLimit /\ Cardinality(Q) \in Nat
  <2>1. State.net.queue = Q
    BY <1>7, StateFields
  <2>2. IsFiniteSet(Q) /\ Cardinality(Q) <= QueueLimit
    BY <2>1, InvFacts DEF NodeOK
  <2> QED
    BY <2>2, FS_CardinalityType
<1>10. PICK room : room = Max({0, QueueLimit - Cardinality(Q)})
  OBVIOUS
<1>11. room = QueueLimit - Cardinality(Q) /\ room \in Nat
  <2>1. QueueLimit \in Nat
    BY PeerLimits
  <2> QED
    BY <1>9, <1>10, <2>1, MaxOfTwo
<1>12. PICK k : k = Min({Len(s), room})
  OBVIOUS
<1>13. k \in Nat /\ k <= room /\ k <= Len(s)
  BY <1>6, <1>11, <1>12, MinOfTwo
<1>14. PICK X : X = {s[i] : i \in 1..k}
  OBVIOUS
<1>15. X \subseteq Blocks
  BY <1>6, <1>13, <1>14
<1>16. IsFiniteSet(X) /\ Cardinality(X) <= k /\ Cardinality(X) \in Nat
  BY <1>13, <1>14, FirstBlocks
<1>17. PICK R : R = Q \cup X
  OBVIOUS
<1>18. R \in SUBSET Blocks /\ IsFiniteSet(R) /\ Cardinality(R) <= QueueLimit
  <2>1. /\ IsFiniteSet(R)
        /\ Cardinality(R) = Cardinality(Q) + Cardinality(X) - Cardinality(Q \cap X)
    BY <1>9, <1>16, <1>17, FS_Union
  <2>2. Cardinality(Q \cap X) \in Nat
    BY <1>9, FS_Subset, FS_CardinalityType
  <2>3. QueueLimit \in Nat
    BY PeerLimits
  <2> QED
    BY <1>8, <1>9, <1>11, <1>13, <1>15, <1>16, <1>17, <2>1, <2>2, <2>3
<1>19. PICK n : n = [net EXCEPT !.queue = R]
  OBVIOUS
<1>20. n \in NetStates /\ n.peer = net.peer /\ n.queue = R
  BY <1>8, <1>18, <1>19 DEF NetStates
<1>21. PICK T : T = WithNet(S, n)
  OBVIOUS
<1>22. /\ T \in NodeStates /\ T.net = n /\ T.inbox = S.inbox /\ T.head = S.head
       /\ T.stored = S.stored
  BY <1>4, <1>20, <1>21, WithNetState
<1>23. \A q \in Peers : Sock(T, q) = Sock(S, q) /\ LifeOf(T, q) = LifeOf(S, q)
  BY <1>4, <1>20, <1>22 DEF Sock, LifeOf
<1>24. T \in Good
  BY <1>4, <1>22, <1>23 DEF Good, Wired
<1>25. NodeOK(T)
  <2>1. S.head = State.head
    BY <1>4 DEF Talks, SameBlocks
  <2>2. T.head = State.head /\ T.net.queue = R
    BY <1>20, <1>22, <2>1
  <2>3. Start <= State.head /\ State.head <= tip
    BY InvFacts DEF NodeOK
  <2> QED
    BY <1>18, <1>24, <2>2, <2>3 DEF NodeOK
<1>26. Becomes(T)
  <2>1. [S EXCEPT !.net.queue = @ \cup {s[i] : i \in 1..Min({Len(s), Max({0, QueueLimit - Cardinality(net.queue)})})}]
           = T
    BY <1>4, <1>7, <1>10, <1>12, <1>14, <1>17, <1>19, <1>21 DEF WithNet
  <2> QED
    BY <1>2, <1>3, <1>5, <2>1 DEF OnPausedBlocks
<1>27. \A q \in Peers : KeepsPeer(State, T, q)
  BY <1>4, <1>23 DEF Talks, KeepsPeer
<1>28. WorkOK(T, work)
  BY <1>27, InvFacts DEF WorkOK, KeepsPeer, Attached
<1>29. DialOK(T, dialing)
  <2>1. DialOK(State, dialing) /\ State \in Good
    BY InvFacts
  <2>2. \A q \in dialing : q \in Peers /\ ~Sock(State, q)
    BY <2>1 DEF DialOK, Good, Wired, Up, Live
  <2> QED
    BY <1>27, <2>1, <2>2 DEF DialOK, KeepsPeer
<1>30. /\ tip' = tip /\ limits' = limits /\ work' = work /\ dialing' = dialing
       /\ busy' = busy /\ BusyOK(work, busy)
  BY InvFacts DEF OnPausedBlocks, NoWork
<1> QED
  BY <1>25, <1>26, <1>28, <1>29, <1>30, StepOK

\* A reader begins or ends a handler, or goes on in it, after the database took a
\* block or not.
LEMMA ReaderStep ==
    ASSUME SyncInv, tip' = tip, limits' = limits, dialing' = dialing, NEW p \in Peers,
           NEW S, NodeOK(S), S.net = net, NEW T, Becomes(T), Judges(S, T, p),
           Sock(S, p) \/ LifeOf(S, p) = "banned",
           NEW v \in Jobs(p), v # Idle => Attached(T, p, v),
           work' = [work EXCEPT ![p] = v],
           busy' = NoFiber \/ (busy' = busy /\ busy # p)
    PROVE  SyncInv'
<1>1. /\ WorkOK(State, work) /\ DialOK(State, dialing) /\ BusyOK(work, busy)
      /\ S \in Good /\ State \in Good
  BY InvFacts DEF NodeOK
<1>2. \A q \in Peers : Sock(State, q) = Sock(S, q) /\ LifeOf(State, q) = LifeOf(S, q)
  BY StateFields DEF Sock, LifeOf
<1>3. NodeOK(T)
  BY DEF Judges, SameBlocks, NodeOK
<1>4. PICK W : W = [work EXCEPT ![p] = v]
  OBVIOUS
<1>5. p \in Fibers /\ v \in Works
  BY DEF Fibers, Jobs
<1>6. /\ W \in [Fibers -> Works] /\ W[p] = v
      /\ \A f \in Fibers \ {p} : W[f] = work[f]
  BY <1>1, <1>4, <1>5 DEF WorkOK
<1>7. \A q \in Peers \ {p} : KeepsPeer(S, T, q)
  BY DEF Judges
<1>8. WorkOK(T, W)
  <2>1. \A f \in Fibers : W[f] \in Jobs(f)
    BY <1>1, <1>5, <1>6 DEF WorkOK
  <2>2. ASSUME NEW q \in Peers, W[q] # Idle PROVE Attached(T, q, W[q])
    <3>1. CASE q = p
      BY <1>6, <2>2, <3>1
    <3>2. CASE q # p
      <4>1. W[q] = work[q]
        BY <1>6, <3>2 DEF Fibers
      <4>2. Attached(State, q, work[q])
        BY <1>1, <2>2, <4>1 DEF WorkOK
      <4> QED
        BY <1>2, <1>7, <3>2, <4>1, <4>2 DEF Attached, KeepsPeer
    <3> QED
      BY <3>1, <3>2
  <2> QED
    BY <1>6, <2>1, <2>2 DEF WorkOK
<1>9. ASSUME NEW q \in dialing
      PROVE  q \in Peers /\ LifeOf(T, q) \in {"disconnected", "connecting"}
  <2>1. q \in Peers /\ LifeOf(S, q) \in {"disconnected", "connecting"}
    BY <1>1, <1>2 DEF DialOK
  <2>2. ~Sock(S, q)
    BY <1>1, <2>1 DEF Good, Wired, Up, Live
  <2>3. q # p
    BY <2>1, <2>2
  <2> QED
    BY <1>7, <2>1, <2>2, <2>3 DEF KeepsPeer
<1>10. DialOK(T, dialing)
  BY <1>9 DEF DialOK
<1>11. PICK b : b = busy'
  OBVIOUS
<1>12. BusyOK(W, b)
  BY <1>1, <1>6, <1>11 DEF BusyOK
<1> QED
  BY <1>3, <1>4, <1>8, <1>10, <1>11, <1>12, StepOK

\* What the peer told of its head is noted.
LEMMA SeenTalks ==
    ASSUME NEW S \in Good, NEW p \in Peers, NEW n \in Int
    PROVE  Talks(S, [S EXCEPT !.net.peer[p].head = Max({@, n}), !.net.seen = Max({@, n})])
<1>1. S \in NodeStates /\ S.net.peer[p] \in PeerRecords /\ S.net \in NetStates
  BY StateParts DEF Good
<1>2. PICK h : h = Max({S.net.peer[p].head, n})
  OBVIOUS
<1>3. PICK z : z = Max({S.net.seen, n})
  OBVIOUS
<1>4. h \in Int /\ z \in Int
  BY <1>1, <1>2, <1>3, MaxOfTwo DEF PeerRecords, NetStates
<1>5. PICK N : N = [S.net EXCEPT !.seen = z]
  OBVIOUS
<1>6. N \in NetStates /\ N.peer = S.net.peer /\ N.queue = S.net.queue
  BY <1>1, <1>4, <1>5 DEF NetStates
<1>7. PICK R : R = WithNet(S, N)
  OBVIOUS
<1>8. Talks(S, R) /\ R \in Good
  BY <1>6, <1>7, NetTalks DEF Talks
<1>9. R.net = N
  BY <1>1, <1>6, <1>7, WithNetState
<1>10. PICK r : r = [S.net.peer[p] EXCEPT !.head = h]
  OBVIOUS
<1>11. r \in PeerRecords /\ r.sock = Sock(R, p) /\ r.life = LifeOf(R, p)
  BY <1>1, <1>4, <1>6, <1>9, <1>10 DEF PeerRecords, Sock, LifeOf
<1>12. Talks(R, WithPeer(R, p, r))
  BY <1>8, <1>11, NoteTalks
<1>13. [S EXCEPT !.net.peer[p].head = Max({@, n}), !.net.seen = Max({@, n})]
          = WithPeer(R, p, r)
  <2>1. [S EXCEPT !.net.peer[p].head = Max({@, n}), !.net.seen = Max({@, n})]
          = [S EXCEPT !.net = [[S.net EXCEPT !.peer[p].head = h] EXCEPT !.seen = z]]
    BY <1>1, <1>2, <1>3 DEF NodeStates, NetStates
  <2>2. [S.net EXCEPT !.peer[p].head = h] = [S.net EXCEPT !.peer[p] = r]
    BY <1>10
  <2>3. WithPeer(R, p, r) = [S EXCEPT !.net = [N EXCEPT !.peer[p] = r]]
    BY <1>1, <1>7 DEF WithPeer, WithNet, NodeStates
  <2>4. [[S.net EXCEPT !.peer[p] = r] EXCEPT !.seen = z] = [N EXCEPT !.peer[p] = r]
    BY <1>1, <1>5 DEF NetStates
  <2> QED
    BY <2>1, <2>2, <2>3, <2>4
<1> QED
  BY <1>8, <1>12, <1>13, TalksTransitive

\* A handler that begins.
LEMMA NewJob ==
    ASSUME NEW p \in Peers, NEW w \in Works, w.kind \in Handlers, w.todo # <<>>, w.timed = FALSE,
           w.kind = "block" => Len(w.todo) = 1
    PROVE  w \in Jobs(p)
<1>1. w.kind # "idle" /\ w # Idle
  BY DEF Handlers, Idle
<1>2. (w.kind = "idle") = (w = Idle) /\ (w.todo = <<>>) = (w = Idle)
  BY <1>1
<1>3. p \notin Drains
  BY PeersAreNoDrains
<1> QED
  BY <1>2, <1>3 DEF Jobs

LEMMA OnBlockRangeStep == ASSUME SyncInv, NEW p \in Peers, OnBlockRange(p) PROVE SyncInv'
<1>1. Reads(p, "range")
  BY DEF OnBlockRange
<1>2. PICK S : S = Rest(p)
  OBVIOUS
<1>3. PICK m : m = inbox[p][1]
  OBVIOUS
<1>4. /\ Talks(State, S) /\ S \in Good /\ S.net = net /\ Sock(S, p) /\ work[p] = Idle
      /\ m \in Messages(p) /\ m.type = "range" /\ Sock(State, p)
  BY <1>1, <1>2, <1>3, ReadFacts
<1>5. PICK s : s = MessageBlocks(p, m)
  OBVIOUS
<1>6. s \in Seq(Blocks) /\ m.next \in Int /\ m.end \in Int /\ (m.first <= m.end => s # <<>>)
      /\ m.first \in Int
  BY <1>4, <1>5, InvFacts, MessageBlocksTrue
<1>7. PICK T : T = [S EXCEPT !.net.peer[p].head = Max({@, m.end}), !.net.seen = Max({@, m.end})]
  OBVIOUS
<1>8. Talks(S, T) /\ T \in Good /\ Sock(T, p)
  BY <1>4, <1>6, <1>7, SeenTalks, TalksKeepsSock DEF Talks
<1>9. PICK w : w = [Idle EXCEPT !.kind = "range", !.todo = s, !.next = m.next, !.timed = TRUE]
  OBVIOUS
<1>10. w \in Works /\ w.kind = "range" /\ w.kind \in Handlers
  BY <1>6, <1>9 DEF Idle, Works, Handlers
<1>11. /\ UNCHANGED <<tip, busy, dialing, limits>>
       /\ IF m.first > m.end
          THEN Becomes(RecordPacket(S, p, TRUE)) /\ UNCHANGED work
          ELSE Continue(T, p, w)
  BY <1>2, <1>3, <1>5, <1>7, <1>9 DEF OnBlockRange
<1>12. CASE m.first > m.end
  <2>1. PICK U : U = RecordPacket(S, p, TRUE)
    OBVIOUS
  <2>2. Talks(State, U)
    BY <1>4, <2>1, RecordPacketJudges, TalksTransitive
  <2>3. Becomes(U) /\ UNCHANGED work
    BY <1>11, <1>12, <2>1
  <2> QED
    BY <1>11, <2>2, <2>3, TalkStep
<1>13. CASE ~(m.first > m.end)
  <2>1. Continue(T, p, w)
    BY <1>11, <1>13
  <2>2. Attached(T, p, w)
    BY <1>8 DEF Attached
  <2>3. PICK U, v : /\ Becomes(U) /\ Judges(T, U, p) /\ work' = [work EXCEPT ![p] = v]
                    /\ v \in Jobs(p) /\ (v # Idle => Attached(U, p, v))
    BY <1>8, <1>10, <2>1, <2>2, InvFacts, ContinueJudges
  <2>4. Judges(State, U, p)
    BY <1>4, <1>8, <2>3, TalksJudges, JudgesTransitive
  <2>5. busy # p
    BY <1>4, InvFacts, PeersAreNoDrains DEF BusyOK
  <2>6. tip' = tip /\ limits' = limits /\ dialing' = dialing /\ busy' = busy
    BY <1>11
  <2>7. NodeOK(State) /\ State.net = net
    BY InvFacts, StateFields
  <2> QED
    BY <1>4, <2>3, <2>4, <2>5, <2>6, <2>7, ReaderStep
<1> QED
  BY <1>12, <1>13

LEMMA OnGapFillStep == ASSUME SyncInv, NEW p \in Peers, OnGapFill(p) PROVE SyncInv'
<1>1. Reads(p, "gap")
  BY DEF OnGapFill
<1>2. PICK S : S = Rest(p)
  OBVIOUS
<1>3. PICK m : m = inbox[p][1]
  OBVIOUS
<1>4. /\ Talks(State, S) /\ S \in Good /\ S.net = net /\ Sock(S, p) /\ work[p] = Idle
      /\ m \in Messages(p) /\ m.type = "gap" /\ Sock(State, p)
  BY <1>1, <1>2, <1>3, ReadFacts
<1>5. PICK s : s = MessageBlocks(p, m)
  OBVIOUS
<1>6. /\ s \in Seq(Blocks) /\ (m.first <= m.end => s # <<>>)
      /\ m.first \in Int /\ m.end \in Int
  BY <1>4, <1>5, InvFacts, MessageBlocksTrue
<1>7. PICK n : n = [net EXCEPT !.gap = FALSE]
  OBVIOUS
<1>8. n \in NetStates /\ n.peer = S.net.peer /\ n.queue = S.net.queue
  BY <1>4, <1>7, StateParts DEF NetStates, Good
<1>9. PICK T : T = WithNet(S, n)
  OBVIOUS
<1>10. Talks(State, T) /\ T \in Good /\ Sock(T, p)
  BY <1>4, <1>8, <1>9, NetTalks, TalksTransitive, TalksKeepsSock DEF Talks
<1>11. T = [S EXCEPT !.net.gap = FALSE]
  BY <1>4, <1>7, <1>9 DEF WithNet
<1>12. PICK w : w = [Idle EXCEPT !.kind = "gap", !.todo = s]
  OBVIOUS
<1>13. /\ UNCHANGED <<tip, busy, dialing, limits>>
       /\ Becomes(IF m.first > m.end THEN RecordPacket(T, p, TRUE) ELSE T)
       /\ work' = IF m.first > m.end THEN work ELSE [work EXCEPT ![p] = w]
  BY <1>2, <1>3, <1>5, <1>11, <1>12 DEF OnGapFill
<1>14. CASE m.first > m.end
  <2>1. PICK U : U = RecordPacket(T, p, TRUE)
    OBVIOUS
  <2>2. Talks(State, U)
    BY <1>10, <2>1, RecordPacketJudges, TalksTransitive
  <2>3. Becomes(U) /\ UNCHANGED work
    BY <1>13, <1>14, <2>1
  <2> QED
    BY <1>13, <2>2, <2>3, TalkStep
<1>15. CASE ~(m.first > m.end)
  <2>1. s # <<>>
    BY <1>6, <1>15
  <2>2. Idle \in Works /\ Idle.timed = FALSE
    BY DEF Idle, Works
  <2>3. w \in Works /\ w.kind = "gap" /\ w.todo = s /\ w.timed = FALSE
    BY <1>6, <1>12, <2>2 DEF Works
  <2>4. w \in Jobs(p)
    BY <2>1, <2>3, NewJob DEF Handlers
  <2>5. Attached(T, p, w)
    BY <1>10 DEF Attached
  <2>6. Becomes(T) /\ work' = [work EXCEPT ![p] = w]
    BY <1>13, <1>15
  <2>7. Judges(State, T, p)
    BY <1>10, TalksJudges
  <2>8. busy # p
    BY <1>4, InvFacts, PeersAreNoDrains DEF BusyOK
  <2>9. tip' = tip /\ limits' = limits /\ dialing' = dialing /\ busy' = busy
    BY <1>13
  <2>10. NodeOK(State) /\ State.net = net
    BY InvFacts, StateFields
  <2> QED
    BY <1>4, <2>4, <2>5, <2>6, <2>7, <2>8, <2>9, <2>10, ReaderStep
<1> QED
  BY <1>14, <1>15

LEMMA OnBlockStep == ASSUME SyncInv, NEW p \in Peers, OnBlock(p) PROVE SyncInv'
<1>1. Reads(p, "block")
  BY DEF OnBlock
<1>2. PICK S : S = Rest(p)
  OBVIOUS
<1>3. PICK m : m = inbox[p][1]
  OBVIOUS
<1>4. /\ Talks(State, S) /\ S \in Good /\ S.net = net /\ Sock(S, p) /\ work[p] = Idle
      /\ m \in Messages(p) /\ m.type = "block" /\ Sock(State, p)
  BY <1>1, <1>2, <1>3, ReadFacts
<1>5. PICK b : b = Block(p, m.first)
  OBVIOUS
<1>6. b \in Blocks /\ m.next \in Int
  BY <1>4, <1>5, InvFacts, MessageBlocksTrue
<1>7. PICK T : T = [S EXCEPT !.net.peer[p].head = Max({@, b.n}), !.net.seen = Max({@, b.n})]
  OBVIOUS
<1>8. Talks(State, T) /\ T \in Good /\ Sock(T, p)
  <2>1. PICK k \in Int : k = b.n
    BY <1>6 DEF Blocks
  <2>2. T = [S EXCEPT !.net.peer[p].head = Max({@, k}), !.net.seen = Max({@, k})]
    BY <1>7, <2>1
  <2>3. Talks(S, T)
    BY <1>4, <2>2, SeenTalks
  <2> QED
    BY <1>4, <2>3, TalksTransitive, TalksKeepsSock DEF Talks
<1>9. PICK w : w = [Idle EXCEPT !.kind = "block", !.todo = <<b>>, !.next = m.next]
  OBVIOUS
<1>10. w \in Jobs(p)
  <2>1. PICK s : s = <<b>>
    OBVIOUS
  <2>2. s \in Seq(Blocks) /\ s # <<>> /\ Len(s) = 1
    BY <1>6, <2>1
  <2>3. Idle \in Works /\ Idle.timed = FALSE
    BY DEF Idle, Works
  <2>4. w \in Works /\ w.kind = "block" /\ w.todo = s /\ w.timed = FALSE
    BY <1>6, <1>9, <2>1, <2>2, <2>3 DEF Works
  <2> QED
    BY <2>2, <2>4, NewJob DEF Handlers
<1>11. PICK U : U = RequestBlock(T, p, head)
  OBVIOUS
<1>12. Talks(State, U) /\ Sock(U, p)
  <2>1. head \in Int
    BY InvFacts, StateParts, StateFields
  <2> QED
    BY <1>4, <1>8, <1>11, <2>1, InvFacts, RequestBlockTalks, TalksTransitive, TalksKeepsSock
<1>13. /\ UNCHANGED <<tip, busy, dialing, limits>>
       /\ \/ Becomes(T) /\ work' = [work EXCEPT ![p] = w]
          \/ Becomes(RecordPacket(T, p, TRUE)) /\ UNCHANGED work
          \/ Becomes(U) /\ work' = [work EXCEPT ![p] = w]
  BY <1>2, <1>3, <1>5, <1>7, <1>9, <1>11 DEF OnBlock
<1>14. ASSUME NEW R, Talks(State, R), Sock(R, p), Becomes(R), work' = [work EXCEPT ![p] = w]
       PROVE  SyncInv'
  <2>1. Judges(State, R, p) /\ Attached(R, p, w)
    BY <1>14, TalksJudges DEF Attached
  <2>2. busy # p
    BY <1>4, InvFacts, PeersAreNoDrains DEF BusyOK
  <2>3. tip' = tip /\ limits' = limits /\ dialing' = dialing /\ busy' = busy
    BY <1>13
  <2>4. NodeOK(State) /\ State.net = net
    BY InvFacts, StateFields
  <2> QED
    BY <1>4, <1>10, <1>14, <2>1, <2>2, <2>3, <2>4, ReaderStep
<1>15. CASE Becomes(RecordPacket(T, p, TRUE)) /\ UNCHANGED work
  <2>1. Talks(State, RecordPacket(T, p, TRUE))
    BY <1>8, RecordPacketJudges, TalksTransitive
  <2> QED
    BY <1>13, <1>15, <2>1, TalkStep
<1> QED
  BY <1>8, <1>12, <1>13, <1>14, <1>15

LEMMA CorruptRangeStep == ASSUME SyncInv, NEW p \in Peers, CorruptRange(p) PROVE SyncInv'
<1>1. Reads(p, "range")
  BY DEF CorruptRange
<1>2. PICK S : S = Rest(p)
  OBVIOUS
<1>3. Talks(State, S) /\ S \in Good /\ S \in NodeStates
  BY <1>1, <1>2, ReadFacts DEF Good
<1>4. PICK r : r = [S.net.peer[p] EXCEPT !.fallback = TRUE]
  OBVIOUS
<1>5. r \in PeerRecords /\ r.sock = Sock(S, p) /\ r.life = LifeOf(S, p)
  BY <1>3, <1>4, StateParts DEF PeerRecords, Sock, LifeOf
<1>6. PICK T : T = WithPeer(S, p, r)
  OBVIOUS
<1>7. Talks(State, T) /\ T \in Good
  BY <1>3, <1>5, <1>6, NoteTalks, TalksTransitive DEF Talks
<1>8. PICK n : n = IF Lib(State) > 0 THEN Lib(State) ELSE head
  OBVIOUS
<1>9. n \in Int
  BY <1>8, InvFacts, LibIsNat, StateParts, StateFields
<1>10. PICK U : U = IF net.status = "SYNC" THEN RequestBlock(T, p, n) ELSE T
  OBVIOUS
<1>11. Talks(State, U)
  BY <1>7, <1>9, <1>10, InvFacts, RequestBlockTalks, TalksTransitive
<1>12. Becomes(U)
  BY <1>2, <1>4, <1>6, <1>8, <1>10 DEF CorruptRange, WithPeer
<1> QED
  BY <1>11, <1>12, TalkStep DEF CorruptRange

----------------------------------------------------------------------------
(* The blocks in the database. *)

LEMMA EnterAcceptStep == ASSUME SyncInv, NEW f \in Fibers, EnterAccept(f) PROVE SyncInv'
<1>1. /\ NodeOK(State) /\ WorkOK(State, work) /\ DialOK(State, dialing)
  BY InvFacts
<1>2. Becomes(State)
  BY StateFields DEF EnterAccept, Becomes
<1>3. BusyOK(work, f)
  BY DEF BusyOK, EnterAccept
<1> QED
  BY <1>1, <1>2, <1>3, StepOK DEF EnterAccept

\* The fiber of a drain goes on or ends.
LEMMA DrainStep ==
    ASSUME SyncInv, tip' = tip, limits' = limits, dialing' = dialing, NEW f \in Drains,
           NEW S, NodeOK(S), S.net = net, NEW T, Becomes(T), Drained(S, T),
           NEW v \in Jobs(f), work' = [work EXCEPT ![f] = v],
           busy' = NoFiber \/ (busy' = busy /\ busy # f)
    PROVE  SyncInv'
<1>1. /\ WorkOK(State, work) /\ DialOK(State, dialing) /\ BusyOK(work, busy)
      /\ S \in Good /\ State \in Good
  BY InvFacts DEF NodeOK
<1>2. \A q \in Peers : Sock(State, q) = Sock(S, q) /\ LifeOf(State, q) = LifeOf(S, q)
  BY StateFields DEF Sock, LifeOf
<1>3. NodeOK(T)
  <2>1. T \in Good /\ T.head = S.head /\ T.net.queue \subseteq S.net.queue
    BY DEF Drained
  <2>2. IsFiniteSet(S.net.queue) /\ Cardinality(S.net.queue) <= QueueLimit
    BY DEF NodeOK
  <2>3. PICK Q, R : Q = T.net.queue /\ R = S.net.queue
    OBVIOUS
  <2>4. IsFiniteSet(Q) /\ Cardinality(Q) <= Cardinality(R)
    BY <2>1, <2>2, <2>3, FS_Subset
  <2>5. Cardinality(Q) \in Nat /\ Cardinality(R) \in Nat /\ QueueLimit \in Nat
    BY <2>2, <2>3, <2>4, FS_CardinalityType, PeerLimits
  <2>6. Cardinality(Q) <= QueueLimit
    BY <2>2, <2>3, <2>4, <2>5
  <2> QED
    BY <2>1, <2>3, <2>4, <2>6 DEF NodeOK
<1>4. PICK W : W = [work EXCEPT ![f] = v]
  OBVIOUS
<1>5. f \in Fibers /\ v \in Works /\ f \notin Peers
  BY PeersAreNoDrains DEF Fibers, Jobs
<1>6. W \in [Fibers -> Works] /\ W[f] = v /\ \A g \in Fibers \ {f} : W[g] = work[g]
  BY <1>1, <1>4, <1>5 DEF WorkOK
<1>7. WorkOK(T, W)
  <2>1. \A g \in Fibers : W[g] \in Jobs(g)
    BY <1>1, <1>5, <1>6 DEF WorkOK
  <2>2. ASSUME NEW q \in Peers, W[q] # Idle PROVE Attached(T, q, W[q])
    <3>1. W[q] = work[q]
      BY <1>5, <1>6 DEF Fibers
    <3>2. Attached(State, q, work[q])
      BY <1>1, <2>2, <3>1 DEF WorkOK
    <3>3. KeepsPeer(S, T, q)
      BY DEF Drained
    <3> QED
      BY <1>2, <3>1, <3>2, <3>3 DEF Attached, KeepsPeer
  <2> QED
    BY <1>6, <2>1, <2>2 DEF WorkOK
<1>8. DialOK(T, dialing)
  <2>1. \A q \in dialing : q \in Peers /\ ~Sock(S, q)
    BY <1>1, <1>2 DEF DialOK, Good, Wired, Up, Live
  <2>2. \A q \in Peers : KeepsPeer(S, T, q)
    BY DEF Drained
  <2> QED
    BY <1>1, <1>2, <2>1, <2>2 DEF DialOK, KeepsPeer
<1>9. PICK b : b = busy'
  OBVIOUS
<1>10. BusyOK(W, b)
  BY <1>1, <1>6, <1>9 DEF BusyOK
<1> QED
  BY <1>3, <1>4, <1>7, <1>8, <1>9, <1>10, StepOK

\* The new head is a block the honest peers have.
LEMMA NewHeadBounds ==
    ASSUME TipsOK, NEW b \in Blocks, b.main, stored \in SUBSET Blocks
    PROVE  NewHead(b) \in Int /\ b.n <= NewHead(b) /\ NewHead(b) <= tip
<1>1. PICK N : N = {n \in b.n..limits.last :
                      \A k \in (b.n + 1)..n : [n |-> k, main |-> TRUE] \in stored}
  OBVIOUS
<1>2. b.n \in Int /\ b.n <= tip /\ tip \in Nat /\ limits.last \in Nat /\ tip <= limits.last
  BY DEF Blocks, TipsOK, Tips
<1>3. b.n \in N
  BY <1>1, <1>2
<1>4. \A n \in N : n \in Int /\ b.n <= n /\ n <= tip
  <2> SUFFICES ASSUME NEW n \in N PROVE n \in Int /\ b.n <= n /\ n <= tip
    OBVIOUS
  <2>1. n \in Int /\ b.n <= n
    BY <1>1, <1>2
  <2>2. CASE n = b.n
    BY <1>2, <2>1, <2>2
  <2>3. CASE n # b.n
    <3>1. n \in (b.n + 1)..n
      BY <1>2, <2>1, <2>3
    <3>2. PICK c : c = [n |-> n, main |-> TRUE]
      OBVIOUS
    <3>3. c \in Blocks /\ c.main /\ c.n = n
      BY <1>1, <3>1, <3>2
    <3> QED
      BY <2>1, <3>3 DEF Blocks
  <2> QED
    BY <2>2, <2>3
<1>5. \E m \in N : \A n \in N : m >= n
  <2>1. PICK M : M = {n - b.n : n \in N}
    OBVIOUS
  <2>2. PICK d \in Nat : d = tip - b.n
    BY <1>2
  <2>3. M \subseteq Nat /\ M # {} /\ \A k \in M : k <= d
    BY <1>2, <1>3, <1>4, <2>1, <2>2
  <2>4. PICK k \in M : \A j \in M : j <= k
    BY <2>2, <2>3, GreatestExists
  <2>5. PICK m \in N : k = m - b.n
    BY <2>1, <2>4
  <2>6. \A n \in N : m >= n
    BY <1>2, <1>4, <2>1, <2>4, <2>5
  <2> QED
    BY <2>6
<1>6. PICK z : z = Max(N)
  OBVIOUS
<1>7. z \in N
  BY <1>5, <1>6 DEF Max
<1> QED
  BY <1>1, <1>4, <1>6, <1>7 DEF NewHead

LEMMA AfterOK ==
    ASSUME SyncInv, NEW b \in Blocks, NEW result \in Results(b) \cup LocalFailures
    PROVE  /\ result \in Outcomes
           /\ NodeOK(After(b, result)) /\ After(b, result).net = net
<1>1. PICK S : S = State
  OBVIOUS
<1>2. S \in Good /\ S \in NodeStates /\ NodeOK(S) /\ TipsOK /\ Wired(S)
  BY <1>1, InvFacts DEF SyncInv, Good
<1>3. S.net = net /\ S.inbox = inbox /\ S.head = head /\ S.stored = stored
  BY <1>1, StateFields
<1>4. result \in Outcomes
  BY DEF Results, LocalFailures, Outcomes
<1>5. CASE result = "fork"
  <2>1. PICK X : X = stored \cup {b}
    OBVIOUS
  <2>2. X \in SUBSET Blocks
    BY <1>2, <1>3, <2>1, StateParts
  <2>3. PICK T : T = [S EXCEPT !.stored = X]
    OBVIOUS
  <2>4. After(b, result) = T
    BY <1>1, <1>3, <1>5, <2>1, <2>3 DEF After
  <2>5. T \in NodeStates /\ T.net = S.net /\ T.inbox = S.inbox /\ T.head = S.head
    BY <1>2, <2>2, <2>3 DEF NodeStates
  <2>6. Wired(T)
    BY <1>2, <2>5 DEF Wired, Sock, LifeOf
  <2>7. NodeOK(T)
    BY <1>2, <2>5, <2>6 DEF NodeOK, Good
  <2> QED
    BY <1>3, <1>4, <2>4, <2>5, <2>7
<1>6. CASE result = "accepted"
  <2>1. b.main /\ b.n = head + 1
    BY <1>6 DEF Results, LocalFailures
  <2>2. stored \in SUBSET Blocks
    BY <1>2, <1>3, StateParts
  <2>3. PICK h : h = NewHead(b)
    OBVIOUS
  <2>4. h \in Int /\ b.n <= h /\ h <= tip
    BY <1>2, <2>1, <2>2, <2>3, NewHeadBounds
  <2>5. head \in Nat /\ Start <= head /\ Start \in Nat
    BY <1>2, <1>3, StateParts, PeerConstants DEF NodeOK
  <2>6. h \in Nat /\ Start <= h
    BY <2>1, <2>4, <2>5
  <2>7. PICK X : X = {c \in stored : ~c.main \/ c.n > h}
    OBVIOUS
  <2>8. X \in SUBSET Blocks
    BY <2>2, <2>7
  <2>9. PICK T : T = [S EXCEPT !.head = h, !.stored = X]
    OBVIOUS
  <2>10. After(b, result) = T
    BY <1>1, <1>3, <1>6, <2>3, <2>7, <2>9 DEF After
  <2>11. T \in NodeStates /\ T.net = S.net /\ T.inbox = S.inbox /\ T.head = h
    BY <1>2, <2>6, <2>8, <2>9 DEF NodeStates
  <2>12. Wired(T)
    BY <1>2, <2>11 DEF Wired, Sock, LifeOf
  <2>13. NodeOK(T)
    BY <1>2, <2>4, <2>6, <2>11, <2>12 DEF NodeOK, Good
  <2> QED
    BY <1>3, <1>4, <2>10, <2>11, <2>13
<1>7. CASE result \notin {"fork", "accepted"}
  <2>1. After(b, result) = S
    BY <1>1, <1>7 DEF After
  <2> QED
    BY <1>2, <1>3, <1>4, <2>1
<1> QED
  BY <1>5, <1>6, <1>7

LEMMA DrainedAfterTalk ==
    ASSUME NEW S, NEW T, NEW U, Talks(S, T), Drained(T, U) PROVE Drained(S, U)
BY DEF Talks, Drained, SameBlocks, KeepsPeer

\* What is left of a handler after a block.
Left(w, breaks, applied, fork) ==
    [w EXCEPT !.todo = IF breaks THEN <<>> ELSE Tail(@),
              !.applied = @ \/ applied, !.fork = @ \/ fork]

LEMMA TakenBlock ==
    ASSUME NEW w \in Works, w.todo # <<>>, NEW breaks \in BOOLEAN,
           NEW applied \in BOOLEAN, NEW fork \in BOOLEAN, NEW v,
           v = Left(w, breaks, applied, fork)
    PROVE  /\ v \in Works /\ v.kind = w.kind /\ v.timed = w.timed
           /\ v.todo # <<>> => ~breaks /\ Len(w.todo) # 1
<1>1. PICK s : s = IF breaks THEN <<>> ELSE Tail(w.todo)
  OBVIOUS
<1>2. w.todo \in Seq(Blocks)
  BY DEF Works
<1>3. Tail(w.todo) \in Seq(Blocks) /\ Len(Tail(w.todo)) = Len(w.todo) - 1
  BY <1>2
<1>4. s \in Seq(Blocks)
  BY <1>1, <1>3
<1>5. PICK a : a = (w.applied \/ applied)
  OBVIOUS
<1>6. PICK k : k = (w.fork \/ fork)
  OBVIOUS
<1>7. a \in BOOLEAN /\ k \in BOOLEAN
  BY <1>5, <1>6
<1>8. v = [w EXCEPT !.todo = s, !.applied = a, !.fork = k]
  BY <1>1, <1>5, <1>6 DEF Left, Works
<1>9. v \in Works /\ v.kind = w.kind /\ v.timed = w.timed /\ v.todo = s
  BY <1>4, <1>7, <1>8 DEF Works
<1>10. s # <<>> => ~breaks /\ Len(w.todo) # 1
  <2> SUFFICES ASSUME s # <<>> PROVE ~breaks /\ Len(w.todo) # 1
    OBVIOUS
  <2>1. ~breaks /\ s = Tail(w.todo)
    BY <1>1
  <2>2. Len(s) # 0
    BY <1>4
  <2> QED
    BY <1>3, <2>1, <2>2
<1> QED
  BY <1>9, <1>10

LEMMA LeaveAcceptStep == ASSUME SyncInv, NEW f \in Fibers, LeaveAccept(f) PROVE SyncInv'
<1>1. PICK w : w = work[f]
  OBVIOUS
<1>2. w \in Jobs(f) /\ w # Idle /\ WorkOK(State, work)
  BY <1>1, InvFacts DEF WorkOK, LeaveAccept
<1>3. w \in Works /\ w.todo # <<>> /\ w.kind # "idle" /\ (w.timed => w.kind = "range")
      /\ (w.kind = "block" => Len(w.todo) = 1)
      /\ (f \in Peers => w.kind \in Handlers) /\ (f \in Drains => w.kind = "drain")
  BY <1>2 DEF Jobs
<1>4. PICK b : b = Head(w.todo)
  OBVIOUS
<1>5. b \in Blocks
  BY <1>3, <1>4 DEF Works
<1>6. PICK result \in Results(b) \cup LocalFailures :
        LET breaks == result = "resize" \/ (result = "dead" /\ f \in Peers)
        IN  Continue(Reaction(After(b, result), f, w, result), f,
                     [w EXCEPT !.todo = IF breaks THEN <<>> ELSE Tail(@),
                               !.applied = @ \/ result = "accepted",
                               !.fork = @ \/ result = "fork"])
  BY <1>1, <1>4 DEF LeaveAccept
<1>7. PICK breaks : breaks = (result = "resize" \/ (result = "dead" /\ f \in Peers))
  OBVIOUS
<1>8. PICK v : v = [w EXCEPT !.todo = IF breaks THEN <<>> ELSE Tail(@),
                             !.applied = @ \/ result = "accepted",
                             !.fork = @ \/ result = "fork"]
  OBVIOUS
<1>9. PICK S : S = After(b, result)
  OBVIOUS
<1>10. PICK R : R = Reaction(S, f, w, result)
  OBVIOUS
<1>11. Continue(R, f, v)
  BY <1>6, <1>7, <1>8, <1>9, <1>10
<1>12. result \in Outcomes /\ NodeOK(S) /\ S.net = net /\ S \in Good
  BY <1>5, <1>9, AfterOK DEF NodeOK
<1>13. /\ v \in Works /\ v.kind = w.kind /\ v.timed = w.timed
       /\ v.todo # <<>> => ~breaks /\ Len(w.todo) # 1
  <2>1. breaks \in BOOLEAN
    BY <1>7
  <2>2. PICK applied : applied = (result = "accepted")
    OBVIOUS
  <2>3. PICK fork : fork = (result = "fork")
    OBVIOUS
  <2>4. applied \in BOOLEAN /\ fork \in BOOLEAN
    BY <2>2, <2>3
  <2>5. v = Left(w, breaks, applied, fork)
    BY <1>8, <2>2, <2>3 DEF Left
  <2> QED
    BY <1>3, <2>1, <2>4, <2>5, TakenBlock
<1>14. tip' = tip /\ limits' = limits /\ dialing' = dialing /\ busy' = NoFiber
  BY DEF LeaveAccept
<1>15. CASE f \in Peers
  <2>1. Attached(S, f, w)
    <3>1. Attached(State, f, w)
      BY <1>1, <1>2, <1>15 DEF WorkOK
    <3>2. Sock(State, f) = Sock(S, f) /\ LifeOf(State, f) = LifeOf(S, f)
      BY <1>12, StateFields DEF Sock, LifeOf
    <3> QED
      BY <3>1, <3>2 DEF Attached
  <2>2. /\ Judges(S, R, f) /\ R \in Good
        /\ result # "dead" /\ w.kind # "block" => Attached(R, f, w)
    BY <1>3, <1>10, <1>12, <1>15, <2>1, InvFacts, ReactionJudges DEF Judges
  <2>3. w.kind = "range" => Attached(R, f, w)
    BY <1>15, <2>1, <2>2, JudgesKeepsRange
  <2>4. v.kind = "range" => Attached(R, f, v)
    BY <1>13, <2>3 DEF Attached
  <2>5. v.todo # <<>> => Attached(R, f, v) /\ v.kind # "block"
    BY <1>3, <1>7, <1>13, <1>15, <2>2 DEF Attached
  <2>6. v.kind \in Handlers /\ (v.timed => v.kind = "range")
    BY <1>3, <1>13, <1>15
  <2>7. PICK T, u : /\ Becomes(T) /\ Judges(R, T, f) /\ work' = [work EXCEPT ![f] = u]
                    /\ u \in Jobs(f) /\ (u # Idle => Attached(T, f, u))
    BY <1>11, <1>13, <1>15, <2>2, <2>4, <2>5, <2>6, InvFacts, ContinueJudges
  <2>8. Judges(S, T, f)
    BY <2>2, <2>7, JudgesTransitive
  <2>9. Sock(S, f) \/ LifeOf(S, f) = "banned"
    BY <2>1 DEF Attached
  <2> QED
    BY <1>12, <1>14, <1>15, <2>7, <2>8, <2>9, ReaderStep
<1>16. CASE f \in Drains
  <2>1. w.kind = "drain" /\ v.kind = "drain" /\ ~v.timed
    BY <1>3, <1>13, <1>16
  <2>2. Talks(S, R) /\ R \in Good
    BY <1>10, <1>12, <1>16, <2>1, DrainReacts DEF Talks
  <2>3. PICK T, u : /\ Becomes(T) /\ Drained(R, T) /\ work' = [work EXCEPT ![f] = u]
                    /\ u \in Jobs(f)
    BY <1>11, <1>13, <1>16, <2>1, <2>2, ContinueDrains
  <2>4. Drained(S, T)
    BY <2>2, <2>3, DrainedAfterTalk
  <2> QED
    BY <1>12, <1>14, <1>16, <2>3, <2>4, DrainStep
<1> QED
  BY <1>15, <1>16 DEF Fibers

\* A range that takes too long: its handler goes on, without a time limit.
LEMMA BatchTimeoutStep == ASSUME SyncInv, NEW p \in Peers, BatchTimeout(p) PROVE SyncInv'
<1>1. PICK w : w = work[p]
  OBVIOUS
<1>2. w \in Jobs(p) /\ w.timed /\ p \in Fibers /\ WorkOK(State, work) /\ State \in Good
  BY <1>1, InvFacts DEF WorkOK, BatchTimeout, Fibers
<1>3. w \in Works /\ w.kind = "range" /\ w # Idle /\ w.todo # <<>>
  BY <1>2 DEF Jobs
<1>4. PICK v : v = [w EXCEPT !.timed = FALSE]
  OBVIOUS
<1>5. v \in Works /\ v.kind = "range" /\ v.todo = w.todo /\ v.timed = FALSE
  BY <1>3, <1>4 DEF Works
<1>6. v \in Jobs(p) /\ v # Idle
  <2>1. v.kind \in Handlers /\ v.kind # "block" /\ v.todo # <<>>
    BY <1>3, <1>5 DEF Handlers
  <2>2. v # Idle
    BY <1>5 DEF Idle
  <2> QED
    BY <1>5, <2>1, <2>2, NewJob
<1>7. PICK T : T = RecordPacket(State, p, FALSE)
  OBVIOUS
<1>8. Judges(State, T, p)
  BY <1>2, <1>7, RecordPacketJudges
<1>9. Attached(State, p, w)
  BY <1>1, <1>2, <1>3 DEF WorkOK
<1>10. Attached(T, p, v)
  <2>1. Attached(T, p, w)
    BY <1>3, <1>8, <1>9, JudgesKeepsRange
  <2> QED
    BY <1>3, <1>5, <2>1 DEF Attached
<1>11. PICK W : W = [work EXCEPT ![p] = v]
  OBVIOUS
<1>12. work' = W /\ Becomes(T)
  <2>1. work \in [Fibers -> Works]
    BY <1>2 DEF WorkOK
  <2> QED
    BY <1>1, <1>4, <1>7, <1>11, <2>1 DEF BatchTimeout
<1>13. W \in [Fibers -> Works] /\ W[p] = v /\ \A f \in Fibers \ {p} : W[f] = work[f]
  BY <1>2, <1>5, <1>11 DEF WorkOK
<1>14. NodeOK(T)
  BY <1>8, InvFacts DEF Judges, SameBlocks, NodeOK
<1>15. WorkOK(T, W)
  <2>1. \A f \in Fibers : W[f] \in Jobs(f)
    BY <1>2, <1>6, <1>13 DEF WorkOK
  <2>2. ASSUME NEW q \in Peers, W[q] # Idle PROVE Attached(T, q, W[q])
    <3>1. CASE q = p
      BY <1>10, <1>13, <3>1
    <3>2. CASE q # p
      <4>1. W[q] = work[q]
        BY <1>13, <3>2 DEF Fibers
      <4>2. Attached(State, q, work[q])
        BY <1>2, <2>2, <4>1 DEF WorkOK
      <4>3. KeepsPeer(State, T, q)
        BY <1>8, <3>2 DEF Judges
      <4> QED
        BY <4>1, <4>2, <4>3 DEF Attached, KeepsPeer
    <3> QED
      BY <3>1, <3>2
  <2> QED
    BY <1>13, <2>1, <2>2 DEF WorkOK
<1>16. DialOK(T, dialing)
  <2>1. \A q \in dialing : /\ q \in Peers /\ ~Sock(State, q) /\ q # p
                           /\ LifeOf(State, q) \in {"disconnected", "connecting"}
    BY <1>2, <1>9, InvFacts DEF DialOK, Good, Wired, Up, Live, Attached
  <2>2. \A q \in Peers \ {p} : KeepsPeer(State, T, q)
    BY <1>8 DEF Judges
  <2> QED
    BY <2>1, <2>2 DEF DialOK, KeepsPeer
<1>17. PICK c : c = busy
  OBVIOUS
<1>18. BusyOK(W, c)
  BY <1>6, <1>13, <1>17, InvFacts DEF BusyOK
<1>19. tip' = tip /\ limits' = limits /\ dialing' = dialing /\ busy' = c
  BY <1>17 DEF BatchTimeout
<1> QED
  BY <1>12, <1>14, <1>15, <1>16, <1>18, <1>19, StepOK

----------------------------------------------------------------------------
(* The peers. *)

LEMMA PeerStatusStep == ASSUME SyncInv, NEW p \in Peers, PeerStatus(p) PROVE SyncInv'
<1>1. PICK m : m = [type |-> "fork_status", head |-> PeerTip(p)]
  OBVIOUS
<1>2. m \in Messages(p)
  BY <1>1, InvFacts, HelloMessages
<1>3. PICK T : T = Deliver(State, p, m)
  OBVIOUS
<1>4. Talks(State, T)
  BY <1>2, <1>3, InvFacts, DeliverTalks
<1>5. Becomes(T)
  BY <1>1, <1>3 DEF PeerStatus
<1> QED
  BY <1>4, <1>5, TalkStep DEF PeerStatus

LEMMA PeerBansUsStep == ASSUME SyncInv, NEW p \in Peers, PeerBansUs(p) PROVE SyncInv'
<1>1. PICK m : m = [type |-> "soft_ban"]
  OBVIOUS
<1>2. m \in Messages(p)
  BY <1>1, InvFacts, HelloMessages
<1>3. PICK T : T = Deliver(State, p, m)
  OBVIOUS
<1>4. Talks(State, T)
  BY <1>2, <1>3, InvFacts, DeliverTalks
<1>5. Becomes(T)
  BY <1>1, <1>3 DEF PeerBansUs
<1> QED
  BY <1>4, <1>5, TalkStep DEF PeerBansUs

LEMMA OtherBlockStep == ASSUME SyncInv, NEW p \in Peers, OtherBlock(p) PROVE SyncInv'
<1>1. PICK n \in Int : n = limits.other
  BY InvFacts DEF Tips, ScenarioBounds
<1>2. PICK m : m = [type |-> "block", first |-> n, next |-> 0]
  OBVIOUS
<1>3. m \in Messages(p)
  <2>1. p \notin Honest
    BY DEF OtherBlock
  <2>2. m \in [type : {"block"}, first : Int, next : Int]
    BY <1>2
  <2> QED
    BY <2>1, <2>2 DEF Messages
<1>4. PICK T : T = Deliver(State, p, m)
  OBVIOUS
<1>5. Talks(State, T)
  BY <1>3, <1>4, InvFacts, DeliverTalks
<1>6. Becomes(T)
  BY <1>1, <1>2, <1>4 DEF OtherBlock
<1> QED
  BY <1>5, <1>6, TalkStep DEF OtherBlock

----------------------------------------------------------------------------
(* The checks of the periodic task. *)

\* A check that asks for ranges has used up the last call of request_gap_fill.
LEMMA UntriedTalks == ASSUME SyncInv PROVE Talks(State, Untried) /\ Untried \in Good
<1>1. PICK S : S = State
  OBVIOUS
<1>2. S \in Good /\ S \in NodeStates /\ S.net \in NetStates
  BY <1>1, InvFacts, StateParts
<1>3. PICK n : n = [S.net EXCEPT !.tried = FALSE]
  OBVIOUS
<1>4. n \in NetStates /\ n.peer = S.net.peer /\ n.queue = S.net.queue
  BY <1>2, <1>3 DEF NetStates
<1>5. Untried = WithNet(S, n)
  BY <1>1, <1>3 DEF Untried, WithNet
<1> QED
  BY <1>1, <1>2, <1>4, <1>5, NetTalks DEF Talks

LEMMA SyncStagnationStep == ASSUME SyncInv, SyncStagnation PROVE SyncInv'
<1>1. PICK S : S = State
  OBVIOUS
<1>2. S \in Good /\ S \in NodeStates /\ Tips /\ S.net = net
  BY <1>1, InvFacts, StateFields
<1>3. PICK k : k = net.retries + 1
  OBVIOUS
<1>4. PICK n : n = [net EXCEPT !.tried = FALSE, !.retries = k]
  OBVIOUS
<1>5. PICK T : T = WithNet(S, n)
  OBVIOUS
<1>7. net \in NetStates /\ net.retries \in 0..RetryLimit /\ net.status = "SYNC"
  BY <1>2, StateParts DEF NetStates, SyncStagnation
<1>6. T = [Untried EXCEPT !.net.retries = @ + 1]
  BY <1>1, <1>2, <1>3, <1>4, <1>5, <1>7 DEF WithNet, Untried, NodeStates, NetStates
<1>8. T.net = n /\ n.retries = k
  BY <1>2, <1>4, <1>5, <1>7 DEF WithNet, NodeStates, NetStates
<1>9. Becomes(IF k >= RetryLimit THEN ToForward(T) ELSE RequestFrom(T, FALSE))
  BY <1>6, <1>8 DEF SyncStagnation
<1>10. CASE ~(k >= RetryLimit)
  <2>1. k \in 0..RetryLimit
    BY <1>3, <1>7, <1>10, PeerLimits
  <2>2. n \in NetStates /\ n.peer = S.net.peer /\ n.queue = S.net.queue
    BY <1>2, <1>4, <1>7, <2>1 DEF NetStates
  <2>3. Talks(S, T) /\ T \in Good
    BY <1>2, <1>5, <2>2, NetTalks DEF Talks
  <2>4. PICK U : U = RequestFrom(T, FALSE)
    OBVIOUS
  <2>5. Talks(S, U)
    BY <1>2, <2>3, <2>4, RequestFromTalks, TalksTransitive
  <2> QED
    BY <1>1, <1>9, <1>10, <2>4, <2>5, TalkStep DEF SyncStagnation, RangeCheck, Periodic
\* The transition to FORWARD sets the counter to zero.
<1>11. CASE k >= RetryLimit
  <2>13. PICK B : B = Untried
    OBVIOUS
  <2>14. Talks(S, B) /\ B \in Good /\ B \in NodeStates
    BY <1>1, <2>13, UntriedTalks DEF Good
  <2>15. B.net = [net EXCEPT !.tried = FALSE] /\ B = [S EXCEPT !.net = B.net] /\ T = [B EXCEPT !.net = n]
    BY <1>1, <1>2, <1>5, <2>13 DEF Untried, WithNet, NodeStates
  <2>1. T.net.status = "SYNC" /\ B.net.status = "SYNC"
    BY <1>2, <1>4, <1>7, <1>8, <2>15 DEF NetStates
  <2>2. T.net.peer = B.net.peer /\ T.head = B.head /\ T.stored = B.stored
    BY <1>4, <1>7, <1>8, <2>14, <2>15 DEF NodeStates, NetStates
  <2>3. \A p \in Peers : Realigned(T, p) = Realigned(B, p)
    BY <2>2 DEF Realigned, Known
  <2>4. PICK P : P = [p \in Peers |-> Realigned(B, p)]
    OBVIOUS
  <2>5. P = [p \in Peers |-> Realigned(T, p)]
    BY <2>3, <2>4
  <2>12. PICK M : M = [T.net EXCEPT !.catchup = FALSE, !.status = "FORWARD",
                                    !.retries = 0, !.peer = P]
    OBVIOUS
  <2>6. ToForward(T) = [T EXCEPT !.net = M]
    BY <1>4, <1>7, <1>8, <2>1, <2>5, <2>12, <2>14, <2>15 DEF ToForward, NodeStates, NetStates
  <2>8. M = [B.net EXCEPT !.catchup = FALSE, !.status = "FORWARD", !.retries = 0, !.peer = P]
    BY <1>4, <1>7, <1>8, <2>12, <2>15 DEF NetStates
  <2>7. ToForward(B) = [B EXCEPT !.net = M]
    BY <1>7, <2>1, <2>4, <2>8, <2>14, <2>15 DEF ToForward, NodeStates, NetStates
  <2>9. ToForward(T) = ToForward(B)
    BY <2>6, <2>7, <2>14, <2>15 DEF NodeStates
  <2>10. Talks(S, ToForward(B))
    BY <2>14, ToForwardTalks, TalksTransitive
  <2>11. Becomes(ToForward(B))
    BY <1>9, <1>11, <2>9
  <2> QED
    BY <1>1, <2>10, <2>11, TalkStep DEF SyncStagnation, RangeCheck, Periodic
<1> QED
  BY <1>10, <1>11

LEMMA SyncCatchupStep == ASSUME SyncInv, SyncCatchup PROVE SyncInv'
<1>1. Talks(State, CheckSyncCatchup(State))
  BY InvFacts, CheckSyncCatchupTalks
<1> QED
  BY <1>1, TalkStep DEF SyncCatchup, Periodic

LEMMA AskAgainStep ==
    ASSUME SyncInv, Becomes(RequestFrom(ToSync(Untried), TRUE)),
           UNCHANGED <<tip, work, busy, dialing, limits>>
    PROVE  SyncInv'
<1>1. PICK T : T = ToSync(Untried)
  OBVIOUS
<1>2. Talks(State, T) /\ T \in Good
  BY <1>1, UntriedTalks, ToSyncTalks, TalksTransitive DEF Talks
<1>3. Talks(State, RequestFrom(T, TRUE))
  BY <1>2, InvFacts, RequestFromTalks, TalksTransitive
<1> QED
  BY <1>1, <1>3, TalkStep

\* A request to fill a gap.
LEMMA AskForGapStep ==
    ASSUME SyncInv, AskForGap, UNCHANGED <<tip, work, busy, dialing, limits>>
    PROVE  SyncInv'
<1>1. PICK S : S = State
  OBVIOUS
<1>2. /\ S \in Good /\ S \in NodeStates /\ Tips /\ S.net = net /\ S.head = head
      /\ net \in NetStates
  BY <1>1, InvFacts, StateFields, StateParts
<1>3. PICK best : best = {p \in GapServers : net.peer[p].exchange}
  OBVIOUS
<1>4. PICK top : top = Max({GapStart} \cup {net.peer[p].head : p \in best})
  OBVIOUS
<1>5. PICK asked : asked = IF best # {} THEN {p \in best : net.peer[p].head = top} ELSE GapServers
  OBVIOUS
<1>6. PICK ceiling : ceiling = Max({top, net.seen})
  OBVIOUS
<1>7. PICK g : g = (asked # {} /\ ceiling > GapStart)
  OBVIOUS
<1>18. PICK z \in Int : z = 0
  OBVIOUS
<1>8. PICK n : n = [net EXCEPT !.override = z, !.tried = TRUE, !.gap = g]
  OBVIOUS
<1>9. PICK T : T = WithNet(S, n)
  OBVIOUS
<1>10. Talks(S, T) /\ T \in Good
  <2>1. g \in BOOLEAN
    BY <1>7
  <2>2. n \in NetStates /\ n.peer = S.net.peer /\ n.queue = S.net.queue
    BY <1>2, <1>8, <2>1 DEF NetStates
  <2> QED
    BY <1>2, <1>9, <2>2, NetTalks DEF Talks
<1>11. T = [State EXCEPT !.net.override = 0, !.net.tried = TRUE, !.net.gap = g]
  <2>1. [S EXCEPT !.net.override = 0, !.net.tried = TRUE, !.net.gap = g] = [S EXCEPT !.net = n]
    BY <1>2, <1>8, <1>18 DEF NodeStates, NetStates
  <2> QED
    BY <1>1, <1>9, <2>1 DEF WithNet
<1>12. \/ Becomes(T)
       \/ \E p \in {Order[Min({i \in DOMAIN Order : Order[i] \in asked})]} :
            /\ asked # {}
            /\ Becomes(Deliver(T, p,
                  [type |-> "gap", first |-> Max({GapStart, Earliest[p]}), next |-> 0,
                   end |-> Min({ceiling, GapStart + GapSize - 1, PeerTip(p)})]))
  BY <1>3, <1>4, <1>5, <1>6, <1>7, <1>11 DEF AskForGap
<1>13. CASE Becomes(T)
  BY <1>1, <1>10, <1>13, TalkStep
<1>14. ASSUME asked # {},
              NEW p, p = Order[Min({i \in DOMAIN Order : Order[i] \in asked})],
              Becomes(Deliver(T, p,
                 [type |-> "gap", first |-> Max({GapStart, Earliest[p]}), next |-> 0,
                  end |-> Min({ceiling, GapStart + GapSize - 1, PeerTip(p)})]))
       PROVE  SyncInv'
  <2>1. GapStart \in Int
    BY <1>2 DEF GapStart, NetStates, NodeStates
  <2>2. best \subseteq Peers /\ asked \subseteq Peers
    BY <1>3, <1>5 DEF GapServers
  <2>3. ceiling \in Int
    <3>1. PICK H : H = {net.peer[q].head : q \in best}
      OBVIOUS
    <3>2. IsFiniteSet(H)
      <4>1. PICK e : e = [q \in best |-> net.peer[q].head]
        OBVIOUS
      <4>2. e \in [best -> H]
        BY <3>1, <4>1
      <4>3. \A x \in H : \E q \in best : e[q] = x
        BY <3>1, <4>1
      <4>4. e \in Surjection(best, H)
        BY <4>2, <4>3 DEF Surjection
      <4>5. IsFiniteSet(best)
        BY <2>2, PeerConstants, FS_Subset
      <4> QED
        BY <4>4, <4>5, FS_Surjection
    <3>3. H \subseteq Int
      <4>1. \A q \in Peers : net.peer[q] \in PeerRecords
        BY <1>2, StateParts
      <4> QED
        BY <2>2, <3>1, <4>1 DEF PeerRecords
    <3>4. PICK X : X = {GapStart} \cup H
      OBVIOUS
    <3>5. IsFiniteSet(X) /\ X \subseteq Int /\ X # {}
      BY <2>1, <3>2, <3>3, <3>4, FS_Singleton, FS_Union
    <3>6. top \in Int
      BY <1>4, <3>1, <3>4, <3>5, FiniteMaximum
    <3>7. net.seen \in Int
      BY <1>2 DEF NetStates
    <3> QED
      BY <1>6, <3>6, <3>7, MaxOfTwo
  <2>4. p \in Peers
    <3>1. PICK I : I = {i \in DOMAIN Order : Order[i] \in asked}
      OBVIOUS
    <3>2. I \subseteq Nat
      BY <3>1, PeerOrder
    <3>3. I # {}
      <4>1. PICK q \in Peers : q \in asked
        BY <1>14, <2>2
      <4> QED
        BY <3>1, <4>1, PeerOrder
    <3>4. PICK i \in I : \A j \in I : i <= j
      BY <3>2, <3>3, LeastExists
    <3>5. Min(I) \in I
      BY <3>2, <3>4 DEF Min
    <3> QED
      BY <1>14, <2>2, <3>1, <3>5
  <2>5. PICK a : a = Max({GapStart, Earliest[p]})
    OBVIOUS
  <2>6. PICK e : e = Min({ceiling, GapStart + GapSize - 1, PeerTip(p)})
    OBVIOUS
  <2>7. PeerTip(p) \in Int /\ (p \in Honest => PeerTip(p) = tip) /\ Earliest[p] \in Int
    BY <1>2, <2>4, PeerTipIsKnown
  <2>8. a \in Int
    BY <2>1, <2>5, <2>7, MaxOfTwo
  <2>9. e \in Int /\ e <= PeerTip(p)
    <3>1. PICK k \in Int : k = GapStart + GapSize - 1
      BY <2>1, PeerLimits
    <3> QED
      BY <2>3, <2>6, <2>7, <3>1, MinOfThree
  <2>10. PICK m : m = [type |-> "gap", first |-> a, next |-> z, end |-> e]
    OBVIOUS
  <2>11. m \in [type : {"range", "gap"}, first : Int, end : Int, next : Int]
    BY <2>8, <2>9, <2>10
  <2>12. m \in Messages(p)
    BY <2>7, <2>9, <2>10, <2>11 DEF Messages
  <2>13. Talks(T, Deliver(T, p, m))
    BY <1>10, <2>4, <2>12, DeliverTalks
  <2>14. Talks(State, Deliver(T, p, m))
    BY <1>1, <1>10, <2>13, TalksTransitive
  <2>15. Becomes(Deliver(T, p, m))
    BY <1>14, <1>18, <2>5, <2>6, <2>10
  <2> QED
    BY <2>14, <2>15, TalkStep
<1> QED
  BY <1>12, <1>13, <1>14

\* No live peer: the banned ones are let in again.
LEMMA IsolatedStep == ASSUME SyncInv, Isolated PROVE SyncInv'
<1>1. PICK S : S = ToSync(State)
  OBVIOUS
<1>2. Talks(State, S) /\ S \in Good /\ S \in NodeStates /\ Wired(S)
  BY <1>1, InvFacts, ToSyncTalks DEF Talks, Good
<1>3. S.net.peer = net.peer
  BY <1>1, StateFields, InvFacts DEF ToSync, NodeStates, NetStates
<1>4. PICK P : P = [p \in Peers |-> IF net.peer[p].life # "banned" THEN net.peer[p]
                                    ELSE [net.peer[p] EXCEPT !.life = "disconnected",
                                                             !.strikes = 0]]
  OBVIOUS
<1>5. ASSUME NEW p \in Peers
      PROVE  /\ P[p] \in PeerRecords /\ P[p].sock = Sock(S, p)
             /\ P[p].life = IF LifeOf(S, p) = "banned" THEN "disconnected" ELSE LifeOf(S, p)
  <2>1. net.peer[p] \in PeerRecords /\ net.peer[p] = S.net.peer[p]
    BY <1>2, <1>3, StateParts
  <2>2. CASE net.peer[p].life # "banned"
    BY <1>4, <2>1, <2>2 DEF Sock, LifeOf
  <2>3. CASE net.peer[p].life = "banned"
    <3>1. PICK r : r = [net.peer[p] EXCEPT !.life = "disconnected", !.strikes = 0]
      OBVIOUS
    <3>2. r \in PeerRecords /\ r.sock = net.peer[p].sock /\ r.life = "disconnected"
      BY <2>1, <3>1 DEF PeerRecords, Down
    <3> QED
      BY <1>4, <2>1, <2>3, <3>1, <3>2 DEF Sock, LifeOf
  <2> QED
    BY <2>2, <2>3
<1>6. PICK n : n = [S.net EXCEPT !.retries = 0, !.peer = P]
  OBVIOUS
<1>7. n \in NetStates /\ n.peer = P /\ n.queue = S.net.queue
  <2>1. S.net \in NetStates /\ 0 \in 0..RetryLimit
    BY <1>2, StateParts, PeerLimits
  <2>2. P \in [Peers -> PeerRecords]
    BY <1>4, <1>5
  <2> QED
    BY <1>6, <2>1, <2>2 DEF NetStates
<1>8. PICK T : T = WithNet(S, n)
  OBVIOUS
<1>9. /\ T \in NodeStates /\ T.net = n /\ T.inbox = S.inbox /\ T.head = S.head
      /\ T.stored = S.stored
  BY <1>2, <1>7, <1>8, WithNetState
<1>10. ASSUME NEW p \in Peers
       PROVE  /\ Sock(T, p) = Sock(S, p)
              /\ LifeOf(T, p) = IF LifeOf(S, p) = "banned" THEN "disconnected" ELSE LifeOf(S, p)
  <2>1. T.net.peer[p] = P[p]
    BY <1>7, <1>9
  <2> QED
    BY <1>5, <2>1 DEF Sock, LifeOf
<1>11. Wired(T)
  <2>1. ASSUME NEW p \in Peers PROVE (LifeOf(T, p) \in Up) = (LifeOf(S, p) \in Up)
    <3>1. CASE LifeOf(S, p) = "banned"
      <4>1. (LifeOf(S, p) \in Up) = FALSE
        BY <3>1 DEF Up, Live
      <4>2. (LifeOf(T, p) \in Up) = FALSE
        BY <1>10, <3>1 DEF Up, Live
      <4> QED
        BY <4>1, <4>2
    <3>2. CASE LifeOf(S, p) # "banned"
      BY <1>10, <3>2
    <3> QED
      BY <3>1, <3>2
  <2>2. \A p \in Peers : Sock(T, p) = (LifeOf(T, p) \in Up)
    BY <1>2, <1>10, <2>1 DEF Wired
  <2>3. \A p \in Peers : ~Sock(T, p) => T.inbox[p] = <<>>
    BY <1>2, <1>9, <1>10 DEF Wired
  <2> QED
    BY <2>2, <2>3 DEF Wired
<1>12. Becomes(T)
  <2>1. PICK z : z = 0
    OBVIOUS
  <2>2. PICK V : V = [S EXCEPT !.net.retries = z]
    OBVIOUS
  <2>3. [V EXCEPT !.net.peer = P] = [S EXCEPT !.net = n]
    BY <1>2, <1>6, <2>1, <2>2 DEF NodeStates, NetStates
  <2>4. Becomes([V EXCEPT !.net.peer = P])
    BY <1>1, <1>4, <2>1, <2>2 DEF Isolated
  <2> QED
    BY <1>8, <2>3, <2>4 DEF WithNet
<1>13. NodeOK(T)
  <2>1. T.head = State.head /\ T.net.queue = State.net.queue
    BY <1>2, <1>7, <1>9 DEF Talks, SameBlocks
  <2> QED
    BY <1>9, <1>11, <2>1, InvFacts DEF NodeOK, Good
<1>14. WorkOK(T, work)
  <2>1. \A p \in Peers : work[p] = Idle
    BY DEF Isolated
  <2> QED
    BY <2>1, InvFacts DEF WorkOK
<1>15. DialOK(T, dialing)
  <2>1. ASSUME NEW p \in dialing PROVE LifeOf(T, p) \in {"disconnected", "connecting"}
    <3>1. p \in Peers /\ LifeOf(State, p) \in {"disconnected", "connecting"}
      BY InvFacts DEF DialOK
    <3>2. LifeOf(S, p) = LifeOf(State, p)
      BY <1>3, StateFields DEF LifeOf
    <3> QED
      BY <1>10, <3>1, <3>2
  <2> QED
    BY <2>1, InvFacts DEF DialOK
<1>16. PICK b : b = busy
  OBVIOUS
<1>17. BusyOK(work, b)
  BY <1>16, InvFacts
<1>18. /\ tip' = tip /\ limits' = limits /\ work' = work /\ dialing' = dialing /\ busy' = b
  BY <1>16 DEF Isolated
<1> QED
  BY <1>12, <1>13, <1>14, <1>15, <1>17, <1>18, StepOK

----------------------------------------------------------------------------
(* The pause. *)

LEMMA PauseStep == ASSUME SyncInv, Pause PROVE SyncInv'
<1>1. PICK S : S = State
  OBVIOUS
<1>2. S \in Good /\ S \in NodeStates /\ S.net = net /\ net \in NetStates
  BY <1>1, InvFacts, StateFields, StateParts
<1>3. PICK n : n = [net EXCEPT !.paused = TRUE]
  OBVIOUS
<1>4. n \in NetStates /\ n.peer = S.net.peer /\ n.queue = S.net.queue
  BY <1>2, <1>3 DEF NetStates
<1>5. Talks(S, WithNet(S, n))
  BY <1>2, <1>4, NetTalks
<1>6. Becomes(WithNet(S, n))
  BY <1>1, <1>2, <1>3 DEF Pause, WithNet
<1> QED
  BY <1>1, <1>5, <1>6, TalkStep DEF Pause

LEMMA SetResumeFlagsStep == ASSUME SyncInv, SetResumeFlags PROVE SyncInv'
<1>1. PICK S : S = State
  OBVIOUS
<1>2. S \in Good /\ S \in NodeStates /\ S.net = net /\ net \in NetStates
  BY <1>1, InvFacts, StateFields, StateParts
<1>3. PICK n : n = [net EXCEPT !.catchup = TRUE, !.paused = FALSE, !.resuming = TRUE]
  OBVIOUS
<1>4. n \in NetStates /\ n.peer = S.net.peer /\ n.queue = S.net.queue
  BY <1>2, <1>3 DEF NetStates
<1>5. Talks(S, WithNet(S, n))
  BY <1>2, <1>4, NetTalks
<1>6. [S EXCEPT !.net.catchup = TRUE, !.net.paused = FALSE, !.net.resuming = TRUE] = WithNet(S, n)
  BY <1>2, <1>3 DEF WithNet, NodeStates, NetStates
<1>7. Becomes(WithNet(S, n))
  BY <1>1, <1>6 DEF SetResumeFlags
<1> QED
  BY <1>1, <1>5, <1>7, TalkStep DEF SetResumeFlags

\* A drain begins.
LEMMA StartDrains ==
    ASSUME SyncInv, NEW S, Talks(State, S), NEW f \in Drains, work[f] = Idle, StartDrain(S, f),
           UNCHANGED <<tip, busy, dialing, limits>>
    PROVE  SyncInv'
<1>1. PICK s \in Sorted(net.queue) : Continue(S, f, [Idle EXCEPT !.kind = "drain", !.todo = s])
  BY DEF StartDrain
<1>2. net.queue \in SUBSET Blocks /\ IsFiniteSet(net.queue)
  BY InvFacts, StateFields, StateParts DEF NetStates, NodeOK
<1>3. s \in Seq(Blocks)
  <2>1. s \in [1..Cardinality(net.queue) -> net.queue]
    BY <1>1 DEF Sorted, SetToSeqs
  <2>2. Cardinality(net.queue) \in Nat
    BY <1>2, FS_CardinalityType
  <2>3. PICK k \in Nat : k = Cardinality(net.queue)
    BY <2>2
  <2>4. s \in [1..k -> Blocks]
    BY <1>2, <2>1, <2>3
  <2> QED
    BY <2>3, <2>4
<1>4. PICK w : w = [Idle EXCEPT !.kind = "drain", !.todo = s]
  OBVIOUS
<1>5. w \in Works /\ w.kind = "drain" /\ ~w.timed
  <2>1. Idle \in Works /\ Idle.timed = FALSE
    BY DEF Idle, Works
  <2> QED
    BY <1>3, <1>4, <2>1 DEF Works
<1>6. S \in Good /\ Continue(S, f, w)
  BY <1>1, <1>4 DEF Talks
<1>7. PICK T, v : /\ Becomes(T) /\ Drained(S, T) /\ work' = [work EXCEPT ![f] = v]
                  /\ v \in Jobs(f)
  BY <1>5, <1>6, ContinueDrains
<1>8. Drained(State, T)
  BY <1>7, DrainedAfterTalk
<1>9. busy # f
  BY InvFacts, PeersAreNoDrains DEF BusyOK, Drains, NoFiber
<1>10. NodeOK(State) /\ State.net = net
  BY InvFacts, StateFields
<1> QED
  BY <1>7, <1>8, <1>9, <1>10, DrainStep

LEMMA InboxesTalk ==
    ASSUME NEW S \in Good, NEW I \in Inboxes, \A p \in Peers : ~Sock(S, p) => I[p] = S.inbox[p]
    PROVE  Talks(S, [S EXCEPT !.inbox = I])
<1>1. PICK T : T = [S EXCEPT !.inbox = I]
  OBVIOUS
<1>2. S \in NodeStates /\ Wired(S)
  BY DEF Good
<1>3. T \in NodeStates /\ T.net = S.net /\ SameBlocks(S, T) /\ T.inbox = I
  BY <1>1, <1>2 DEF NodeStates, SameBlocks
<1>4. Wired(T) /\ \A p \in Peers : KeepsPeer(S, T, p)
  BY <1>2, <1>3 DEF Wired, KeepsPeer, Sock, LifeOf
<1> QED
  BY <1>1, <1>3, <1>4 DEF Talks, Good

LEMMA RunResumeStep == ASSUME SyncInv, RunResume PROVE SyncInv'
<1>1. PICK S : S = State
  OBVIOUS
<1>2. /\ S \in Good /\ S \in NodeStates /\ S.net = net /\ net \in NetStates /\ Tips
      /\ S.inbox = inbox
  BY <1>1, InvFacts, StateFields, StateParts
<1>3. PICK n : n = [net EXCEPT !.resuming = FALSE]
  OBVIOUS
<1>4. n \in NetStates /\ n.peer = S.net.peer /\ n.queue = S.net.queue
  BY <1>2, <1>3 DEF NetStates
<1>5. PICK T : T = WithNet(S, n)
  OBVIOUS
<1>6. Talks(S, T) /\ T \in Good
  BY <1>2, <1>4, <1>5, NetTalks DEF Talks
<1>7. T = [State EXCEPT !.net.resuming = FALSE]
  BY <1>1, <1>2, <1>3, <1>5 DEF WithNet
<1>8. PICK I : I = [p \in Peers |->
                      IF p \in {q \in Peers : net.peer[q].life \in Live /\ net.peer[q].sock}
                      THEN Append(inbox[p], HelloReply(State, p)) ELSE inbox[p]]
  OBVIOUS
<1>9. /\ IF net.queue # {} THEN StartDrain(T, "resume")
         ELSE Becomes([T EXCEPT !.inbox = I]) /\ UNCHANGED work
      /\ work["resume"] = Idle /\ UNCHANGED <<tip, busy, dialing, limits>>
  BY <1>7, <1>8 DEF RunResume
<1>10. CASE net.queue # {}
  <2>1. "resume" \in Drains
    BY DEF Drains
  <2> QED
    BY <1>1, <1>6, <1>9, <1>10, <2>1, StartDrains
<1>11. CASE net.queue = {}
  <2>1. ASSUME NEW p \in Peers
        PROVE  I[p] \in Seq(Messages(p)) /\ (~Sock(S, p) => I[p] = inbox[p])
    <3>1. inbox[p] \in Seq(Messages(p)) /\ HelloReply(State, p) \in Messages(p)
      BY <1>2, StateParts, HelloMessages
    <3>2. Append(inbox[p], HelloReply(State, p)) \in Seq(Messages(p))
      BY <3>1
    <3>3. Sock(S, p) = net.peer[p].sock
      BY <1>2 DEF Sock
    <3> QED
      BY <1>8, <3>1, <3>2, <3>3
  <2>2. I \in Inboxes
    <3>1. \A p \in Peers : Messages(p) \subseteq AllMessages
      BY DEF AllMessages
    <3>2. \A p \in Peers : I[p] \in Seq(AllMessages)
      BY <2>1, <3>1
    <3> QED
      BY <1>8, <2>1, <3>2 DEF Inboxes
  <2>3. T.inbox = inbox /\ \A p \in Peers : Sock(T, p) = Sock(S, p)
    <3>1. T.inbox = inbox
      BY <1>2, <1>4, <1>5, WithNetState
    <3> QED
      BY <1>6, <3>1 DEF Talks, KeepsPeer
  <2>4. PICK U : U = [T EXCEPT !.inbox = I]
    OBVIOUS
  <2>5. Talks(T, U)
    BY <1>6, <2>1, <2>2, <2>3, <2>4, InboxesTalk
  <2>6. Talks(State, U)
    BY <1>1, <1>6, <2>5, TalksTransitive
  <2> QED
    BY <1>9, <1>11, <2>4, <2>6, TalkStep
<1> QED
  BY <1>10, <1>11

LEMMA PeriodicCatchupStep == ASSUME SyncInv, PeriodicCatchup PROVE SyncInv'
<1>1. "periodic" \in Drains
  BY DEF Drains
<1>2. /\ work["periodic"] = Idle /\ UNCHANGED <<tip, busy, dialing, limits>>
      /\ IF net.queue # {} THEN StartDrain(State, "periodic")
         ELSE Becomes(EndDrain(State)) /\ UNCHANGED work
  BY DEF PeriodicCatchup
<1>3. CASE net.queue # {}
  BY <1>1, <1>2, <1>3, InvFacts, TalksReflexive, StartDrains
<1>4. CASE net.queue = {}
  <2>1. PICK T : T = EndDrain(State)
    OBVIOUS
  <2>2. Drained(State, T) /\ Becomes(T)
    BY <1>2, <1>4, <2>1, InvFacts, EndDrainDrained
  <2>3. "periodic" \in Fibers
    BY <1>1 DEF Fibers
  <2>4. work' = [work EXCEPT !["periodic"] = Idle] /\ Idle \in Jobs("periodic")
    <3>1. work \in [Fibers -> Works]
      BY InvFacts DEF WorkOK
    <3> QED
      BY <1>2, <1>4, <2>3, <3>1, IdleJob
  <2>5. busy # "periodic"
    BY <1>2, InvFacts, PeersAreNoDrains DEF BusyOK, Drains, NoFiber
  <2>6. NodeOK(State) /\ State.net = net
    BY InvFacts, StateFields
  <2>7. tip' = tip /\ limits' = limits /\ dialing' = dialing /\ busy' = busy
    BY <1>2
  <2> QED
    BY <1>1, <2>2, <2>4, <2>5, <2>6, <2>7, DrainStep
<1> QED
  BY <1>3, <1>4

----------------------------------------------------------------------------
(* The peers have a new block. *)

\* What was true of the chain of the peers stays true.
LEMMA MoreBlocks ==
    ASSUME tip \in Nat, tip' = tip + 1
    PROVE  /\ Blocks \subseteq Blocks' /\ NetStates \subseteq NetStates'
           /\ Works \subseteq Works' /\ \A f : Jobs(f) \subseteq Jobs(f)'
<1>1. Blocks \subseteq Blocks'
  BY DEF Blocks
<1>2. PICK B : B = Blocks'
  OBVIOUS
<1>3. \A s \in Seq(Blocks) : s \in Seq(B)
  BY <1>1, <1>2
<1>4. NetStates \subseteq NetStates'
  <2>1. SUBSET Blocks \subseteq SUBSET B
    BY <1>1, <1>2
  <2> QED
    BY <1>2, <2>1 DEF NetStates
<1>5. Works \subseteq Works'
  BY <1>2, <1>3 DEF Works
<1>6. \A f : Jobs(f) \subseteq Jobs(f)'
  BY <1>5 DEF Jobs
<1> QED
  BY <1>1, <1>4, <1>5, <1>6

LEMMA MoreMessages ==
    ASSUME tip \in Nat, tip' = tip + 1, NEW p, NEW m \in Messages(p)
    PROVE  m \in Messages(p)'
<1>1. CASE /\ m \in [type : {"range", "gap"}, first : Int, end : Int, next : Int]
           /\ p \in Honest => m.end <= tip
  <2>1. m.end \in Int
    BY <1>1
  <2>2. p \in Honest => m.end <= tip'
    BY <1>1, <2>1
  <2> QED
    BY <1>1, <2>2 DEF Messages
<1>2. CASE /\ m \in [type : {"block"}, first : Int, next : Int]
           /\ p \in Honest => m.first <= tip
  <2>1. m.first \in Int
    BY <1>2
  <2>2. p \in Honest => m.first <= tip'
    BY <1>2, <2>1
  <2> QED
    BY <1>2, <2>2 DEF Messages
<1>3. CASE m \in [type : {"hello", "fork_status"}, head : Int]
                 \cup [type : {"hello_reply"}, exchange : BOOLEAN] \cup [type : {"soft_ban"}]
  BY <1>3 DEF Messages
<1> QED
  BY <1>1, <1>2, <1>3 DEF Messages

LEMMA GrowStep == ASSUME SyncInv, Grow PROVE SyncInv'
<1>1. /\ tip' = tip + 1 /\ tip < limits.last
      /\ UNCHANGED <<head, stored, net, work, busy, dialing, limits>>
  BY DEF Grow
<1>2. /\ tip \in Nat /\ State \in Good /\ State \in NodeStates /\ Wired(State)
      /\ net \in NetStates /\ inbox \in Inboxes /\ head \in Nat /\ stored \in SUBSET Blocks
  BY InvFacts, StateFields, StateParts DEF Good, Tips
<1>3. PICK senders \in SUBSET {p \in Honest : net.peer[p].sock /\ Quiet(p)} :
        inbox' = [p \in Peers |->
                    IF p \in senders
                    THEN Append(inbox[p], [type |-> "block", first |-> tip + 1, next |-> 0])
                    ELSE inbox[p]]
  BY DEF Grow
<1>4. PICK I : I = inbox'
  OBVIOUS
<1>5. TipsOK'
  BY <1>1, <1>2 DEF SyncInv, TipsOK, Tips, ScenarioBounds
<1>6. ASSUME NEW p \in Peers
      PROVE  I[p] \in Seq(Messages(p)') /\ (~net.peer[p].sock => I[p] = inbox[p])
  <2>1. PICK M : M = Messages(p)'
    OBVIOUS
  <2>2. \A m \in Messages(p) : m \in M
    BY <1>1, <1>2, <2>1, MoreMessages
  <2>3. inbox[p] \in Seq(Messages(p))
    BY <1>2, StateParts, StateFields
  <2>4. inbox[p] \in Seq(M)
    BY <2>2, <2>3
  <2>5. CASE p \notin senders
    BY <1>3, <1>4, <2>1, <2>4, <2>5
  <2>6. CASE p \in senders
    <3>1. PICK m : m = [type |-> "block", first |-> tip + 1, next |-> 0]
      OBVIOUS
    <3>2. m \in [type : {"block"}, first : Int, next : Int] /\ m.first <= tip'
      BY <1>1, <1>2, <3>1
    <3>3. m \in M
      BY <2>1, <3>2 DEF Messages
    <3>4. I[p] = Append(inbox[p], m)
      BY <1>3, <1>4, <2>6, <3>1
    <3>5. Append(inbox[p], m) \in Seq(M)
      BY <2>4, <3>3
    <3>6. net.peer[p].sock
      BY <1>3, <2>6
    <3> QED
      BY <2>1, <3>4, <3>5, <3>6
  <2> QED
    BY <2>5, <2>6
<1>7. I \in Inboxes'
  <2>1. PICK A : A = AllMessages'
    OBVIOUS
  <2>2. ASSUME NEW p \in Peers PROVE I[p] \in Seq(A)
    <3>1. \A m \in Messages(p)' : m \in A
      BY <2>1 DEF AllMessages
    <3> QED
      BY <1>6, <3>1
  <2>3. I \in [Peers -> Seq(A)]
    BY <1>3, <1>4, <2>2
  <2> QED
    BY <1>6, <2>1, <2>3 DEF Inboxes
<1>8. PICK T : T = State'
  OBVIOUS
<1>9. T.net = net /\ T.inbox = I /\ T.head = head /\ T.stored = stored
  BY <1>1, <1>4, <1>8 DEF State
<1>10. State' \in NodeStates'
  <2>1. net \in NetStates' /\ stored \in SUBSET Blocks'
    BY <1>1, <1>2, MoreBlocks
  <2>2. [net |-> net, inbox |-> I, head |-> head, stored |-> stored] \in NodeStates'
    BY <1>2, <1>7, <2>1 DEF NodeStates
  <2> QED
    BY <1>1, <1>4, <2>2 DEF State
<1>11. Wired(T)
  <2>1. ASSUME NEW p \in Peers
        PROVE  /\ Sock(T, p) = Sock(State, p) /\ LifeOf(T, p) = LifeOf(State, p)
               /\ ~Sock(T, p) => T.inbox[p] = State.inbox[p]
    BY <1>6, <1>9, StateFields DEF Sock, LifeOf
  <2> QED
    BY <1>2, <2>1 DEF Wired
<1>12. State' \in Good'
  BY <1>8, <1>10, <1>11 DEF Good
<1>13. NodeOK(State)'
  <2>1. /\ Start <= head /\ head <= tip
        /\ IsFiniteSet(net.queue) /\ Cardinality(net.queue) <= QueueLimit
    BY InvFacts, StateFields DEF NodeOK
  <2>2. head <= tip + 1
    BY <1>2, <2>1
  <2>3. State'.head = head /\ State'.net = net
    BY <1>8, <1>9
  <2> QED
    BY <1>1, <1>12, <2>1, <2>2, <2>3 DEF NodeOK
<1>14. WorkOK(State, work)'
  <2>1. /\ work \in [Fibers -> Works] /\ \A f \in Fibers : work[f] \in Jobs(f)
        /\ \A p \in Peers : work[p] # Idle => Attached(State, p, work[p])
    BY InvFacts DEF WorkOK
  <2>2. work \in [Fibers -> Works'] /\ \A f \in Fibers : work[f] \in Jobs(f)'
    BY <1>1, <1>2, <2>1, MoreBlocks
  <2>3. \A p \in Peers : Attached(State, p, work[p]) => Attached(T, p, work[p])
    BY <1>9, StateFields DEF Attached, Sock, LifeOf
  <2> QED
    BY <1>1, <1>8, <2>1, <2>2, <2>3 DEF WorkOK
<1>15. DialOK(State, dialing)'
  BY <1>1, <1>8, <1>9, InvFacts, StateFields DEF DialOK, LifeOf
<1>16. BusyOK(work, busy)'
  BY <1>1, InvFacts DEF BusyOK
<1> QED
  BY <1>5, <1>13, <1>14, <1>15, <1>16 DEF SyncInv

LEMMA StutterStep == ASSUME SyncInv, UNCHANGED vars PROVE SyncInv'
<1>1. Becomes(State) /\ UNCHANGED <<tip, work, busy, dialing, limits>>
  BY DEF vars, Becomes, State
<1> QED
  BY <1>1, InvFacts, TalksReflexive, TalkStep

----------------------------------------------------------------------------
(* The theorems. *)

\* The handlers of messages.
LEMMA ReceiveStep == ASSUME SyncInv, NEW p \in Peers, Receive(p) PROVE SyncInv'
BY OnHelloStep, OnHelloReplyStep, OnForkStatusStep, OnSoftBanStep, OnPausedBlocksStep,
   OnBlockRangeStep, OnGapFillStep, OnBlockStep DEF Receive

LEMMA PeerActionStep ==
    ASSUME SyncInv, NEW p \in Peers,
           \/ Dial(p) \/ DialSucceeds(p) \/ DialFails(p)
           \/ ConnectionLost(p) \/ LifecycleTimeout(p) \/ ReaderEnds(p)
           \/ Receive(p) \/ CorruptRange(p) \/ BatchTimeout(p)
           \/ PeerStatus(p) \/ PeerBansUs(p) \/ OtherBlock(p)
    PROVE  SyncInv'
<1>1. CASE ConnectionLost(p) \/ LifecycleTimeout(p) \/ ReaderEnds(p)
  <2>1. HandleDisconnect(p)
    BY <1>1 DEF ConnectionLost, LifecycleTimeout, ReaderEnds
  <2> QED
    BY <2>1, DisconnectStep
<1> QED
  BY <1>1, DialStep, DialSucceedsStep, DialFailsStep, ReceiveStep, CorruptRangeStep,
     BatchTimeoutStep, PeerStatusStep, PeerBansUsStep, OtherBlockStep

LEMMA SyncInvStep == SyncInv /\ [Next]_vars => SyncInv'
<1> SUFFICES ASSUME SyncInv, [Next]_vars PROVE SyncInv'
  OBVIOUS
<1>1. CASE ForwardBehind \/ ForwardStagnation
  <2>1. /\ Becomes(RequestFrom(ToSync(Untried), TRUE))
        /\ UNCHANGED <<tip, work, busy, dialing, limits>>
    BY <1>1 DEF ForwardBehind, ForwardStagnation, RangeCheck, Periodic
  <2> QED
    BY <2>1, AskAgainStep
<1>2. CASE RequestGapFill
  <2>1. Periodic /\ AskForGap
    BY <1>2 DEF RequestGapFill
  <2> QED
    BY <2>1, AskForGapStep DEF Periodic
<1>3. CASE \E p \in Peers :
             \/ Dial(p) \/ DialSucceeds(p) \/ DialFails(p)
             \/ ConnectionLost(p) \/ LifecycleTimeout(p) \/ ReaderEnds(p)
             \/ Receive(p) \/ CorruptRange(p) \/ BatchTimeout(p)
             \/ PeerStatus(p) \/ PeerBansUs(p) \/ OtherBlock(p)
  BY <1>3, PeerActionStep
<1>4. CASE \E f \in Fibers : EnterAccept(f) \/ LeaveAccept(f)
  BY <1>4, EnterAcceptStep, LeaveAcceptStep
<1>5. CASE UNCHANGED vars
  BY <1>5, StutterStep
<1> QED
  BY <1>1, <1>2, <1>3, <1>4, <1>5, SyncStagnationStep, SyncCatchupStep, IsolatedStep,
     PauseStep, SetResumeFlagsStep, RunResumeStep, PeriodicCatchupStep, GrowStep DEF Next

\* The sockets, inboxes, handlers and blocks of the P2P node fit together after
\* every step of its fibers (dlt_p2p_node.cpp).
THEOREM PeerInvariance == PeerSpec => []SyncInv
<1>1. Init => SyncInv
  BY InitSyncInv
<1>2. SyncInv /\ [Next]_vars => SyncInv'
  BY SyncInvStep
<1> QED
  BY <1>1, <1>2, PTL DEF PeerSpec

\* The members of dlt_p2p_node stay what they are declared to be: the retries and
\* the queue of a pause within their limits, accept_block in the hands of a fiber
\* with a block left, and our head no further than the chain of the peers.
THEOREM PeerTypeCorrect == PeerSpec => []PeerTypeOK
<1>1. SyncInv => PeerTypeOK
  <2> SUFFICES ASSUME SyncInv PROVE PeerTypeOK
    OBVIOUS
  <2>1. /\ State \in NodeStates /\ NodeOK(State) /\ Tips /\ WorkOK(State, work)
        /\ DialOK(State, dialing) /\ BusyOK(work, busy)
    BY InvFacts
  <2>2. net \in NetStates /\ head \in Nat
    BY <2>1, StateParts, StateFields
  <2>3. /\ Start <= head /\ head <= tip
        /\ Cardinality(net.queue) <= QueueLimit
    BY <2>1, StateFields DEF NodeOK
  <2>4. tip \in Nat /\ limits.last \in Nat /\ tip <= limits.last
    BY DEF SyncInv, TipsOK, Tips
  <2>5. head \in Start..limits.last
    BY <2>2, <2>3, <2>4, PeerConstants
  <2>6. /\ net.retries \in 0..RetryLimit
        /\ DOMAIN net = {"status", "retries", "timed", "seen", "gap", "tried", "override",
                         "catchup", "paused", "resuming", "queue", "peer"}
    BY <2>2 DEF NetStates
  <2>7. \A f \in Fibers : (work[f] = Idle) <=> (work[f].todo = <<>>)
    BY <2>1 DEF WorkOK, Jobs
  <2>8. /\ busy \in Fibers \cup {NoFiber} /\ dialing \subseteq Peers
        /\ busy # NoFiber => work[busy] # Idle
    BY <2>1 DEF BusyOK, DialOK
  <2> QED
    BY <2>3, <2>4, <2>5, <2>6, <2>7, <2>8 DEF PeerTypeOK
<1> QED
  BY <1>1, PeerInvariance, PTL

\* A peer in a state in which the node asks it for blocks has a socket, whatever
\* bans, time-outs and lost connections came between (handle_disconnect,
\* soft_ban_peer, transition_to_forward).
THEOREM SocketsOfLivePeers == PeerSpec => []LiveHasSocket
<1>1. SyncInv => LiveHasSocket
  <2> SUFFICES ASSUME SyncInv, NEW p \in Peers, net.peer[p].life \in Live \cup {"handshaking"}
               PROVE  net.peer[p].sock
    BY DEF LiveHasSocket
  <2>1. Wired(State)
    BY InvFacts DEF Good
  <2>2. Sock(State, p) = (LifeOf(State, p) \in Up)
    BY <2>1 DEF Wired
  <2>3. LifeOf(State, p) \in Up
    BY StateFields DEF LifeOf, Up
  <2>4. Sock(State, p)
    BY <2>2, <2>3
  <2> QED
    BY <2>4, StateFields DEF Sock
<1> QED
  BY <1>1, PeerInvariance, PTL
=============================================================================
