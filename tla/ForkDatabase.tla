---------------------------- MODULE ForkDatabase ----------------------------
(***************************************************************************)
(* fork_database (libraries/chain/fork_database.cpp): the cache of recent  *)
(* blocks that have not become irreversible, on every branch.              *)
(*                                                                         *)
(* The blocks of the network are a constant tree.  A fork database is a    *)
(* record; every method is an operator from records to records, so that    *)
(* the chain database can call several of them in one step.                *)
(*                                                                         *)
(*   index     ids of the items of _index (the linked blocks)              *)
(*   unlinked  ids of the items of _unlinked_index                         *)
(*   head      _head, Root when it is null                                 *)
(*   broken    the items whose weak pointer prev cannot be locked          *)
(*   max_size  _max_size                                                   *)
(*   emergency _emergency_consensus_active                                 *)
(*                                                                         *)
(* An item is alive while _index or _head holds it.  A child's prev is a   *)
(* weak pointer to the parent ITEM: it dies with that item and stays dead  *)
(* when the same block is inserted again.                                  *)
(***************************************************************************)
EXTENDS Integers, Sequences, FiniteSets

CONSTANTS
    Block,      \* the ids of the blocks produced anywhere in the network
    Root,       \* the null id: what the first block has as previous
    Prev,       \* Prev[b]: the field previous of the header of b
    Num,        \* Num[b]: block_num, which the code reads off the id
    IdRank,     \* the order of the ids as numbers
    DefaultMaxSize  \* the initial _max_size, MAX_BLOCK_REORDERING

ASSUME BlockTree ==
    /\ Root \notin Block
    /\ Prev \in [Block -> Block \cup {Root}]
    /\ Num \in [Block \cup {Root} -> Nat]
    /\ Num[Root] = 0
    /\ \A b \in Block : Num[b] = Num[Prev[b]] + 1

ASSUME IdsAreOrdered ==
    /\ IdRank \in [Block -> Nat]
    /\ \A a, b \in Block : IdRank[a] = IdRank[b] => a = b

ASSUME DefaultMaxSizeIsPositive == DefaultMaxSize \in Nat \ {0}

ForkDb == [index : SUBSET Block, unlinked : SUBSET Block,
           head : Block \cup {Root}, broken : SUBSET Block,
           max_size : Nat, emergency : BOOLEAN]

EmptyForkDb == [index |-> {}, unlinked |-> {}, head |-> Root, broken |-> {},
                max_size |-> DefaultMaxSize, emergency |-> FALSE]

-----------------------------------------------------------------------------
(* Item life time.                                                         *)

Alive(f) == f.index \cup ({f.head} \ {Root})

(* After a change of index or head, the prev pointers that have died.      *)
Settle(f) ==
    [f EXCEPT !.broken =
        {b \in Alive(f) : b \in f.broken \/ Prev[b] \notin Alive(f)}]

-----------------------------------------------------------------------------
(* Lookups.                                                                *)

IsKnownBlock(f, b) == b \in f.index \cup f.unlinked

AtNumber(f, n) == {b \in f.index : Num[b] = n}

(* The item reached from item a by following prev down to height n; Root   *)
(* when a prev on the way cannot be locked.                                *)
ItemAt(f, a, n) ==
    LET up[k \in 0 .. Num[a]] ==
            IF k = 0 THEN a
            ELSE IF up[k-1] = Root \/ up[k-1] \in f.broken
                 THEN Root ELSE Prev[up[k-1]]
        item == up[Num[a] - n]
    IN IF item \in Block THEN item ELSE Root

WalkMainBranchToNum(f, n) ==
    IF n > Num[f.head] THEN Root ELSE ItemAt(f, f.head, n)

FetchOnMainBranch(f, n) ==
    LET blocks == AtNumber(f, n) IN
    IF blocks = {} THEN Root
    ELSE IF Cardinality(blocks) = 1 THEN CHOOSE b \in blocks : TRUE
    ELSE WalkMainBranchToNum(f, n)

(* fetch_branch_from walks both branches down to the first pair of items   *)
(* that name the same previous block.  The heights where such a pair can   *)
(* be reached:                                                             *)
Reaches(f, a, n) == \A m \in n .. Num[a] : ItemAt(f, a, m) # Root

MeetingHeights(f, a, b) ==
    {n \in 1 .. Num[a] : /\ n <= Num[b]
                         /\ Reaches(f, a, n) /\ Reaches(f, b, n)
                         /\ Prev[ItemAt(f, a, n)] = Prev[ItemAt(f, b, n)]}

(* It throws when an end is not in _index or a prev on the way is dead.    *)
BranchesFound(f, a, b) ==
    {a, b} \subseteq f.index /\ MeetingHeights(f, a, b) # {}

(* The branch of a in fetch_branch_from(a, b), oldest block first.         *)
BranchFrom(f, a, b) ==
    LET low == CHOOSE n \in MeetingHeights(f, a, b) :
                   \A m \in MeetingHeights(f, a, b) : m <= n
    IN [i \in 1 .. Num[a] - low + 1 |-> ItemAt(f, a, low + i - 1)]

-----------------------------------------------------------------------------
(* Updates.                                                                *)

Reset(f) == [f EXCEPT !.index = {}, !.unlinked = {}, !.head = Root,
                      !.broken = {}]

StartBlock(f, b) ==
    Settle([f EXCEPT !.index = @ \cup {b}, !.head = b,
                     !.broken = @ \cup {b}])

(* What _push_block does with an item: it ignores a block it holds, and    *)
(* throws block_too_old_exception or unlinkable_block_exception.           *)
TooOld(f, b) == f.head # Root /\ Num[b] <= Num[f.head] - f.max_size

Unlinkable(f, b) == f.head # Root /\ Prev[b] # Root /\ Prev[b] \notin f.index

PushOutcome(f, b) ==
    CASE b \in f.index    -> "known"
      [] b \notin f.index /\ TooOld(f, b) -> "too_old"
      [] b \notin f.index /\ ~TooOld(f, b) /\ Unlinkable(f, b) -> "unlinkable"
      [] OTHER -> "inserted"

(* A higher block becomes head; at equal height only the emergency mode    *)
(* prefers the smaller id.                                                 *)
BecomesHead(f, b) ==
    \/ f.head = Root
    \/ Num[b] > Num[f.head]
    \/ Num[b] = Num[f.head] /\ IdRank[b] < IdRank[f.head] /\ f.emergency

InsertItem(f, b) ==
    LET orphan == f.head = Root \/ Prev[b] = Root IN
    Settle([f EXCEPT !.index = @ \cup {b},
                     !.head = IF BecomesHead(f, b) THEN b ELSE @,
                     !.broken = IF orphan THEN @ \cup {b} ELSE @ \ {b}])

(* push_block keeps an unlinkable block in _unlinked_index.                *)
StoreUnlinked(f, b) == [f EXCEPT !.unlinked = @ \cup {b}]

(* _push_next: the blocks waiting for item b, and taking one of them out.  *)
WaitingFor(f, b) == {c \in f.unlinked : Prev[c] = b}

TakeUnlinked(f, c) == [f EXCEPT !.unlinked = @ \ {c}]

(* insert_as_base: no parent check, no change of head.                     *)
InsertBaseItem(f, b) ==
    Settle([f EXCEPT !.index = @ \cup {b}, !.broken = @ \cup {b}])

RepairChildPrevLinks(f, p) ==
    [f EXCEPT !.broken = @ \ {c \in f.index : Prev[c] = p}]

(* pop_block asserts a head with a live prev.                              *)
CanPopHead(f) == f.head # Root /\ f.head \notin f.broken

PopHead(f) == Settle([f EXCEPT !.head = Prev[f.head]])

SetHead(f, b) == Settle([f EXCEPT !.head = b])

RemoveBlocks(f, S) == Settle([f EXCEPT !.index = @ \ S])

SetMaxSize(f, s) ==
    LET keep(S) == {b \in S : f.head = Root \/ Num[b] >= Num[f.head] - s} IN
    Settle([f EXCEPT !.max_size = s, !.index = keep(@), !.unlinked = keep(@)])

SetEmergencyMode(f, active) == [f EXCEPT !.emergency = active]
=============================================================================
