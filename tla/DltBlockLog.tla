----------------------------- MODULE DltBlockLog ----------------------------
(* The rolling log of irreversible blocks of a node that was loaded from a   *)
(* snapshot (libraries/chain/dlt_block_log.cpp), and its use by the database *)
(* (open, update_last_irreversible_block) and the snapshot plugin.           *)
(*                                                                           *)
(* The log is a data file and an index, both memory mapped.  An operation is *)
(* the list of its writes and file operations, and the process may die       *)
(* between any two of them.  What was written stays in the page cache, so    *)
(* the files survive as they are; a loss of power is not modelled, and a     *)
(* memcpy is one step.  Operations exclude each other by the mutex.          *)
EXTENDS Integers, FiniteSets, FiniteSetsExt, SequencesExt

CONSTANTS
    Base,       \* the last irreversible block when the node starts
    MaxBlocks,  \* _dlt_block_log_max_blocks
    Lag,        \* blocks from LIB to head
    Wrap,       \* 2^32, the range of a block number
    FarBehind, FewBlocks,       \* the thresholds of is_consistent_with
    MaxLib, MaxCrashes, MaxImports      \* bounds of a behaviour

ASSUME DltConstants ==
    /\ Base \in Nat /\ Base > 1 /\ MaxBlocks \in Nat \ {0} /\ Lag \in Nat \ {0}
    /\ MaxLib \in Nat /\ MaxLib < Wrap

VARIABLES
    files,      \* by name: the content of the files
    log,        \* the members of dlt_block_log_impl: head and _start_block_num
    todo,       \* the steps left of the operation in progress
    calls,      \* the operations left of the caller
    up,         \* the process runs
    lib,        \* last_irreversible_block_num
    committed,  \* the revision that chainbase would restart from
    snap,       \* the block of the last snapshot loaded
    have,       \* the first block on the main branch of the fork database
    kept,       \* the blocks that a crash in this operation must not lose
    crashes, imports

vars == <<files, log, todo, calls, up, lib, committed, snap, have, kept, crashes, imports>>

----------------------------------------------------------------------------
\* Files.

FileNames == {"data", "index", "data.bak", "index.bak", "data.tmp", "index.tmp"}

\* A data file is a sequence of blocks with the position each is followed by, an
\* index a sequence of positions after a header.  Positions count blocks, not
\* bytes.  A file of at most one byte has no records.
NoFile == [exists |-> FALSE, start |-> 0, recs |-> <<>>]
EmptyFile == [NoFile EXCEPT !.exists = TRUE]

\* A new region of the data file.  Zeros unpack to a block without a predecessor,
\* number 1.
Zeros == [num |-> 1, zero |-> TRUE, back |-> 0]
BlockOf(n, pos) == [num |-> n, zero |-> FALSE, back |-> pos]

Step(op, file) == [op |-> op, file |-> file, to |-> "", n |-> 0, i |-> 0]
Delete(file) == Step("remove", file)
Rename(file, to) == [Step("rename", file) EXCEPT !.to = to]
Create(file) == Step("create", file)

\* What a step does to the file it names.
Written(f, s) ==
    LET last == Len(f.recs) IN
    CASE s.op = "create" -> IF f.exists THEN f ELSE EmptyFile
      [] s.op = "remove" -> NoFile
      [] s.op = "grow" -> [f EXCEPT !.recs = Append(@, Zeros)]
      [] s.op = "block" -> [f EXCEPT !.recs[last] = BlockOf(s.n, @.back)]
      [] s.op = "back" -> [f EXCEPT !.recs[last].back = last - 1]
      [] s.op = "resize" -> [f EXCEPT !.recs =
            [i \in 1..s.n |-> IF i <= last THEN f.recs[i] ELSE 0]]
      [] s.op = "header" -> [f EXCEPT !.start = s.n]
      [] s.op = "entry" -> [f EXCEPT !.recs[s.i] = s.n]

After(s) ==
    IF s.op = "rename"
    THEN [files EXCEPT ![s.to] = files[s.file], ![s.file] = NoFile]
    ELSE [files EXCEPT ![s.file] = Written(@, s)]

\* read_block: the block at a position, followed by that position.
CanRead(data, pos) == pos < Len(data.recs) /\ data.recs[pos + 1].back = pos
BlockAt(data, pos) == data.recs[pos + 1]

LastPos(data) == data.recs[Len(data.recs)].back

----------------------------------------------------------------------------
\* Operations of the log, as lists of steps.

Closed == [head |-> 0, start |-> 0]

\* As if append wrote the position that follows a block before the block.
AppendStepsEndFirst(data, index, n, k) ==
    LET write == <<Step("grow", data), Step("back", data),
                   [Step("block", data) EXCEPT !.n = n]>>
        room == [Step("resize", index) EXCEPT !.n = k.entry]
        entry == [Step("entry", index) EXCEPT !.i = k.entry, !.n = k.pos]
    IN  IF k.first
        THEN <<room, [Step("header", index) EXCEPT !.n = n]>> \o write \o <<entry>>
        ELSE write \o <<room, entry>>

\* append: block n, at position k.pos of the data file, gets entry k.entry of the
\* index; the first block of a log also sets the header.
AppendSteps(data, index, n, k) ==
    LET write == <<Step("grow", data), [Step("block", data) EXCEPT !.n = n],
                   Step("back", data)>>
        room == [Step("resize", index) EXCEPT !.n = k.entry]
        entry == [Step("entry", index) EXCEPT !.i = k.entry, !.n = k.pos]
    IN  IF k.first
        THEN <<room, [Step("header", index) EXCEPT !.n = n]>> \o write \o <<entry>>
        ELSE write \o <<room, entry>>

\* As if open took the files in place for the good ones.
RestoreStepsDropsBackup(file, bak) ==
    IF files[bak].exists THEN <<Delete(bak)>> ELSE <<>>

\* open: what is left of an interrupted truncation is put back or cleaned up.
RestoreSteps(file, bak) ==
    IF ~files[bak].exists THEN <<>>
    ELSE IF files[file].recs = <<>> THEN <<Delete(file), Rename(bak, file)>>
    ELSE <<Delete(bak)>>

MapFiles == <<Create("data"), Create("index"), Step("load", "data")>>

OpenSteps ==
    RestoreSteps("data", "data.bak") \o RestoreSteps("index", "index.bak")
    \o <<Delete("data.tmp"), Delete("index.tmp")>> \o MapFiles

ResetSteps ==
    <<Delete("data"), Delete("index"), Delete("data.tmp"), Delete("index.tmp"),
      Delete("data.bak"), Delete("index.bak")>> \o MapFiles

WipeSteps == <<Delete("data"), Delete("index"), Create("data"), Create("index")>>

\* construct_index, from the data file.
ConstructSteps(first, head, end_pos) ==
    <<Delete("index"), Create("index"),
      [Step("resize", "index") EXCEPT !.n = head - first + 1],
      [Step("header", "index") EXCEPT !.n = first]>>
    \o [i \in 1..(end_pos + 1) |-> [Step("entry", "index") EXCEPT !.i = i, !.n = i - 1]]

\* The retained blocks go to new files, which then replace the old ones.
TruncateSteps(new_start) ==
    LET block(i) == BlockAt(files["data"],
                            files["index"].recs[new_start - log.start + i]).num
        copy == [i \in 1..(log.head - new_start + 1) |->
                    AppendSteps("data.tmp", "index.tmp", block(i),
                                [first |-> i = 1, entry |-> i, pos |-> i - 1])]
    IN  <<Delete("data.tmp"), Delete("index.tmp"), Create("data.tmp"), Create("index.tmp")>>
        \o FlattenSeq(copy)
        \o <<Delete("data.bak"), Delete("index.bak"),
              Rename("data", "data.bak"), Rename("index", "index.bak"),
              Rename("data.tmp", "data"), Rename("index.tmp", "index"),
              Delete("data.bak"), Delete("index.bak")>>
        \o MapFiles

----------------------------------------------------------------------------
\* Steps.

Init ==
    /\ files = [f \in FileNames |-> NoFile]
    /\ log = Closed /\ todo = <<>> /\ calls = <<>> /\ up = FALSE
    /\ lib = Base /\ committed = Base /\ snap = Base /\ have = Base + 1
    /\ kept = {} /\ crashes = 0 /\ imports = 0

NoCall == UNCHANGED <<calls, up, lib, committed, snap, crashes, imports>>

FileStep ==
    /\ todo # <<>> /\ Head(todo).op \notin {"load", "check", "seed", "appended"}
    /\ files' = After(Head(todo)) /\ todo' = Tail(todo)
    /\ NoCall /\ UNCHANGED <<log, have, kept>>

Appended ==
    /\ todo # <<>> /\ Head(todo).op = "appended"
    /\ LET n == Head(todo).n
           start == IF log.start = 0 THEN n ELSE log.start
       IN  log' = [head |-> n, start |-> start] /\ kept' = start..n
    /\ todo' = Tail(todo)
    /\ NoCall /\ UNCHANGED <<files, have>>

\* As if open used any index that is there.
IndexFitsIfPresent(data, index) == index.recs # <<>>

\* The end of open: the last block, and an index that ends at it.
IndexFits(data, index) ==
    index.recs # <<>> /\ index.recs[Len(index.recs)] = LastPos(data)

Load ==
    /\ todo # <<>> /\ Head(todo).op = "load"
    /\ LET data == files["data"]
           index == files["index"]
           head == BlockAt(data, LastPos(data)).num
           first == BlockAt(data, 0).num
       IN  IF data.recs = <<>>
           THEN /\ log' = Closed
                /\ todo' = (IF index.recs = <<>> THEN <<>> ELSE WipeSteps) \o Tail(todo)
           ELSE IF IndexFits(data, index)
           THEN log' = [head |-> head, start |-> index.start] /\ todo' = Tail(todo)
           ELSE /\ log' = [head |-> head, start |-> first]
                /\ todo' = ConstructSteps(first, head, LastPos(data)) \o Tail(todo)
    /\ NoCall /\ UNCHANGED <<files, have, kept>>

----------------------------------------------------------------------------
\* The database and the snapshot plugin.

NumBlocks ==
    IF log.head = 0 \/ log.start = 0 THEN 0 ELSE (log.head - log.start + 1) % Wrap

IsConsistentWith(head) ==
    \/ NumBlocks = 0
    \/ /\ NumBlocks # 1 /\ log.head <= head
       /\ ~(head > log.head + FarBehind /\ NumBlocks < FewBlocks)

Open ==
    /\ ~up /\ up' = TRUE
    /\ todo' = OpenSteps \o <<Step("check", "data")>>
    /\ UNCHANGED <<files, log, calls, lib, committed, snap, have, kept, crashes, imports>>

\* database::open on a log that it takes for a corrupted one.
Check ==
    /\ todo # <<>> /\ Head(todo).op = "check"
    /\ LET good == IsConsistentWith(committed)
       IN  /\ log' = IF good THEN log ELSE Closed
           /\ todo' = (IF good THEN <<>> ELSE ResetSteps) \o <<Step("seed", "data")>>
    /\ NoCall /\ UNCHANGED <<files, have, kept>>

\* The fork database is filled from the log, if that reaches the head.
Seed ==
    /\ todo # <<>> /\ Head(todo).op = "seed" /\ todo' = Tail(todo)
    /\ have' = IF log.head = committed /\ log.start \in 1..committed
               THEN log.start ELSE committed + 1
    /\ NoCall /\ UNCHANGED <<files, log, kept>>

Ready == up /\ todo = <<>> /\ calls = <<>>

Call(op, n) == [op |-> op, n |-> n]
Appends(from, to) == [i \in 1..(to - from + 1) |-> Call("append", from + i - 1)]

\* As if a gap between the log and the fork database were left alone.
LogWritesStopsAtGap(n) ==
    LET from == (IF log.head = 0 THEN n - 1 ELSE log.head) + 1
    IN  IF from >= have THEN Appends(from, n) ELSE <<>>

\* The blocks up to LIB that the log lacks.  When the fork database starts above the
\* end of the log, the log is started again from there.
LogWrites(n) ==
    LET from == (IF log.head = 0 THEN n - 1 ELSE log.head) + 1
    IN  IF from >= have THEN Appends(from, n)
        ELSE IF from <= n /\ have <= n THEN <<Call("reset", 0)>> \o Appends(have, n)
        ELSE <<>>

\* update_last_irreversible_block: commit, then the log; the window of the fork
\* database shrinks to LIB at the end.
Irreversible(n) ==
    /\ Ready /\ n \in (lib + 1)..MaxLib
    /\ lib' = n /\ committed' = Max({committed, n}) /\ have' = Max({have, n - 1})
    /\ calls' = LogWrites(n) \o <<Call("truncate", 0)>>
    /\ UNCHANGED <<files, log, todo, up, snap, kept, crashes, imports>>

\* As if the head block of a snapshot were appended to any log.
ImportWritesNoReset(n) == <<Call("append", n)>>

ImportWrites(n) ==
    (IF log.head # 0 /\ n > log.head + 1 THEN <<Call("reset", 0)>> ELSE <<>>)
    \o (IF n > log.head THEN <<Call("append", n)>> ELSE <<>>)

\* Loading a snapshot at block n makes n irreversible, and ends with n in the fork
\* database and in the log.
ImportSnapshot(n) ==
    /\ Ready /\ n \in (committed + 1)..MaxLib
    /\ imports < MaxImports /\ imports' = imports + 1
    /\ lib' = n /\ committed' = n /\ snap' = n /\ have' = n
    /\ calls' = ImportWrites(n)
    /\ UNCHANGED <<files, log, todo, up, kept, crashes>>

Calling(op) ==
    /\ up /\ todo = <<>> /\ calls # <<>> /\ Head(calls).op = op
    /\ calls' = Tail(calls)
    /\ UNCHANGED <<files, up, lib, committed, snap, have, crashes, imports>>

\* The position that append asserts.
InPlace(n) ==
    log.start = 0 \/ Len(files["index"].recs) = (n - log.start) % Wrap

CallAppend ==
    /\ Calling("append")
    /\ LET n == Head(calls).n
           k == [first |-> log.start = 0, pos |-> Len(files["data"].recs),
                 entry |-> IF log.start = 0 THEN 1 ELSE Len(files["index"].recs) + 1]
       IN  /\ InPlace(n)
           /\ todo' = AppendSteps("data", "index", n, k)
                       \o <<[Step("appended", "data") EXCEPT !.n = n]>>
    /\ kept' = {} /\ UNCHANGED log

CallReset ==
    /\ Calling("reset")
    /\ log' = Closed /\ todo' = ResetSteps /\ kept' = {}

CallTruncate ==
    /\ Calling("truncate")
    /\ LET new_start == (log.head - MaxBlocks + 1) % Wrap
       IN  IF NumBlocks > MaxBlocks * 2 /\ new_start > log.start /\ new_start <= log.head
           THEN /\ todo' = TruncateSteps(new_start) /\ kept' = new_start..log.head
                /\ log' = Closed
           ELSE UNCHANGED <<todo, kept, log>>

\* The process dies.  The state goes back to the revision last committed, which
\* is that of a block whose LIB was lower, or of the snapshot.
Crash ==
    /\ up /\ crashes < MaxCrashes /\ crashes' = crashes + 1
    /\ up' = FALSE /\ log' = Closed /\ todo' = <<>> /\ calls' = <<>>
    /\ lib' = Max({snap, committed - Lag})
    /\ UNCHANGED <<files, committed, snap, have, kept, imports>>

Next ==
    \/ Open \/ FileStep \/ Appended \/ Load \/ Check \/ Seed
    \/ \E n \in 1..MaxLib : Irreversible(n) \/ ImportSnapshot(n)
    \/ CallAppend \/ CallReset \/ CallTruncate
    \/ Crash

Spec == Init /\ [][Next]_vars

----------------------------------------------------------------------------
\* Properties.

\* open can always read the last block, and every block up to it when it builds
\* the index, which has room for all of them: no crash leaves files that keep the
\* node from starting.
OpenSucceeds ==
    LET data == files["data"]
        index == files["index"]
    IN  up /\ todo # <<>> /\ Head(todo).op = "load" /\ data.recs # <<>> =>
          /\ CanRead(data, LastPos(data))
          /\ ~IndexFits(data, index) =>
                /\ \A pos \in 0..LastPos(data) : CanRead(data, pos)
                /\ LastPos(data) <= BlockAt(data, LastPos(data)).num - BlockAt(data, 0).num

\* verify_continuity finds nothing: each block from _start_block_num to the head
\* is where the index says, whatever was interrupted before.
LogReadable ==
    up /\ todo = <<>> /\ log.start # 0 =>
        \A n \in log.start..log.head :
            /\ n - log.start + 1 \in DOMAIN files["index"].recs
            /\ LET pos == files["index"].recs[n - log.start + 1]
               IN  /\ CanRead(files["data"], pos)
                   /\ BlockAt(files["data"], pos).num = n
                   /\ ~BlockAt(files["data"], pos).zero

\* A crash while nothing is written, or at any point of a truncation, leaves the
\* retained blocks in the log, unless it is a single one, which open takes for
\* a corrupted log.
TruncationKeeps ==
    up /\ todo = <<>> /\ Cardinality(kept) > 1 => kept \subseteq log.start..log.head

\* The assertion of append holds for every block the database or the snapshot
\* plugin writes, after any recovery.
AppendsInPlace ==
    up /\ todo = <<>> /\ calls # <<>> /\ Head(calls).op = "append" => InPlace(Head(calls).n)

\* Once the fork database reaches down to LIB the log ends at or above LIB: what was
\* not written before a crash is not missing for good.
LogReachesLib == Ready /\ have <= lib => lib \in log.start..log.head
=============================================================================
