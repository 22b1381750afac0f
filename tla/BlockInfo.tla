----------------------------- MODULE BlockInfo ------------------------------
(***************************************************************************)
(* The table blockinfo (block_info.cpp): the height and time of the recent *)
(* blocks, added by onblock and read by other contracts, who divide the    *)
(* blocks into batches and ask for the latest one (block_info.hpp).  A     *)
(* block whose onblock fails leaves a gap.  Every row has version 0.       *)
(***************************************************************************)
EXTENDS Integers, FiniteSets

CONSTANTS
    rolling_window_size,  \* 10
    PruneMax,             \* rows erased by a block (2)
    BatchSizes            \* bound: the sizes of the batches asked for

ASSUME BlockInfoAssumption ==
    rolling_window_size \in Nat \ {0} /\ PruneMax \in Nat \ {0} /\ BatchSizes \subseteq Nat \ {0}

VARIABLES
    height, slot,  \* external: the number and the time of the last block
    blockinfo,     \* the table, from height to time
    recorded       \* history: every block whose onblock succeeded, with its time

blockInfoVars == <<height, slot, blockinfo, recorded>>

BlockInfoInit == height = 0 /\ slot = 0 /\ blockinfo = <<>> /\ recorded = <<>>

Larger(a, b)     == IF a > b THEN a ELSE b
With(f, h, time) == [g \in DOMAIN f \cup {h} |-> IF g = h THEN time ELSE f[g]]

\* mutant: the row at the edge of the window is erased too
PrunableEdge(h) == Larger(h, rolling_window_size) - rolling_window_size + 1
\* last_prunable_block_height
Prunable(h) == Larger(h, rolling_window_size) - rolling_window_size

\* The rows erased: the lowest ones, at most PruneMax.
Pruned(t, h) == {g \in DOMAIN t : g <= Prunable(h) /\ Cardinality({i \in DOMAIN t : i < g}) < PruneMax}
add_to_blockinfo_table(time) ==
    LET t == With(blockinfo, height + 1, time)
    IN  /\ blockinfo' = [g \in DOMAIN t \ Pruned(t, height + 1) |-> t[g]]
        /\ recorded' = With(recorded, height + 1, time)

\* The chain has a block more, after skipped slots.
NextBlock(gap) == height' = height + 1 /\ slot' = slot + gap

\* Another contract reads the table; an error has no result.
NoResult == [start |-> 0, startTime |-> 0, end |-> 0, endTime |-> 0]
LatestRow == CHOOSE h \in DOMAIN blockinfo : \A g \in DOMAIN blockinfo : g <= h
get_latest_block_batch_info(offset, size) ==
    IF size = 0 \/ DOMAIN blockinfo = {} THEN NoResult
    ELSE IF LatestRow < offset THEN NoResult
    ELSE LET start == LatestRow - ((LatestRow - offset) % size)
         IN  IF start \notin DOMAIN blockinfo THEN NoResult
             ELSE [start |-> start, startTime |-> blockinfo[start], end |-> LatestRow, endTime |-> blockinfo[LatestRow]]

\* What a contract is told of the latest batch is true: it ends with the last recorded block and
\* starts with the last multiple of its size after the offset, with their times; and there is an
\* answer whenever the start is within the window of the last recorded block and was itself
\* recorded, whatever gaps failed blocks have left and however far the erasing has fallen behind.
\* The table never holds more rows than the window.
BatchesAreTrue ==
    /\ Cardinality(DOMAIN blockinfo) <= rolling_window_size
    /\ \A offset \in DOMAIN recorded, size \in BatchSizes :
        LET answer == get_latest_block_batch_info(offset, size)
            last   == CHOOSE h \in DOMAIN recorded : \A g \in DOMAIN recorded : g <= h
            start  == CHOOSE h \in offset..last : /\ \E n \in 0..last : h = offset + n * size
                                                  /\ h + size > last
        IN  IF answer = NoResult THEN start \notin DOMAIN recorded \/ start <= last - rolling_window_size
            ELSE /\ answer.end = last /\ answer.endTime = recorded[last]
                 /\ answer.start = start /\ answer.startTime = recorded[start]
=============================================================================
