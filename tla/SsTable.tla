------------------------------ MODULE SsTable ------------------------------
(***************************************************************************)
(* SSTable files (scry-lsm/src/sstable): how entries are laid out in       *)
(* blocks with an index of first keys, and how a reader finds them again.  *)
(*                                                                         *)
(* A file is its sequence of data blocks, which carries the index (the     *)
(* first key of each block), with the smallest and largest key its         *)
(* SsTableMeta records.  Every entry takes the same space, so a block is   *)
(* full after BlockSize entries.                                           *)
(***************************************************************************)
EXTENDS Integers, Sequences, SequencesExt

CONSTANTS
    BlockSize,  \* entries that fill a data block (DEFAULT_BLOCK_SIZE)
    Nil         \* no value

ASSUME BlockAssumption == BlockSize \in Nat \ {0}

\* SsTableWriter: add every entry, closing a block when it is full, and finish.
\* The entries come in ascending key order and there is at least one.
WriteTable(entries) ==
    LET n == (Len(entries) + BlockSize - 1) \div BlockSize IN
    [blocks  |-> [b \in 1..n |->
                    SubSeq(entries, (b - 1) * BlockSize + 1,
                           Min({b * BlockSize, Len(entries)}))],
     min_key |-> entries[1].key,
     max_key |-> entries[Len(entries)].key]

\* find_block: the last block whose first key is not above the key, 0 for none.
find_block(t, k) ==
    Cardinality({b \in DOMAIN t.blocks : t.blocks[b][1].key <= k})

\* SsTableReader::get: scan that block up to the first key not below k.
TableGet(t, k) ==
    LET b     == find_block(t, k)
        block == t.blocks[b]
        stop  == Min({i \in DOMAIN block : block[i].key >= k})
    IN  IF b # 0 /\ (\E i \in DOMAIN block : block[i].key >= k)
                 /\ block[stop].key = k
        THEN block[stop].val ELSE Nil

\* SsTableScan: all entries in order, block by block.
TableScan(t) == FlattenSeq(t.blocks)

\* The range check LsmEngine::get makes before it opens a file.
InRange(t, k) == t.min_key <= k /\ k <= t.max_key
=============================================================================
