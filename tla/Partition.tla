----------------------------- MODULE Partition -----------------------------
(***************************************************************************)
(* How algorithms_cpp cuts a range of elements into chunks                 *)
(* (algorithms_cpp/include/embb/algorithms/internal/partition-inl.h) and   *)
(* how much it cuts (the checks at the head of every algorithm).  Elements *)
(* are numbered from 0; a chunk is the elements from its first to the one  *)
(* before its last.                                                        *)
(***************************************************************************)
EXTENDS Integers

-----------------------------------------------------------------------------
(* BlockSizePartitioner: chunks of a given size, the last one smaller.     *)

BlockChunks(count, size) ==
    count \div size + (IF count % size # 0 THEN 1 ELSE 0)

BlockFirst(size, i) == size * i

(* Mutant: a chunk reaches one element into the next one.                  *)
BlockLastOver(count, size, i) ==
    IF i >= BlockChunks(count, size) - 1 THEN count
                                         ELSE BlockFirst(size, i) + size + 1

BlockLast(count, size, i) ==
    IF i >= BlockChunks(count, size) - 1 THEN count
                                         ELSE BlockFirst(size, i) + size

-----------------------------------------------------------------------------
(* ChunkPartitioner: a given number of chunks, the first ones bigger.      *)

ChunkAmount(count, amount) == IF amount > count THEN count ELSE amount

ChunkFirst(count, amount, i) ==
    LET chunks   == ChunkAmount(count, amount)
        standard == count \div chunks
        bigger   == count % chunks
    IN  IF i <= bigger THEN i * (standard + 1)
        ELSE (standard + 1) * bigger + standard * (i - bigger)

ChunkLast(count, amount, i) ==
    LET chunks == ChunkAmount(count, amount)
    IN  ChunkFirst(count, amount, i) + count \div chunks
          + (IF i < count % chunks THEN 1 ELSE 0)

-----------------------------------------------------------------------------
(* The block size an algorithm uses: the caller's, or the elements divided *)
(* by the cores of the execution policy.                                   *)
BlockSize(distance, block, cores) ==
    IF block # 0 THEN block
    ELSE IF distance \div cores = 0 THEN 1 ELSE distance \div cores

(* Mutant: the inner nodes of the tree of tasks are forgotten.             *)
TooManyLeaves(distance, size, max) == distance \div size + 1 > max

(* "Not enough MTAPI tasks available"                                      *)
TooManyTasks(distance, size, max) == (distance \div size) * 2 + 1 > max

=============================================================================
