----------------------------- MODULE ValuePool ------------------------------
(***************************************************************************)
(* The value pools of containers_cpp: WaitFreeArrayValuePool, which looks  *)
(* at its cells one after the other, and LockFreeTreeValuePool, which has  *)
(* a binary tree of counters above the cells so that an allocation knows   *)
(* where to find a free one.  A cell holds true or false (Undefined), as   *)
(* in the pools that ObjectPool uses.                                      *)
(***************************************************************************)
EXTENDS Integers, Sequences, FiniteSets

CONSTANTS Threads, PoolSetups   \* [kind, real_size, program]

VARIABLES psetup,
          cell,    \* pool: is the value there?
          tree,    \* the counters of the inner nodes of the tree
          user     \* per thread: its program, the indices it holds, its call

\* GetSmallestPowerByTwoValue: one, doubled as long as it is less than n.
Doubled[k \in Nat] == IF k = 0 THEN 1 ELSE 2 * Doubled[k - 1]
Doublings(n) == CHOOSE k \in 0..n : Doubled[k] >= n /\ \A j \in 0..(k - 1) : Doubled[j] < n
Size(n) == Doubled[Doublings(n)]
size    == Size(psetup.real_size)

IsLeaf(n)               == n >= size - 1 /\ n <= 2 * size - 1
LeftChild(n)            == 2 * n + 1
NodeIndexToPoolIndex(n) == n - (size - 1)
PoolIndexToNodeIndex(i) == i + (size - 1)
GetParentNode(n)        == (n - 1) \div 2

Inner == 0..(size - 2)
Cells == 0..(psetup.real_size - 1)

\* The node k levels above m, -1 above the root.
Up(m) == LET up[k \in Nat] == IF k = 0 THEN m ELSE GetParentNode(up[k - 1]) IN up

\* n is a proper ancestor of m.
Above(n, m) == \E k \in 1..m : Up(m)[k] = n

\* Fill: an inner node counts the cells below it.  A node with no cell below is
\* left uninitialised, written -1 here; it is never read (PromiseKept).
FillCount(n) == Cardinality({i \in Cells : Above(n, PoolIndexToNodeIndex(i))})

Resting == [at |-> "idle", node |-> 0]

PoolInit ==
  /\ psetup \in PoolSetups
  /\ cell = [i \in Cells |-> TRUE]
  /\ tree = [n \in Inner |-> IF FillCount(n) = 0 THEN -1 ELSE FillCount(n)]
  /\ user = [t \in Threads |-> [todo |-> psetup.program[t], held |-> <<>>, call |-> Resting]]

UserAt(t, where) == user[t].call.at = where
Node(t)          == user[t].call.node
Moves(t, where, n) == user' = [user EXCEPT ![t].call = [at |-> where, node |-> n]]

-----------------------------------------------------------------------------
(* Allocate                                                                *)

AllocateCall(t) ==
  /\ UserAt(t, "idle") /\ user[t].todo # <<>> /\ Head(user[t].todo) = "allocate"
  /\ user' = [user EXCEPT ![t].todo = Tail(@),
                          ![t].call = [at |-> psetup.kind, node |-> 0]]
  /\ UNCHANGED <<psetup, cell, tree>>

Takes(t, i) ==
  /\ cell' = [cell EXCEPT ![i] = FALSE]
  /\ user' = [user EXCEPT ![t].held = Append(@, i), ![t].call = Resting]
  /\ UNCHANGED <<psetup, tree>>

\* Mutant: the value is read and taken without a compare-and-swap.
ArrayCellTakenTwice(t) ==
  /\ UserAt(t, "array") /\ Node(t) \in Cells
  /\ user' = [user EXCEPT ![t].held = Append(@, Node(t)), ![t].call = Resting]
  /\ UNCHANGED <<psetup, tree, cell>>

\* WaitFreeArrayValuePool: load and compare-and-swap of one cell.
ArrayCell(t) ==
  /\ UserAt(t, "array") /\ Node(t) \in Cells
  /\ \/ cell[Node(t)] /\ Takes(t, Node(t))
     \/ ~cell[Node(t)] /\ Moves(t, "array", Node(t) + 1) /\ UNCHANGED <<psetup, cell, tree>>

\* The end of the array, or a root that counts nothing: -1 is returned.
AllocateNothing(t) ==
  /\ \/ UserAt(t, "array") /\ Node(t) = psetup.real_size
     \/ UserAt(t, "tree") /\ Node(t) = 0 /\ ~IsLeaf(0) /\ tree[0] = 0
  /\ user' = [user EXCEPT ![t].call = Resting]
  /\ UNCHANGED <<psetup, cell, tree>>

\* Mutant: the right child is not tried.
NotThere(t) ==
  /\ Moves(t, "assert", Node(t) + 1)
  /\ UNCHANGED <<psetup, cell, tree>>

\* allocate_rec returns -1 at a node below the root: the left child is followed
\* by the right one, after which the assertion fails.
NotHere(t) ==
  /\ Moves(t, IF Node(t) % 2 = 1 THEN "tree" ELSE "assert", Node(t) + 1)
  /\ UNCHANGED <<psetup, cell, tree>>

\* A leaf: load and compare-and-swap of the cell.
TreeLeaf(t) ==
  /\ UserAt(t, "tree") /\ IsLeaf(Node(t))
  /\ LET i == NodeIndexToPoolIndex(Node(t)) IN
       /\ i \in Cells
       /\ \/ cell[i] /\ Takes(t, i)
          \/ ~cell[i] /\ Node(t) # 0 /\ NotHere(t)
          \/ /\ ~cell[i] /\ Node(t) = 0
             /\ user' = [user EXCEPT ![t].call = Resting]
             /\ UNCHANGED <<psetup, cell, tree>>

\* Mutant: the counter is looked at, not decremented.
TreeInnerLooks(t) ==
  /\ UserAt(t, "tree") /\ ~IsLeaf(Node(t))
  /\ \/ /\ tree[Node(t)] > 0
        /\ Moves(t, "tree", LeftChild(Node(t)))
        /\ UNCHANGED <<psetup, cell, tree>>
     \/ tree[Node(t)] = 0 /\ Node(t) # 0 /\ NotHere(t)

\* An inner node: its counter is decremented unless it is zero, by a loop of
\* compare-and-swaps that is one atomic step here.
TreeInner(t) ==
  /\ UserAt(t, "tree") /\ ~IsLeaf(Node(t))
  /\ \/ /\ tree[Node(t)] > 0
        /\ tree' = [tree EXCEPT ![Node(t)] = @ - 1]
        /\ Moves(t, "tree", LeftChild(Node(t)))
        /\ UNCHANGED <<psetup, cell>>
     \/ tree[Node(t)] = 0 /\ Node(t) # 0 /\ NotHere(t)

-----------------------------------------------------------------------------
(* Free                                                                    *)

\* The value is put back; in the tree the counters above are still to be done.
FreeCall(t) ==
  /\ UserAt(t, "idle") /\ user[t].todo # <<>> /\ Head(user[t].todo) = "free"
  /\ LET i == Head(user[t].held)
         n == PoolIndexToNodeIndex(i)
     IN  /\ user[t].held # <<>>
         /\ cell' = [cell EXCEPT ![i] = TRUE]
         /\ user' = [user EXCEPT ![t].todo = Tail(@), ![t].held = Tail(@),
              ![t].call = IF psetup.kind = "tree" /\ n # 0 THEN [at |-> "climb", node |-> n]
                          ELSE Resting]
  /\ UNCHANGED <<psetup, tree>>

\* Nothing was allocated, so there is nothing to free.
FreeNothing(t) ==
  /\ UserAt(t, "idle") /\ user[t].todo # <<>> /\ Head(user[t].todo) = "free"
  /\ user[t].held = <<>>
  /\ user' = [user EXCEPT ![t].todo = Tail(@)]
  /\ UNCHANGED <<psetup, cell, tree>>

Climb(t) ==
  /\ UserAt(t, "climb")
  /\ LET p == GetParentNode(Node(t)) IN
       /\ tree' = [tree EXCEPT ![p] = @ + 1]
       /\ IF p = 0 THEN user' = [user EXCEPT ![t].call = Resting] ELSE Moves(t, "climb", p)
  /\ UNCHANGED <<psetup, cell>>

PoolStep(t) ==
  \/ AllocateCall(t) \/ ArrayCell(t) \/ AllocateNothing(t) \/ TreeLeaf(t) \/ TreeInner(t)
  \/ FreeCall(t) \/ FreeNothing(t) \/ Climb(t)

-----------------------------------------------------------------------------
(* What must hold                                                          *)

\* A value is in its cell or with exactly one thread: no two allocations get
\* the same one and none is lost, whatever compare-and-swaps fail.
SharedOut ==
  \A i \in Cells :
    LET holders == {t \in Threads : \E k \in DOMAIN user[t].held : user[t].held[k] = i}
    IN  Cardinality(holders) = IF cell[i] THEN 0 ELSE 1

\* The counter of a node and the allocations that have passed it cover what is
\* available below it, but for values whose return has not climbed there yet.
TreeCounts ==
  psetup.kind = "tree" => \A n \in {m \in Inner : tree[m] # -1} :
    LET below(where) == {t \in Threads : UserAt(t, where) /\ Above(n, Node(t))}
    IN  tree[n] + Cardinality(below("tree")) + Cardinality(below("climb"))
          = Cardinality({i \in Cells : cell[i] /\ Above(n, PoolIndexToNodeIndex(i))})

\* An allocation that has decremented the root finds a value: the assertion in
\* allocate_rec holds, and no thread gets to a cell or a counter that does not
\* exist, although the tree is larger than the pool.
PromiseKept ==
  \A t \in Threads :
    /\ ~UserAt(t, "assert")
    /\ UserAt(t, "tree") => IF IsLeaf(Node(t)) THEN NodeIndexToPoolIndex(Node(t)) \in Cells
                            ELSE tree[Node(t)] # -1
=============================================================================
