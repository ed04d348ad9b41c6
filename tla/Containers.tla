----------------------------- MODULE Containers -----------------------------
(***************************************************************************)
(* The containers of containers_cpp side by side: the lock-free stack or   *)
(* queue with its hazard pointers, a value pool, the wait-free queue.      *)
(* They share no state; which of them is used is decided by the programs   *)
(* of the threads.                                                         *)
(***************************************************************************)
EXTENDS LockFree

CONSTANTS Producer, Consumer, IndexMod, PoolSetups, SpscSetups

VARIABLES psetup, cell, tree, user,   \* the value pool
          ring, spsc                  \* the wait-free queue

P == INSTANCE ValuePool
S == INSTANCE SpscQueue

\* The range of an index and the capacity are powers of two, and the capacity is the smaller one.
ASSUME IndexAssumption ==
  /\ IndexMod \in Nat
  /\ \A s \in SpscSetups :
       LET p == S!AlignCapacityToPowerOfTwo(s.capacity)
       IN  s.puts \in Seq(Values) /\ s.gets \in Nat /\ p \in 1..(IndexMod - 1) /\ IndexMod % p = 0
  /\ Producer # Consumer

ASSUME ThreadsAssumption == IsFiniteSet(Threads)

ASSUME PoolAssumption ==
  \A s \in PoolSetups :
    s \in [kind : {"array", "tree"}, real_size : Nat \ {0},
          program : [Threads -> Seq({"allocate", "free"})]]

pvars == <<psetup, cell, tree, user>>
svars == <<ring, spsc>>
vars  == <<hvars, pvars, svars>>

Init == HazardInit /\ P!PoolInit /\ S!SpscInit

Next ==
  \/ (\E t \in Threads : LockFreeStep(t)) /\ UNCHANGED <<pvars, svars>>
  \/ (\E t \in Threads : P!PoolStep(t)) /\ UNCHANGED <<hvars, svars>>
  \/ S!SpscStep /\ UNCHANGED <<hvars, pvars>>

Spec == Init /\ [][Next]_vars

-----------------------------------------------------------------------------
(* Each container is what module LinearContainer promises                  *)

CallOf(t) ==
  LET c == Local(t) IN
    IF c.op = "leave" THEN [op |-> "idle", value |-> Nothing, result |-> Nothing, saw |-> FALSE]
    ELSE [op |-> c.op, value |-> IF c.op = "put" THEN c.value ELSE Nothing,
          result |-> c.result, saw |-> c.saw]

Calls == [t \in Threads |-> CallOf(t)]

C == INSTANCE LinearContainer WITH
       shape <- [lifo |-> setup.kind = "stack", capacity |-> setup.capacity],
       contents <- Contents, call <- Calls

SpscCalls ==
  LET shown(c, op) == IF c.op = "idle" THEN c
                      ELSE [c EXCEPT !.op = op, !.value = IF op = "put" THEN @ ELSE Nothing]
  IN  [t \in {Producer, Consumer} |->
         IF t = Producer THEN shown(spsc.put, "put") ELSE shown(spsc.get, "get")]

W == INSTANCE LinearContainer WITH
       Threads <- {Producer, Consumer},
       shape <- [lifo |-> FALSE, capacity |-> ring.capacity],
       contents <- S!RingContents, call <- SpscCalls

\* The lock-free stack and queue and the wait-free queue are linearizable: each
\* call of TryPush, TryPop, TryEnqueue and TryDequeue takes effect at once,
\* none finds its container empty that was not, none fails for lack of room
\* below the capacity, with other threads between any two reads.
ImplementsContainer == C!Spec /\ W!Spec

-----------------------------------------------------------------------------
(* Memory                                                                  *)

\* The nodes a call is about to read or write through a pointer.
Accesses(t) ==
  CASE At(t, "popNext") -> {Local(t).top}
    [] At(t, "enqNext") \/ At(t, "enqCas") -> {Local(t).last}
    [] At(t, "deqNext") -> {Local(t).top}
    [] At(t, "deqElement") -> {Local(t).next}
    [] OTHER -> {}

\* No thread reads or writes a node that is back in the pool: the guard keeps
\* it although the node may be taken out, retired and scanned meanwhile.
SafeAccess == \A t \in Threads : Accesses(t) \cap pool = {}

InUse   == Range(Chain(head))
Retired == UNION {Range(entry[i].retired) : i \in Entries}
Mine(t) == ((IF Local(t).result = Nothing THEN {Local(t).mine} ELSE {})
            \cup (IF At(t, "retire") \/ At(t, "popTake") THEN {Local(t).top} ELSE {})) \ {NULL}

\* No node is lost: each is free, in the container, retired once, or in the
\* hands of a thread.  The retired lists of a fixed size never overflow and a
\* thread that left does not keep its nodes from the others.
NodesAccounted ==
  /\ pool \cup InUse \cup Retired \cup UNION {Mine(t) : t \in Threads} = Nodes
  /\ pool \cap (InUse \cup Retired) = {} /\ InUse \cap Retired = {}
  /\ \A i, j \in Entries : \A k \in DOMAIN entry[i].retired, l \in DOMAIN entry[j].retired :
       entry[i].retired[k] = entry[j].retired[l] => i = j /\ k = l

\* Every thread that uses a queue gets an index: one that gets none throws after it has
\* taken a node from the pool, and the node is lost.
EnoughIndices ==
  \A s \in Setups : s.kind = "queue" =>
    Cardinality({t \in Threads : s.program[t] # <<>>}) <= s.max_threads

SharedOut   == P!SharedOut
TreeCounts  == P!TreeCounts
PromiseKept == P!PromiseKept
=============================================================================
