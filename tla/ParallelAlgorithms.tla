------------------------- MODULE ParallelAlgorithms -------------------------
(***************************************************************************)
(* The algorithms of algorithms_cpp, ForEach, Reduce (and Count), Scan,    *)
(* MergeSort, QuickSort and Invoke, and the continuations of tasks_cpp.    *)
(* All of them fork tasks and wait for them: a task either works on its    *)
(* part of the elements or spawns one task for each half, waits for the    *)
(* left one, waits for the right one and combines what they left.          *)
(*                                                                         *)
(* A task is known by its place in that tree: 0 is the root and the        *)
(* children of i are 2i+1 and 2i+2, the numbers Scan computes in SetID.    *)
(* Any task that is ready may run, whatever worker runs it and however     *)
(* deep in a nested wait; a task's own work is one step, which TasksApart  *)
(* justifies: no two of them touch the same element.                       *)
(***************************************************************************)
EXTENDS Partition, Sequences, FiniteSets, TLC
LOCAL INSTANCE SequencesExt

CONSTANTS Calls,        \* the calls a program makes
          MaxTasks      \* MTAPI_NODE_MAX_TASKS_DEFAULT

ASSUME MaxTasksAssumption == MaxTasks \in Nat \ {0}

VARIABLES call,     \* the call and its arguments
          pc,       \* where the caller is
          mem,      \* data: the range, out: the output or temporary range,
                    \* tree: the values of Scan, log: the stages that ran
          tasks,    \* the tasks that exist, by place in the tree
          result    \* what Reduce returns

vars == <<call, pc, mem, tasks, result>>

Garbage == -1           \* memory nobody has written

Distance == call.distance
Size == BlockSize(Distance, call.block, call.cores)

-----------------------------------------------------------------------------
(* Ranges of memory, as functions from the element's number.               *)

Slice(f, a, b) == [k \in 1 .. b - a |-> f[a + k - 1]]

Write(f, a, s) ==
    [i \in DOMAIN f |-> IF i - a + 1 \in DOMAIN s THEN s[i - a + 1] ELSE f[i]]

(* The callers' functions: the reduction or scan function, the operator +  *)
(* of its type, its neutral element and the transformation.  Count is a    *)
(* reduction whose transformation compares.                                *)
Apply(op, a, b) == CASE op = "concat" -> a \o b
                     [] op = "add"    -> a + b
                     [] op = "max"    -> IF a < b THEN b ELSE a

Plus(op, a, b) == IF op = "concat" THEN a \o b ELSE a + b

Neutral(op) == IF op = "concat" THEN <<>> ELSE 0

Transformation(x) == CASE call.alg = "Count"  -> (IF x = 1 THEN 1 ELSE 0)
                       [] call.op = "concat"  -> <<x>>
                       [] OTHER               -> x

Folded(x, s) ==
    FoldLeft(LAMBDA r, e: Apply(call.op, r, Transformation(e)), x, s)

-----------------------------------------------------------------------------
(* Serial parts of merge sort; the comparison is <.                        *)

RECURSIVE Merge(_, _)
Merge(a, b) ==
    CASE a = <<>>          -> b
      [] b = <<>>          -> a
      [] Head(a) < Head(b) -> <<Head(a)>> \o Merge(Tail(a), b)
      [] OTHER             -> <<Head(b)>> \o Merge(a, Tail(b))

(* Mutant: the levels alternate the other way round.                       *)
CloneToTemp(depth) == depth % 2 # 0

CloneBackToInput(depth) == depth % 2 = 0

SerialMerge(m, first, mid, last, depth) ==
    LET merged(f) == Merge(Slice(f, first, mid), Slice(f, mid, last))
    IN  IF CloneBackToInput(depth)
        THEN [m EXCEPT !.data = Write(@, first, merged(m.out))]
        ELSE [m EXCEPT !.out = Write(@, first, merged(m.data))]

RECURSIVE MergeSortChunk(_, _, _, _)
MergeSortChunk(m, first, last, depth) ==
    LET count == last - first
        mid   == first + ChunkFirst(count, 2, 1)
    IN  IF count <= 1
        THEN IF CloneBackToInput(depth) \/ count = 0 THEN m
             ELSE [m EXCEPT !.out[first] = m.data[first]]
        ELSE SerialMerge(
                 MergeSortChunk(
                     MergeSortChunk(m, first, first + ChunkLast(count, 2, 0),
                                    depth + 1),
                     mid, first + ChunkLast(count, 2, 1), depth + 1),
                 first, mid, last, depth)

-----------------------------------------------------------------------------
(* Serial parts of quick sort.                                             *)

MedianOfThree(f, left, mid, right) ==
    IF f[left] < f[mid]
    THEN CASE f[mid] < f[right]  -> mid
           [] f[left] < f[right] -> right
           [] OTHER              -> left
    ELSE CASE f[right] < f[mid]  -> mid
           [] f[right] < f[left] -> right
           [] OTHER              -> left

MedianOfNine(f, first, last) ==
    LET distance == last - first
        offset   == distance \div 8
        At(k)    == first + k * offset
    IN  IF offset = 0 THEN first + distance \div 2
        ELSE MedianOfThree(f, MedianOfThree(f, At(0), At(1), At(2)),
                              MedianOfThree(f, At(3), At(4), At(5)),
                              MedianOfThree(f, At(6), At(7), last - 1))

(* Where the first pointer stops, going up past the elements before the    *)
(* pivot, and where the last one stops, going down past the ones after it. *)
Up(f, first, last, pivot) ==
    CHOOSE k \in first .. last :
        /\ k = last \/ ~(f[k] < f[pivot])
        /\ \A j \in first .. k - 1 : f[j] < f[pivot]

Down(f, first, last, pivot) ==
    CHOOSE k \in first .. last - 1 :
        /\ k = first \/ ~(f[pivot] < f[k])
        /\ \A j \in k + 1 .. last - 1 : f[pivot] < f[j]

(* The range after the partition and where its second part begins.         *)
RECURSIVE SerialPartition(_, _, _, _)
SerialPartition(f, first, last, pivot) ==
    IF first = last THEN <<f, first>>
    ELSE LET up   == Up(f, first, last, pivot)
             down == Down(f, up, last, pivot)
         IN  IF up = last \/ down = up THEN <<f, up>>
             ELSE SerialPartition([f EXCEPT ![up] = f[down], ![down] = f[up]],
                                  up + 1, down,
                                  CASE pivot = up   -> down
                                    [] pivot = down -> up
                                    [] OTHER        -> pivot)

Partitioned(f, first, last) ==
    SerialPartition(f, first, last, MedianOfNine(f, first, last))

RECURSIVE SerialQuickSort(_, _, _)
SerialQuickSort(f, first, last) ==
    IF last - first <= 1 THEN f
    ELSE LET p == Partitioned(f, first, last)
         IN  SerialQuickSort(SerialQuickSort(p[1], first, p[2]), p[2], last)

-----------------------------------------------------------------------------
(* The caller.                                                             *)

(* A functor: its chunks (quick sort: its elements), its depth, the value  *)
(* its parent gave it (Scan), its result_l (Reduce) and how far it is.     *)
Functor(first, last, depth, parent) ==
    [first |-> first, last |-> last, depth |-> depth, parent |-> parent,
     left |-> Neutral(call.op), result |-> Neutral(call.op), at |-> "ready"]

Root == IF call.alg = "QuickSort" THEN Functor(0, Distance, 0, 0)
        ELSE Functor(0, BlockChunks(Distance, Size) - 1, 0, Neutral(call.op))

ForksTree == call.alg \notin {"Invoke", "Continuation"}

Init ==
    /\ call \in Calls
    /\ pc = "called"
    /\ mem = [data |-> call.data,
              out  |-> [i \in DOMAIN call.data |-> Garbage],
              tree |-> [i \in 0 .. MaxTasks - 1 |-> Garbage],
              log  |-> <<>>]
    /\ tasks = <<>>
    /\ result = Neutral(call.op)

(* An empty range: nothing to do.                                          *)
ReturnsAtOnce ==
    /\ pc = "called" /\ ForksTree /\ Distance = 0
    /\ pc' = "returned"
    /\ UNCHANGED <<call, mem, tasks, result>>

(* A negative range, no cores in the policy, or too many tasks.            *)
Throws ==
    /\ pc = "called" /\ ForksTree
    /\ \/ Distance < 0
       \/ Distance > 0 /\ call.cores = 0
       \/ /\ Distance > 0 /\ call.cores > 0
          /\ TooManyTasks(Distance, Size, MaxTasks)
    /\ pc' = "threw"
    /\ UNCHANGED <<call, mem, tasks, result>>

Starts ==
    /\ pc = "called" /\ ForksTree
    /\ Distance > 0 /\ call.cores > 0
    /\ ~TooManyTasks(Distance, Size, MaxTasks)
    /\ tasks' = (0 :> Root)
    /\ pc' = "waits"
    /\ UNCHANGED <<call, mem, result>>

(* The root is done: Scan starts its second pass, the others return.       *)
Returns ==
    /\ pc \in {"waits", "second"} /\ call.alg # "Invoke"
    /\ tasks[0].at = "done"
    /\ IF call.alg = "Scan" /\ pc = "waits"
       THEN pc' = "second" /\ tasks' = (0 :> Root)
       ELSE pc' = "returned" /\ tasks' = <<>>
    /\ result' = tasks[0].result
    /\ UNCHANGED <<call, mem>>

-----------------------------------------------------------------------------
(* The tasks of a tree.                                                    *)

Left(t) == 2 * t + 1
Right(t) == 2 * t + 2

Running == pc \in {"waits", "second"}

IsLeaf(r) == IF call.alg = "QuickSort" THEN r.last - r.first <= Size
             ELSE r.first = r.last

FirstElement(r) == BlockFirst(Size, r.first)
LastElement(r) == BlockLast(Distance, Size, r.last)
Chunk(r) == FirstElement(r) .. LastElement(r) - 1

(* What a leaf leaves in memory.                                           *)
LeafScan(t, r) ==
    LET done(i) == Folded(Transformation(mem.data[FirstElement(r)]),
                          Slice(mem.data, FirstElement(r) + 1, i + 1))
    IN  IF pc = "waits"
        THEN [mem EXCEPT
                 !.out = [i \in DOMAIN @ |->
                             IF i \in Chunk(r) THEN done(i)
                             ELSE @[i]],
                 !.tree[t] = done(LastElement(r) - 1)]
        ELSE [mem EXCEPT
                 !.out = [i \in DOMAIN @ |->
                             IF i \in Chunk(r)
                             THEN Apply(call.op, r.parent, @[i]) ELSE @[i]]]

LeafQuickSort(r) ==
    IF r.last - r.first <= 1 THEN mem
    ELSE LET p == Partitioned(mem.data, r.first, r.last)
         IN  [mem EXCEPT !.data = SerialQuickSort(
                  SerialQuickSort(p[1], r.first, p[2]), p[2], r.last)]

LeafForEach(r) ==
    [mem EXCEPT !.data = [i \in DOMAIN @ |->
        IF i \in Chunk(r) THEN @[i] + 1 ELSE @[i]]]

LeafMergeSort(r) ==
    MergeSortChunk(mem, FirstElement(r), LastElement(r), r.depth)

LeafMemory(t, r) ==
    CASE call.alg \in {"Reduce", "Count"} -> mem
      [] call.alg = "ForEach"   -> LeafForEach(r)
      [] call.alg = "Scan"      -> LeafScan(t, r)
      [] call.alg = "MergeSort" -> LeafMergeSort(r)
      [] call.alg = "QuickSort" -> LeafQuickSort(r)

LeafResult(r) == IF call.alg \in {"Reduce", "Count"}
                 THEN Folded(Neutral(call.op), Slice(mem.data, FirstElement(r),
                                                     LastElement(r)))
                 ELSE r.result

RunLeaf(t) ==
    /\ Running /\ ForksTree
    /\ tasks[t].at = "ready" /\ IsLeaf(tasks[t])
    /\ mem' = LeafMemory(t, tasks[t])
    /\ tasks' = [tasks EXCEPT ![t].at = "done",
                              ![t].result = LeafResult(tasks[t])]
    /\ UNCHANGED <<call, pc, result>>

(* The two halves a task spawns.  Quick sort partitions its elements; Scan *)
(* gives the halves of the second pass the value that precedes them.       *)
Halves(t, r, p) ==
    LET split == (r.first + r.last) \div 2
        given == IF call.alg = "Scan" /\ pc = "second"
                 THEN Plus(call.op, mem.tree[Left(t)], r.parent)
                 ELSE r.parent
    IN  IF call.alg = "QuickSort"
        THEN (Left(t)  :> Functor(r.first, p[2], r.depth + 1, r.parent)) @@
             (Right(t) :> Functor(p[2], r.last, r.depth + 1, r.parent))
        ELSE (Left(t)  :> Functor(r.first, split, r.depth + 1, r.parent)) @@
             (Right(t) :> Functor(split + 1, r.last, r.depth + 1, given))

Split(t) ==
    /\ Running /\ ForksTree
    /\ tasks[t].at = "ready" /\ ~IsLeaf(tasks[t])
    /\ Cardinality(DOMAIN tasks) + 2 <= MaxTasks
    /\ LET r == tasks[t]
           p == IF call.alg = "QuickSort"
                THEN Partitioned(mem.data, r.first, r.last)
                ELSE <<mem.data, 0>>
       IN  /\ mem' = [mem EXCEPT !.data = p[1]]
           /\ tasks' = [tasks EXCEPT ![t].at = "left"] @@ Halves(t, r, p)
    /\ UNCHANGED <<call, pc, result>>

(* No slot for one of the halves: Task's constructor throws on a worker,   *)
(* where nothing catches the exception.                                    *)
SpawnFails(t) ==
    /\ Running /\ ForksTree
    /\ tasks[t].at = "ready" /\ ~IsLeaf(tasks[t])
    /\ Cardinality(DOMAIN tasks) + 2 > MaxTasks
    /\ pc' = "terminated"
    /\ UNCHANGED <<call, mem, tasks, result>>

Without(t) == [u \in DOMAIN tasks \ {t} |-> tasks[u]]

WaitLeft(t) ==
    /\ Running
    /\ tasks[t].at = "left" /\ tasks[Left(t)].at = "done"
    /\ tasks' = [Without(Left(t)) EXCEPT
                    ![t].at = "right", ![t].left = tasks[Left(t)].result]
    /\ UNCHANGED <<call, pc, mem, result>>

JoinScan(t) ==
    [mem EXCEPT !.tree[t] = Apply(call.op, mem.tree[Left(t)], mem.tree[Right(t)])]

JoinMergeSort(r) ==
    SerialMerge(mem, FirstElement(r),
                BlockFirst(Size, (r.first + r.last) \div 2 + 1),
                LastElement(r), r.depth)

JoinMemory(t, r) == CASE call.alg = "Scan"      -> JoinScan(t)
                      [] call.alg = "MergeSort" -> JoinMergeSort(r)
                      [] OTHER                  -> mem

Join(t) ==
    /\ Running
    /\ tasks[t].at = "right" /\ tasks[Right(t)].at = "done"
    /\ mem' = JoinMemory(t, tasks[t])
    /\ tasks' = [Without(Right(t)) EXCEPT
                    ![t].at = "done",
                    ![t].result = IF call.alg \in {"Reduce", "Count"}
                                  THEN Apply(call.op, tasks[t].left,
                                             tasks[Right(t)].result)
                                  ELSE @]
    /\ UNCHANGED <<call, pc, result>>

-----------------------------------------------------------------------------
(* Invoke: one TaskWrapper per function, which spawns it when constructed  *)
(* and waits for it when destroyed, in the reverse order.                  *)

InvokeSpawn ==
    /\ call.alg = "Invoke" /\ pc = "called"
    /\ tasks' = tasks @@ (Cardinality(DOMAIN tasks) :>
                             Functor(Cardinality(DOMAIN tasks), 0, 0, 0))
    /\ pc' = IF Cardinality(DOMAIN tasks') = Distance THEN "waits" ELSE pc
    /\ UNCHANGED <<call, mem, result>>

InvokeRun(t) ==
    /\ call.alg = "Invoke" /\ tasks[t].at = "ready"
    /\ mem' = [mem EXCEPT !.data[t] = @ + 1]
    /\ tasks' = [tasks EXCEPT ![t].at = "done"]
    /\ UNCHANGED <<call, pc, result>>

InvokeWait ==
    /\ call.alg = "Invoke" /\ pc = "waits"
    /\ LET t == Cardinality(DOMAIN tasks) - 1
       IN  /\ tasks[t].at = "done"
           /\ tasks' = Without(t)
           /\ pc' = IF t = 0 THEN "returned" ELSE pc
    /\ UNCHANGED <<call, mem, result>>

-----------------------------------------------------------------------------
(* A continuation: a task (0) that spawns a task (1) for each stage and    *)
(* waits for it before the next one.                                       *)

ContinuationSpawn ==
    /\ call.alg = "Continuation" /\ pc = "called"
    /\ tasks' = (0 :> Functor(0, Distance - 1, 0, 0))
    /\ pc' = "waits"
    /\ UNCHANGED <<call, mem, result>>

SpawnStage ==
    /\ call.alg = "Continuation" /\ pc = "waits" /\ tasks[0].at = "ready"
    /\ tasks' = [tasks EXCEPT ![0].at = "stage"] @@
                (1 :> Functor(tasks[0].first, 0, 0, 0))
    /\ UNCHANGED <<call, pc, mem, result>>

RunStage ==
    /\ call.alg = "Continuation"
    /\ 1 \in DOMAIN tasks /\ tasks[1].at = "ready"
    /\ mem' = [mem EXCEPT !.log = Append(@, tasks[1].first)]
    /\ tasks' = [tasks EXCEPT ![1].at = "done"]
    /\ UNCHANGED <<call, pc, result>>

WaitStage ==
    /\ call.alg = "Continuation"
    /\ 1 \in DOMAIN tasks /\ tasks[1].at = "done"
    /\ tasks' = [Without(1) EXCEPT
                    ![0].first = @ + 1,
                    ![0].at = IF tasks[0].first = tasks[0].last
                              THEN "done" ELSE "ready"]
    /\ UNCHANGED <<call, pc, mem, result>>

-----------------------------------------------------------------------------
Finished ==
    /\ pc \in {"returned", "threw", "terminated"}
    /\ UNCHANGED vars

TaskStep == \E t \in DOMAIN tasks :
    \/ RunLeaf(t) \/ Split(t) \/ SpawnFails(t) \/ WaitLeft(t) \/ Join(t)
    \/ InvokeRun(t)

Next ==
    \/ ReturnsAtOnce \/ Throws \/ Starts \/ Returns
    \/ TaskStep
    \/ InvokeSpawn \/ InvokeWait
    \/ ContinuationSpawn \/ SpawnStage \/ RunStage \/ WaitStage
    \/ Finished

Spec == Init /\ [][Next]_vars

-----------------------------------------------------------------------------
(* The elements a task works on, and the tasks that may do it now: the     *)
(* ready ones and the ones that will merge what both halves left.          *)
Elements(r) == CASE call.alg = "QuickSort" -> r.first .. r.last - 1
                 [] ForksTree              -> Chunk(r)
                 [] OTHER                  -> {r.first}

Active == {t \in DOMAIN tasks :
              \/ tasks[t].at = "ready"
              \/ tasks[t].at = "right" /\ tasks[Right(t)].at = "done"}

(* Tasks that may run at the same time never touch the same element, for   *)
(* every size of range and block: the chunks of the partitioner and the    *)
(* parts of quick sort do not overlap, and a task touches the part of its  *)
(* halves only when both are done.                                         *)
TasksApart ==
    \A t, u \in Active :
        t # u => Elements(tasks[t]) \cap Elements(tasks[u]) = {}

(* The check each algorithm makes of the number of tasks suffices: no task *)
(* of the tree finds the node's task pool full, and the numbers Scan gives *)
(* to the nodes of its tree are inside its array of                        *)
(* MTAPI_NODE_MAX_TASKS_DEFAULT values, although the tree is not balanced  *)
(* and the check rounds the number of chunks down.  (Quick sort, whose     *)
(* tree depends on the elements, is exempt: its check does not suffice.)   *)
EnoughTasks ==
    /\ call.alg # "QuickSort" => pc # "terminated"
    /\ call.alg = "Scan" => \A t \in DOMAIN tasks : t < MaxTasks

(* What each algorithm computes, said without tasks.                       *)
Whole == Slice(call.data, 0, Distance)

Sorted(f) == /\ \A i, j \in DOMAIN f : i < j => f[i] <= f[j]
             /\ \A i \in DOMAIN f :
                   Cardinality({j \in DOMAIN f : f[j] = f[i]}) =
                   Cardinality({j \in DOMAIN f : call.data[j] = f[i]})

(* When an algorithm returns, whatever the order its tasks ran in, it has  *)
(* computed what its sequential definition says: each element or function  *)
(* visited once, the reduction in the order of the elements, every prefix, *)
(* the elements sorted and none lost, the stages in their order.           *)
ReturnsRight ==
    pc = "returned" =>
        CASE call.alg \in {"ForEach", "Invoke"} ->
                 \A i \in DOMAIN call.data : mem.data[i] = call.data[i] + 1
          [] call.alg \in {"Reduce", "Count"} ->
                 result = Folded(Neutral(call.op), Whole)
          [] call.alg = "Scan" ->
                 \A i \in DOMAIN call.data :
                     mem.out[i] = Folded(Neutral(call.op),
                                         Slice(call.data, 0, i + 1))
          [] call.alg \in {"MergeSort", "QuickSort"} -> Sorted(mem.data)
          [] call.alg = "Continuation" ->
                 mem.log = [k \in 1 .. Distance |-> k - 1]

=============================================================================
