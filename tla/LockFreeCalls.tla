--------------------------- MODULE LockFreeCalls ----------------------------
(***************************************************************************)
(* The inductive invariant of the lock-free stack and queue and of their   *)
(* hazard pointers, for every number of threads and indices, every         *)
(* capacity and every program of the threads; the lists of nodes; and the  *)
(* steps of the calls except those that retire a node or scan a list,      *)
(* which are in module LockFreeProofs.                                     *)
(***************************************************************************)
EXTENDS ValuePoolProofs

-----------------------------------------------------------------------------
(* Sets of records                                                         *)

\* The nodes of a setup, pointers to them, the entries, the guards of an entry, the size of the
\* array of hazards.
Nds(s)   == 1..PoolSize(s)
N0(s)    == Nds(s) \cup {NULL}
Ents(s)  == 0..(s.max_threads - 1)
Gs(s)    == IF s.kind = "stack" THEN 1 ELSE 2
All(s)   == Gs(s) * s.max_threads

\* Where a call may be.
StackPoints == {"push", "pushTop", "pushCas", "pop", "guard", "popCheck", "popNext", "popCas",
                "popAgain", "popTake"}
EnqPoints   == {"enq", "enqTail", "enqGuard", "enqCheck", "enqNext", "enqAgain", "enqSwing",
                "enqCas", "enqDone"}
DeqPoints   == {"deq", "deqGuard", "deqCheck", "deqTail", "deqNext", "deqGuardNext", "deqAgain",
                "deqSwing", "deqElement", "deqCas"}
ScanPoints  == {"scan", "free"}
HelpPoints  == ScanPoints \cup {"helped"}
CallPoints      == StackPoints \cup EnqPoints \cup DeqPoints \cup HelpPoints
                 \cup {"idle", "return", "leave", "leaveRead", "leaveWrite", "giveBack", "retire", "help"}

\* A new node is not in the container yet; a node is out of it and not retired yet.
Adding == {"pushTop", "pushCas", "enqTail", "enqGuard", "enqCheck", "enqNext", "enqAgain",
           "enqSwing", "enqCas"}
\* The points of a call that has taken a node out and not retired it.
Taking == {"popTake", "retire"}

\* The points at which the thread has an index.
Indexed == HelpPoints \cup {"popCheck", "popNext", "popCas", "popAgain", "popTake", "retire", "help",
             "leaveRead", "leaveWrite", "enqCheck", "enqNext", "enqAgain", "enqSwing", "enqCas", "enqDone"}
             \cup (DeqPoints \ {"deq", "deqGuard"})

\* What a call may return, and the records of the calls, the threads, the entries and the nodes.
Results == Values \cup {Nothing, "done", "empty", "full", "exception"}
CallRecs(s) ==
  [at : CallPoints, op : {"idle", "put", "get", "leave"}, value : Values \cup {Nothing},
   result : Results, saw : BOOLEAN, mine : N0(s), top : N0(s), last : N0(s), next : N0(s),
   scan : Nat, k : Nat, help : Nat, hazards : SUBSET Nds(s),
   count : {n \in Int : n <= s.max_threads}]
ThreadRecs(s) == [index : Int, todo : Seq(Ops), call : CallRecs(s)]
EntryRecs(s)  == [is_active : BOOLEAN, guards : [0..(Gs(s) - 1) -> N0(s)], retired : Seq(Nds(s))]
NodeRecs(s)   == [next : N0(s), element : Values \cup {Nothing}]

\* A thread without the flag and the count of its call.
View(r) ==
  [index |-> r.index, todo |-> r.todo, at |-> r.call.at, op |-> r.call.op, value |-> r.call.value,
   result |-> r.call.result, mine |-> r.call.mine, top |-> r.call.top, last |-> r.call.last,
   next |-> r.call.next, scan |-> r.call.scan, k |-> r.call.k, help |-> r.call.help,
   hazards |-> r.call.hazards]
\* The type of these views, and the views of all threads.
ViewRecs(s) ==
  [index : Int, todo : Seq(Ops), at : CallPoints, op : {"idle", "put", "get", "leave"},
   value : Values \cup {Nothing}, result : Results, mine : N0(s), top : N0(s), last : N0(s),
   next : N0(s), scan : Nat, k : Nat, help : Nat, hazards : SUBSET Nds(s)]
Views == [t \in Threads |-> View(thread[t])]

-----------------------------------------------------------------------------
(* The parts of the invariant.  s: setup, E: entry, pl: pool, nd: node,    *)
(* h: head, tl: tail, L: the nodes from head on, V: Views, cnt: counter,   *)
(* act: active_hazard_pointer                                              *)

\* The pool, the nodes and the pointers to them.
HeapOK(s, pl, nd, h, tl) ==
  pl \in SUBSET Nds(s) /\ nd \in [Nds(s) -> NodeRecs(s)] /\ h \in N0(s) /\ tl \in N0(s)

\* L is the list that starts at h.
Linked(s, nd, h, L) ==
  /\ L \in Seq(Nds(s))
  /\ \A j, k \in 1..Len(L) : L[j] = L[k] => j = k
  /\ h = IF Len(L) = 0 THEN NULL ELSE L[1]
  /\ \A k \in 1..Len(L) : nd[L[k]].next = IF k = Len(L) THEN NULL ELSE L[k + 1]

\* Node n has been retired by the thread of entry i.
Rtd(E, i, n) == \E k \in DOMAIN E[i].retired : E[i].retired[k] = n
Holds(v, n)  == (v.at \in Adding /\ v.mine = n) \/ (v.at \in Taking /\ v.top = n)
Finished(v)  == v.todo = <<>> /\ v.at \in {"idle", "return", "leaveRead", "leaveWrite"}

\* A node is in one place at most.
OnePlace(s, E, pl, L, V) ==
  /\ \A n \in pl : n \notin Range(L)
  /\ \A i \in Ents(s) : \A n \in Nds(s) : Rtd(E, i, n) => n \notin pl /\ n \notin Range(L)
  /\ \A i, j \in Ents(s) :
       \A k \in DOMAIN E[i].retired, l \in DOMAIN E[j].retired :
         E[i].retired[k] = E[j].retired[l] => i = j /\ k = l
  /\ \A t \in Threads, n \in Nds(s) : Holds(V[t], n) =>
       /\ n \notin pl /\ n \notin Range(L)
       /\ \A i \in Ents(s) : ~Rtd(E, i, n)
       /\ \A u \in Threads : Holds(V[u], n) => u = t

\* Indices are given out once.
Indices(s, cnt, V) ==
  /\ cnt \in Nat
  /\ \A t \in Threads : V[t].index \in {NoIndex} \cup Ents(s) /\ V[t].index < cnt
  /\ \A t, u \in Threads : V[t].index = V[u].index /\ V[t].index # NoIndex => t = u
  /\ \A t \in Threads : V[t].at = "giveBack" => V[t].index = NoIndex
  /\ \A t \in Threads : V[t].at \in Indexed => V[t].index # NoIndex
  /\ (\E t \in Threads : V[t].at = "giveBack") =>
       cnt >= s.max_threads + Cardinality({t \in Threads : V[t].at = "giveBack"})

\* Leaving is the last thing that a thread does.
Leaves(V) ==
  \A t \in Threads :
    /\ \A k \in DOMAIN V[t].todo : V[t].todo[k].op = "leave" => k = Len(V[t].todo)
    /\ V[t].at = "leave" => V[t].todo = <<>>

\* Entries are active while their threads work, and scanned by one thread at a time.
Scanned(s, cnt, E, V) ==
  /\ \A i \in Ents(s) : ~E[i].is_active => i < cnt
  /\ \A t \in Threads : V[t].index # NoIndex /\ ~Finished(V[t]) => E[V[t].index].is_active
  /\ \A u \in Threads : V[u].at \in HelpPoints =>
       /\ V[u].scan \in Ents(s)
       /\ V[u].help = 0 => V[u].scan = V[u].index /\ V[u].at # "helped"
       /\ V[u].help # 0 => /\ E[V[u].scan].is_active /\ V[u].scan < cnt
                           /\ \A t \in Threads : V[t].index = V[u].scan => Finished(V[t])
  /\ \A u, t \in Threads : V[u].at \in HelpPoints /\ V[t].at \in HelpPoints /\ V[u].scan = V[t].scan
       => u = t
  /\ \A u \in Threads : V[u].at \in ScanPoints =>
       V[u].k \in 0..All(s) /\ (V[u].at = "scan" <=> V[u].k < All(s))

\* A retired list has room while nobody scans it.
Room(s, E, V, act) ==
  /\ act \in Int /\ act <= s.max_threads
  /\ \A i \in Ents(s) :
       /\ Len(E[i].retired) <= RetiredListMaxSize(s)
       /\ (\A u \in Threads : V[u].at \in ScanPoints => V[u].scan # i)
            => Len(E[i].retired) < RetiredListMaxSize(s)
  /\ \A u \in Threads : V[u].at \in ScanPoints =>
       IsFiniteSet(V[u].hazards) /\ Cardinality(V[u].hazards) <= V[u].k

\* A node that was in the container and has not gone back to the pool.
Live(s, E, L, V, n) ==
  \/ n \in Range(L)
  \/ \E i \in Ents(s) : Rtd(E, i, n)
  \/ \E u \in Threads : V[u].at \in Taking /\ V[u].top = n

\* The guard of thread t keeps node n: it was set before the node was retired, so that
\* every scan of a list with n has read it or is still to read it.
Guarded(s, E, V, t, pos, n) ==
  /\ E[V[t].index].guards[pos] = n
  /\ \A u \in Threads :
       V[u].at \in ScanPoints /\ Rtd(E, V[u].scan, n) /\ Gs(s) * V[t].index + pos < V[u].k
         => n \in V[u].hazards

\* Node n is kept for thread t by its guard.
Safe(s, E, L, V, t, pos, n) == n \in Nds(s) /\ Live(s, E, L, V, n) /\ Guarded(s, E, V, t, pos, n)

\* What a call knows at its point.
KindOK(s, v) == /\ v.at \in StackPoints => s.kind = "stack"
                /\ v.at \in EnqPoints \cup DeqPoints => s.kind = "queue"
                /\ v.at \in {"push", "pushTop", "pushCas"} \cup EnqPoints => v.op = "put"
                /\ v.at \in {"pop", "guard", "popCheck", "popNext", "popCas", "popAgain", "popTake"}
                     \cup DeqPoints => v.op = "get"
                /\ v.at \in {"leave", "leaveRead", "leaveWrite"} => v.op = "leave"
                /\ v.at \in {"leaveRead", "leaveWrite"} => v.todo = <<>> /\ v.result = Nothing
                /\ v.at \in (StackPoints \ {"popTake"}) \cup (EnqPoints \ {"enqDone"}) \cup DeqPoints
                     \cup {"leave", "giveBack"} => v.result = Nothing

\* The new node of TryPush and of TryEnqueue, as the thread has linked it.
PushOK(s, nd, v) ==
  /\ v.at \in Adding => v.mine \in Nds(s)
  /\ v.at = "pushCas" => nd[v.mine].next = v.top
  /\ v.at \in Adding \cap EnqPoints => nd[v.mine].next = NULL

\* What TryPop has read and guarded.
PopOK(s, E, L, nd, V, t) ==
  LET v == V[t] IN
  /\ v.at \in {"guard", "popCheck"} => v.top \in Nds(s)
  /\ v.at = "popCheck" => E[v.index].guards[0] = v.top
  /\ v.at \in {"popNext", "popCas"} => Safe(s, E, L, V, t, 0, v.top)
  /\ v.at = "popCas" => nd[v.top].next = v.next
  /\ v.at \in Taking => v.top \in Nds(s) /\ (s.kind = "queue" => nd[v.top].next # NULL)

\* What TryEnqueue has read and guarded: next once read is final unless it was NULL.
EnqOK(s, E, L, nd, V, t) ==
  LET v == V[t] IN
  /\ v.at \in {"enqGuard", "enqCheck"} => v.last \in Nds(s)
  /\ v.at = "enqCheck" => E[v.index].guards[0] = v.last
  /\ v.at \in {"enqNext", "enqAgain", "enqSwing", "enqCas", "enqDone"} => Safe(s, E, L, V, t, 0, v.last)
  /\ v.at = "enqAgain" => v.next = NULL \/ nd[v.last].next = v.next
  /\ v.at = "enqSwing" => v.next # NULL /\ nd[v.last].next = v.next
  /\ v.at = "enqDone" => v.mine # NULL /\ nd[v.last].next = v.mine

\* What TryDequeue has read and guarded: its head, if still in the queue, is the head.
DeqOK(s, E, L, nd, h, tl, V, t) ==
  LET v == V[t] IN
  /\ v.at \in {"deqGuard", "deqCheck"} => v.top \in Nds(s)
  /\ v.at = "deqCheck" => E[v.index].guards[0] = v.top
  /\ v.at \in DeqPoints \ {"deq", "deqGuard", "deqCheck"} =>
       Safe(s, E, L, V, t, 0, v.top) /\ (v.top \in Range(L) => v.top = h)
  /\ v.at \in DeqPoints \ {"deq", "deqGuard", "deqCheck", "deqTail"} => v.last = v.top \/ tl # v.top
  /\ v.at \in {"deqGuardNext", "deqAgain"} => v.next = NULL \/ nd[v.top].next = v.next
  /\ v.at = "deqAgain" => E[v.index].guards[1] = v.next
  /\ v.at = "deqSwing" => v.next # NULL /\ nd[v.top].next = v.next /\ v.last = v.top
  /\ v.at \in {"deqElement", "deqCas"} =>
       Safe(s, E, L, V, t, 1, v.next) /\ nd[v.top].next = v.next /\ v.last # v.top

\* The tail of a queue is in the queue; a node that is retired has a successor.
QueueOK(s, E, L, nd, tl) ==
  s.kind = "queue" =>
    /\ tl \in Range(L)
    /\ \A i \in Ents(s) : \A n \in Nds(s) : Rtd(E, i, n) => nd[n].next # NULL

\* What a thread knows.
CallOK(s, E, L, nd, h, tl, V, t) ==
  /\ KindOK(s, V[t]) /\ PushOK(s, nd, V[t]) /\ PopOK(s, E, L, nd, V, t)
  /\ EnqOK(s, E, L, nd, V, t) /\ DeqOK(s, E, L, nd, h, tl, V, t)

\* The types, and the list that starts at head.
Shapes(s, E, pl, nd, h, tl, L, V) ==
  /\ s \in Setups /\ V \in [Threads -> ViewRecs(s)] /\ E \in [Ents(s) -> EntryRecs(s)]
  /\ HeapOK(s, pl, nd, h, tl) /\ Linked(s, nd, h, L)

\* Who has which index, scans which list, holds which node.
Orderly(s, cnt, E, act, pl, L, V) ==
  /\ OnePlace(s, E, pl, L, V) /\ Indices(s, cnt, V) /\ Leaves(V) /\ Scanned(s, cnt, E, V)
  /\ Room(s, E, V, act)

\* All parts of the invariant.
Parts(s, cnt, E, act, pl, nd, h, tl, L, V) ==
  /\ Shapes(s, E, pl, nd, h, tl, L, V) /\ Orderly(s, cnt, E, act, pl, L, V)
  /\ QueueOK(s, E, L, nd, tl)
  /\ \A t \in Threads : CallOK(s, E, L, nd, h, tl, V, t)

-----------------------------------------------------------------------------
(* The list from head on                                                   *)

\* Chain, as a function of the nodes.
ChainOf(s, nd, n) ==
  LET from[x \in (0..PoolSize(s)) \X (Nds(s) \cup {NULL})] ==
        LET k == x[1]  m == x[2]
        IN  IF k = 0 \/ m = NULL THEN <<>> ELSE <<m>> \o from[<<k - 1, nd[m].next>>]
  IN  from[<<PoolSize(s), n>>]

\* Chain is that function of the nodes at hand.
LEMMA ChainSame == \A n : Chain(n) = ChainOf(setup, node, n)
  BY DEF Chain, ChainOf, Nodes, Nds

\* The size of the pool.
LEMMA Sizes ==
  ASSUME NEW s \in Setups
  PROVE  /\ s.max_threads \in Nat \ {0} /\ s.capacity \in Nat \ {0}
         /\ s.kind \in {"stack", "queue"}
         /\ RetiredListMaxSize(s) \in Nat \ {0}
         /\ PoolSize(s) \in Nat \ {0}
         /\ Gs(s) \in {1, 2} /\ All(s) \in Nat \ {0}
<1>1. s.max_threads \in Nat \ {0} /\ s.capacity \in Nat \ {0} /\ s.kind \in {"stack", "queue"}
  BY SetupsAssumption
<1>2. Gs(s) \in {1, 2} /\ (IF s.kind = "stack" THEN 1 ELSE 2) \in {1, 2}
  BY DEF Gs
<1>3. \A m \in Nat \ {0} : \A g \in {1, 2} :
        ((5 * m * g) \div 4) + 1 \in Nat \ {0} /\ g * m \in Nat \ {0}
  OBVIOUS
<1>4. RetiredListMaxSize(s) \in Nat \ {0} /\ All(s) \in Nat \ {0}
  BY <1>1, <1>2, <1>3 DEF RetiredListMaxSize, All
<1>5. \A m, r, c \in Nat \ {0} : \A d \in {0, 1} : r * m + c + d \in Nat \ {0}
  <2>1. \A m, r \in Nat \ {0} : r * m \in Nat
    OBVIOUS
  <2>2. \A x \in Nat, c \in Nat \ {0}, d \in {0, 1} : x + c + d \in Nat \ {0}
    OBVIOUS
  <2> QED
    BY <2>1, <2>2
<1>6. PoolSize(s) \in Nat \ {0}
  BY <1>1, <1>4, <1>5 DEF PoolSize
<1> QED
  BY <1>1, <1>2, <1>4, <1>6

\* What the recursion of Chain computes.
LEMMA ChainFunction ==
  ASSUME NEW s \in Setups, NEW nd \in [Nds(s) -> NodeRecs(s)]
  PROVE  \E f : /\ \A n : ChainOf(s, nd, n) = f[<<PoolSize(s), n>>]
                /\ \A k \in 0..PoolSize(s), m \in N0(s) :
                     f[<<k, m>>] = IF k = 0 \/ m = NULL THEN <<>> ELSE <<m>> \o f[<<k - 1, nd[m].next>>]
<1> DEFINE Dom == [N0(s) -> Seq(Nds(s))]
           none == [m \in N0(s) |-> <<>>]
           step == [x \in Dom |-> [m \in N0(s) |-> IF m = NULL THEN <<>> ELSE <<m>> \o x[nd[m].next]]]
           size == PoolSize(s)
           R(f) == f = [x \in (0..size) \X N0(s) |->
                          IF x[1] = 0 \/ x[2] = NULL THEN <<>>
                          ELSE <<x[2]>> \o f[<<x[1] - 1, nd[x[2]].next>>]]
<1>1. none \in Dom /\ size \in Nat
  BY Sizes
<1>2. step \in [Dom -> Dom]
  <2>1. ASSUME NEW x \in Dom PROVE [m \in N0(s) |-> IF m = NULL THEN <<>> ELSE <<m>> \o x[nd[m].next]] \in Dom
    <3>1. ASSUME NEW m \in N0(s) PROVE (IF m = NULL THEN <<>> ELSE <<m>> \o x[nd[m].next]) \in Seq(Nds(s))
      <4>1. CASE m = NULL
        BY <4>1
      <4>2. CASE m # NULL
        <5>1. m \in Nds(s) /\ nd[m].next \in N0(s)
          BY <4>2 DEF N0, NodeRecs
        <5>2. x[nd[m].next] \in Seq(Nds(s)) /\ <<m>> \in Seq(Nds(s))
          BY <5>1
        <5> QED
          BY <4>2, <5>2
      <4> QED
        BY <4>1, <4>2
    <3> QED
      BY <3>1
  <2> QED
    BY <2>1
<1>3. PICK g : Iterates(g, none, step, Dom)
  <2> HIDE DEF Dom, none, step
  <2> QED
    BY <1>1, <1>2, IterationExists
<1>4. \A k \in Nat : g[k] \in Dom /\ g[k + 1] = [m \in N0(s) |-> IF m = NULL THEN <<>> ELSE <<m>> \o g[k][nd[m].next]]
  <2> TAKE k \in Nat
  <2>1. g[k] \in Dom /\ g[k + 1] = step[g[k]]
    BY <1>3 DEF Iterates
  <2> QED
    BY <2>1
<1>5. g[0] = none
  BY <1>3 DEF Iterates
<1> DEFINE f == [x \in (0..size) \X N0(s) |-> g[x[1]][x[2]]]
<1>6. R(f)
  <2>1. ASSUME NEW k \in 0..size, NEW m \in N0(s)
        PROVE  f[<<k, m>>] = IF k = 0 \/ m = NULL THEN <<>> ELSE <<m>> \o f[<<k - 1, nd[m].next>>]
    <3>0. f[<<k, m>>] = g[k][m]
      OBVIOUS
    <3>1. CASE k = 0
      BY <1>5, <3>0, <3>1
    <3>2. CASE k # 0
      <4>1. k - 1 \in Nat /\ k - 1 \in 0..size /\ (k - 1) + 1 = k
        BY <1>1, <3>2
      <4>2. g[(k - 1) + 1] = [y \in N0(s) |-> IF y = NULL THEN <<>> ELSE <<y>> \o g[k - 1][nd[y].next]]
        BY <1>4, <4>1
      <4>3. g[k][m] = IF m = NULL THEN <<>> ELSE <<m>> \o g[k - 1][nd[m].next]
        BY <4>1, <4>2
      <4>4. m # NULL => f[<<k - 1, nd[m].next>>] = g[k - 1][nd[m].next]
        <5>1. m # NULL => nd[m].next \in N0(s)
          BY DEF N0, NodeRecs
        <5> QED
          BY <4>1, <5>1
      <4> QED
        BY <3>0, <3>2, <4>3, <4>4
    <3> QED
      BY <3>1, <3>2
  <2>2. f = [x \in (0..size) \X N0(s) |-> f[<<x[1], x[2]>>]]
    OBVIOUS
  <2> HIDE DEF f
  <2> QED
    BY <2>1, <2>2
<1> DEFINE c == CHOOSE x : R(x)
<1>7. R(c)
  <2> HIDE DEF R
  <2> QED
    BY <1>6
<1>8. \A n : ChainOf(s, nd, n) = c[<<size, n>>]
  BY DEF ChainOf, N0
<1>9. \A k \in 0..size, m \in N0(s) :
        c[<<k, m>>] = IF k = 0 \/ m = NULL THEN <<>> ELSE <<m>> \o c[<<k - 1, nd[m].next>>]
  <2> HIDE DEF c
  <2> QED
    BY <1>7
<1> QED
  <2> HIDE DEF c
  <2> QED
    BY <1>8, <1>9

\* A list without repetition has no more nodes than there are.
LEMMA ListBound ==
  ASSUME NEW k \in Nat, NEW q \in Seq(1..k), \A i, j \in 1..Len(q) : q[i] = q[j] => i = j
  PROVE  Len(q) <= k
<1>1. q \in Injection(1..Len(q), 1..k)
  BY DEF Injection, IsInjective
<1>2. 1 \in Int /\ k \in Int /\ Len(q) \in Int /\ Len(q) >= 0
  OBVIOUS
<1>3. IsFiniteSet(1..k) /\ Cardinality(1..k) = IF 1 > k THEN 0 ELSE k - 1 + 1
  BY <1>2, FS_Interval
<1>4. Cardinality(1..Len(q)) = IF 1 > Len(q) THEN 0 ELSE Len(q) - 1 + 1
  BY <1>2, FS_Interval
<1>5. Cardinality(1..Len(q)) <= Cardinality(1..k)
  BY <1>1, <1>3, FS_Injection
<1> QED
  BY <1>2, <1>3, <1>4, <1>5

\* The list that starts at h is the one that Chain finds.
LEMMA ChainIs ==
  ASSUME NEW s \in Setups, NEW nd \in [Nds(s) -> NodeRecs(s)], NEW h, NEW L, Linked(s, nd, h, L)
  PROVE  ChainOf(s, nd, h) = L
<1>1. PICK f : /\ \A n : ChainOf(s, nd, n) = f[<<PoolSize(s), n>>]
               /\ \A k \in 0..PoolSize(s), m \in N0(s) :
                    f[<<k, m>>] = IF k = 0 \/ m = NULL THEN <<>> ELSE <<m>> \o f[<<k - 1, nd[m].next>>]
  BY ChainFunction
<1> DEFINE len == Len(L)
           size == PoolSize(s)
           at(i) == IF i > len THEN NULL ELSE L[i]
           Ok(d) == d <= len => \A k \in d..size : f[<<k, at(len + 1 - d)>>] = SubSeq(L, len + 1 - d, len)
           Q == {d \in Nat : Ok(d)}
<1>2. len \in Nat /\ size \in Nat /\ len <= size /\ L \in Seq(Nds(s)) /\ NULL \notin Nds(s)
  <2>1. L \in Seq(1..size) /\ \A j, k \in 1..Len(L) : L[j] = L[k] => j = k
    BY DEF Linked, Nds
  <2>2. size \in Nat /\ size # 0
    BY Sizes
  <2>3. len <= size
    <3> HIDE DEF size
    <3> QED
      BY <2>1, <2>2, ListBound
  <2>4. NULL \notin 1..size
    BY <2>2, SetupsAssumption
  <2> QED
    BY <2>1, <2>2, <2>3, <2>4 DEF Nds
<1>3. Ok(0)
  <2>1. ASSUME NEW k \in 0..size PROVE f[<<k, NULL>>] = <<>>
    BY <1>1 DEF N0
  <2>2. at(len + 1 - 0) = NULL /\ SubSeq(L, len + 1 - 0, len) = <<>>
    BY <1>2
  <2> QED
    BY <1>2, <2>1, <2>2
<1>4. ASSUME NEW d \in Nat, Ok(d) PROVE Ok(d + 1)
  <2>1. SUFFICES ASSUME d + 1 <= len, NEW k \in (d + 1)..size
                 PROVE  f[<<k, at(len + 1 - (d + 1))>>] = SubSeq(L, len + 1 - (d + 1), len)
    OBVIOUS
  <2> DEFINE i == len - d
  <2>2. i \in 1..len /\ len + 1 - (d + 1) = i /\ len + 1 - d = i + 1 /\ d \in Nat
    BY <1>2, <2>1
  <2>3. at(i) = L[i] /\ L[i] \in Nds(s) /\ L[i] # NULL
    BY <1>2, <2>2
  <2>4. nd[L[i]].next = at(i + 1)
    BY <1>2, <2>2 DEF Linked
  <2>5. k \in 0..size /\ k # 0 /\ k - 1 \in d..size
    BY <1>2, <2>1, <2>2
  <2>6. f[<<k - 1, at(i + 1)>>] = SubSeq(L, i + 1, len)
    <3>0. d <= len
      BY <1>2, <2>1
    <3> HIDE DEF at, i, len, size
    <3>1. \A y \in d..size : f[<<y, at(len + 1 - d)>>] = SubSeq(L, len + 1 - d, len)
      BY <1>4, <3>0
    <3> QED
      BY <2>2, <2>5, <3>1
  <2>7. f[<<k, L[i]>>] = <<L[i]>> \o SubSeq(L, i + 1, len)
    <3>1. L[i] \in N0(s)
      BY <2>3 DEF N0
    <3> HIDE DEF at, i, len, size
    <3> QED
      BY <1>1, <2>3, <2>4, <2>5, <2>6, <3>1, ZenonT(40) DEF size
  <2>8. <<L[i]>> \o SubSeq(L, i + 1, len) = SubSeq(L, i, len)
    BY <1>2, <2>2
  <2> QED
    BY <2>2, <2>3, <2>7, <2>8
<1>5. Q = Nat
  <2> HIDE DEF Ok
  <2>1. Q \in SUBSET Nat /\ 0 \in Q
    BY <1>3
  <2>2. \A d \in Q : d + 1 \in Q
    BY <1>4
  <2> HIDE DEF Q
  <2> QED
    BY <2>1, <2>2, SetInduction
<1>6. \A k \in len..size : f[<<k, at(len + 1 - len)>>] = SubSeq(L, len + 1 - len, len)
  <2>1. Ok(len)
    <3> HIDE DEF Ok, len
    <3> QED
      BY <1>2, <1>5
  <2> QED
    BY <1>2, <2>1
<1>7. f[<<size, at(1)>>] = SubSeq(L, 1, len)
  <2>1. size \in len..size /\ len + 1 - len = 1
    BY <1>2
  <2> HIDE DEF at, len, size
  <2> QED
    BY <1>6, <2>1
<1>8. at(1) = h /\ SubSeq(L, 1, len) = L
  BY <1>2 DEF Linked
<1> QED
  BY <1>1, <1>7, <1>8

-----------------------------------------------------------------------------
(* What a scan keeps                                                       *)

\* The recursion of Kept.
LEMMA KeptFunction ==
  ASSUME NEW D, NEW q \in Seq(D), NEW H
  PROVE  \E f : /\ Kept(q, H) = f[Len(q)]
                /\ f[0] = <<>>
                /\ \A k \in 1..Len(q) :
                     f[k] = IF q[k] \in H THEN Append(f[k - 1], q[k]) ELSE f[k - 1]
<1> DEFINE Dom == Nat \X Seq(D)
           len == Len(q)
           more(x) == IF x[1] < len /\ q[x[1] + 1] \in H THEN Append(x[2], q[x[1] + 1]) ELSE x[2]
           step == [x \in Dom |-> <<x[1] + 1, more(x)>>]
           R(f) == f = [k \in 0..len |->
                          IF k = 0 THEN <<>>
                          ELSE IF q[k] \in H THEN Append(f[k - 1], q[k]) ELSE f[k - 1]]
<1>0. <<0, <<>>>> \in Dom /\ len \in Nat
  <2>1. ASSUME NEW e \in Seq(D) PROVE <<0, e>> \in Dom
    OBVIOUS
  <2>2. <<>> \in Seq(D) /\ len \in Nat
    OBVIOUS
  <2> QED
    BY <2>1, <2>2
<1>1. step \in [Dom -> Dom]
  <2>1. ASSUME NEW x \in Dom PROVE <<x[1] + 1, more(x)>> \in Dom
    <3>1. x[1] \in Nat /\ x[2] \in Seq(D)
      OBVIOUS
    <3>2. more(x) \in Seq(D)
      BY <1>0, <3>1
    <3> HIDE DEF more
    <3> QED
      BY <3>1, <3>2
  <2> HIDE DEF more
  <2> QED
    BY <2>1
<1>2. PICK g : Iterates(g, <<0, <<>>>>, step, Dom)
  <2> HIDE DEF Dom, step
  <2> QED
    BY <1>0, <1>1, IterationExists
<1>3. g[0] = <<0, <<>>>> /\ \A k \in Nat : g[k] \in Dom /\ g[k + 1] = <<g[k][1] + 1, more(g[k])>>
  <2> HIDE DEF more
  <2> QED
    BY <1>2 DEF Iterates
<1>4. \A k \in Nat : g[k][1] = k
  <2> DEFINE Q == {k \in Nat : g[k][1] = k}
  <2>1. 0 \in Q
    BY <1>3
  <2>2. \A k \in Q : k + 1 \in Q
    <3> HIDE DEF more
    <3>1. ASSUME NEW k \in Q PROVE k + 1 \in Q
      <4>1. k \in Nat /\ g[k][1] = k /\ g[k + 1] = <<g[k][1] + 1, more(g[k])>>
        BY <1>3
      <4>2. g[k + 1][1] = g[k][1] + 1
        BY <4>1
      <4> QED
        BY <4>1, <4>2
    <3> QED
      BY <3>1
  <2>3. Q = Nat
    <3>1. Q \in SUBSET Nat
      OBVIOUS
    <3> HIDE DEF Q
    <3> QED
      BY <2>1, <2>2, <3>1, SetInduction
  <2> QED
    BY <2>3
<1> DEFINE f == [k \in 0..len |-> g[k][2]]
<1>5. ASSUME NEW k \in 1..len
      PROVE  f[k] = IF q[k] \in H THEN Append(f[k - 1], q[k]) ELSE f[k - 1]
  <2>1. k - 1 \in Nat /\ (k - 1) + 1 = k /\ k - 1 < len /\ k - 1 \in 0..len /\ k \in 0..len
    BY <1>0
  <2>2. g[(k - 1) + 1] = <<g[k - 1][1] + 1, more(g[k - 1])>> /\ g[k - 1][1] = k - 1
    <3> HIDE DEF more
    <3> QED
      BY <1>3, <1>4, <2>1
  <2>3. f[k] = more(g[k - 1]) /\ f[k - 1] = g[k - 1][2]
    <3> HIDE DEF more
    <3> QED
      BY <2>1, <2>2
  <2>4. more(g[k - 1]) = IF q[k] \in H THEN Append(g[k - 1][2], q[k]) ELSE g[k - 1][2]
    BY <2>1, <2>2
  <2> QED
    BY <2>3, <2>4
<1>6. f[0] = <<>>
  BY <1>0, <1>3
<1>7. R(f)
  <2>1. ASSUME NEW k \in 0..len
        PROVE  f[k] = IF k = 0 THEN <<>>
                      ELSE IF q[k] \in H THEN Append(f[k - 1], q[k]) ELSE f[k - 1]
    <3>1. k = 0 \/ k \in 1..len
      BY <1>0
    <3> HIDE DEF f
    <3> QED
      BY <1>5, <1>6, <3>1
  <2>2. f = [k \in 0..len |-> f[k]]
    OBVIOUS
  <2> HIDE DEF f
  <2> QED
    BY <2>1, <2>2
<1> DEFINE c == CHOOSE x : R(x)
<1>8. R(c)
  <2> HIDE DEF R
  <2> QED
    BY <1>7
<1>9. Kept(q, H) = c[len]
  BY DEF Kept
<1>10. c[0] = <<>> /\ \A k \in 1..len : c[k] = IF q[k] \in H THEN Append(c[k - 1], q[k]) ELSE c[k - 1]
  <2> HIDE DEF c
  <2>1. \A k \in 0..len : c[k] = IF k = 0 THEN <<>>
                         ELSE IF q[k] \in H THEN Append(c[k - 1], q[k]) ELSE c[k - 1]
    BY <1>8
  <2>2. 0 \in 0..len /\ \A k \in 1..len : k \in 0..len /\ k # 0
    BY <1>0
  <2> QED
    BY <2>1, <2>2
<1> QED
  <2> HIDE DEF c
  <2> QED
    BY <1>9, <1>10

\* The nodes that are kept are those of the list that are hazards, and if there was no
\* repetition there is none.
LEMMA KeptFacts ==
  ASSUME NEW D, NEW q \in Seq(D), NEW H, \A j, k \in 1..Len(q) : q[j] = q[k] => j = k
  PROVE  /\ Kept(q, H) \in Seq(D)
         /\ \A x : (\E k \in DOMAIN Kept(q, H) : Kept(q, H)[k] = x)
                     <=> (\E k \in DOMAIN q : q[k] = x) /\ x \in H
         /\ \A j, k \in DOMAIN Kept(q, H) : Kept(q, H)[j] = Kept(q, H)[k] => j = k
<1>1. PICK f : /\ Kept(q, H) = f[Len(q)]
               /\ f[0] = <<>>
               /\ \A k \in 1..Len(q) : f[k] = IF q[k] \in H THEN Append(f[k - 1], q[k]) ELSE f[k - 1]
  BY KeptFunction
<1> DEFINE Ok(i) == i <= Len(q) =>
             /\ f[i] \in Seq(D)
             /\ \A k \in 1..Len(f[i]) : f[i][k] \in H /\ \E j \in 1..i : q[j] = f[i][k]
             /\ \A j \in 1..i : q[j] \in H => \E k \in 1..Len(f[i]) : f[i][k] = q[j]
             /\ \A j, k \in 1..Len(f[i]) : f[i][j] = f[i][k] => j = k
           Q == {i \in Nat : Ok(i)}
<1>2. Ok(0)
  BY <1>1
<1>3. ASSUME NEW i \in Nat, Ok(i) PROVE Ok(i + 1)
  <2>1. SUFFICES ASSUME i + 1 <= Len(q)
                 PROVE  /\ f[i + 1] \in Seq(D)
                        /\ \A k \in 1..Len(f[i + 1]) : f[i + 1][k] \in H /\ \E j \in 1..(i + 1) : q[j] = f[i + 1][k]
                        /\ \A j \in 1..(i + 1) : q[j] \in H => \E k \in 1..Len(f[i + 1]) : f[i + 1][k] = q[j]
                        /\ \A j, k \in 1..Len(f[i + 1]) : f[i + 1][j] = f[i + 1][k] => j = k
    OBVIOUS
  <2>2. i <= Len(q) /\ i + 1 \in 1..Len(q) /\ (i + 1) - 1 = i /\ q[i + 1] \in D
    BY <2>1
  <2>3. /\ f[i] \in Seq(D)
        /\ \A k \in 1..Len(f[i]) : f[i][k] \in H /\ \E j \in 1..i : q[j] = f[i][k]
        /\ \A j \in 1..i : q[j] \in H => \E k \in 1..Len(f[i]) : f[i][k] = q[j]
        /\ \A j, k \in 1..Len(f[i]) : f[i][j] = f[i][k] => j = k
    BY <1>3, <2>2
  <2>4. f[i + 1] = IF q[i + 1] \in H THEN Append(f[i], q[i + 1]) ELSE f[i]
    BY <1>1, <2>2
  <2>5. CASE q[i + 1] \notin H
    BY <2>2, <2>3, <2>4, <2>5
  <2>6. CASE q[i + 1] \in H
    <3> DEFINE a == f[i]
               b == f[i + 1]
               x == q[i + 1]
    <3>1. b = Append(a, x) /\ a \in Seq(D)
      BY <2>3, <2>4, <2>6
    <3>2. b \in Seq(D) /\ Len(b) = Len(a) + 1 /\ b[Len(b)] = x /\ \A k \in 1..Len(a) : b[k] = a[k]
      <4> HIDE DEF a, b, x
      <4> QED
        BY <2>2, <3>1 DEF x
    <3>3. \A k \in 1..Len(a) : a[k] # x
      BY <2>2, <2>3
    <3>4. Len(a) \in Nat /\ \A k \in 1..Len(b) : k \in 1..Len(a) \/ k = Len(b)
      BY <3>1, <3>2
    <3>5. ASSUME NEW k \in 1..Len(b) PROVE b[k] \in H /\ \E j \in 1..(i + 1) : q[j] = b[k]
      <4>1. CASE k = Len(b)
        BY <2>2, <2>6, <3>2, <4>1
      <4>2. CASE k \in 1..Len(a)
        <5>1. PICK j \in 1..i : q[j] = a[k]
          BY <2>3, <4>2
        <5> QED
          BY <2>3, <3>2, <4>2, <5>1
      <4> QED
        BY <3>4, <4>1, <4>2
    <3>6. ASSUME NEW j \in 1..(i + 1), q[j] \in H PROVE \E k \in 1..Len(b) : b[k] = q[j]
      <4>1. CASE j = i + 1
        BY <3>2, <3>4, <4>1
      <4>2. CASE j \in 1..i
        <5>1. PICK k \in 1..Len(a) : a[k] = q[j]
          BY <2>3, <3>6, <4>2
        <5> QED
          BY <3>2, <3>4, <5>1
      <4>3. j = i + 1 \/ j \in 1..i
        OBVIOUS
      <4> QED
        BY <4>1, <4>2, <4>3
    <3>7. ASSUME NEW j \in 1..Len(b), NEW k \in 1..Len(b), b[j] = b[k] PROVE j = k
      <4>1. \A m, n \in 1..Len(a) : a[m] = a[n] => m = n
        BY <2>3
      <4> HIDE DEF a, b, x
      <4>2. CASE j \in 1..Len(a) /\ k \in 1..Len(a)
        <5>1. b[j] = a[j] /\ b[k] = a[k]
          BY <3>2, <4>2
        <5> QED
          BY <3>7, <4>1, <4>2, <5>1
      <4>3. CASE j \in 1..Len(a) /\ k = Len(b)
        <5>1. a[j] = x
          BY <3>2, <3>7, <4>3
        <5> QED
          BY <3>3, <4>3, <5>1
      <4>4. CASE j = Len(b) /\ k \in 1..Len(a)
        <5>1. a[k] = x
          BY <3>2, <3>7, <4>4
        <5> QED
          BY <3>3, <4>4, <5>1
      <4> QED
        BY <3>4, <4>2, <4>3, <4>4
    <3> QED
      BY <3>2, <3>5, <3>6, <3>7
  <2> QED
    BY <2>5, <2>6
<1>4. Q = Nat
  <2> HIDE DEF Ok
  <2>1. Q \in SUBSET Nat /\ 0 \in Q
    BY <1>2
  <2>2. \A i \in Q : i + 1 \in Q
    BY <1>3
  <2> HIDE DEF Q
  <2> QED
    BY <2>1, <2>2, SetInduction
<1>5. Ok(Len(q))
  <2> HIDE DEF Ok
  <2> QED
    BY <1>4
<1> DEFINE z == Kept(q, H)
           n == Len(q)
<1>6. /\ n \in Nat /\ z \in Seq(D)
      /\ \A k \in 1..Len(z) : z[k] \in H /\ \E j \in 1..n : q[j] = z[k]
      /\ \A j \in 1..n : q[j] \in H => \E k \in 1..Len(z) : z[k] = q[j]
      /\ \A j, k \in 1..Len(z) : z[j] = z[k] => j = k
  <2>1. n \in Nat /\ n <= n /\ z = f[n]
    BY <1>1
  <2> HIDE DEF z, n
  <2> QED
    BY <1>5, <2>1 DEF n
<1>7. DOMAIN z = 1..Len(z) /\ DOMAIN q = 1..n
  BY <1>6
<1> HIDE DEF z, n
<1>8. \A x : (\E k \in DOMAIN z : z[k] = x) <=> (\E k \in DOMAIN q : q[k] = x) /\ x \in H
  <2> TAKE x
  <2>1. ASSUME NEW k \in DOMAIN z, z[k] = x PROVE (\E j \in DOMAIN q : q[j] = x) /\ x \in H
    BY <1>6, <1>7, <2>1
  <2>2. ASSUME NEW j \in DOMAIN q, q[j] = x, x \in H PROVE \E k \in DOMAIN z : z[k] = x
    BY <1>6, <1>7, <2>2
  <2> QED
    BY <2>1, <2>2
<1> QED
  BY <1>6, <1>7, <1>8 DEF z

-----------------------------------------------------------------------------
(* Steps that move no node and scan nothing                                *)

\* One thread has changed.
Moves(V, V2, t, v2) == \A u \in Threads : V2[u] = IF u = t THEN v2 ELSE V[u]

\* The lists and the flags of the entries are the same.
SameLists(s, E, E2) ==
  \A i \in Ents(s) : E2[i].retired = E[i].retired /\ E2[i].is_active = E[i].is_active

\* A thread scans nothing and keeps its index.
Settled(v, v2) ==
  /\ v2.index = v.index /\ (Finished(v) => Finished(v2))
  /\ v.at \notin HelpPoints \cup {"giveBack"} /\ v2.at \notin HelpPoints \cup {"giveBack"}
  /\ v2.at \in Indexed => v.index # NoIndex

\* It holds the same node, too.
Silent(v, v2) ==
  /\ Settled(v, v2)
  /\ (v.at \in Adding <=> v2.at \in Adding) /\ (v.at \in Adding => v2.mine = v.mine)
  /\ (v.at \in Taking <=> v2.at \in Taking) /\ (v.at \in Taking => v2.top = v.top)

\* Nobody has left before the end of its program.
LeavesLast(v) == /\ \A k \in DOMAIN v.todo : v.todo[k].op = "leave" => k = Len(v.todo)
                 /\ v.at = "leave" => v.todo = <<>>

\* A quiet step leaves every node where it is,
LEMMA CalmPlaces ==
  ASSUME NEW s, NEW E, NEW E2, NEW pl, NEW L, NEW L2, NEW V, NEW V2, NEW t \in Threads, NEW v2,
         Moves(V, V2, t, v2), SameLists(s, E, E2), Silent(V[t], v2), Range(L2) = Range(L),
         OnePlace(s, E, pl, L, V)
  PROVE  OnePlace(s, E2, pl, L2, V2)
<1>1. \A u \in Threads, n \in Nds(s) : Holds(V2[u], n) <=> Holds(V[u], n)
  BY DEF Moves, Silent, Holds
<1>2. \A i \in Ents(s) : E2[i].retired = E[i].retired
  BY DEF SameLists
<1>3. \A i \in Ents(s), n \in Nds(s) : Rtd(E2, i, n) <=> Rtd(E, i, n)
  BY <1>2 DEF Rtd
<1> QED
  BY <1>1, <1>2, <1>3 DEF OnePlace

\* every thread its index,
LEMMA CalmIndices ==
  ASSUME NEW s, NEW cnt, NEW V, NEW V2, NEW t \in Threads, NEW v2,
         Moves(V, V2, t, v2), Settled(V[t], v2), Indices(s, cnt, V)
  PROVE  Indices(s, cnt, V2)
<1>1. \A u \in Threads : V2[u].index = V[u].index /\ (V2[u].at = "giveBack" <=> V[u].at = "giveBack")
  BY DEF Moves, Settled
<1>2. {u \in Threads : V2[u].at = "giveBack"} = {u \in Threads : V[u].at = "giveBack"}
  BY <1>1
<1>3. \A u \in Threads : V2[u].at \in Indexed => V2[u].index # NoIndex
  BY DEF Moves, Settled, Indices
<1> QED
  BY <1>1, <1>2, <1>3 DEF Indices

\* every list to the thread that scans it,
LEMMA CalmScanned ==
  ASSUME NEW s, NEW cnt, NEW E, NEW E2, NEW V, NEW V2, NEW t \in Threads, NEW v2,
         Moves(V, V2, t, v2), SameLists(s, E, E2), Settled(V[t], v2),
         Indices(s, cnt, V), Scanned(s, cnt, E, V)
  PROVE  Scanned(s, cnt, E2, V2)
<1>1. \A u \in Threads : /\ V2[u].index = V[u].index /\ (Finished(V[u]) => Finished(V2[u]))
                         /\ V2[u].at \in HelpPoints => V2[u] = V[u] /\ u # t
  BY DEF Moves, Settled
<1>2. \A i \in Ents(s) : E2[i].is_active = E[i].is_active
  BY DEF SameLists
<1>3. ScanPoints \subseteq HelpPoints
  BY DEF HelpPoints
<1>4. \A u \in Threads : V[u].index # NoIndex => V[u].index \in Ents(s)
  BY DEF Indices, Ents
<1> HIDE DEF Ents
<1>5. \A i \in Ents(s) : ~E2[i].is_active => i < cnt
  BY <1>2 DEF Scanned
<1>6. ASSUME NEW u \in Threads, V2[u].index # NoIndex, ~Finished(V2[u]) PROVE E2[V2[u].index].is_active
  BY <1>1, <1>2, <1>4, <1>6 DEF Scanned
<1>7. ASSUME NEW u \in Threads, V2[u].at \in HelpPoints
      PROVE  /\ V2[u].scan \in Ents(s)
             /\ V2[u].help = 0 => V2[u].scan = V2[u].index /\ V2[u].at # "helped"
             /\ V2[u].help # 0 => /\ E2[V2[u].scan].is_active /\ V2[u].scan < cnt
                                  /\ \A x \in Threads : V2[x].index = V2[u].scan => Finished(V2[x])
  BY <1>1, <1>2, <1>7 DEF Scanned
<1>8. \A u, x \in Threads : V2[u].at \in HelpPoints /\ V2[x].at \in HelpPoints /\ V2[u].scan = V2[x].scan
        => u = x
  BY <1>1 DEF Scanned
<1>9. \A u \in Threads : V2[u].at \in ScanPoints =>
        V2[u].k \in 0..All(s) /\ (V2[u].at = "scan" <=> V2[u].k < All(s))
  BY <1>1, <1>3 DEF Scanned
<1> QED
  BY <1>5, <1>6, <1>7, <1>8, <1>9 DEF Scanned

\* and every list its room.
LEMMA CalmRoom ==
  ASSUME NEW s, NEW E, NEW E2, NEW V, NEW V2, NEW act, NEW t \in Threads, NEW v2,
         Moves(V, V2, t, v2), SameLists(s, E, E2), Settled(V[t], v2), Room(s, E, V, act)
  PROVE  Room(s, E2, V2, act)
<1>1. \A u \in Threads : V2[u].at \in ScanPoints => V2[u] = V[u]
  BY DEF Moves, Settled, HelpPoints
<1>2. \A u \in Threads : V[u].at \in ScanPoints => V2[u] = V[u]
  BY DEF Moves, Settled, HelpPoints
<1>3. \A i \in Ents(s) : E2[i].retired = E[i].retired
  BY DEF SameLists
<1> QED
  BY <1>1, <1>2, <1>3 DEF Room

\* Nothing of the order is lost by a quiet step.
LEMMA Calm ==
  ASSUME NEW s, NEW cnt, NEW E, NEW E2, NEW act, NEW pl, NEW L, NEW L2, NEW V, NEW V2,
         NEW t \in Threads, NEW v2,
         Moves(V, V2, t, v2), SameLists(s, E, E2), Silent(V[t], v2), LeavesLast(v2), Range(L2) = Range(L),
         Orderly(s, cnt, E, act, pl, L, V)
  PROVE  Orderly(s, cnt, E2, act, pl, L2, V2)
<1>1. Leaves(V2)
  BY DEF Orderly, Leaves, LeavesLast, Moves
<1> QED
  BY <1>1, CalmPlaces, CalmIndices, CalmScanned, CalmRoom DEF Orderly, Silent

\* A guard keeps its node through a quiet step of any thread, unless it is written.
LEMMA CalmSafe ==
  ASSUME NEW s, NEW E, NEW E2, NEW L, NEW L2, NEW V, NEW V2, NEW t \in Threads, NEW v2,
         Moves(V, V2, t, v2), SameLists(s, E, E2), Settled(V[t], v2),
         \A x \in Threads : V[x].at \in ScanPoints => V[x].scan \in Ents(s),
         NEW u \in Threads, NEW pos, NEW n, Safe(s, E, L, V, u, pos, n), Live(s, E2, L2, V2, n),
         E2[V[u].index].guards[pos] = E[V[u].index].guards[pos]
  PROVE  Safe(s, E2, L2, V2, u, pos, n)
<1>1. V2[u].index = V[u].index
  BY DEF Moves, Settled
<1>2. \A x \in Threads : V2[x].at \in ScanPoints => V2[x] = V[x]
  BY DEF Moves, Settled, HelpPoints
<1>3. \A i \in Ents(s), m \in Nds(s) : Rtd(E2, i, m) <=> Rtd(E, i, m)
  BY DEF SameLists, Rtd
<1>4. Guarded(s, E2, V2, u, pos, n)
  BY <1>1, <1>2, <1>3 DEF Safe, Guarded
<1> QED
  BY <1>4 DEF Safe

\* A node that was in the container stays so through a quiet step.
LEMMA CalmLive ==
  ASSUME NEW s, NEW E, NEW E2, NEW L, NEW V, NEW V2, NEW t \in Threads, NEW v2,
         Moves(V, V2, t, v2), SameLists(s, E, E2), Silent(V[t], v2), NEW n, Live(s, E, L, V, n)
  PROVE  Live(s, E2, L, V2, n)
<1>1. \A x \in Threads : V[x].at \in Taking => V2[x].at \in Taking /\ V2[x].top = V[x].top
  BY DEF Moves, Silent
<1>2. \A i \in Ents(s) : Rtd(E, i, n) => Rtd(E2, i, n)
  BY DEF SameLists, Rtd
<1> QED
  BY <1>1, <1>2 DEF Live

-----------------------------------------------------------------------------
(* What the other threads may do to a call                                 *)

\* Nodes that are guarded stay so; a link of a node that was in the container is not
\* changed once it leads somewhere; the head does not return to a node; the tail does
\* not come to a node that is not behind the head.
Undisturbed(s, E, L, nd, h, tl, V, E2, L2, nd2, h2, tl2, V2, u) ==
  /\ V2[u] = V[u]
  /\ \A pos \in 0..(Gs(s) - 1), n \in Nds(s) :
       V[u].at \notin {"idle", "return", "leaveRead", "leaveWrite"} /\ Safe(s, E, L, V, u, pos, n)
         => Safe(s, E2, L2, V2, u, pos, n)
  /\ V[u].index # NoIndex => E2[V[u].index].guards = E[V[u].index].guards
  /\ V[u].at \in Adding => nd2[V[u].mine].next = nd[V[u].mine].next
  /\ \A n \in Nds(s) : Live(s, E, L, V, n) =>
       /\ nd2[n].next = nd[n].next \/ (s.kind = "queue" /\ nd[n].next = NULL)
       /\ s.kind = "queue" /\ n \in Range(L2) => n \in Range(L) /\ (n = h => n = h2)
       /\ (n \in Range(L) => n = h) /\ tl # n => tl2 # n

\* What another thread knows in TryPush and TryPop stays true,
LEMMA UndisturbedPop ==
  ASSUME NEW s, NEW cnt, NEW E, NEW L, NEW nd, NEW h, NEW tl, NEW V,
         NEW E2, NEW L2, NEW nd2, NEW h2, NEW tl2, NEW V2, NEW u \in Threads,
         NULL \notin Nds(s), Indices(s, cnt, V), KindOK(s, V[u]), PushOK(s, nd, V[u]),
         PopOK(s, E, L, nd, V, u),
         Undisturbed(s, E, L, nd, h, tl, V, E2, L2, nd2, h2, tl2, V2, u)
  PROVE  PushOK(s, nd2, V2[u]) /\ PopOK(s, E2, L2, nd2, V2, u)
<1>1. V2[u] = V[u]
  BY DEF Undisturbed
<1>2. \A n \in Nds(s) : Live(s, E, L, V, n) => nd2[n].next = nd[n].next \/ (s.kind = "queue" /\ nd[n].next = NULL)
  BY DEF Undisturbed
<1>3. PushOK(s, nd2, V2[u])
  <2>1. V[u].at \in Adding => nd2[V[u].mine].next = nd[V[u].mine].next
    BY DEF Undisturbed
  <2>2. "pushCas" \in Adding
    BY DEF Adding
  <2> HIDE DEF Adding
  <2> QED
    BY <1>1, <2>1, <2>2 DEF PushOK
<1>4. V[u].at \in {"guard", "popCheck"} => V[u].top \in Nds(s)
  BY DEF PopOK
<1>5. V[u].at = "popCheck" => E2[V[u].index].guards[0] = V[u].top
  BY DEF PopOK, Undisturbed, Indices, Indexed
<1>6. V[u].at \in {"popNext", "popCas"} => Safe(s, E2, L2, V2, u, 0, V[u].top)
  <2>1. 0 \in 0..(Gs(s) - 1)
    BY DEF Gs
  <2> QED
    BY <2>1 DEF PopOK, Undisturbed, Safe
<1>7. V[u].at = "popCas" => nd2[V[u].top].next = V[u].next
  BY <1>2 DEF PopOK, Safe, KindOK, StackPoints
<1>8. V[u].at \in Taking => V[u].top \in Nds(s) /\ (s.kind = "queue" => nd2[V[u].top].next # NULL)
  <2>1. V[u].at \in Taking => Live(s, E, L, V, V[u].top)
    BY DEF Live
  <2> QED
    BY <1>2, <2>1 DEF PopOK
<1> QED
  BY <1>1, <1>3, <1>4, <1>5, <1>6, <1>7, <1>8 DEF PopOK

\* what it knows in TryEnqueue,
LEMMA UndisturbedEnq ==
  ASSUME NEW s, NEW cnt, NEW E, NEW L, NEW nd, NEW h, NEW tl, NEW V,
         NEW E2, NEW L2, NEW nd2, NEW h2, NEW tl2, NEW V2, NEW u \in Threads,
         NULL \notin Nds(s), Indices(s, cnt, V), EnqOK(s, E, L, nd, V, u),
         Undisturbed(s, E, L, nd, h, tl, V, E2, L2, nd2, h2, tl2, V2, u)
  PROVE  EnqOK(s, E2, L2, nd2, V2, u)
<1>1. V2[u] = V[u]
  BY DEF Undisturbed
<1>2. \A n \in Nds(s) : Live(s, E, L, V, n) => nd2[n].next = nd[n].next \/ (s.kind = "queue" /\ nd[n].next = NULL)
  BY DEF Undisturbed
<1>3. V[u].at \in {"enqGuard", "enqCheck"} => V[u].last \in Nds(s)
  BY DEF EnqOK
<1>4. V[u].at = "enqCheck" => E2[V[u].index].guards[0] = V[u].last
  BY DEF EnqOK, Undisturbed, Indices, Indexed
<1>5. V[u].at \in {"enqNext", "enqAgain", "enqSwing", "enqCas", "enqDone"} => Safe(s, E2, L2, V2, u, 0, V[u].last)
  <2>1. 0 \in 0..(Gs(s) - 1)
    BY DEF Gs
  <2> QED
    BY <2>1 DEF EnqOK, Undisturbed, Safe
<1>6. /\ V[u].at = "enqAgain" => V[u].next = NULL \/ nd2[V[u].last].next = V[u].next
      /\ V[u].at = "enqSwing" => V[u].next # NULL /\ nd2[V[u].last].next = V[u].next
      /\ V[u].at = "enqDone" => V[u].mine # NULL /\ nd2[V[u].last].next = V[u].mine
  BY <1>2 DEF EnqOK, Safe
<1> QED
  BY <1>1, <1>3, <1>4, <1>5, <1>6 DEF EnqOK

\* and what it knows in TryDequeue.
LEMMA UndisturbedDeq ==
  ASSUME NEW s, NEW cnt, NEW E, NEW L, NEW nd, NEW h, NEW tl, NEW V,
         NEW E2, NEW L2, NEW nd2, NEW h2, NEW tl2, NEW V2, NEW u \in Threads,
         NULL \notin Nds(s), Indices(s, cnt, V), KindOK(s, V[u]), DeqOK(s, E, L, nd, h, tl, V, u),
         Undisturbed(s, E, L, nd, h, tl, V, E2, L2, nd2, h2, tl2, V2, u)
  PROVE  DeqOK(s, E2, L2, nd2, h2, tl2, V2, u)
<1> DEFINE late == DeqPoints \ {"deq", "deqGuard", "deqCheck"}
<1>1. V2[u] = V[u]
  BY DEF Undisturbed
<1>2. \A n \in Nds(s) : Live(s, E, L, V, n) =>
       /\ nd2[n].next = nd[n].next \/ (s.kind = "queue" /\ nd[n].next = NULL)
       /\ s.kind = "queue" /\ n \in Range(L2) => n \in Range(L) /\ (n = h => n = h2)
       /\ (n \in Range(L) => n = h) /\ tl # n => tl2 # n
  BY DEF Undisturbed
<1>3. V[u].at \in {"deqGuard", "deqCheck"} => V[u].top \in Nds(s)
  BY DEF DeqOK
<1>4. V[u].at = "deqCheck" => E2[V[u].index].guards[0] = V[u].top
  BY DEF DeqOK, Undisturbed, Indices, Indexed, DeqPoints
<1>5. V[u].at = "deqAgain" => E2[V[u].index].guards[1] = V[u].next
  BY DEF DeqOK, Undisturbed, Indices, Indexed, DeqPoints
<1>6. V[u].at \in late => /\ V[u].top \in Nds(s) /\ Live(s, E, L, V, V[u].top)
                          /\ (V[u].top \in Range(L) => V[u].top = h)
                          /\ Safe(s, E2, L2, V2, u, 0, V[u].top)
  <2>1. 0 \in 0..(Gs(s) - 1)
    BY DEF Gs
  <2>2. V[u].at \in late => V[u].at \notin {"idle", "return", "leaveRead", "leaveWrite"}
    BY DEF DeqPoints
  <2> QED
    BY <2>1, <2>2 DEF DeqOK, Undisturbed, Safe
<1>7. V[u].at \in late => (V[u].top \in Range(L2) => V[u].top = h2)
  <2>1. V[u].at \in late => s.kind = "queue"
    BY DEF KindOK, DeqPoints
  <2> QED
    BY <1>2, <1>6, <2>1
<1>8. V[u].at \in late \ {"deqTail"} => V[u].last = V[u].top \/ tl2 # V[u].top
  BY <1>2, <1>6 DEF DeqOK
<1>9. /\ V[u].at \in {"deqGuardNext", "deqAgain"} => V[u].next = NULL \/ nd2[V[u].top].next = V[u].next
      /\ V[u].at = "deqSwing" => V[u].next # NULL /\ nd2[V[u].top].next = V[u].next /\ V[u].last = V[u].top
  BY <1>2, <1>6 DEF DeqOK, DeqPoints
<1>10. V[u].at \in {"deqElement", "deqCas"} =>
         Safe(s, E2, L2, V2, u, 1, V[u].next) /\ nd2[V[u].top].next = V[u].next /\ V[u].last # V[u].top
  <2>1. V[u].at \in {"deqElement", "deqCas"} => V[u].next \in Nds(s) /\ Safe(s, E2, L2, V2, u, 1, V[u].next)
    <3>1. V[u].at \in {"deqElement", "deqCas"} => 1 \in 0..(Gs(s) - 1)
      BY DEF KindOK, DeqPoints, Gs
    <3> QED
      BY <3>1 DEF DeqOK, Undisturbed, Safe
  <2> QED
    BY <1>2, <1>6, <2>1 DEF DeqOK, DeqPoints
<1> QED
  BY <1>1, <1>3, <1>4, <1>5, <1>6, <1>7, <1>8, <1>9, <1>10 DEF DeqOK

\* A call that is not disturbed goes on as it was.
LEMMA Bystander ==
  ASSUME NEW s, NEW cnt, NEW E, NEW L, NEW nd, NEW h, NEW tl, NEW V,
         NEW E2, NEW L2, NEW nd2, NEW h2, NEW tl2, NEW V2, NEW u \in Threads,
         NULL \notin Nds(s), Indices(s, cnt, V), CallOK(s, E, L, nd, h, tl, V, u),
         Undisturbed(s, E, L, nd, h, tl, V, E2, L2, nd2, h2, tl2, V2, u)
  PROVE  CallOK(s, E2, L2, nd2, h2, tl2, V2, u)
<1>1. V2[u] = V[u]
  BY DEF Undisturbed
<1> QED
  BY <1>1, UndisturbedPop, UndisturbedEnq, UndisturbedDeq DEF CallOK

-----------------------------------------------------------------------------
(* A quiet step keeps the invariant                                        *)

\* A quiet step writes no guard of another thread, links nobody's node but its own, which
\* is not in the container, and the tail moves to a node behind the head.
Gentle(s, E, L, nd, h, tl, V, E2, nd2, tl2, t) ==
  /\ SameLists(s, E, E2)
  /\ \A i \in Ents(s) : i # V[t].index => E2[i].guards = E[i].guards
  /\ \A n \in Nds(s) : nd2[n].next = nd[n].next \/ (V[t].at \in Adding /\ V[t].mine = n)
  /\ tl2 = tl \/ (tl2 \in Range(L) /\ tl2 # h)

\* A call that has no index yet knows nothing but its own node.
LEMMA Unindexed ==
  ASSUME NEW s, NEW cnt, NEW E, NEW L, NEW nd, NEW h, NEW tl, NEW V,
         NEW E2, NEW L2, NEW nd2, NEW h2, NEW tl2, NEW V2, NEW u \in Threads,
         Indices(s, cnt, V), V[u].index = NoIndex, V2[u] = V[u], CallOK(s, E, L, nd, h, tl, V, u),
         V[u].at \in Adding => nd2[V[u].mine].next = nd[V[u].mine].next
  PROVE  CallOK(s, E2, L2, nd2, h2, tl2, V2, u)
<1>1. V[u].at \notin Indexed
  BY DEF Indices
<1>2. PushOK(s, nd2, V[u])
  <2>1. "pushCas" \in Adding
    BY DEF Adding
  <2> HIDE DEF Adding
  <2> QED
    BY <2>1 DEF CallOK, PushOK
<1>3. PopOK(s, E2, L2, nd2, V2, u)
  BY <1>1 DEF CallOK, PopOK, Indexed, Taking
<1>4. EnqOK(s, E2, L2, nd2, V2, u)
  BY <1>1 DEF CallOK, EnqOK, Indexed
<1>5. DeqOK(s, E2, L2, nd2, h2, tl2, V2, u)
  BY <1>1 DEF CallOK, DeqOK, Indexed, DeqPoints
<1> QED
  BY <1>2, <1>3, <1>4, <1>5 DEF CallOK

\* The others do not notice a quiet step.
LEMMA GentleOthers ==
  ASSUME NEW s, NEW cnt, NEW act, NEW pl, NEW E, NEW L, NEW nd, NEW h, NEW tl, NEW V,
         NEW E2, NEW nd2, NEW tl2, NEW V2, NEW t \in Threads, NEW v2,
         Orderly(s, cnt, E, act, pl, L, V), CallOK(s, E, L, nd, h, tl, V, t),
         NULL \notin Nds(s),
         NEW u \in Threads, u # t, CallOK(s, E, L, nd, h, tl, V, u),
         Moves(V, V2, t, v2), Silent(V[t], v2), Gentle(s, E, L, nd, h, tl, V, E2, nd2, tl2, t)
  PROVE  CallOK(s, E2, L, nd2, h, tl2, V2, u)
<1>1. Indices(s, cnt, V) /\ OnePlace(s, E, pl, L, V) /\ Scanned(s, cnt, E, V)
  BY DEF Orderly
<1>2. V2[u] = V[u]
  BY DEF Moves
<1>3. V[u].index # NoIndex => V[u].index \in Ents(s) /\ V[u].index # V[t].index
  BY <1>1 DEF Indices, Ents
<1>4. V[u].index # NoIndex => E2[V[u].index].guards = E[V[u].index].guards
  BY <1>3 DEF Gentle
<1>5. \A x \in Threads : V[x].at \in ScanPoints => V[x].scan \in Ents(s)
  BY <1>1 DEF Scanned, HelpPoints
<1>6. SameLists(s, E, E2)
  BY DEF Gentle
<1>7. ASSUME NEW n \in Nds(s), Live(s, E, L, V, n) PROVE nd2[n].next = nd[n].next
  <2>1. SUFFICES ASSUME V[t].at \in Adding, V[t].mine = n PROVE FALSE
    BY DEF Gentle
  <2>2. Holds(V[t], n)
    BY <2>1 DEF Holds
  <2>3. ASSUME NEW x \in Threads, V[x].at \in Taking, V[x].top = n PROVE FALSE
    <3>1. Holds(V[x], n)
      BY <2>3 DEF Holds
    <3>2. x = t
      BY <1>1, <2>2, <3>1 DEF OnePlace
    <3> QED
      BY <2>1, <2>3, <3>2 DEF Adding, Taking
  <2> QED
    BY <1>1, <1>7, <2>2, <2>3 DEF OnePlace, Live
<1>8. V[u].at \in Adding => nd2[V[u].mine].next = nd[V[u].mine].next
  <2>1. SUFFICES ASSUME V[u].at \in Adding PROVE nd2[V[u].mine].next = nd[V[u].mine].next
    OBVIOUS
  <2>2. V[u].mine \in Nds(s) /\ Holds(V[u], V[u].mine)
    BY <2>1 DEF CallOK, PushOK, Holds
  <2>3. ~(V[t].at \in Adding /\ V[t].mine = V[u].mine)
    BY <1>1, <2>2 DEF OnePlace, Holds
  <2> QED
    BY <2>2, <2>3 DEF Gentle
<1>9. \A n \in Nds(s) : (n \in Range(L) => n = h) /\ tl # n => tl2 # n
  BY DEF Gentle
<1>10. V[u].at \in Indexed => V[u].index # NoIndex
  BY <1>1 DEF Indices
<1>11. ASSUME NEW pos \in 0..(Gs(s) - 1), NEW n \in Nds(s), Safe(s, E, L, V, u, pos, n), V[u].index # NoIndex
       PROVE  Safe(s, E2, L, V2, u, pos, n)
  <2>1. E2[V[u].index].guards[pos] = E[V[u].index].guards[pos]
    BY <1>4, <1>11
  <2>2. Live(s, E2, L, V2, n) /\ Settled(V[t], v2)
    BY <1>6, <1>11, CalmLive DEF Safe, Silent
  <2> QED
    BY <1>5, <1>6, <1>11, <2>1, <2>2, CalmSafe
<1>12. CASE V[u].index # NoIndex
  <2>1. Undisturbed(s, E, L, nd, h, tl, V, E2, L, nd2, h, tl2, V2, u)
    BY <1>2, <1>4, <1>7, <1>8, <1>9, <1>11, <1>12 DEF Undisturbed
  <2> QED
    BY <1>1, <2>1, Bystander
<1>13. CASE V[u].index = NoIndex
  BY <1>1, <1>2, <1>8, <1>13, Unindexed
<1> QED
  BY <1>12, <1>13

\* The invariant after a quiet step, if the thread that takes it knows what it should.
LEMMA GentleStep ==
  ASSUME NEW s, NEW cnt, NEW act, NEW pl, NEW E, NEW L, NEW nd, NEW h, NEW tl, NEW V,
         NEW E2, NEW nd2, NEW tl2, NEW V2, NEW t \in Threads, NEW v2,
         Parts(s, cnt, E, act, pl, nd, h, tl, L, V),
         V2 \in [Threads -> ViewRecs(s)], E2 \in [Ents(s) -> EntryRecs(s)],
         nd2 \in [Nds(s) -> NodeRecs(s)], tl2 \in N0(s),
         Moves(V, V2, t, v2), Silent(V[t], v2), LeavesLast(v2),
         Gentle(s, E, L, nd, h, tl, V, E2, nd2, tl2, t),
         CallOK(s, E2, L, nd2, h, tl2, V2, t)
  PROVE  Parts(s, cnt, E2, act, pl, nd2, h, tl2, L, V2)
<1>1. /\ Orderly(s, cnt, E, act, pl, L, V) /\ SameLists(s, E, E2)
      /\ CallOK(s, E, L, nd, h, tl, V, t) /\ OnePlace(s, E, pl, L, V)
      /\ s \in Setups /\ Linked(s, nd, h, L) /\ HeapOK(s, pl, nd, h, tl)
      /\ QueueOK(s, E, L, nd, tl)
  BY DEF Parts, Gentle, Shapes, Orderly
<1>2. NULL \notin Nds(s)
  BY SetupsAssumption, Sizes, <1>1 DEF Nds
<1>3. Orderly(s, cnt, E2, act, pl, L, V2)
  BY <1>1, Calm
<1>4. \A n \in Nds(s) : n \in Range(L) \/ (\E i \in Ents(s) : Rtd(E, i, n)) => nd2[n].next = nd[n].next
  <2> TAKE n \in Nds(s)
  <2>1. SUFFICES ASSUME V[t].at \in Adding, V[t].mine = n
                 PROVE  n \notin Range(L) /\ \A i \in Ents(s) : ~Rtd(E, i, n)
    BY DEF Gentle
  <2>2. Holds(V[t], n)
    BY <2>1 DEF Holds
  <2> QED
    BY <1>1, <2>2 DEF OnePlace
<1>5. Linked(s, nd2, h, L)
  <2>1. \A k \in 1..Len(L) : L[k] \in Nds(s) /\ L[k] \in Range(L)
    BY <1>1 DEF Linked, Range
  <2> QED
    BY <1>1, <1>4, <2>1 DEF Linked
<1>6. QueueOK(s, E2, L, nd2, tl2)
  <2>1. \A i \in Ents(s), n \in Nds(s) : Rtd(E2, i, n) <=> Rtd(E, i, n)
    BY <1>1 DEF SameLists, Rtd
  <2>2. s.kind = "queue" => tl2 \in Range(L)
    BY <1>1 DEF QueueOK, Gentle
  <2> QED
    BY <1>1, <1>4, <2>1, <2>2 DEF QueueOK
<1>7. ASSUME NEW u \in Threads, u # t PROVE CallOK(s, E2, L, nd2, h, tl2, V2, u)
  <2>1. CallOK(s, E, L, nd, h, tl, V, u)
    BY DEF Parts
  <2> QED
    BY <1>1, <1>2, <1>7, <2>1, GentleOthers
<1>8. Shapes(s, E2, pl, nd2, h, tl2, L, V2)
  BY <1>1, <1>5 DEF Shapes, HeapOK
<1> QED
  BY <1>3, <1>6, <1>7, <1>8 DEF Parts

-----------------------------------------------------------------------------
(* The steps of the specification                                          *)

\* The invariant of the variables, with L for the list.
Entire(L) == Parts(setup, counter, entry, active_hazard_pointer, pool, node, head, tail, L, Views)

\* The inductive invariant of the lock-free containers.
LockFreeInv == thread \in [Threads -> ThreadRecs(setup)] /\ \E L : Entire(L)

\* A thread with another call.
With(v, c) ==
  [index |-> v.index, todo |-> v.todo, at |-> c.at, op |-> c.op, value |-> c.value,
   result |-> c.result, mine |-> c.mine, top |-> c.top, last |-> c.last, next |-> c.next,
   scan |-> c.scan, k |-> c.k, help |-> c.help, hazards |-> c.hazards]

\* What is seen of a thread.
LEMMA ViewFields ==
  ASSUME NEW t \in Threads, thread \in [Threads -> ThreadRecs(setup)]
  PROVE  /\ thread[t] \in ThreadRecs(setup) /\ Local(t) \in CallRecs(setup)
         /\ Views[t] = With(Views[t], Local(t))
         /\ Views[t].index = thread[t].index /\ Views[t].todo = thread[t].todo
         /\ Views[t].at = Local(t).at /\ Views[t].op = Local(t).op /\ Views[t].value = Local(t).value
         /\ Views[t].result = Local(t).result /\ Views[t].mine = Local(t).mine
         /\ Views[t].top = Local(t).top /\ Views[t].last = Local(t).last
         /\ Views[t].next = Local(t).next /\ Views[t].scan = Local(t).scan /\ Views[t].k = Local(t).k
         /\ Views[t].help = Local(t).help /\ Views[t].hazards = Local(t).hazards
  BY DEF Views, View, With, Local, ThreadRecs, CallRecs

\* What is seen of a step of a call.
LEMMA BecomesMoves ==
  ASSUME NEW t \in Threads, NEW c \in CallRecs(setup), thread \in [Threads -> ThreadRecs(setup)],
         Becomes(t, c), setup' = setup
  PROVE  /\ thread' \in [Threads -> ThreadRecs(setup')]
         /\ Views' \in [Threads -> ViewRecs(setup)]
         /\ Moves(Views, Views', t, With(Views[t], c))
<1>1. \A u \in Threads : thread[u] \in ThreadRecs(setup) /\ thread[u].call \in CallRecs(setup)
  BY DEF ThreadRecs
<1> DEFINE saw(u) == thread[u].call.op = "get" /\ Contents = <<>>
           r(u)   == IF u = t THEN c ELSE thread[u].call
           d(u)   == IF saw(u) /\ r(u).op = "get" THEN [r(u) EXCEPT !.saw = TRUE] ELSE r(u)
<1>2. \A u \in Threads : thread'[u] = [thread[u] EXCEPT !.call = d(u)]
  BY DEF Becomes
<1>3. \A u \in Threads : r(u) \in CallRecs(setup)
  BY <1>1
<1>4. \A x \in CallRecs(setup) : [x EXCEPT !.saw = TRUE] \in CallRecs(setup)
  BY DEF CallRecs
<1>5. \A u \in Threads : d(u) \in CallRecs(setup)
  <2> HIDE DEF r
  <2> QED
    BY <1>3, <1>4
<1>6. \A x \in CallRecs(setup) : \A v : With(v, [x EXCEPT !.saw = TRUE]) = With(v, x)
  BY DEF CallRecs, With
<1>7. \A u \in Threads : \A v : With(v, d(u)) = With(v, r(u))
  <2> HIDE DEF r
  <2> QED
    BY <1>3, <1>6
<1> HIDE DEF d
<1>8. \A x \in ThreadRecs(setup), e \in CallRecs(setup) :
        /\ [x EXCEPT !.call = e] \in ThreadRecs(setup)
        /\ View([x EXCEPT !.call = e]) = With(View(x), e)
        /\ View([x EXCEPT !.call = e]) \in ViewRecs(setup)
  <2> TAKE x \in ThreadRecs(setup), e \in CallRecs(setup)
  <2> DEFINE y == [x EXCEPT !.call = e]
  <2>1. y \in ThreadRecs(setup) /\ y.index = x.index /\ y.todo = x.todo /\ y.call = e
    BY DEF ThreadRecs
  <2>2. x.index \in Int /\ x.todo \in Seq(Ops)
    BY DEF ThreadRecs
  <2> HIDE DEF y
  <2>3. View(y) = With(View(x), e)
    BY <2>1 DEF View, With
  <2>4. View(y) \in ViewRecs(setup)
    BY <2>1, <2>2 DEF View, ViewRecs, CallRecs
  <2> QED
    BY <2>1, <2>3, <2>4 DEF y
<1>9. \A u \in Threads : thread'[u] \in ThreadRecs(setup) /\ View(thread'[u]) = With(View(thread[u]), d(u))
                         /\ View(thread'[u]) \in ViewRecs(setup)
  <2> TAKE u \in Threads
  <2>1. thread[u] \in ThreadRecs(setup) /\ d(u) \in CallRecs(setup)
    BY <1>1, <1>5
  <2>2. thread'[u] = [thread[u] EXCEPT !.call = d(u)]
    BY <1>2
  <2> QED
    BY <1>8, <2>1, <2>2
<1>10. thread' = [u \in Threads |-> thread'[u]]
  BY DEF Becomes
<1>11. thread' \in [Threads -> ThreadRecs(setup)]
  BY <1>9, <1>10
<1>12. Views' = [u \in Threads |-> View(thread'[u])]
  BY DEF Views
<1>13. \A u \in Threads : Views[u] = View(thread[u]) /\ View(thread[u]) = With(View(thread[u]), thread[u].call)
  BY <1>1 DEF Views, View, With
<1>14. \A u \in Threads : Views'[u] = With(Views[u], r(u))
  <2> HIDE DEF r, With, View
  <2> QED
    BY <1>7, <1>9, <1>12, <1>13
<1>15. \A u \in Threads : Views'[u] = IF u = t THEN With(Views[t], c) ELSE Views[u]
  <2> HIDE DEF With, View, Views
  <2> QED
    BY <1>13, <1>14
<1>16. Moves(Views, Views', t, With(Views[t], c))
  BY <1>15 DEF Moves
<1>17. Views' \in [Threads -> ViewRecs(setup)]
  <2> HIDE DEF View, ViewRecs
  <2> QED
    BY <1>9, <1>12
<1> QED
  BY <1>11, <1>16, <1>17

\* A node of the container that a thread guards is safe from every scan.
LEMMA FreshSafe ==
  ASSUME NEW s, NEW cnt, NEW act, NEW pl, NEW E, NEW L, NEW V, Orderly(s, cnt, E, act, pl, L, V),
         NEW t \in Threads, NEW pos, NEW n \in Nds(s), n \in Range(L),
         E[V[t].index].guards[pos] = n
  PROVE  Safe(s, E, L, V, t, pos, n)
<1>1. \A u \in Threads : V[u].at \in ScanPoints => ~Rtd(E, V[u].scan, n)
  <2> TAKE u \in Threads
  <2>1. V[u].at \in ScanPoints => V[u].scan \in Ents(s)
    BY DEF Orderly, Scanned, HelpPoints
  <2> QED
    BY <2>1 DEF Orderly, OnePlace
<1> QED
  BY <1>1 DEF Safe, Live, Guarded

\* A step of a call that writes at most its own guards, its own node or the tail.
LEMMA QuietAction ==
  ASSUME NEW t \in Threads, NEW c \in CallRecs(setup), NEW L,
         thread \in [Threads -> ThreadRecs(setup)], Entire(L), Becomes(t, c),
         UNCHANGED <<setup, counter, active_hazard_pointer, pool, head>>,
         entry' \in [Ents(setup) -> EntryRecs(setup)], node' \in [Nds(setup) -> NodeRecs(setup)],
         tail' \in N0(setup), c.at # "leave",
         Silent(Views[t], With(Views[t], c)),
         Gentle(setup, entry, L, node, head, tail, Views, entry', node', tail', t)
  PROVE  /\ Views'[t] = With(Views[t], c)
         /\ \A pos \in {0, 1}, n \in Nds(setup) :
              /\ Safe(setup, entry, L, Views, t, pos, n)
              /\ entry'[Views[t].index].guards[pos] = entry[Views[t].index].guards[pos]
              => Safe(setup, entry', L, Views', t, pos, n)
         /\ \A pos \in {0, 1}, n \in Nds(setup) :
              n \in Range(L) /\ entry'[Views[t].index].guards[pos] = n
              => Safe(setup, entry', L, Views', t, pos, n)
         /\ CallOK(setup, entry', L, node', head, tail', Views', t) => LockFreeInv'
<1>1. /\ thread' \in [Threads -> ThreadRecs(setup')] /\ Views' \in [Threads -> ViewRecs(setup)]
      /\ Moves(Views, Views', t, With(Views[t], c))
  BY BecomesMoves
<1> DEFINE V  == Views
           V2 == Views'
           v2 == With(Views[t], c)
           E2 == entry'
<1>2. Moves(V, V2, t, v2) /\ Silent(V[t], v2) /\ SameLists(setup, entry, E2)
  BY <1>1 DEF Gentle
<1>3. Orderly(setup, counter, entry, active_hazard_pointer, pool, L, V)
  BY DEF Entire, Parts
<1>4. LeavesLast(v2)
  BY <1>3 DEF LeavesLast, Orderly, Leaves, With
<1>5. \A x \in Threads : V[x].at \in ScanPoints => V[x].scan \in Ents(setup)
  BY <1>3 DEF Orderly, Scanned, HelpPoints
<1>6. V2[t] = v2 /\ v2.index = V[t].index
  BY <1>1 DEF Moves, With
<1> HIDE DEF V, V2, v2, E2
<1>7. Orderly(setup, counter, E2, active_hazard_pointer, pool, L, V2)
  BY <1>2, <1>3, <1>4, Calm
<1>8. ASSUME NEW pos \in {0, 1}, NEW n \in Nds(setup), Safe(setup, entry, L, V, t, pos, n),
             E2[V[t].index].guards[pos] = entry[V[t].index].guards[pos]
      PROVE  Safe(setup, E2, L, V2, t, pos, n)
  <2>1. Live(setup, E2, L, V2, n) /\ Settled(V[t], v2)
    BY <1>2, <1>8, CalmLive DEF Safe, Silent
  <2> QED
    BY <1>2, <1>5, <1>8, <2>1, CalmSafe
<1>9. ASSUME NEW pos \in {0, 1}, NEW n \in Nds(setup), n \in Range(L), E2[V[t].index].guards[pos] = n
      PROVE  Safe(setup, E2, L, V2, t, pos, n)
  BY <1>6, <1>7, <1>9, FreshSafe
<1>10. ASSUME CallOK(setup, E2, L, node', head, tail', V2, t) PROVE LockFreeInv'
  <2>1. Parts(setup, counter, entry, active_hazard_pointer, pool, node, head, tail, L, V)
    BY DEF Entire, V
  <2>2. V2 \in [Threads -> ViewRecs(setup)] /\ E2 \in [Ents(setup) -> EntryRecs(setup)]
    BY <1>1 DEF V2, E2
  <2>3. Gentle(setup, entry, L, node, head, tail, V, E2, node', tail', t)
    BY DEF V, E2
  <2>4. Parts(setup, counter, E2, active_hazard_pointer, pool, node', head, tail', L, V2)
    BY <1>2, <1>4, <1>10, <2>1, <2>2, <2>3, GentleStep
  <2>5. Parts(setup', counter', E2, active_hazard_pointer', pool', node', head', tail', L, V2)
    BY <2>4
  <2>6. Entire(L)'
    BY <2>5 DEF Entire, E2, V2
  <2> QED
    BY <1>1, <2>6 DEF LockFreeInv
<1> QED
  BY <1>6, <1>8, <1>9, <1>10 DEF V, V2, v2, E2

\* The parts that the steps of a thread need.
LEMMA Known ==
  ASSUME NEW L, Entire(L), NEW t \in Threads
  PROVE  /\ setup \in Setups /\ NULL \notin Nds(setup)
         /\ entry \in [Ents(setup) -> EntryRecs(setup)] /\ node \in [Nds(setup) -> NodeRecs(setup)]
         /\ head \in N0(setup) /\ tail \in N0(setup) /\ pool \in SUBSET Nds(setup)
         /\ Linked(setup, node, head, L)
         /\ OnePlace(setup, entry, pool, L, Views) /\ Indices(setup, counter, Views) /\ Leaves(Views)
         /\ Scanned(setup, counter, entry, Views) /\ Room(setup, entry, Views, active_hazard_pointer)
         /\ QueueOK(setup, entry, L, node, tail)
         /\ KindOK(setup, Views[t]) /\ PushOK(setup, node, Views[t])
         /\ PopOK(setup, entry, L, node, Views, t) /\ EnqOK(setup, entry, L, node, Views, t)
         /\ DeqOK(setup, entry, L, node, head, tail, Views, t)
<1>1. setup \in Setups
  BY DEF Entire, Parts, Shapes
<1>2. NULL \notin Nds(setup)
  BY SetupsAssumption, Sizes, <1>1 DEF Nds
<1> QED
  BY <1>1, <1>2 DEF Entire, Parts, Shapes, HeapOK, Orderly, CallOK

\* The head is the first node of the container; the next one is the second.
LEMMA FirstNodes ==
  ASSUME NEW s, NEW nd, NEW h, NEW L, Linked(s, nd, h, L), NULL \notin Nds(s)
  PROVE  /\ Range(L) \subseteq Nds(s)
         /\ h # NULL => h \in Range(L) /\ h \in Nds(s)
         /\ h # NULL /\ nd[h].next # NULL => nd[h].next \in Range(L) /\ nd[h].next # h
<1>1. L \in Seq(Nds(s)) /\ Len(L) \in Nat
  BY DEF Linked
<1>2. \A k \in 1..Len(L) : L[k] \in Range(L) /\ L[k] \in Nds(s)
  BY <1>1 DEF Range
<1>3. Range(L) \subseteq Nds(s)
  BY <1>1 DEF Range
<1>4. h # NULL => 1 \in 1..Len(L) /\ h = L[1]
  BY <1>1 DEF Linked
<1>5. h # NULL /\ nd[h].next # NULL => 2 \in 1..Len(L) /\ nd[h].next = L[2] /\ L[2] # L[1]
  BY <1>1, <1>4 DEF Linked
<1> QED
  BY <1>2, <1>3, <1>4, <1>5

\* A call with another point and other values.
Set(x, a, r, va, tp, la, ne) ==
  [x EXCEPT !.at = a, !.result = r, !.value = va, !.top = tp, !.last = la, !.next = ne]

\* A thread as it is after that.
After(v, v2, a, r, va, tp, la, ne) ==
  /\ v2.index = v.index /\ v2.todo = v.todo /\ v2.op = v.op /\ v2.mine = v.mine
  /\ v2.at = a /\ v2.result = r /\ v2.value = va /\ v2.top = tp /\ v2.last = la /\ v2.next = ne

\* The points between which a quiet step leads.
QuietPoints(v, a, tp) ==
  /\ a \in CallPoints \ (HelpPoints \cup {"leave", "giveBack"})
  /\ v.at \notin HelpPoints \cup {"giveBack", "idle", "return", "leaveRead", "leaveWrite"}
  /\ a \in Indexed => v.index # NoIndex
  /\ a \in Adding <=> v.at \in Adding
  /\ a \in Taking <=> v.at \in Taking
  /\ a \in Taking => tp = v.top

\* The fields of a call that goes on.
LEMMA SetFields ==
  ASSUME NEW t \in Threads, thread \in [Threads -> ThreadRecs(setup)],
         NEW a \in CallPoints, NEW r \in Results, NEW va \in Values \cup {Nothing},
         NEW tp \in N0(setup), NEW la \in N0(setup), NEW ne \in N0(setup)
  PROVE  /\ Set(Local(t), a, r, va, tp, la, ne) \in CallRecs(setup)
         /\ Set(Local(t), a, r, va, tp, la, ne).at = a
         /\ After(Views[t], With(Views[t], Set(Local(t), a, r, va, tp, la, ne)), a, r, va, tp, la, ne)
<1>1. Local(t) \in CallRecs(setup) /\ Views[t].op = Local(t).op /\ Views[t].mine = Local(t).mine
  BY ViewFields
<1> DEFINE x == Local(t)
           y == Set(x, a, r, va, tp, la, ne)
<1> HIDE DEF x
<1>2. x \in CallRecs(setup) /\ Views[t].op = x.op /\ Views[t].mine = x.mine
  BY <1>1 DEF x
<1>3. y \in CallRecs(setup)
  BY <1>2 DEF CallRecs, Set
<1>4. /\ y.at = a /\ y.result = r /\ y.value = va /\ y.top = tp /\ y.last = la /\ y.next = ne
      /\ y.op = x.op /\ y.mine = x.mine
  BY <1>2 DEF CallRecs, Set
<1> HIDE DEF y
<1>5. After(Views[t], With(Views[t], y), a, r, va, tp, la, ne)
  BY <1>2, <1>4 DEF After, With
<1> QED
  BY <1>3, <1>4, <1>5 DEF y, x

\* What a step to point a leads to, as far as entries, nodes and tail are as given: if the
\* call knows there what it should, the invariant holds.
Leads(L, t, E2, nd2, tl2, a, r, va, tp, la, ne) ==
  /\ After(Views[t], Views'[t], a, r, va, tp, la, ne)
  /\ \A pos \in {0, 1}, n \in Nds(setup) :
       /\ Safe(setup, entry, L, Views, t, pos, n)
       /\ E2[Views[t].index].guards[pos] = entry[Views[t].index].guards[pos]
       => Safe(setup, E2, L, Views', t, pos, n)
  /\ \A pos \in {0, 1}, n \in Nds(setup) :
       n \in Range(L) /\ E2[Views[t].index].guards[pos] = n
       => Safe(setup, E2, L, Views', t, pos, n)
  /\ CallOK(setup, E2, L, nd2, head, tl2, Views', t) => LockFreeInv'

\* A step that sets these values and writes at most its own guards, its own node or the tail.
LEMMA SetAction ==
  ASSUME NEW t \in Threads, NEW L, thread \in [Threads -> ThreadRecs(setup)], Entire(L),
         NEW a, NEW r \in Results, NEW va \in Values \cup {Nothing},
         NEW tp \in N0(setup), NEW la \in N0(setup), NEW ne \in N0(setup),
         Becomes(t, Set(Local(t), a, r, va, tp, la, ne)),
         UNCHANGED <<setup, counter, active_hazard_pointer, pool, head>>,
         entry' \in [Ents(setup) -> EntryRecs(setup)], node' \in [Nds(setup) -> NodeRecs(setup)],
         tail' \in N0(setup), QuietPoints(Views[t], a, tp),
         Gentle(setup, entry, L, node, head, tail, Views, entry', node', tail', t)
  PROVE  Leads(L, t, entry', node', tail', a, r, va, tp, la, ne)
<1> DEFINE c  == Set(Local(t), a, r, va, tp, la, ne)
           v2 == With(Views[t], c)
<1>1. a \in CallPoints /\ a # "leave"
  BY DEF QuietPoints
<1>2. c \in CallRecs(setup) /\ c.at = a /\ After(Views[t], v2, a, r, va, tp, la, ne)
  BY <1>1, SetFields
<1> HIDE DEF v2
<1>3. Silent(Views[t], v2)
  <2> HIDE DEF Adding, Taking, Indexed, HelpPoints
  <2> QED
    BY <1>2 DEF Silent, Settled, QuietPoints, After, Finished
<1> HIDE DEF c
<1> QED
  BY <1>1, <1>2, <1>3, QuietAction DEF v2, c, Leads

\* A step that only reads.
LEMMA ReadAction ==
  ASSUME NEW t \in Threads, NEW L, thread \in [Threads -> ThreadRecs(setup)], Entire(L),
         NEW a, NEW r \in Results, NEW va \in Values \cup {Nothing},
         NEW tp \in N0(setup), NEW la \in N0(setup), NEW ne \in N0(setup),
         Becomes(t, Set(Local(t), a, r, va, tp, la, ne)), UNCHANGED <<setup, guarding, heap>>,
         QuietPoints(Views[t], a, tp)
  PROVE  Leads(L, t, entry, node, tail, a, r, va, tp, la, ne)
<1>1. /\ entry' = entry /\ node' = node /\ tail' = tail /\ setup' = setup /\ counter' = counter
      /\ active_hazard_pointer' = active_hazard_pointer /\ pool' = pool /\ head' = head
  BY DEF guarding, heap
<1>2. Gentle(setup, entry, L, node, head, tail, Views, entry', node', tail', t)
  BY <1>1 DEF Gentle, SameLists
<1>3. entry' \in [Ents(setup) -> EntryRecs(setup)] /\ node' \in [Nds(setup) -> NodeRecs(setup)] /\ tail' \in N0(setup)
  BY <1>1, Known
<1>4. Leads(L, t, entry', node', tail', a, r, va, tp, la, ne)
  BY <1>1, <1>2, <1>3, SetAction
<1> QED
  BY <1>1, <1>4

\* What a thread can rely on before its step.
Ready(L, t) ==
  /\ thread \in [Threads -> ThreadRecs(setup)] /\ Local(t) \in CallRecs(setup)
  /\ Local(t).at = Views[t].at /\ Local(t).mine = Views[t].mine
  /\ Local(t).result \in Results /\ Local(t).value \in Values \cup {Nothing}
  /\ Local(t).top \in N0(setup) /\ Local(t).last \in N0(setup) /\ Local(t).next \in N0(setup)
  /\ Local(t).result = Views[t].result /\ Local(t).value = Views[t].value
  /\ Local(t).top = Views[t].top /\ Local(t).last = Views[t].last /\ Local(t).next = Views[t].next
  /\ NULL \notin Nds(setup) /\ node \in [Nds(setup) -> NodeRecs(setup)]
  /\ entry \in [Ents(setup) -> EntryRecs(setup)]
  /\ head \in N0(setup) /\ tail \in N0(setup) /\ Linked(setup, node, head, L)
  /\ Views[t].at \in Indexed => Views[t].index # NoIndex
  /\ Views[t].index # NoIndex => Views[t].index \in Ents(setup)
  /\ thread[t].index = Views[t].index
  /\ QueueOK(setup, entry, L, node, tail)
  /\ Range(L) \subseteq Nds(setup)
  /\ head # NULL => head \in Range(L) /\ head \in Nds(setup)
  /\ setup.kind = "queue" => head # NULL /\ tail \in Range(L)
  /\ head # NULL /\ node[head].next # NULL => node[head].next \in Range(L) /\ node[head].next # head
  /\ KindOK(setup, Views[t]) /\ PushOK(setup, node, Views[t])
  /\ PopOK(setup, entry, L, node, Views, t) /\ EnqOK(setup, entry, L, node, Views, t)
  /\ DeqOK(setup, entry, L, node, head, tail, Views, t)

\* The invariant tells all that.
LEMMA Start ==
  ASSUME NEW L, thread \in [Threads -> ThreadRecs(setup)], Entire(L), NEW t \in Threads
  PROVE  Ready(L, t)
<1>1. Local(t) \in CallRecs(setup)
  BY ViewFields
<1>2. /\ Local(t).at = Views[t].at /\ Local(t).mine = Views[t].mine
      /\ Local(t).result \in Results /\ Local(t).value \in Values \cup {Nothing}
      /\ Local(t).top \in N0(setup) /\ Local(t).last \in N0(setup) /\ Local(t).next \in N0(setup)
      /\ Local(t).result = Views[t].result /\ Local(t).value = Views[t].value
      /\ Local(t).top = Views[t].top /\ Local(t).last = Views[t].last /\ Local(t).next = Views[t].next
      /\ thread[t].index = Views[t].index
  BY <1>1, ViewFields DEF CallRecs
<1>3. Indices(setup, counter, Views) /\ Linked(setup, node, head, L) /\ NULL \notin Nds(setup)
  BY Known
<1>4. /\ Range(L) \subseteq Nds(setup)
      /\ head # NULL => head \in Range(L) /\ head \in Nds(setup)
      /\ head # NULL /\ node[head].next # NULL => node[head].next \in Range(L) /\ node[head].next # head
  BY <1>3, FirstNodes
<1>5. /\ Views[t].at \in Indexed => Views[t].index # NoIndex
      /\ Views[t].index # NoIndex => Views[t].index \in Ents(setup)
  BY <1>3 DEF Indices, Ents
<1>6. setup.kind = "queue" => head # NULL /\ tail \in Range(L)
  <2>1. QueueOK(setup, entry, L, node, tail)
    BY Known
  <2>2. \A n \in Range(L) : L \in Seq(Nds(setup)) /\ Len(L) # 0 /\ L[1] \in Nds(setup)
    BY <1>3 DEF Range, Linked
  <2> QED
    BY <1>3, <2>1, <2>2 DEF QueueOK, Linked
<1> QED
  BY <1>1, <1>2, <1>3, <1>4, <1>5, <1>6, Known DEF Ready

-----------------------------------------------------------------------------
(* The steps that only read, one by one                                    *)

\* TryPop reads the top.
LEMMA KeepsPopTop == ASSUME LockFreeInv, NEW t \in Threads, PopTop(t) PROVE LockFreeInv'
<1> DEFINE v  == Views[t]
           v2 == Views'[t]
<1>1. PICK L : thread \in [Threads -> ThreadRecs(setup)] /\ Entire(L)
  BY DEF LockFreeInv
<1>2. Ready(L, t)
  BY <1>1, Start
<1>3. v.at = "pop"
  BY <1>2 DEF PopTop, Reads, At, Local, Ready
<1>4. CASE head = NULL
  <2>1. Becomes(t, [Local(t) EXCEPT !.at = "return", !.result = "empty"]) /\ UNCHANGED <<setup, guarding, heap>>
    BY <1>4, <1>2, <1>3 DEF PopTop, Reads, At, v
  <2>2. [Local(t) EXCEPT !.at = "return", !.result = "empty"] = Set(Local(t), "return", "empty", Local(t).value, Local(t).top, Local(t).last, Local(t).next)
    BY <1>2 DEF Ready, Set, CallRecs
  <2>3. QuietPoints(v, "return", Local(t).top)
    BY <1>2, <1>3 DEF Ready, QuietPoints, CallPoints, StackPoints, EnqPoints, DeqPoints, HelpPoints, ScanPoints,
                      Adding, Taking, Indexed
  <2>4. "empty" \in Results /\ Local(t).value \in Values \cup {Nothing}
        /\ Local(t).top \in N0(setup) /\ Local(t).last \in N0(setup) /\ Local(t).next \in N0(setup)
    BY <1>4, <1>2, <1>3 DEF Ready, Results, N0, NodeRecs
  <2>5. Leads(L, t, entry, node, tail, "return", "empty", Local(t).value, Local(t).top, Local(t).last, Local(t).next)
    BY <1>1, <1>2, <2>1, <2>2, <2>3, <2>4, ReadAction DEF Ready
  <2>6. After(v, v2, "return", "empty", Local(t).value, Local(t).top, Local(t).last, Local(t).next)
    BY <2>5 DEF Leads
  <2> HIDE DEF v, v2
  <2>7. KindOK(setup, v2)
    BY <1>4, <1>2, <1>3, <2>6 DEF Ready, After, KindOK, StackPoints, EnqPoints, DeqPoints, v
  <2>8. PushOK(setup, node, v2)
    BY <1>4, <1>2, <1>3, <2>6 DEF Ready, After, PushOK, Adding, EnqPoints, v
  <2>9. PopOK(setup, entry, L, node, Views', t)
    BY <1>4, <1>2, <1>3, <2>5, <2>6 DEF Ready, Leads, After, PopOK, Taking, N0, Safe, v, v2
  <2>10. EnqOK(setup, entry, L, node, Views', t)
    BY <1>4, <1>2, <1>3, <2>5, <2>6 DEF Ready, Leads, After, EnqOK, Safe, N0, v, v2, QueueOK, KindOK, EnqPoints
  <2>11. DeqOK(setup, entry, L, node, head, tail, Views', t)
    BY <1>4, <1>2, <1>3, <2>5, <2>6 DEF Ready, Leads, After, DeqOK, DeqPoints, Safe, N0, v, v2, QueueOK, KindOK
  <2> QED
    BY <2>5, <2>7, <2>8, <2>9, <2>10, <2>11 DEF Leads, CallOK, v2
<1>5. CASE head # NULL
  <2>1. Becomes(t, [Local(t) EXCEPT !.at = "guard", !.top = head]) /\ UNCHANGED <<setup, guarding, heap>>
    BY <1>5, <1>2, <1>3 DEF PopTop, Reads, At, v
  <2>2. [Local(t) EXCEPT !.at = "guard", !.top = head] = Set(Local(t), "guard", Local(t).result, Local(t).value, head, Local(t).last, Local(t).next)
    BY <1>2 DEF Ready, Set, CallRecs
  <2>3. QuietPoints(v, "guard", head)
    BY <1>2, <1>3 DEF Ready, QuietPoints, CallPoints, StackPoints, EnqPoints, DeqPoints, HelpPoints, ScanPoints,
                      Adding, Taking, Indexed
  <2>4. Local(t).result \in Results /\ Local(t).value \in Values \cup {Nothing}
        /\ head \in N0(setup) /\ Local(t).last \in N0(setup) /\ Local(t).next \in N0(setup)
    BY <1>5, <1>2, <1>3 DEF Ready, Results, N0, NodeRecs
  <2>5. Leads(L, t, entry, node, tail, "guard", Local(t).result, Local(t).value, head, Local(t).last, Local(t).next)
    BY <1>1, <1>2, <2>1, <2>2, <2>3, <2>4, ReadAction DEF Ready
  <2>6. After(v, v2, "guard", Local(t).result, Local(t).value, head, Local(t).last, Local(t).next)
    BY <2>5 DEF Leads
  <2> HIDE DEF v, v2
  <2>7. KindOK(setup, v2)
    BY <1>5, <1>2, <1>3, <2>6 DEF Ready, After, KindOK, StackPoints, EnqPoints, DeqPoints, v
  <2>8. PushOK(setup, node, v2)
    BY <1>5, <1>2, <1>3, <2>6 DEF Ready, After, PushOK, Adding, EnqPoints, v
  <2>9. PopOK(setup, entry, L, node, Views', t)
    BY <1>5, <1>2, <1>3, <2>5, <2>6 DEF Ready, Leads, After, PopOK, Taking, N0, Safe, v, v2
  <2>10. EnqOK(setup, entry, L, node, Views', t)
    BY <1>5, <1>2, <1>3, <2>5, <2>6 DEF Ready, Leads, After, EnqOK, Safe, N0, v, v2, QueueOK, KindOK, EnqPoints
  <2>11. DeqOK(setup, entry, L, node, head, tail, Views', t)
    BY <1>5, <1>2, <1>3, <2>5, <2>6 DEF Ready, Leads, After, DeqOK, DeqPoints, Safe, N0, v, v2, QueueOK, KindOK
  <2> QED
    BY <2>5, <2>7, <2>8, <2>9, <2>10, <2>11 DEF Leads, CallOK, v2
<1> QED
  BY <1>4, <1>5

\* If the guarded node is still the top it was not retired before it was guarded.
LEMMA KeepsPopCheck == ASSUME LockFreeInv, NEW t \in Threads, PopCheck(t) PROVE LockFreeInv'
<1> DEFINE v  == Views[t]
           v2 == Views'[t]
<1>1. PICK L : thread \in [Threads -> ThreadRecs(setup)] /\ Entire(L)
  BY DEF LockFreeInv
<1>2. Ready(L, t)
  BY <1>1, Start
<1>3. v.at = "popCheck"
  BY <1>2 DEF PopCheck, Reads, At, Local, Ready
<1>4. CASE head = Local(t).top
  <2>1. Becomes(t, [Local(t) EXCEPT !.at = "popNext"]) /\ UNCHANGED <<setup, guarding, heap>>
    BY <1>4, <1>2, <1>3 DEF PopCheck, Reads, At, v
  <2>2. [Local(t) EXCEPT !.at = "popNext"] = Set(Local(t), "popNext", Local(t).result, Local(t).value, Local(t).top, Local(t).last, Local(t).next)
    BY <1>2 DEF Ready, Set, CallRecs
  <2>3. QuietPoints(v, "popNext", Local(t).top)
    BY <1>2, <1>3 DEF Ready, QuietPoints, CallPoints, StackPoints, EnqPoints, DeqPoints, HelpPoints, ScanPoints,
                      Adding, Taking, Indexed
  <2>4. Local(t).result \in Results /\ Local(t).value \in Values \cup {Nothing}
        /\ Local(t).top \in N0(setup) /\ Local(t).last \in N0(setup) /\ Local(t).next \in N0(setup)
    BY <1>4, <1>2, <1>3 DEF Ready, Results, N0, NodeRecs
  <2>5. Leads(L, t, entry, node, tail, "popNext", Local(t).result, Local(t).value, Local(t).top, Local(t).last, Local(t).next)
    BY <1>1, <1>2, <2>1, <2>2, <2>3, <2>4, ReadAction DEF Ready
  <2>6. After(v, v2, "popNext", Local(t).result, Local(t).value, Local(t).top, Local(t).last, Local(t).next)
    BY <2>5 DEF Leads
  <2> HIDE DEF v, v2
  <2>7. KindOK(setup, v2)
    BY <1>4, <1>2, <1>3, <2>6 DEF Ready, After, KindOK, StackPoints, EnqPoints, DeqPoints, v
  <2>8. PushOK(setup, node, v2)
    BY <1>4, <1>2, <1>3, <2>6 DEF Ready, After, PushOK, Adding, EnqPoints, v
  <2>9. PopOK(setup, entry, L, node, Views', t)
    BY <1>4, <1>2, <1>3, <2>5, <2>6 DEF Ready, Leads, After, PopOK, Taking, N0, Safe, v, v2
  <2>10. EnqOK(setup, entry, L, node, Views', t)
    BY <1>4, <1>2, <1>3, <2>5, <2>6 DEF Ready, Leads, After, EnqOK, Safe, N0, v, v2, QueueOK, KindOK, EnqPoints
  <2>11. DeqOK(setup, entry, L, node, head, tail, Views', t)
    BY <1>4, <1>2, <1>3, <2>5, <2>6 DEF Ready, Leads, After, DeqOK, DeqPoints, Safe, N0, v, v2, QueueOK, KindOK
  <2> QED
    BY <2>5, <2>7, <2>8, <2>9, <2>10, <2>11 DEF Leads, CallOK, v2
<1>5. CASE head # Local(t).top
  <2>1. Becomes(t, [Local(t) EXCEPT !.at = "pop"]) /\ UNCHANGED <<setup, guarding, heap>>
    BY <1>5, <1>2, <1>3 DEF PopCheck, Reads, At, v
  <2>2. [Local(t) EXCEPT !.at = "pop"] = Set(Local(t), "pop", Local(t).result, Local(t).value, Local(t).top, Local(t).last, Local(t).next)
    BY <1>2 DEF Ready, Set, CallRecs
  <2>3. QuietPoints(v, "pop", Local(t).top)
    BY <1>2, <1>3 DEF Ready, QuietPoints, CallPoints, StackPoints, EnqPoints, DeqPoints, HelpPoints, ScanPoints,
                      Adding, Taking, Indexed
  <2>4. Local(t).result \in Results /\ Local(t).value \in Values \cup {Nothing}
        /\ Local(t).top \in N0(setup) /\ Local(t).last \in N0(setup) /\ Local(t).next \in N0(setup)
    BY <1>5, <1>2, <1>3 DEF Ready, Results, N0, NodeRecs
  <2>5. Leads(L, t, entry, node, tail, "pop", Local(t).result, Local(t).value, Local(t).top, Local(t).last, Local(t).next)
    BY <1>1, <1>2, <2>1, <2>2, <2>3, <2>4, ReadAction DEF Ready
  <2>6. After(v, v2, "pop", Local(t).result, Local(t).value, Local(t).top, Local(t).last, Local(t).next)
    BY <2>5 DEF Leads
  <2> HIDE DEF v, v2
  <2>7. KindOK(setup, v2)
    BY <1>5, <1>2, <1>3, <2>6 DEF Ready, After, KindOK, StackPoints, EnqPoints, DeqPoints, v
  <2>8. PushOK(setup, node, v2)
    BY <1>5, <1>2, <1>3, <2>6 DEF Ready, After, PushOK, Adding, EnqPoints, v
  <2>9. PopOK(setup, entry, L, node, Views', t)
    BY <1>5, <1>2, <1>3, <2>5, <2>6 DEF Ready, Leads, After, PopOK, Taking, N0, Safe, v, v2
  <2>10. EnqOK(setup, entry, L, node, Views', t)
    BY <1>5, <1>2, <1>3, <2>5, <2>6 DEF Ready, Leads, After, EnqOK, Safe, N0, v, v2, QueueOK, KindOK, EnqPoints
  <2>11. DeqOK(setup, entry, L, node, head, tail, Views', t)
    BY <1>5, <1>2, <1>3, <2>5, <2>6 DEF Ready, Leads, After, DeqOK, DeqPoints, Safe, N0, v, v2, QueueOK, KindOK
  <2> QED
    BY <2>5, <2>7, <2>8, <2>9, <2>10, <2>11 DEF Leads, CallOK, v2
<1> QED
  BY <1>4, <1>5

\* The link of a node that was in the stack does not change.
LEMMA KeepsPopNext == ASSUME LockFreeInv, NEW t \in Threads, PopNext(t) PROVE LockFreeInv'
<1> DEFINE v  == Views[t]
           v2 == Views'[t]
<1>1. PICK L : thread \in [Threads -> ThreadRecs(setup)] /\ Entire(L)
  BY DEF LockFreeInv
<1>2. Ready(L, t)
  BY <1>1, Start
<1>3. v.at = "popNext"
  BY <1>2 DEF PopNext, Reads, At, Local, Ready
<1>4. CASE TRUE
  <2>1. Becomes(t, [Local(t) EXCEPT !.at = "popCas", !.next = node[Local(t).top].next]) /\ UNCHANGED <<setup, guarding, heap>>
    BY <1>4, <1>2, <1>3 DEF PopNext, Reads, At, v
  <2>2. [Local(t) EXCEPT !.at = "popCas", !.next = node[Local(t).top].next] = Set(Local(t), "popCas", Local(t).result, Local(t).value, Local(t).top, Local(t).last, node[Local(t).top].next)
    BY <1>2 DEF Ready, Set, CallRecs
  <2>3. QuietPoints(v, "popCas", Local(t).top)
    BY <1>2, <1>3 DEF Ready, QuietPoints, CallPoints, StackPoints, EnqPoints, DeqPoints, HelpPoints, ScanPoints,
                      Adding, Taking, Indexed
  <2>4. Local(t).result \in Results /\ Local(t).value \in Values \cup {Nothing}
        /\ Local(t).top \in N0(setup) /\ Local(t).last \in N0(setup) /\ node[Local(t).top].next \in N0(setup)
    BY <1>4, <1>2, <1>3 DEF Ready, Results, N0, NodeRecs, PopOK, Safe
  <2>5. Leads(L, t, entry, node, tail, "popCas", Local(t).result, Local(t).value, Local(t).top, Local(t).last, node[Local(t).top].next)
    BY <1>1, <1>2, <2>1, <2>2, <2>3, <2>4, ReadAction DEF Ready
  <2>6. After(v, v2, "popCas", Local(t).result, Local(t).value, Local(t).top, Local(t).last, node[Local(t).top].next)
    BY <2>5 DEF Leads
  <2> HIDE DEF v, v2
  <2>7. KindOK(setup, v2)
    BY <1>4, <1>2, <1>3, <2>6 DEF Ready, After, KindOK, StackPoints, EnqPoints, DeqPoints, v
  <2>8. PushOK(setup, node, v2)
    BY <1>4, <1>2, <1>3, <2>6 DEF Ready, After, PushOK, Adding, EnqPoints, v
  <2>9. PopOK(setup, entry, L, node, Views', t)
    BY <1>4, <1>2, <1>3, <2>5, <2>6 DEF Ready, Leads, After, PopOK, Taking, N0, Safe, v, v2
  <2>10. EnqOK(setup, entry, L, node, Views', t)
    BY <1>4, <1>2, <1>3, <2>5, <2>6 DEF Ready, Leads, After, EnqOK, Safe, N0, v, v2, QueueOK, KindOK, EnqPoints
  <2>11. DeqOK(setup, entry, L, node, head, tail, Views', t)
    BY <1>4, <1>2, <1>3, <2>5, <2>6 DEF Ready, Leads, After, DeqOK, DeqPoints, Safe, N0, v, v2, QueueOK, KindOK
  <2> QED
    BY <2>5, <2>7, <2>8, <2>9, <2>10, <2>11 DEF Leads, CallOK, v2
<1> QED
  BY <1>4

\* TryEnqueue reads the tail.
LEMMA KeepsEnqTail == ASSUME LockFreeInv, NEW t \in Threads, EnqTail(t) PROVE LockFreeInv'
<1> DEFINE v  == Views[t]
           v2 == Views'[t]
<1>1. PICK L : thread \in [Threads -> ThreadRecs(setup)] /\ Entire(L)
  BY DEF LockFreeInv
<1>2. Ready(L, t)
  BY <1>1, Start
<1>3. v.at = "enqTail"
  BY <1>2 DEF EnqTail, Reads, At, Local, Ready
<1>4. CASE TRUE
  <2>1. Becomes(t, [Local(t) EXCEPT !.at = "enqGuard", !.last = tail]) /\ UNCHANGED <<setup, guarding, heap>>
    BY <1>4, <1>2, <1>3 DEF EnqTail, Reads, At, v
  <2>2. [Local(t) EXCEPT !.at = "enqGuard", !.last = tail] = Set(Local(t), "enqGuard", Local(t).result, Local(t).value, Local(t).top, tail, Local(t).next)
    BY <1>2 DEF Ready, Set, CallRecs
  <2>3. QuietPoints(v, "enqGuard", Local(t).top)
    BY <1>2, <1>3 DEF Ready, QuietPoints, CallPoints, StackPoints, EnqPoints, DeqPoints, HelpPoints, ScanPoints,
                      Adding, Taking, Indexed
  <2>4. Local(t).result \in Results /\ Local(t).value \in Values \cup {Nothing}
        /\ Local(t).top \in N0(setup) /\ tail \in N0(setup) /\ Local(t).next \in N0(setup)
    BY <1>4, <1>2, <1>3 DEF Ready, Results, N0, NodeRecs
  <2>5. Leads(L, t, entry, node, tail, "enqGuard", Local(t).result, Local(t).value, Local(t).top, tail, Local(t).next)
    BY <1>1, <1>2, <2>1, <2>2, <2>3, <2>4, ReadAction DEF Ready
  <2>6. After(v, v2, "enqGuard", Local(t).result, Local(t).value, Local(t).top, tail, Local(t).next)
    BY <2>5 DEF Leads
  <2> HIDE DEF v, v2
  <2>7. KindOK(setup, v2)
    BY <1>4, <1>2, <1>3, <2>6 DEF Ready, After, KindOK, StackPoints, EnqPoints, DeqPoints, v
  <2>8. PushOK(setup, node, v2)
    BY <1>4, <1>2, <1>3, <2>6 DEF Ready, After, PushOK, Adding, EnqPoints, v
  <2>9. PopOK(setup, entry, L, node, Views', t)
    BY <1>4, <1>2, <1>3, <2>5, <2>6 DEF Ready, Leads, After, PopOK, Taking, N0, Safe, v, v2
  <2>10. EnqOK(setup, entry, L, node, Views', t)
    BY <1>4, <1>2, <1>3, <2>5, <2>6 DEF Ready, Leads, After, EnqOK, Safe, N0, v, v2, QueueOK, KindOK, EnqPoints
  <2>11. DeqOK(setup, entry, L, node, head, tail, Views', t)
    BY <1>4, <1>2, <1>3, <2>5, <2>6 DEF Ready, Leads, After, DeqOK, DeqPoints, Safe, N0, v, v2, QueueOK, KindOK
  <2> QED
    BY <2>5, <2>7, <2>8, <2>9, <2>10, <2>11 DEF Leads, CallOK, v2
<1> QED
  BY <1>4

\* If the guarded node is still the tail it is in the queue.
LEMMA KeepsEnqCheck == ASSUME LockFreeInv, NEW t \in Threads, EnqCheck(t) PROVE LockFreeInv'
<1> DEFINE v  == Views[t]
           v2 == Views'[t]
<1>1. PICK L : thread \in [Threads -> ThreadRecs(setup)] /\ Entire(L)
  BY DEF LockFreeInv
<1>2. Ready(L, t)
  BY <1>1, Start
<1>3. v.at = "enqCheck"
  BY <1>2 DEF EnqCheck, Reads, At, Local, Ready
<1>4. CASE tail = Local(t).last
  <2>1. Becomes(t, [Local(t) EXCEPT !.at = "enqNext"]) /\ UNCHANGED <<setup, guarding, heap>>
    BY <1>4, <1>2, <1>3 DEF EnqCheck, Reads, At, v
  <2>2. [Local(t) EXCEPT !.at = "enqNext"] = Set(Local(t), "enqNext", Local(t).result, Local(t).value, Local(t).top, Local(t).last, Local(t).next)
    BY <1>2 DEF Ready, Set, CallRecs
  <2>3. QuietPoints(v, "enqNext", Local(t).top)
    BY <1>2, <1>3 DEF Ready, QuietPoints, CallPoints, StackPoints, EnqPoints, DeqPoints, HelpPoints, ScanPoints,
                      Adding, Taking, Indexed
  <2>4. Local(t).result \in Results /\ Local(t).value \in Values \cup {Nothing}
        /\ Local(t).top \in N0(setup) /\ Local(t).last \in N0(setup) /\ Local(t).next \in N0(setup)
    BY <1>4, <1>2, <1>3 DEF Ready, Results, N0, NodeRecs
  <2>5. Leads(L, t, entry, node, tail, "enqNext", Local(t).result, Local(t).value, Local(t).top, Local(t).last, Local(t).next)
    BY <1>1, <1>2, <2>1, <2>2, <2>3, <2>4, ReadAction DEF Ready
  <2>6. After(v, v2, "enqNext", Local(t).result, Local(t).value, Local(t).top, Local(t).last, Local(t).next)
    BY <2>5 DEF Leads
  <2> HIDE DEF v, v2
  <2>7. KindOK(setup, v2)
    BY <1>4, <1>2, <1>3, <2>6 DEF Ready, After, KindOK, StackPoints, EnqPoints, DeqPoints, v
  <2>8. PushOK(setup, node, v2)
    BY <1>4, <1>2, <1>3, <2>6 DEF Ready, After, PushOK, Adding, EnqPoints, v
  <2>9. PopOK(setup, entry, L, node, Views', t)
    BY <1>4, <1>2, <1>3, <2>5, <2>6 DEF Ready, Leads, After, PopOK, Taking, N0, Safe, v, v2
  <2>10. EnqOK(setup, entry, L, node, Views', t)
    BY <1>4, <1>2, <1>3, <2>5, <2>6 DEF Ready, Leads, After, EnqOK, Safe, N0, v, v2, QueueOK, KindOK, EnqPoints
  <2>11. DeqOK(setup, entry, L, node, head, tail, Views', t)
    BY <1>4, <1>2, <1>3, <2>5, <2>6 DEF Ready, Leads, After, DeqOK, DeqPoints, Safe, N0, v, v2, QueueOK, KindOK
  <2> QED
    BY <2>5, <2>7, <2>8, <2>9, <2>10, <2>11 DEF Leads, CallOK, v2
<1>5. CASE tail # Local(t).last
  <2>1. Becomes(t, [Local(t) EXCEPT !.at = "enqTail"]) /\ UNCHANGED <<setup, guarding, heap>>
    BY <1>5, <1>2, <1>3 DEF EnqCheck, Reads, At, v
  <2>2. [Local(t) EXCEPT !.at = "enqTail"] = Set(Local(t), "enqTail", Local(t).result, Local(t).value, Local(t).top, Local(t).last, Local(t).next)
    BY <1>2 DEF Ready, Set, CallRecs
  <2>3. QuietPoints(v, "enqTail", Local(t).top)
    BY <1>2, <1>3 DEF Ready, QuietPoints, CallPoints, StackPoints, EnqPoints, DeqPoints, HelpPoints, ScanPoints,
                      Adding, Taking, Indexed
  <2>4. Local(t).result \in Results /\ Local(t).value \in Values \cup {Nothing}
        /\ Local(t).top \in N0(setup) /\ Local(t).last \in N0(setup) /\ Local(t).next \in N0(setup)
    BY <1>5, <1>2, <1>3 DEF Ready, Results, N0, NodeRecs
  <2>5. Leads(L, t, entry, node, tail, "enqTail", Local(t).result, Local(t).value, Local(t).top, Local(t).last, Local(t).next)
    BY <1>1, <1>2, <2>1, <2>2, <2>3, <2>4, ReadAction DEF Ready
  <2>6. After(v, v2, "enqTail", Local(t).result, Local(t).value, Local(t).top, Local(t).last, Local(t).next)
    BY <2>5 DEF Leads
  <2> HIDE DEF v, v2
  <2>7. KindOK(setup, v2)
    BY <1>5, <1>2, <1>3, <2>6 DEF Ready, After, KindOK, StackPoints, EnqPoints, DeqPoints, v
  <2>8. PushOK(setup, node, v2)
    BY <1>5, <1>2, <1>3, <2>6 DEF Ready, After, PushOK, Adding, EnqPoints, v
  <2>9. PopOK(setup, entry, L, node, Views', t)
    BY <1>5, <1>2, <1>3, <2>5, <2>6 DEF Ready, Leads, After, PopOK, Taking, N0, Safe, v, v2
  <2>10. EnqOK(setup, entry, L, node, Views', t)
    BY <1>5, <1>2, <1>3, <2>5, <2>6 DEF Ready, Leads, After, EnqOK, Safe, N0, v, v2, QueueOK, KindOK, EnqPoints
  <2>11. DeqOK(setup, entry, L, node, head, tail, Views', t)
    BY <1>5, <1>2, <1>3, <2>5, <2>6 DEF Ready, Leads, After, DeqOK, DeqPoints, Safe, N0, v, v2, QueueOK, KindOK
  <2> QED
    BY <2>5, <2>7, <2>8, <2>9, <2>10, <2>11 DEF Leads, CallOK, v2
<1> QED
  BY <1>4, <1>5

\* The link of the last node may be written later, once.
LEMMA KeepsEnqNext == ASSUME LockFreeInv, NEW t \in Threads, EnqNext(t) PROVE LockFreeInv'
<1> DEFINE v  == Views[t]
           v2 == Views'[t]
<1>1. PICK L : thread \in [Threads -> ThreadRecs(setup)] /\ Entire(L)
  BY DEF LockFreeInv
<1>2. Ready(L, t)
  BY <1>1, Start
<1>3. v.at = "enqNext"
  BY <1>2 DEF EnqNext, Reads, At, Local, Ready
<1>4. CASE TRUE
  <2>1. Becomes(t, [Local(t) EXCEPT !.at = "enqAgain", !.next = node[Local(t).last].next]) /\ UNCHANGED <<setup, guarding, heap>>
    BY <1>4, <1>2, <1>3 DEF EnqNext, Reads, At, v
  <2>2. [Local(t) EXCEPT !.at = "enqAgain", !.next = node[Local(t).last].next] = Set(Local(t), "enqAgain", Local(t).result, Local(t).value, Local(t).top, Local(t).last, node[Local(t).last].next)
    BY <1>2 DEF Ready, Set, CallRecs
  <2>3. QuietPoints(v, "enqAgain", Local(t).top)
    BY <1>2, <1>3 DEF Ready, QuietPoints, CallPoints, StackPoints, EnqPoints, DeqPoints, HelpPoints, ScanPoints,
                      Adding, Taking, Indexed
  <2>4. Local(t).result \in Results /\ Local(t).value \in Values \cup {Nothing}
        /\ Local(t).top \in N0(setup) /\ Local(t).last \in N0(setup) /\ node[Local(t).last].next \in N0(setup)
    BY <1>4, <1>2, <1>3 DEF Ready, Results, N0, NodeRecs, EnqOK, Safe
  <2>5. Leads(L, t, entry, node, tail, "enqAgain", Local(t).result, Local(t).value, Local(t).top, Local(t).last, node[Local(t).last].next)
    BY <1>1, <1>2, <2>1, <2>2, <2>3, <2>4, ReadAction DEF Ready
  <2>6. After(v, v2, "enqAgain", Local(t).result, Local(t).value, Local(t).top, Local(t).last, node[Local(t).last].next)
    BY <2>5 DEF Leads
  <2> HIDE DEF v, v2
  <2>7. KindOK(setup, v2)
    BY <1>4, <1>2, <1>3, <2>6 DEF Ready, After, KindOK, StackPoints, EnqPoints, DeqPoints, v
  <2>8. PushOK(setup, node, v2)
    BY <1>4, <1>2, <1>3, <2>6 DEF Ready, After, PushOK, Adding, EnqPoints, v
  <2>9. PopOK(setup, entry, L, node, Views', t)
    BY <1>4, <1>2, <1>3, <2>5, <2>6 DEF Ready, Leads, After, PopOK, Taking, N0, Safe, v, v2
  <2>10. EnqOK(setup, entry, L, node, Views', t)
    BY <1>4, <1>2, <1>3, <2>5, <2>6 DEF Ready, Leads, After, EnqOK, Safe, N0, v, v2, QueueOK, KindOK, EnqPoints
  <2>11. DeqOK(setup, entry, L, node, head, tail, Views', t)
    BY <1>4, <1>2, <1>3, <2>5, <2>6 DEF Ready, Leads, After, DeqOK, DeqPoints, Safe, N0, v, v2, QueueOK, KindOK
  <2> QED
    BY <2>5, <2>7, <2>8, <2>9, <2>10, <2>11 DEF Leads, CallOK, v2
<1> QED
  BY <1>4

\* TryEnqueue decides what to do with the tail.
LEMMA KeepsEnqAgain == ASSUME LockFreeInv, NEW t \in Threads, EnqAgain(t) PROVE LockFreeInv'
<1> DEFINE v  == Views[t]
           v2 == Views'[t]
<1>1. PICK L : thread \in [Threads -> ThreadRecs(setup)] /\ Entire(L)
  BY DEF LockFreeInv
<1>2. Ready(L, t)
  BY <1>1, Start
<1>3. v.at = "enqAgain"
  BY <1>2 DEF EnqAgain, Reads, At, Local, Ready
<1>4. CASE tail # Local(t).last
  <2>1. Becomes(t, [Local(t) EXCEPT !.at = "enqTail"]) /\ UNCHANGED <<setup, guarding, heap>>
    BY <1>4, <1>2, <1>3 DEF EnqAgain, Reads, At, v
  <2>2. [Local(t) EXCEPT !.at = "enqTail"] = Set(Local(t), "enqTail", Local(t).result, Local(t).value, Local(t).top, Local(t).last, Local(t).next)
    BY <1>2 DEF Ready, Set, CallRecs
  <2>3. QuietPoints(v, "enqTail", Local(t).top)
    BY <1>2, <1>3 DEF Ready, QuietPoints, CallPoints, StackPoints, EnqPoints, DeqPoints, HelpPoints, ScanPoints,
                      Adding, Taking, Indexed
  <2>4. Local(t).result \in Results /\ Local(t).value \in Values \cup {Nothing}
        /\ Local(t).top \in N0(setup) /\ Local(t).last \in N0(setup) /\ Local(t).next \in N0(setup)
    BY <1>4, <1>2, <1>3 DEF Ready, Results, N0, NodeRecs
  <2>5. Leads(L, t, entry, node, tail, "enqTail", Local(t).result, Local(t).value, Local(t).top, Local(t).last, Local(t).next)
    BY <1>1, <1>2, <2>1, <2>2, <2>3, <2>4, ReadAction DEF Ready
  <2>6. After(v, v2, "enqTail", Local(t).result, Local(t).value, Local(t).top, Local(t).last, Local(t).next)
    BY <2>5 DEF Leads
  <2> HIDE DEF v, v2
  <2>7. KindOK(setup, v2)
    BY <1>4, <1>2, <1>3, <2>6 DEF Ready, After, KindOK, StackPoints, EnqPoints, DeqPoints, v
  <2>8. PushOK(setup, node, v2)
    BY <1>4, <1>2, <1>3, <2>6 DEF Ready, After, PushOK, Adding, EnqPoints, v
  <2>9. PopOK(setup, entry, L, node, Views', t)
    BY <1>4, <1>2, <1>3, <2>5, <2>6 DEF Ready, Leads, After, PopOK, Taking, N0, Safe, v, v2
  <2>10. EnqOK(setup, entry, L, node, Views', t)
    BY <1>4, <1>2, <1>3, <2>5, <2>6 DEF Ready, Leads, After, EnqOK, Safe, N0, v, v2, QueueOK, KindOK, EnqPoints
  <2>11. DeqOK(setup, entry, L, node, head, tail, Views', t)
    BY <1>4, <1>2, <1>3, <2>5, <2>6 DEF Ready, Leads, After, DeqOK, DeqPoints, Safe, N0, v, v2, QueueOK, KindOK
  <2> QED
    BY <2>5, <2>7, <2>8, <2>9, <2>10, <2>11 DEF Leads, CallOK, v2
<1>5. CASE tail = Local(t).last /\ Local(t).next = NULL
  <2>1. Becomes(t, [Local(t) EXCEPT !.at = "enqCas"]) /\ UNCHANGED <<setup, guarding, heap>>
    BY <1>5, <1>2, <1>3 DEF EnqAgain, Reads, At, v
  <2>2. [Local(t) EXCEPT !.at = "enqCas"] = Set(Local(t), "enqCas", Local(t).result, Local(t).value, Local(t).top, Local(t).last, Local(t).next)
    BY <1>2 DEF Ready, Set, CallRecs
  <2>3. QuietPoints(v, "enqCas", Local(t).top)
    BY <1>2, <1>3 DEF Ready, QuietPoints, CallPoints, StackPoints, EnqPoints, DeqPoints, HelpPoints, ScanPoints,
                      Adding, Taking, Indexed
  <2>4. Local(t).result \in Results /\ Local(t).value \in Values \cup {Nothing}
        /\ Local(t).top \in N0(setup) /\ Local(t).last \in N0(setup) /\ Local(t).next \in N0(setup)
    BY <1>5, <1>2, <1>3 DEF Ready, Results, N0, NodeRecs
  <2>5. Leads(L, t, entry, node, tail, "enqCas", Local(t).result, Local(t).value, Local(t).top, Local(t).last, Local(t).next)
    BY <1>1, <1>2, <2>1, <2>2, <2>3, <2>4, ReadAction DEF Ready
  <2>6. After(v, v2, "enqCas", Local(t).result, Local(t).value, Local(t).top, Local(t).last, Local(t).next)
    BY <2>5 DEF Leads
  <2> HIDE DEF v, v2
  <2>7. KindOK(setup, v2)
    BY <1>5, <1>2, <1>3, <2>6 DEF Ready, After, KindOK, StackPoints, EnqPoints, DeqPoints, v
  <2>8. PushOK(setup, node, v2)
    BY <1>5, <1>2, <1>3, <2>6 DEF Ready, After, PushOK, Adding, EnqPoints, v
  <2>9. PopOK(setup, entry, L, node, Views', t)
    BY <1>5, <1>2, <1>3, <2>5, <2>6 DEF Ready, Leads, After, PopOK, Taking, N0, Safe, v, v2
  <2>10. EnqOK(setup, entry, L, node, Views', t)
    BY <1>5, <1>2, <1>3, <2>5, <2>6 DEF Ready, Leads, After, EnqOK, Safe, N0, v, v2, QueueOK, KindOK, EnqPoints
  <2>11. DeqOK(setup, entry, L, node, head, tail, Views', t)
    BY <1>5, <1>2, <1>3, <2>5, <2>6 DEF Ready, Leads, After, DeqOK, DeqPoints, Safe, N0, v, v2, QueueOK, KindOK
  <2> QED
    BY <2>5, <2>7, <2>8, <2>9, <2>10, <2>11 DEF Leads, CallOK, v2
<1>6. CASE tail = Local(t).last /\ Local(t).next # NULL
  <2>1. Becomes(t, [Local(t) EXCEPT !.at = "enqSwing"]) /\ UNCHANGED <<setup, guarding, heap>>
    BY <1>6, <1>2, <1>3 DEF EnqAgain, Reads, At, v
  <2>2. [Local(t) EXCEPT !.at = "enqSwing"] = Set(Local(t), "enqSwing", Local(t).result, Local(t).value, Local(t).top, Local(t).last, Local(t).next)
    BY <1>2 DEF Ready, Set, CallRecs
  <2>3. QuietPoints(v, "enqSwing", Local(t).top)
    BY <1>2, <1>3 DEF Ready, QuietPoints, CallPoints, StackPoints, EnqPoints, DeqPoints, HelpPoints, ScanPoints,
                      Adding, Taking, Indexed
  <2>4. Local(t).result \in Results /\ Local(t).value \in Values \cup {Nothing}
        /\ Local(t).top \in N0(setup) /\ Local(t).last \in N0(setup) /\ Local(t).next \in N0(setup)
    BY <1>6, <1>2, <1>3 DEF Ready, Results, N0, NodeRecs
  <2>5. Leads(L, t, entry, node, tail, "enqSwing", Local(t).result, Local(t).value, Local(t).top, Local(t).last, Local(t).next)
    BY <1>1, <1>2, <2>1, <2>2, <2>3, <2>4, ReadAction DEF Ready
  <2>6. After(v, v2, "enqSwing", Local(t).result, Local(t).value, Local(t).top, Local(t).last, Local(t).next)
    BY <2>5 DEF Leads
  <2> HIDE DEF v, v2
  <2>7. KindOK(setup, v2)
    BY <1>6, <1>2, <1>3, <2>6 DEF Ready, After, KindOK, StackPoints, EnqPoints, DeqPoints, v
  <2>8. PushOK(setup, node, v2)
    BY <1>6, <1>2, <1>3, <2>6 DEF Ready, After, PushOK, Adding, EnqPoints, v
  <2>9. PopOK(setup, entry, L, node, Views', t)
    BY <1>6, <1>2, <1>3, <2>5, <2>6 DEF Ready, Leads, After, PopOK, Taking, N0, Safe, v, v2
  <2>10. EnqOK(setup, entry, L, node, Views', t)
    BY <1>6, <1>2, <1>3, <2>5, <2>6 DEF Ready, Leads, After, EnqOK, Safe, N0, v, v2, QueueOK, KindOK, EnqPoints
  <2>11. DeqOK(setup, entry, L, node, head, tail, Views', t)
    BY <1>6, <1>2, <1>3, <2>5, <2>6 DEF Ready, Leads, After, DeqOK, DeqPoints, Safe, N0, v, v2, QueueOK, KindOK
  <2> QED
    BY <2>5, <2>7, <2>8, <2>9, <2>10, <2>11 DEF Leads, CallOK, v2
<1> QED
  BY <1>4, <1>5, <1>6

\* TryDequeue reads the head.
LEMMA KeepsDeqHead == ASSUME LockFreeInv, NEW t \in Threads, DeqHead(t) PROVE LockFreeInv'
<1> DEFINE v  == Views[t]
           v2 == Views'[t]
<1>1. PICK L : thread \in [Threads -> ThreadRecs(setup)] /\ Entire(L)
  BY DEF LockFreeInv
<1>2. Ready(L, t)
  BY <1>1, Start
<1>3. v.at = "deq"
  BY <1>2 DEF DeqHead, Reads, At, Local, Ready
<1>4. CASE TRUE
  <2>1. Becomes(t, [Local(t) EXCEPT !.at = "deqGuard", !.top = head]) /\ UNCHANGED <<setup, guarding, heap>>
    BY <1>4, <1>2, <1>3 DEF DeqHead, Reads, At, v
  <2>2. [Local(t) EXCEPT !.at = "deqGuard", !.top = head] = Set(Local(t), "deqGuard", Local(t).result, Local(t).value, head, Local(t).last, Local(t).next)
    BY <1>2 DEF Ready, Set, CallRecs
  <2>3. QuietPoints(v, "deqGuard", head)
    BY <1>2, <1>3 DEF Ready, QuietPoints, CallPoints, StackPoints, EnqPoints, DeqPoints, HelpPoints, ScanPoints,
                      Adding, Taking, Indexed
  <2>4. Local(t).result \in Results /\ Local(t).value \in Values \cup {Nothing}
        /\ head \in N0(setup) /\ Local(t).last \in N0(setup) /\ Local(t).next \in N0(setup)
    BY <1>4, <1>2, <1>3 DEF Ready, Results, N0, NodeRecs
  <2>5. Leads(L, t, entry, node, tail, "deqGuard", Local(t).result, Local(t).value, head, Local(t).last, Local(t).next)
    BY <1>1, <1>2, <2>1, <2>2, <2>3, <2>4, ReadAction DEF Ready
  <2>6. After(v, v2, "deqGuard", Local(t).result, Local(t).value, head, Local(t).last, Local(t).next)
    BY <2>5 DEF Leads
  <2> HIDE DEF v, v2
  <2>7. KindOK(setup, v2)
    BY <1>4, <1>2, <1>3, <2>6 DEF Ready, After, KindOK, StackPoints, EnqPoints, DeqPoints, v
  <2>8. PushOK(setup, node, v2)
    BY <1>4, <1>2, <1>3, <2>6 DEF Ready, After, PushOK, Adding, EnqPoints, v
  <2>9. PopOK(setup, entry, L, node, Views', t)
    BY <1>4, <1>2, <1>3, <2>5, <2>6 DEF Ready, Leads, After, PopOK, Taking, N0, Safe, v, v2
  <2>10. EnqOK(setup, entry, L, node, Views', t)
    BY <1>4, <1>2, <1>3, <2>5, <2>6 DEF Ready, Leads, After, EnqOK, Safe, N0, v, v2, QueueOK, KindOK, EnqPoints
  <2>11. DeqOK(setup, entry, L, node, head, tail, Views', t)
    BY <1>4, <1>2, <1>3, <2>5, <2>6 DEF Ready, Leads, After, DeqOK, DeqPoints, Safe, N0, v, v2, QueueOK, KindOK
  <2> QED
    BY <2>5, <2>7, <2>8, <2>9, <2>10, <2>11 DEF Leads, CallOK, v2
<1> QED
  BY <1>4

\* If the guarded node is still the head it is in the queue.
LEMMA KeepsDeqCheck == ASSUME LockFreeInv, NEW t \in Threads, DeqCheck(t) PROVE LockFreeInv'
<1> DEFINE v  == Views[t]
           v2 == Views'[t]
<1>1. PICK L : thread \in [Threads -> ThreadRecs(setup)] /\ Entire(L)
  BY DEF LockFreeInv
<1>2. Ready(L, t)
  BY <1>1, Start
<1>3. v.at = "deqCheck"
  BY <1>2 DEF DeqCheck, Reads, At, Local, Ready
<1>4. CASE head = Local(t).top
  <2>1. Becomes(t, [Local(t) EXCEPT !.at = "deqTail"]) /\ UNCHANGED <<setup, guarding, heap>>
    BY <1>4, <1>2, <1>3 DEF DeqCheck, Reads, At, v
  <2>2. [Local(t) EXCEPT !.at = "deqTail"] = Set(Local(t), "deqTail", Local(t).result, Local(t).value, Local(t).top, Local(t).last, Local(t).next)
    BY <1>2 DEF Ready, Set, CallRecs
  <2>3. QuietPoints(v, "deqTail", Local(t).top)
    BY <1>2, <1>3 DEF Ready, QuietPoints, CallPoints, StackPoints, EnqPoints, DeqPoints, HelpPoints, ScanPoints,
                      Adding, Taking, Indexed
  <2>4. Local(t).result \in Results /\ Local(t).value \in Values \cup {Nothing}
        /\ Local(t).top \in N0(setup) /\ Local(t).last \in N0(setup) /\ Local(t).next \in N0(setup)
    BY <1>4, <1>2, <1>3 DEF Ready, Results, N0, NodeRecs
  <2>5. Leads(L, t, entry, node, tail, "deqTail", Local(t).result, Local(t).value, Local(t).top, Local(t).last, Local(t).next)
    BY <1>1, <1>2, <2>1, <2>2, <2>3, <2>4, ReadAction DEF Ready
  <2>6. After(v, v2, "deqTail", Local(t).result, Local(t).value, Local(t).top, Local(t).last, Local(t).next)
    BY <2>5 DEF Leads
  <2> HIDE DEF v, v2
  <2>7. KindOK(setup, v2)
    BY <1>4, <1>2, <1>3, <2>6 DEF Ready, After, KindOK, StackPoints, EnqPoints, DeqPoints, v
  <2>8. PushOK(setup, node, v2)
    BY <1>4, <1>2, <1>3, <2>6 DEF Ready, After, PushOK, Adding, EnqPoints, v
  <2>9. PopOK(setup, entry, L, node, Views', t)
    BY <1>4, <1>2, <1>3, <2>5, <2>6 DEF Ready, Leads, After, PopOK, Taking, N0, Safe, v, v2
  <2>10. EnqOK(setup, entry, L, node, Views', t)
    BY <1>4, <1>2, <1>3, <2>5, <2>6 DEF Ready, Leads, After, EnqOK, Safe, N0, v, v2, QueueOK, KindOK, EnqPoints
  <2>11. DeqOK(setup, entry, L, node, head, tail, Views', t)
    BY <1>4, <1>2, <1>3, <2>5, <2>6 DEF Ready, Leads, After, DeqOK, DeqPoints, Safe, N0, v, v2, QueueOK, KindOK
  <2> QED
    BY <2>5, <2>7, <2>8, <2>9, <2>10, <2>11 DEF Leads, CallOK, v2
<1>5. CASE head # Local(t).top
  <2>1. Becomes(t, [Local(t) EXCEPT !.at = "deq"]) /\ UNCHANGED <<setup, guarding, heap>>
    BY <1>5, <1>2, <1>3 DEF DeqCheck, Reads, At, v
  <2>2. [Local(t) EXCEPT !.at = "deq"] = Set(Local(t), "deq", Local(t).result, Local(t).value, Local(t).top, Local(t).last, Local(t).next)
    BY <1>2 DEF Ready, Set, CallRecs
  <2>3. QuietPoints(v, "deq", Local(t).top)
    BY <1>2, <1>3 DEF Ready, QuietPoints, CallPoints, StackPoints, EnqPoints, DeqPoints, HelpPoints, ScanPoints,
                      Adding, Taking, Indexed
  <2>4. Local(t).result \in Results /\ Local(t).value \in Values \cup {Nothing}
        /\ Local(t).top \in N0(setup) /\ Local(t).last \in N0(setup) /\ Local(t).next \in N0(setup)
    BY <1>5, <1>2, <1>3 DEF Ready, Results, N0, NodeRecs
  <2>5. Leads(L, t, entry, node, tail, "deq", Local(t).result, Local(t).value, Local(t).top, Local(t).last, Local(t).next)
    BY <1>1, <1>2, <2>1, <2>2, <2>3, <2>4, ReadAction DEF Ready
  <2>6. After(v, v2, "deq", Local(t).result, Local(t).value, Local(t).top, Local(t).last, Local(t).next)
    BY <2>5 DEF Leads
  <2> HIDE DEF v, v2
  <2>7. KindOK(setup, v2)
    BY <1>5, <1>2, <1>3, <2>6 DEF Ready, After, KindOK, StackPoints, EnqPoints, DeqPoints, v
  <2>8. PushOK(setup, node, v2)
    BY <1>5, <1>2, <1>3, <2>6 DEF Ready, After, PushOK, Adding, EnqPoints, v
  <2>9. PopOK(setup, entry, L, node, Views', t)
    BY <1>5, <1>2, <1>3, <2>5, <2>6 DEF Ready, Leads, After, PopOK, Taking, N0, Safe, v, v2
  <2>10. EnqOK(setup, entry, L, node, Views', t)
    BY <1>5, <1>2, <1>3, <2>5, <2>6 DEF Ready, Leads, After, EnqOK, Safe, N0, v, v2, QueueOK, KindOK, EnqPoints
  <2>11. DeqOK(setup, entry, L, node, head, tail, Views', t)
    BY <1>5, <1>2, <1>3, <2>5, <2>6 DEF Ready, Leads, After, DeqOK, DeqPoints, Safe, N0, v, v2, QueueOK, KindOK
  <2> QED
    BY <2>5, <2>7, <2>8, <2>9, <2>10, <2>11 DEF Leads, CallOK, v2
<1> QED
  BY <1>4, <1>5

\* TryDequeue reads the tail.
LEMMA KeepsDeqTail == ASSUME LockFreeInv, NEW t \in Threads, DeqTail(t) PROVE LockFreeInv'
<1> DEFINE v  == Views[t]
           v2 == Views'[t]
<1>1. PICK L : thread \in [Threads -> ThreadRecs(setup)] /\ Entire(L)
  BY DEF LockFreeInv
<1>2. Ready(L, t)
  BY <1>1, Start
<1>3. v.at = "deqTail"
  BY <1>2 DEF DeqTail, Reads, At, Local, Ready
<1>4. CASE TRUE
  <2>1. Becomes(t, [Local(t) EXCEPT !.at = "deqNext", !.last = tail]) /\ UNCHANGED <<setup, guarding, heap>>
    BY <1>4, <1>2, <1>3 DEF DeqTail, Reads, At, v
  <2>2. [Local(t) EXCEPT !.at = "deqNext", !.last = tail] = Set(Local(t), "deqNext", Local(t).result, Local(t).value, Local(t).top, tail, Local(t).next)
    BY <1>2 DEF Ready, Set, CallRecs
  <2>3. QuietPoints(v, "deqNext", Local(t).top)
    BY <1>2, <1>3 DEF Ready, QuietPoints, CallPoints, StackPoints, EnqPoints, DeqPoints, HelpPoints, ScanPoints,
                      Adding, Taking, Indexed
  <2>4. Local(t).result \in Results /\ Local(t).value \in Values \cup {Nothing}
        /\ Local(t).top \in N0(setup) /\ tail \in N0(setup) /\ Local(t).next \in N0(setup)
    BY <1>4, <1>2, <1>3 DEF Ready, Results, N0, NodeRecs
  <2>5. Leads(L, t, entry, node, tail, "deqNext", Local(t).result, Local(t).value, Local(t).top, tail, Local(t).next)
    BY <1>1, <1>2, <2>1, <2>2, <2>3, <2>4, ReadAction DEF Ready
  <2>6. After(v, v2, "deqNext", Local(t).result, Local(t).value, Local(t).top, tail, Local(t).next)
    BY <2>5 DEF Leads
  <2> HIDE DEF v, v2
  <2>7. KindOK(setup, v2)
    BY <1>4, <1>2, <1>3, <2>6 DEF Ready, After, KindOK, StackPoints, EnqPoints, DeqPoints, v
  <2>8. PushOK(setup, node, v2)
    BY <1>4, <1>2, <1>3, <2>6 DEF Ready, After, PushOK, Adding, EnqPoints, v
  <2>9. PopOK(setup, entry, L, node, Views', t)
    BY <1>4, <1>2, <1>3, <2>5, <2>6 DEF Ready, Leads, After, PopOK, Taking, N0, Safe, v, v2
  <2>10. EnqOK(setup, entry, L, node, Views', t)
    BY <1>4, <1>2, <1>3, <2>5, <2>6 DEF Ready, Leads, After, EnqOK, Safe, N0, v, v2, QueueOK, KindOK, EnqPoints
  <2>11. DeqOK(setup, entry, L, node, head, tail, Views', t)
    BY <1>4, <1>2, <1>3, <2>5, <2>6 DEF Ready, Leads, After, DeqOK, DeqPoints, Safe, N0, v, v2, QueueOK, KindOK
  <2> QED
    BY <2>5, <2>7, <2>8, <2>9, <2>10, <2>11 DEF Leads, CallOK, v2
<1> QED
  BY <1>4

\* TryDequeue reads the node behind the head.
LEMMA KeepsDeqNext == ASSUME LockFreeInv, NEW t \in Threads, DeqNext(t) PROVE LockFreeInv'
<1> DEFINE v  == Views[t]
           v2 == Views'[t]
<1>1. PICK L : thread \in [Threads -> ThreadRecs(setup)] /\ Entire(L)
  BY DEF LockFreeInv
<1>2. Ready(L, t)
  BY <1>1, Start
<1>3. v.at = "deqNext"
  BY <1>2 DEF DeqNext, Reads, At, Local, Ready
<1>4. CASE TRUE
  <2>1. Becomes(t, [Local(t) EXCEPT !.at = "deqGuardNext", !.next = node[Local(t).top].next]) /\ UNCHANGED <<setup, guarding, heap>>
    BY <1>4, <1>2, <1>3 DEF DeqNext, Reads, At, v
  <2>2. [Local(t) EXCEPT !.at = "deqGuardNext", !.next = node[Local(t).top].next] = Set(Local(t), "deqGuardNext", Local(t).result, Local(t).value, Local(t).top, Local(t).last, node[Local(t).top].next)
    BY <1>2 DEF Ready, Set, CallRecs
  <2>3. QuietPoints(v, "deqGuardNext", Local(t).top)
    BY <1>2, <1>3 DEF Ready, QuietPoints, CallPoints, StackPoints, EnqPoints, DeqPoints, HelpPoints, ScanPoints,
                      Adding, Taking, Indexed
  <2>4. Local(t).result \in Results /\ Local(t).value \in Values \cup {Nothing}
        /\ Local(t).top \in N0(setup) /\ Local(t).last \in N0(setup) /\ node[Local(t).top].next \in N0(setup)
    BY <1>4, <1>2, <1>3 DEF Ready, Results, N0, NodeRecs, DeqOK, DeqPoints, Safe
  <2>5. Leads(L, t, entry, node, tail, "deqGuardNext", Local(t).result, Local(t).value, Local(t).top, Local(t).last, node[Local(t).top].next)
    BY <1>1, <1>2, <2>1, <2>2, <2>3, <2>4, ReadAction DEF Ready
  <2>6. After(v, v2, "deqGuardNext", Local(t).result, Local(t).value, Local(t).top, Local(t).last, node[Local(t).top].next)
    BY <2>5 DEF Leads
  <2> HIDE DEF v, v2
  <2>7. KindOK(setup, v2)
    BY <1>4, <1>2, <1>3, <2>6 DEF Ready, After, KindOK, StackPoints, EnqPoints, DeqPoints, v
  <2>8. PushOK(setup, node, v2)
    BY <1>4, <1>2, <1>3, <2>6 DEF Ready, After, PushOK, Adding, EnqPoints, v
  <2>9. PopOK(setup, entry, L, node, Views', t)
    BY <1>4, <1>2, <1>3, <2>5, <2>6 DEF Ready, Leads, After, PopOK, Taking, N0, Safe, v, v2
  <2>10. EnqOK(setup, entry, L, node, Views', t)
    BY <1>4, <1>2, <1>3, <2>5, <2>6 DEF Ready, Leads, After, EnqOK, Safe, N0, v, v2, QueueOK, KindOK, EnqPoints
  <2>11. DeqOK(setup, entry, L, node, head, tail, Views', t)
    BY <1>4, <1>2, <1>3, <2>5, <2>6 DEF Ready, Leads, After, DeqOK, DeqPoints, Safe, N0, v, v2, QueueOK, KindOK
  <2> QED
    BY <2>5, <2>7, <2>8, <2>9, <2>10, <2>11 DEF Leads, CallOK, v2
<1> QED
  BY <1>4

\* If the head is the same, the node behind it is in the queue and guarded.
LEMMA KeepsDeqAgain == ASSUME LockFreeInv, NEW t \in Threads, DeqAgain(t) PROVE LockFreeInv'
<1> DEFINE v  == Views[t]
           v2 == Views'[t]
<1>1. PICK L : thread \in [Threads -> ThreadRecs(setup)] /\ Entire(L)
  BY DEF LockFreeInv
<1>2. Ready(L, t)
  BY <1>1, Start
<1>3. v.at = "deqAgain"
  BY <1>2 DEF DeqAgain, Reads, At, Local, Ready
<1>4. CASE head # Local(t).top
  <2>1. Becomes(t, [Local(t) EXCEPT !.at = "deq"]) /\ UNCHANGED <<setup, guarding, heap>>
    BY <1>4, <1>2, <1>3 DEF DeqAgain, Reads, At, v
  <2>2. [Local(t) EXCEPT !.at = "deq"] = Set(Local(t), "deq", Local(t).result, Local(t).value, Local(t).top, Local(t).last, Local(t).next)
    BY <1>2 DEF Ready, Set, CallRecs
  <2>3. QuietPoints(v, "deq", Local(t).top)
    BY <1>2, <1>3 DEF Ready, QuietPoints, CallPoints, StackPoints, EnqPoints, DeqPoints, HelpPoints, ScanPoints,
                      Adding, Taking, Indexed
  <2>4. Local(t).result \in Results /\ Local(t).value \in Values \cup {Nothing}
        /\ Local(t).top \in N0(setup) /\ Local(t).last \in N0(setup) /\ Local(t).next \in N0(setup)
    BY <1>4, <1>2, <1>3 DEF Ready, Results, N0, NodeRecs
  <2>5. Leads(L, t, entry, node, tail, "deq", Local(t).result, Local(t).value, Local(t).top, Local(t).last, Local(t).next)
    BY <1>1, <1>2, <2>1, <2>2, <2>3, <2>4, ReadAction DEF Ready
  <2>6. After(v, v2, "deq", Local(t).result, Local(t).value, Local(t).top, Local(t).last, Local(t).next)
    BY <2>5 DEF Leads
  <2> HIDE DEF v, v2
  <2>7. KindOK(setup, v2)
    BY <1>4, <1>2, <1>3, <2>6 DEF Ready, After, KindOK, StackPoints, EnqPoints, DeqPoints, v
  <2>8. PushOK(setup, node, v2)
    BY <1>4, <1>2, <1>3, <2>6 DEF Ready, After, PushOK, Adding, EnqPoints, v
  <2>9. PopOK(setup, entry, L, node, Views', t)
    BY <1>4, <1>2, <1>3, <2>5, <2>6 DEF Ready, Leads, After, PopOK, Taking, N0, Safe, v, v2
  <2>10. EnqOK(setup, entry, L, node, Views', t)
    BY <1>4, <1>2, <1>3, <2>5, <2>6 DEF Ready, Leads, After, EnqOK, Safe, N0, v, v2, QueueOK, KindOK, EnqPoints
  <2>11. DeqOK(setup, entry, L, node, head, tail, Views', t)
    BY <1>4, <1>2, <1>3, <2>5, <2>6 DEF Ready, Leads, After, DeqOK, DeqPoints, Safe, N0, v, v2, QueueOK, KindOK
  <2> QED
    BY <2>5, <2>7, <2>8, <2>9, <2>10, <2>11 DEF Leads, CallOK, v2
<1>5. CASE head = Local(t).top /\ Local(t).next = NULL
  <2>1. Becomes(t, [Local(t) EXCEPT !.at = "return", !.result = "empty"]) /\ UNCHANGED <<setup, guarding, heap>>
    BY <1>5, <1>2, <1>3 DEF DeqAgain, Reads, At, v
  <2>2. [Local(t) EXCEPT !.at = "return", !.result = "empty"] = Set(Local(t), "return", "empty", Local(t).value, Local(t).top, Local(t).last, Local(t).next)
    BY <1>2 DEF Ready, Set, CallRecs
  <2>3. QuietPoints(v, "return", Local(t).top)
    BY <1>2, <1>3 DEF Ready, QuietPoints, CallPoints, StackPoints, EnqPoints, DeqPoints, HelpPoints, ScanPoints,
                      Adding, Taking, Indexed
  <2>4. "empty" \in Results /\ Local(t).value \in Values \cup {Nothing}
        /\ Local(t).top \in N0(setup) /\ Local(t).last \in N0(setup) /\ Local(t).next \in N0(setup)
    BY <1>5, <1>2, <1>3 DEF Ready, Results, N0, NodeRecs
  <2>5. Leads(L, t, entry, node, tail, "return", "empty", Local(t).value, Local(t).top, Local(t).last, Local(t).next)
    BY <1>1, <1>2, <2>1, <2>2, <2>3, <2>4, ReadAction DEF Ready
  <2>6. After(v, v2, "return", "empty", Local(t).value, Local(t).top, Local(t).last, Local(t).next)
    BY <2>5 DEF Leads
  <2> HIDE DEF v, v2
  <2>7. KindOK(setup, v2)
    BY <1>5, <1>2, <1>3, <2>6 DEF Ready, After, KindOK, StackPoints, EnqPoints, DeqPoints, v
  <2>8. PushOK(setup, node, v2)
    BY <1>5, <1>2, <1>3, <2>6 DEF Ready, After, PushOK, Adding, EnqPoints, v
  <2>9. PopOK(setup, entry, L, node, Views', t)
    BY <1>5, <1>2, <1>3, <2>5, <2>6 DEF Ready, Leads, After, PopOK, Taking, N0, Safe, v, v2
  <2>10. EnqOK(setup, entry, L, node, Views', t)
    BY <1>5, <1>2, <1>3, <2>5, <2>6 DEF Ready, Leads, After, EnqOK, Safe, N0, v, v2, QueueOK, KindOK, EnqPoints
  <2>11. DeqOK(setup, entry, L, node, head, tail, Views', t)
    BY <1>5, <1>2, <1>3, <2>5, <2>6 DEF Ready, Leads, After, DeqOK, DeqPoints, Safe, N0, v, v2, QueueOK, KindOK
  <2> QED
    BY <2>5, <2>7, <2>8, <2>9, <2>10, <2>11 DEF Leads, CallOK, v2
<1>6. CASE head = Local(t).top /\ Local(t).next # NULL /\ Local(t).top = Local(t).last
  <2>1. Becomes(t, [Local(t) EXCEPT !.at = "deqSwing"]) /\ UNCHANGED <<setup, guarding, heap>>
    BY <1>6, <1>2, <1>3 DEF DeqAgain, Reads, At, v
  <2>2. [Local(t) EXCEPT !.at = "deqSwing"] = Set(Local(t), "deqSwing", Local(t).result, Local(t).value, Local(t).top, Local(t).last, Local(t).next)
    BY <1>2 DEF Ready, Set, CallRecs
  <2>3. QuietPoints(v, "deqSwing", Local(t).top)
    BY <1>2, <1>3 DEF Ready, QuietPoints, CallPoints, StackPoints, EnqPoints, DeqPoints, HelpPoints, ScanPoints,
                      Adding, Taking, Indexed
  <2>4. Local(t).result \in Results /\ Local(t).value \in Values \cup {Nothing}
        /\ Local(t).top \in N0(setup) /\ Local(t).last \in N0(setup) /\ Local(t).next \in N0(setup)
    BY <1>6, <1>2, <1>3 DEF Ready, Results, N0, NodeRecs
  <2>5. Leads(L, t, entry, node, tail, "deqSwing", Local(t).result, Local(t).value, Local(t).top, Local(t).last, Local(t).next)
    BY <1>1, <1>2, <2>1, <2>2, <2>3, <2>4, ReadAction DEF Ready
  <2>6. After(v, v2, "deqSwing", Local(t).result, Local(t).value, Local(t).top, Local(t).last, Local(t).next)
    BY <2>5 DEF Leads
  <2> HIDE DEF v, v2
  <2>7. KindOK(setup, v2)
    BY <1>6, <1>2, <1>3, <2>6 DEF Ready, After, KindOK, StackPoints, EnqPoints, DeqPoints, v
  <2>8. PushOK(setup, node, v2)
    BY <1>6, <1>2, <1>3, <2>6 DEF Ready, After, PushOK, Adding, EnqPoints, v
  <2>9. PopOK(setup, entry, L, node, Views', t)
    BY <1>6, <1>2, <1>3, <2>5, <2>6 DEF Ready, Leads, After, PopOK, Taking, N0, Safe, v, v2
  <2>10. EnqOK(setup, entry, L, node, Views', t)
    BY <1>6, <1>2, <1>3, <2>5, <2>6 DEF Ready, Leads, After, EnqOK, Safe, N0, v, v2, QueueOK, KindOK, EnqPoints
  <2>11. DeqOK(setup, entry, L, node, head, tail, Views', t)
    BY <1>6, <1>2, <1>3, <2>5, <2>6 DEF Ready, Leads, After, DeqOK, DeqPoints, Safe, N0, v, v2, QueueOK, KindOK
  <2> QED
    BY <2>5, <2>7, <2>8, <2>9, <2>10, <2>11 DEF Leads, CallOK, v2
<1>7. CASE head = Local(t).top /\ Local(t).next # NULL /\ Local(t).top # Local(t).last
  <2>1. Becomes(t, [Local(t) EXCEPT !.at = "deqElement"]) /\ UNCHANGED <<setup, guarding, heap>>
    BY <1>7, <1>2, <1>3 DEF DeqAgain, Reads, At, v
  <2>2. [Local(t) EXCEPT !.at = "deqElement"] = Set(Local(t), "deqElement", Local(t).result, Local(t).value, Local(t).top, Local(t).last, Local(t).next)
    BY <1>2 DEF Ready, Set, CallRecs
  <2>3. QuietPoints(v, "deqElement", Local(t).top)
    BY <1>2, <1>3 DEF Ready, QuietPoints, CallPoints, StackPoints, EnqPoints, DeqPoints, HelpPoints, ScanPoints,
                      Adding, Taking, Indexed
  <2>4. Local(t).result \in Results /\ Local(t).value \in Values \cup {Nothing}
        /\ Local(t).top \in N0(setup) /\ Local(t).last \in N0(setup) /\ Local(t).next \in N0(setup)
    BY <1>7, <1>2, <1>3 DEF Ready, Results, N0, NodeRecs
  <2>5. Leads(L, t, entry, node, tail, "deqElement", Local(t).result, Local(t).value, Local(t).top, Local(t).last, Local(t).next)
    BY <1>1, <1>2, <2>1, <2>2, <2>3, <2>4, ReadAction DEF Ready
  <2>6. After(v, v2, "deqElement", Local(t).result, Local(t).value, Local(t).top, Local(t).last, Local(t).next)
    BY <2>5 DEF Leads
  <2> HIDE DEF v, v2
  <2>7. KindOK(setup, v2)
    BY <1>7, <1>2, <1>3, <2>6 DEF Ready, After, KindOK, StackPoints, EnqPoints, DeqPoints, v
  <2>8. PushOK(setup, node, v2)
    BY <1>7, <1>2, <1>3, <2>6 DEF Ready, After, PushOK, Adding, EnqPoints, v
  <2>9. PopOK(setup, entry, L, node, Views', t)
    BY <1>7, <1>2, <1>3, <2>5, <2>6 DEF Ready, Leads, After, PopOK, Taking, N0, Safe, v, v2
  <2>10. EnqOK(setup, entry, L, node, Views', t)
    BY <1>7, <1>2, <1>3, <2>5, <2>6 DEF Ready, Leads, After, EnqOK, Safe, N0, v, v2, QueueOK, KindOK, EnqPoints
  <2>11. DeqOK(setup, entry, L, node, head, tail, Views', t)
    BY <1>7, <1>2, <1>3, <2>5, <2>6 DEF Ready, Leads, After, DeqOK, DeqPoints, Safe, N0, v, v2, QueueOK, KindOK
  <2> QED
    BY <2>5, <2>7, <2>8, <2>9, <2>10, <2>11 DEF Leads, CallOK, v2
<1> QED
  BY <1>4, <1>5, <1>6, <1>7

\* The value is read from a guarded node.
LEMMA KeepsDeqElement == ASSUME LockFreeInv, NEW t \in Threads, DeqElement(t) PROVE LockFreeInv'
<1> DEFINE v  == Views[t]
           v2 == Views'[t]
<1>1. PICK L : thread \in [Threads -> ThreadRecs(setup)] /\ Entire(L)
  BY DEF LockFreeInv
<1>2. Ready(L, t)
  BY <1>1, Start
<1>3. v.at = "deqElement"
  BY <1>2 DEF DeqElement, Reads, At, Local, Ready
<1>4. CASE TRUE
  <2>1. Becomes(t, [Local(t) EXCEPT !.at = "deqCas", !.value = node[Local(t).next].element]) /\ UNCHANGED <<setup, guarding, heap>>
    BY <1>4, <1>2, <1>3 DEF DeqElement, Reads, At, v
  <2>2. [Local(t) EXCEPT !.at = "deqCas", !.value = node[Local(t).next].element] = Set(Local(t), "deqCas", Local(t).result, node[Local(t).next].element, Local(t).top, Local(t).last, Local(t).next)
    BY <1>2 DEF Ready, Set, CallRecs
  <2>3. QuietPoints(v, "deqCas", Local(t).top)
    BY <1>2, <1>3 DEF Ready, QuietPoints, CallPoints, StackPoints, EnqPoints, DeqPoints, HelpPoints, ScanPoints,
                      Adding, Taking, Indexed
  <2>4. Local(t).result \in Results /\ node[Local(t).next].element \in Values \cup {Nothing}
        /\ Local(t).top \in N0(setup) /\ Local(t).last \in N0(setup) /\ Local(t).next \in N0(setup)
    BY <1>4, <1>2, <1>3 DEF Ready, Results, N0, NodeRecs, DeqOK, DeqPoints, Safe
  <2>5. Leads(L, t, entry, node, tail, "deqCas", Local(t).result, node[Local(t).next].element, Local(t).top, Local(t).last, Local(t).next)
    BY <1>1, <1>2, <2>1, <2>2, <2>3, <2>4, ReadAction DEF Ready
  <2>6. After(v, v2, "deqCas", Local(t).result, node[Local(t).next].element, Local(t).top, Local(t).last, Local(t).next)
    BY <2>5 DEF Leads
  <2> HIDE DEF v, v2
  <2>7. KindOK(setup, v2)
    BY <1>4, <1>2, <1>3, <2>6 DEF Ready, After, KindOK, StackPoints, EnqPoints, DeqPoints, v
  <2>8. PushOK(setup, node, v2)
    BY <1>4, <1>2, <1>3, <2>6 DEF Ready, After, PushOK, Adding, EnqPoints, v
  <2>9. PopOK(setup, entry, L, node, Views', t)
    BY <1>4, <1>2, <1>3, <2>5, <2>6 DEF Ready, Leads, After, PopOK, Taking, N0, Safe, v, v2
  <2>10. EnqOK(setup, entry, L, node, Views', t)
    BY <1>4, <1>2, <1>3, <2>5, <2>6 DEF Ready, Leads, After, EnqOK, Safe, N0, v, v2, QueueOK, KindOK, EnqPoints
  <2>11. DeqOK(setup, entry, L, node, head, tail, Views', t)
    BY <1>4, <1>2, <1>3, <2>5, <2>6 DEF Ready, Leads, After, DeqOK, DeqPoints, Safe, N0, v, v2, QueueOK, KindOK
  <2> QED
    BY <2>5, <2>7, <2>8, <2>9, <2>10, <2>11 DEF Leads, CallOK, v2
<1> QED
  BY <1>4

-----------------------------------------------------------------------------
(* The steps that write a guard                                            *)

\* Guard p of thread t is set to n, and the thread goes on.
Wrote(t, p, n) == entry' = [entry EXCEPT ![MyEntry(t)].guards[p] = n]
               /\ UNCHANGED <<setup, counter, active_hazard_pointer, heap>>
\* Guard p has become n, the other guard of the thread is as it was.
Written(E2, t, p, n) ==
  /\ E2[Views[t].index].guards[p] = n
  /\ \A pos \in 0..(Gs(setup) - 1) : pos # p =>
       E2[Views[t].index].guards[pos] = entry[Views[t].index].guards[pos]

\* A step that sets a guard: it remains to show what the thread knows afterwards.
LEMMA GuardAction ==
  ASSUME NEW t \in Threads, NEW L, thread \in [Threads -> ThreadRecs(setup)], Entire(L),
         NEW a, NEW r \in Results, NEW va \in Values \cup {Nothing},
         NEW tp \in N0(setup), NEW la \in N0(setup), NEW ne \in N0(setup),
         NEW p \in 0..(Gs(setup) - 1), NEW n \in N0(setup), thread[t].index # NoIndex,
         Wrote(t, p, n), Becomes(t, Set(Local(t), a, r, va, tp, la, ne)), QuietPoints(Views[t], a, tp)
  PROVE  Leads(L, t, entry', node, tail, a, r, va, tp, la, ne) /\ Written(entry', t, p, n)
<1> DEFINE i == Views[t].index
<1>0. /\ entry' = [entry EXCEPT ![MyEntry(t)].guards[p] = n]
      /\ UNCHANGED <<setup, counter, active_hazard_pointer, heap>>
  BY DEF Wrote
<1>1. node' = node /\ tail' = tail /\ setup' = setup /\ counter' = counter
      /\ active_hazard_pointer' = active_hazard_pointer /\ pool' = pool /\ head' = head
  BY <1>0 DEF heap
<1>2. MyEntry(t) = i /\ i # NoIndex
  BY ViewFields DEF MyEntry
<1>3. i \in Ents(setup) /\ entry \in [Ents(setup) -> EntryRecs(setup)]
  BY <1>2, Known, Start DEF Ready
<1> HIDE DEF i
<1>4. /\ \A j \in Ents(setup) : entry[j] \in EntryRecs(setup)
      /\ entry' \in [Ents(setup) -> EntryRecs(setup)]
      /\ \A j \in Ents(setup) : entry'[j].retired = entry[j].retired /\ entry'[j].is_active = entry[j].is_active
      /\ \A j \in Ents(setup) : j # i => entry'[j].guards = entry[j].guards
      /\ entry'[i].guards = [entry[i].guards EXCEPT ![p] = n]
  <2>1. \A j \in Ents(setup) : entry[j] \in EntryRecs(setup) /\ entry[j].guards \in [0..(Gs(setup) - 1) -> N0(setup)]
    BY <1>3 DEF EntryRecs
  <2>2. entry' = [entry EXCEPT ![i] = [entry[i] EXCEPT !.guards = [entry[i].guards EXCEPT ![p] = n]]]
    BY <1>0, <1>2, <1>3
  <2>3. [entry[i].guards EXCEPT ![p] = n] \in [0..(Gs(setup) - 1) -> N0(setup)]
    BY <1>3, <2>1
  <2> DEFINE g == [entry[i].guards EXCEPT ![p] = n]
             e == [entry[i] EXCEPT !.guards = g]
  <2> HIDE DEF g
  <2>4. e \in EntryRecs(setup) /\ e.retired = entry[i].retired /\ e.is_active = entry[i].is_active /\ e.guards = g
    BY <1>3, <2>1, <2>3 DEF EntryRecs, g
  <2>5. entry' = [entry EXCEPT ![i] = e]
    BY <2>2 DEF g
  <2> HIDE DEF e
  <2> QED
    BY <1>3, <2>1, <2>4, <2>5 DEF g
<1>5. /\ entry'[i].guards[p] = n
      /\ \A pos \in 0..(Gs(setup) - 1) : pos # p => entry'[i].guards[pos] = entry[i].guards[pos]
  BY <1>3, <1>4 DEF EntryRecs
<1>6. Gentle(setup, entry, L, node, head, tail, Views, entry', node', tail', t)
  BY <1>1, <1>4 DEF Gentle, SameLists, i
<1>7. node' \in [Nds(setup) -> NodeRecs(setup)] /\ tail' \in N0(setup)
  BY <1>1, Known
<1>8. Leads(L, t, entry', node', tail', a, r, va, tp, la, ne)
  BY <1>1, <1>4, <1>6, <1>7, SetAction
<1> QED
  BY <1>1, <1>5, <1>8 DEF i, Written

\* The top is guarded.
LEMMA KeepsPopGuard ==
  ASSUME LockFreeInv, NEW t \in Threads, PopGuard(t)
  PROVE  LockFreeInv'
<1> DEFINE v  == Views[t]
           v2 == Views'[t]
<1>1. PICK L : thread \in [Threads -> ThreadRecs(setup)] /\ Entire(L)
  BY DEF LockFreeInv
<1>2. Ready(L, t)
  BY <1>1, Start
<1>3. /\ At(t, "guard") /\ thread[t].index # NoIndex
      /\ Becomes(t, [Local(t) EXCEPT !.at = "popCheck"]) /\ Wrote(t, 0, Local(t).top)
  BY DEF PopGuard, Guard, Wrote
<1>4. v.at = "guard"
  BY <1>2, <1>3 DEF At, Local, Ready
<1>5. [Local(t) EXCEPT !.at = "popCheck"] = Set(Local(t), "popCheck", Local(t).result, Local(t).value, Local(t).top, Local(t).last, Local(t).next)
  BY <1>2 DEF Ready, Set, CallRecs
<1>6. QuietPoints(v, "popCheck", Local(t).top)
  BY <1>2, <1>3, <1>4 DEF Ready, QuietPoints, CallPoints, StackPoints, EnqPoints, DeqPoints, HelpPoints, ScanPoints,
                    Adding, Taking, Indexed
<1>7. 0 \in 0..(Gs(setup) - 1) /\ Local(t).top \in N0(setup)
  BY <1>2, <1>4 DEF Ready, Gs, KindOK, EnqPoints, DeqPoints, N0
<1>8. Leads(L, t, entry', node, tail, "popCheck", Local(t).result, Local(t).value, Local(t).top, Local(t).last, Local(t).next) /\ Written(entry', t, 0, Local(t).top)
  <2>1. Becomes(t, Set(Local(t), "popCheck", Local(t).result, Local(t).value, Local(t).top, Local(t).last, Local(t).next))
    BY <1>3, <1>5
  <2> QED
    BY <1>1, <1>2, <1>3, <1>6, <1>7, <2>1, GuardAction DEF Ready
<1>9. After(v, v2, "popCheck", Local(t).result, Local(t).value, Local(t).top, Local(t).last, Local(t).next)
  BY <1>8 DEF Leads
<1>10. v.at = "deqGuardNext" => entry'[v.index].guards[0] = entry[v.index].guards[0]
  BY <1>2, <1>4, <1>7, <1>8 DEF Written, Ready, KindOK, DeqPoints, Gs
<1> HIDE DEF v, v2
<1>11. KindOK(setup, v2)
  BY <1>2, <1>4, <1>9 DEF Ready, After, KindOK, StackPoints, EnqPoints, DeqPoints, v
<1>12. PushOK(setup, node, v2)
  BY <1>2, <1>4, <1>9 DEF Ready, After, PushOK, Adding, EnqPoints, v
<1>13. PopOK(setup, entry', L, node, Views', t)
  BY <1>2, <1>4, <1>8, <1>9 DEF Ready, Leads, Written, After, PopOK, Taking, v, v2
<1>14. EnqOK(setup, entry', L, node, Views', t)
  BY <1>2, <1>4, <1>8, <1>9 DEF Ready, Leads, Written, After, EnqOK, v, v2
<1>15. DeqOK(setup, entry', L, node, head, tail, Views', t)
  BY <1>2, <1>4, <1>8, <1>9, <1>10 DEF Ready, Leads, After, Written, DeqOK, DeqPoints, Safe, v, v2
<1> QED
  BY <1>8, <1>11, <1>12, <1>13, <1>14, <1>15 DEF Leads, CallOK, v2

\* The guard is removed.
LEMMA KeepsPopUnguardAgain ==
  ASSUME LockFreeInv, NEW t \in Threads, Guard(t, "popAgain", 0, NULL, [Local(t) EXCEPT !.at = "pop"])
  PROVE  LockFreeInv'
<1> DEFINE v  == Views[t]
           v2 == Views'[t]
<1>1. PICK L : thread \in [Threads -> ThreadRecs(setup)] /\ Entire(L)
  BY DEF LockFreeInv
<1>2. Ready(L, t)
  BY <1>1, Start
<1>3. /\ At(t, "popAgain") /\ thread[t].index # NoIndex
      /\ Becomes(t, [Local(t) EXCEPT !.at = "pop"]) /\ Wrote(t, 0, NULL)
  BY DEF Guard, Wrote
<1>4. v.at = "popAgain"
  BY <1>2, <1>3 DEF At, Local, Ready
<1>5. [Local(t) EXCEPT !.at = "pop"] = Set(Local(t), "pop", Local(t).result, Local(t).value, Local(t).top, Local(t).last, Local(t).next)
  BY <1>2 DEF Ready, Set, CallRecs
<1>6. QuietPoints(v, "pop", Local(t).top)
  BY <1>2, <1>3, <1>4 DEF Ready, QuietPoints, CallPoints, StackPoints, EnqPoints, DeqPoints, HelpPoints, ScanPoints,
                    Adding, Taking, Indexed
<1>7. 0 \in 0..(Gs(setup) - 1) /\ NULL \in N0(setup)
  BY <1>2, <1>4 DEF Ready, Gs, KindOK, EnqPoints, DeqPoints, N0
<1>8. Leads(L, t, entry', node, tail, "pop", Local(t).result, Local(t).value, Local(t).top, Local(t).last, Local(t).next) /\ Written(entry', t, 0, NULL)
  <2>1. Becomes(t, Set(Local(t), "pop", Local(t).result, Local(t).value, Local(t).top, Local(t).last, Local(t).next))
    BY <1>3, <1>5
  <2> QED
    BY <1>1, <1>2, <1>3, <1>6, <1>7, <2>1, GuardAction DEF Ready
<1>9. After(v, v2, "pop", Local(t).result, Local(t).value, Local(t).top, Local(t).last, Local(t).next)
  BY <1>8 DEF Leads
<1>10. v.at = "deqGuardNext" => entry'[v.index].guards[0] = entry[v.index].guards[0]
  BY <1>2, <1>4, <1>7, <1>8 DEF Written, Ready, KindOK, DeqPoints, Gs
<1> HIDE DEF v, v2
<1>11. KindOK(setup, v2)
  BY <1>2, <1>4, <1>9 DEF Ready, After, KindOK, StackPoints, EnqPoints, DeqPoints, v
<1>12. PushOK(setup, node, v2)
  BY <1>2, <1>4, <1>9 DEF Ready, After, PushOK, Adding, EnqPoints, v
<1>13. PopOK(setup, entry', L, node, Views', t)
  BY <1>2, <1>4, <1>8, <1>9 DEF Ready, Leads, Written, After, PopOK, Taking, v, v2
<1>14. EnqOK(setup, entry', L, node, Views', t)
  BY <1>2, <1>4, <1>8, <1>9 DEF Ready, Leads, Written, After, EnqOK, v, v2
<1>15. DeqOK(setup, entry', L, node, head, tail, Views', t)
  BY <1>2, <1>4, <1>8, <1>9, <1>10 DEF Ready, Leads, After, Written, DeqOK, DeqPoints, Safe, v, v2
<1> QED
  BY <1>8, <1>11, <1>12, <1>13, <1>14, <1>15 DEF Leads, CallOK, v2

\* The guard is removed.
LEMMA KeepsPopUnguardTake ==
  ASSUME LockFreeInv, NEW t \in Threads, Guard(t, "popTake", 0, NULL, [Local(t) EXCEPT !.at = "retire"])
  PROVE  LockFreeInv'
<1> DEFINE v  == Views[t]
           v2 == Views'[t]
<1>1. PICK L : thread \in [Threads -> ThreadRecs(setup)] /\ Entire(L)
  BY DEF LockFreeInv
<1>2. Ready(L, t)
  BY <1>1, Start
<1>3. /\ At(t, "popTake") /\ thread[t].index # NoIndex
      /\ Becomes(t, [Local(t) EXCEPT !.at = "retire"]) /\ Wrote(t, 0, NULL)
  BY DEF Guard, Wrote
<1>4. v.at = "popTake"
  BY <1>2, <1>3 DEF At, Local, Ready
<1>5. [Local(t) EXCEPT !.at = "retire"] = Set(Local(t), "retire", Local(t).result, Local(t).value, Local(t).top, Local(t).last, Local(t).next)
  BY <1>2 DEF Ready, Set, CallRecs
<1>6. QuietPoints(v, "retire", Local(t).top)
  BY <1>2, <1>3, <1>4 DEF Ready, QuietPoints, CallPoints, StackPoints, EnqPoints, DeqPoints, HelpPoints, ScanPoints,
                    Adding, Taking, Indexed
<1>7. 0 \in 0..(Gs(setup) - 1) /\ NULL \in N0(setup)
  BY <1>2, <1>4 DEF Ready, Gs, KindOK, EnqPoints, DeqPoints, N0
<1>8. Leads(L, t, entry', node, tail, "retire", Local(t).result, Local(t).value, Local(t).top, Local(t).last, Local(t).next) /\ Written(entry', t, 0, NULL)
  <2>1. Becomes(t, Set(Local(t), "retire", Local(t).result, Local(t).value, Local(t).top, Local(t).last, Local(t).next))
    BY <1>3, <1>5
  <2> QED
    BY <1>1, <1>2, <1>3, <1>6, <1>7, <2>1, GuardAction DEF Ready
<1>9. After(v, v2, "retire", Local(t).result, Local(t).value, Local(t).top, Local(t).last, Local(t).next)
  BY <1>8 DEF Leads
<1>10. v.at = "deqGuardNext" => entry'[v.index].guards[0] = entry[v.index].guards[0]
  BY <1>2, <1>4, <1>7, <1>8 DEF Written, Ready, KindOK, DeqPoints, Gs
<1> HIDE DEF v, v2
<1>11. KindOK(setup, v2)
  BY <1>2, <1>4, <1>9 DEF Ready, After, KindOK, StackPoints, EnqPoints, DeqPoints, v
<1>12. PushOK(setup, node, v2)
  BY <1>2, <1>4, <1>9 DEF Ready, After, PushOK, Adding, EnqPoints, v
<1>13. PopOK(setup, entry', L, node, Views', t)
  BY <1>2, <1>4, <1>8, <1>9 DEF Ready, Leads, Written, After, PopOK, Taking, v, v2
<1>14. EnqOK(setup, entry', L, node, Views', t)
  BY <1>2, <1>4, <1>8, <1>9 DEF Ready, Leads, Written, After, EnqOK, v, v2
<1>15. DeqOK(setup, entry', L, node, head, tail, Views', t)
  BY <1>2, <1>4, <1>8, <1>9, <1>10 DEF Ready, Leads, After, Written, DeqOK, DeqPoints, Safe, v, v2
<1> QED
  BY <1>8, <1>11, <1>12, <1>13, <1>14, <1>15 DEF Leads, CallOK, v2

\* The tail is guarded.
LEMMA KeepsEnqGuard ==
  ASSUME LockFreeInv, NEW t \in Threads, EnqGuard(t)
  PROVE  LockFreeInv'
<1> DEFINE v  == Views[t]
           v2 == Views'[t]
<1>1. PICK L : thread \in [Threads -> ThreadRecs(setup)] /\ Entire(L)
  BY DEF LockFreeInv
<1>2. Ready(L, t)
  BY <1>1, Start
<1>3. /\ At(t, "enqGuard") /\ thread[t].index # NoIndex
      /\ Becomes(t, [Local(t) EXCEPT !.at = "enqCheck"]) /\ Wrote(t, 0, Local(t).last)
  BY DEF EnqGuard, Guard, Wrote
<1>4. v.at = "enqGuard"
  BY <1>2, <1>3 DEF At, Local, Ready
<1>5. [Local(t) EXCEPT !.at = "enqCheck"] = Set(Local(t), "enqCheck", Local(t).result, Local(t).value, Local(t).top, Local(t).last, Local(t).next)
  BY <1>2 DEF Ready, Set, CallRecs
<1>6. QuietPoints(v, "enqCheck", Local(t).top)
  BY <1>2, <1>3, <1>4 DEF Ready, QuietPoints, CallPoints, StackPoints, EnqPoints, DeqPoints, HelpPoints, ScanPoints,
                    Adding, Taking, Indexed
<1>7. 0 \in 0..(Gs(setup) - 1) /\ Local(t).last \in N0(setup)
  BY <1>2, <1>4 DEF Ready, Gs, KindOK, EnqPoints, DeqPoints, N0
<1>8. Leads(L, t, entry', node, tail, "enqCheck", Local(t).result, Local(t).value, Local(t).top, Local(t).last, Local(t).next) /\ Written(entry', t, 0, Local(t).last)
  <2>1. Becomes(t, Set(Local(t), "enqCheck", Local(t).result, Local(t).value, Local(t).top, Local(t).last, Local(t).next))
    BY <1>3, <1>5
  <2> QED
    BY <1>1, <1>2, <1>3, <1>6, <1>7, <2>1, GuardAction DEF Ready
<1>9. After(v, v2, "enqCheck", Local(t).result, Local(t).value, Local(t).top, Local(t).last, Local(t).next)
  BY <1>8 DEF Leads
<1>10. v.at = "deqGuardNext" => entry'[v.index].guards[0] = entry[v.index].guards[0]
  BY <1>2, <1>4, <1>7, <1>8 DEF Written, Ready, KindOK, DeqPoints, Gs
<1> HIDE DEF v, v2
<1>11. KindOK(setup, v2)
  BY <1>2, <1>4, <1>9 DEF Ready, After, KindOK, StackPoints, EnqPoints, DeqPoints, v
<1>12. PushOK(setup, node, v2)
  BY <1>2, <1>4, <1>9 DEF Ready, After, PushOK, Adding, EnqPoints, v
<1>13. PopOK(setup, entry', L, node, Views', t)
  BY <1>2, <1>4, <1>8, <1>9 DEF Ready, Leads, Written, After, PopOK, Taking, v, v2
<1>14. EnqOK(setup, entry', L, node, Views', t)
  BY <1>2, <1>4, <1>8, <1>9 DEF Ready, Leads, Written, After, EnqOK, v, v2
<1>15. DeqOK(setup, entry', L, node, head, tail, Views', t)
  BY <1>2, <1>4, <1>8, <1>9, <1>10 DEF Ready, Leads, After, Written, DeqOK, DeqPoints, Safe, v, v2
<1> QED
  BY <1>8, <1>11, <1>12, <1>13, <1>14, <1>15 DEF Leads, CallOK, v2

\* The head is guarded.
LEMMA KeepsDeqGuard ==
  ASSUME LockFreeInv, NEW t \in Threads, DeqGuard(t)
  PROVE  LockFreeInv'
<1> DEFINE v  == Views[t]
           v2 == Views'[t]
<1>1. PICK L : thread \in [Threads -> ThreadRecs(setup)] /\ Entire(L)
  BY DEF LockFreeInv
<1>2. Ready(L, t)
  BY <1>1, Start
<1>3. /\ At(t, "deqGuard") /\ thread[t].index # NoIndex
      /\ Becomes(t, [Local(t) EXCEPT !.at = "deqCheck"]) /\ Wrote(t, 0, Local(t).top)
  BY DEF DeqGuard, Guard, Wrote
<1>4. v.at = "deqGuard"
  BY <1>2, <1>3 DEF At, Local, Ready
<1>5. [Local(t) EXCEPT !.at = "deqCheck"] = Set(Local(t), "deqCheck", Local(t).result, Local(t).value, Local(t).top, Local(t).last, Local(t).next)
  BY <1>2 DEF Ready, Set, CallRecs
<1>6. QuietPoints(v, "deqCheck", Local(t).top)
  BY <1>2, <1>3, <1>4 DEF Ready, QuietPoints, CallPoints, StackPoints, EnqPoints, DeqPoints, HelpPoints, ScanPoints,
                    Adding, Taking, Indexed
<1>7. 0 \in 0..(Gs(setup) - 1) /\ Local(t).top \in N0(setup)
  BY <1>2, <1>4 DEF Ready, Gs, KindOK, EnqPoints, DeqPoints, N0
<1>8. Leads(L, t, entry', node, tail, "deqCheck", Local(t).result, Local(t).value, Local(t).top, Local(t).last, Local(t).next) /\ Written(entry', t, 0, Local(t).top)
  <2>1. Becomes(t, Set(Local(t), "deqCheck", Local(t).result, Local(t).value, Local(t).top, Local(t).last, Local(t).next))
    BY <1>3, <1>5
  <2> QED
    BY <1>1, <1>2, <1>3, <1>6, <1>7, <2>1, GuardAction DEF Ready
<1>9. After(v, v2, "deqCheck", Local(t).result, Local(t).value, Local(t).top, Local(t).last, Local(t).next)
  BY <1>8 DEF Leads
<1>10. v.at = "deqGuardNext" => entry'[v.index].guards[0] = entry[v.index].guards[0]
  BY <1>2, <1>4, <1>7, <1>8 DEF Written, Ready, KindOK, DeqPoints, Gs
<1> HIDE DEF v, v2
<1>11. KindOK(setup, v2)
  BY <1>2, <1>4, <1>9 DEF Ready, After, KindOK, StackPoints, EnqPoints, DeqPoints, v
<1>12. PushOK(setup, node, v2)
  BY <1>2, <1>4, <1>9 DEF Ready, After, PushOK, Adding, EnqPoints, v
<1>13. PopOK(setup, entry', L, node, Views', t)
  BY <1>2, <1>4, <1>8, <1>9 DEF Ready, Leads, Written, After, PopOK, Taking, v, v2
<1>14. EnqOK(setup, entry', L, node, Views', t)
  BY <1>2, <1>4, <1>8, <1>9 DEF Ready, Leads, Written, After, EnqOK, v, v2
<1>15. DeqOK(setup, entry', L, node, head, tail, Views', t)
  BY <1>2, <1>4, <1>8, <1>9, <1>10 DEF Ready, Leads, After, Written, DeqOK, DeqPoints, Safe, v, v2
<1> QED
  BY <1>8, <1>11, <1>12, <1>13, <1>14, <1>15 DEF Leads, CallOK, v2

\* The node behind the head is guarded, the head stays so.
LEMMA KeepsDeqGuardNext ==
  ASSUME LockFreeInv, NEW t \in Threads, DeqGuardNext(t)
  PROVE  LockFreeInv'
<1> DEFINE v  == Views[t]
           v2 == Views'[t]
<1>1. PICK L : thread \in [Threads -> ThreadRecs(setup)] /\ Entire(L)
  BY DEF LockFreeInv
<1>2. Ready(L, t)
  BY <1>1, Start
<1>3. /\ At(t, "deqGuardNext") /\ thread[t].index # NoIndex
      /\ Becomes(t, [Local(t) EXCEPT !.at = "deqAgain"]) /\ Wrote(t, 1, Local(t).next)
  BY DEF DeqGuardNext, Guard, Wrote
<1>4. v.at = "deqGuardNext"
  BY <1>2, <1>3 DEF At, Local, Ready
<1>5. [Local(t) EXCEPT !.at = "deqAgain"] = Set(Local(t), "deqAgain", Local(t).result, Local(t).value, Local(t).top, Local(t).last, Local(t).next)
  BY <1>2 DEF Ready, Set, CallRecs
<1>6. QuietPoints(v, "deqAgain", Local(t).top)
  BY <1>2, <1>3, <1>4 DEF Ready, QuietPoints, CallPoints, StackPoints, EnqPoints, DeqPoints, HelpPoints, ScanPoints,
                    Adding, Taking, Indexed
<1>7. 1 \in 0..(Gs(setup) - 1) /\ Local(t).next \in N0(setup)
  BY <1>2, <1>4 DEF Ready, Gs, KindOK, EnqPoints, DeqPoints, N0
<1>8. Leads(L, t, entry', node, tail, "deqAgain", Local(t).result, Local(t).value, Local(t).top, Local(t).last, Local(t).next) /\ Written(entry', t, 1, Local(t).next)
  <2>1. Becomes(t, Set(Local(t), "deqAgain", Local(t).result, Local(t).value, Local(t).top, Local(t).last, Local(t).next))
    BY <1>3, <1>5
  <2> QED
    BY <1>1, <1>2, <1>3, <1>6, <1>7, <2>1, GuardAction DEF Ready
<1>9. After(v, v2, "deqAgain", Local(t).result, Local(t).value, Local(t).top, Local(t).last, Local(t).next)
  BY <1>8 DEF Leads
<1>10. v.at = "deqGuardNext" => entry'[v.index].guards[0] = entry[v.index].guards[0]
  BY <1>2, <1>4, <1>7, <1>8 DEF Written, Ready, KindOK, DeqPoints, Gs
<1> HIDE DEF v, v2
<1>11. KindOK(setup, v2)
  BY <1>2, <1>4, <1>9 DEF Ready, After, KindOK, StackPoints, EnqPoints, DeqPoints, v
<1>12. PushOK(setup, node, v2)
  BY <1>2, <1>4, <1>9 DEF Ready, After, PushOK, Adding, EnqPoints, v
<1>13. PopOK(setup, entry', L, node, Views', t)
  BY <1>2, <1>4, <1>8, <1>9 DEF Ready, Leads, Written, After, PopOK, Taking, v, v2
<1>14. EnqOK(setup, entry', L, node, Views', t)
  BY <1>2, <1>4, <1>8, <1>9 DEF Ready, Leads, Written, After, EnqOK, v, v2
<1>15. DeqOK(setup, entry', L, node, head, tail, Views', t)
  BY <1>2, <1>4, <1>8, <1>9, <1>10 DEF Ready, Leads, After, Written, DeqOK, DeqPoints, Safe, v, v2
<1> QED
  BY <1>8, <1>11, <1>12, <1>13, <1>14, <1>15 DEF Leads, CallOK, v2

-----------------------------------------------------------------------------
(* The compare-and-swaps and allocations that fail                         *)

\* The top has changed: TryPush starts again.
LEMMA KeepsFailPush == ASSUME LockFreeInv, NEW t \in Threads, At(t, "pushCas"), Becomes(t, [Local(t) EXCEPT !.at = "pushTop"]),
         UNCHANGED <<setup, guarding, heap>> PROVE LockFreeInv'
<1> DEFINE v  == Views[t]
           v2 == Views'[t]
<1>1. PICK L : thread \in [Threads -> ThreadRecs(setup)] /\ Entire(L)
  BY DEF LockFreeInv
<1>2. Ready(L, t)
  BY <1>1, Start
<1>3. v.at = "pushCas"
  BY <1>2 DEF At, Local, Ready
<1>4. CASE TRUE
  <2>1. Becomes(t, [Local(t) EXCEPT !.at = "pushTop"]) /\ UNCHANGED <<setup, guarding, heap>>
    BY <1>4, <1>2, <1>3 DEF At, v
  <2>2. [Local(t) EXCEPT !.at = "pushTop"] = Set(Local(t), "pushTop", Local(t).result, Local(t).value, Local(t).top, Local(t).last, Local(t).next)
    BY <1>2 DEF Ready, Set, CallRecs
  <2>3. QuietPoints(v, "pushTop", Local(t).top)
    BY <1>2, <1>3 DEF Ready, QuietPoints, CallPoints, StackPoints, EnqPoints, DeqPoints, HelpPoints, ScanPoints,
                      Adding, Taking, Indexed
  <2>4. Local(t).result \in Results /\ Local(t).value \in Values \cup {Nothing}
        /\ Local(t).top \in N0(setup) /\ Local(t).last \in N0(setup) /\ Local(t).next \in N0(setup)
    BY <1>4, <1>2, <1>3 DEF Ready, Results, N0, NodeRecs
  <2>5. Leads(L, t, entry, node, tail, "pushTop", Local(t).result, Local(t).value, Local(t).top, Local(t).last, Local(t).next)
    BY <1>1, <1>2, <2>1, <2>2, <2>3, <2>4, ReadAction DEF Ready
  <2>6. After(v, v2, "pushTop", Local(t).result, Local(t).value, Local(t).top, Local(t).last, Local(t).next)
    BY <2>5 DEF Leads
  <2> HIDE DEF v, v2
  <2>7. KindOK(setup, v2)
    BY <1>4, <1>2, <1>3, <2>6 DEF Ready, After, KindOK, StackPoints, EnqPoints, DeqPoints, v
  <2>8. PushOK(setup, node, v2)
    BY <1>4, <1>2, <1>3, <2>6 DEF Ready, After, PushOK, Adding, EnqPoints, v
  <2>9. PopOK(setup, entry, L, node, Views', t)
    BY <1>4, <1>2, <1>3, <2>5, <2>6 DEF Ready, Leads, After, PopOK, Taking, N0, Safe, v, v2
  <2>10. EnqOK(setup, entry, L, node, Views', t)
    BY <1>4, <1>2, <1>3, <2>5, <2>6 DEF Ready, Leads, After, EnqOK, Safe, N0, v, v2, QueueOK, KindOK, EnqPoints
  <2>11. DeqOK(setup, entry, L, node, head, tail, Views', t)
    BY <1>4, <1>2, <1>3, <2>5, <2>6 DEF Ready, Leads, After, DeqOK, DeqPoints, Safe, N0, v, v2, QueueOK, KindOK
  <2> QED
    BY <2>5, <2>7, <2>8, <2>9, <2>10, <2>11 DEF Leads, CallOK, v2
<1> QED
  BY <1>4

\* The top has changed: TryPop starts again.
LEMMA KeepsFailPop == ASSUME LockFreeInv, NEW t \in Threads, At(t, "popCas"), Becomes(t, [Local(t) EXCEPT !.at = "popAgain"]),
         UNCHANGED <<setup, guarding, heap>> PROVE LockFreeInv'
<1> DEFINE v  == Views[t]
           v2 == Views'[t]
<1>1. PICK L : thread \in [Threads -> ThreadRecs(setup)] /\ Entire(L)
  BY DEF LockFreeInv
<1>2. Ready(L, t)
  BY <1>1, Start
<1>3. v.at = "popCas"
  BY <1>2 DEF At, Local, Ready
<1>4. CASE TRUE
  <2>1. Becomes(t, [Local(t) EXCEPT !.at = "popAgain"]) /\ UNCHANGED <<setup, guarding, heap>>
    BY <1>4, <1>2, <1>3 DEF At, v
  <2>2. [Local(t) EXCEPT !.at = "popAgain"] = Set(Local(t), "popAgain", Local(t).result, Local(t).value, Local(t).top, Local(t).last, Local(t).next)
    BY <1>2 DEF Ready, Set, CallRecs
  <2>3. QuietPoints(v, "popAgain", Local(t).top)
    BY <1>2, <1>3 DEF Ready, QuietPoints, CallPoints, StackPoints, EnqPoints, DeqPoints, HelpPoints, ScanPoints,
                      Adding, Taking, Indexed
  <2>4. Local(t).result \in Results /\ Local(t).value \in Values \cup {Nothing}
        /\ Local(t).top \in N0(setup) /\ Local(t).last \in N0(setup) /\ Local(t).next \in N0(setup)
    BY <1>4, <1>2, <1>3 DEF Ready, Results, N0, NodeRecs
  <2>5. Leads(L, t, entry, node, tail, "popAgain", Local(t).result, Local(t).value, Local(t).top, Local(t).last, Local(t).next)
    BY <1>1, <1>2, <2>1, <2>2, <2>3, <2>4, ReadAction DEF Ready
  <2>6. After(v, v2, "popAgain", Local(t).result, Local(t).value, Local(t).top, Local(t).last, Local(t).next)
    BY <2>5 DEF Leads
  <2> HIDE DEF v, v2
  <2>7. KindOK(setup, v2)
    BY <1>4, <1>2, <1>3, <2>6 DEF Ready, After, KindOK, StackPoints, EnqPoints, DeqPoints, v
  <2>8. PushOK(setup, node, v2)
    BY <1>4, <1>2, <1>3, <2>6 DEF Ready, After, PushOK, Adding, EnqPoints, v
  <2>9. PopOK(setup, entry, L, node, Views', t)
    BY <1>4, <1>2, <1>3, <2>5, <2>6 DEF Ready, Leads, After, PopOK, Taking, N0, Safe, v, v2
  <2>10. EnqOK(setup, entry, L, node, Views', t)
    BY <1>4, <1>2, <1>3, <2>5, <2>6 DEF Ready, Leads, After, EnqOK, Safe, N0, v, v2, QueueOK, KindOK, EnqPoints
  <2>11. DeqOK(setup, entry, L, node, head, tail, Views', t)
    BY <1>4, <1>2, <1>3, <2>5, <2>6 DEF Ready, Leads, After, DeqOK, DeqPoints, Safe, N0, v, v2, QueueOK, KindOK
  <2> QED
    BY <2>5, <2>7, <2>8, <2>9, <2>10, <2>11 DEF Leads, CallOK, v2
<1> QED
  BY <1>4

\* The last node has got a next one: TryEnqueue starts again.
LEMMA KeepsFailEnq == ASSUME LockFreeInv, NEW t \in Threads, At(t, "enqCas"), Becomes(t, [Local(t) EXCEPT !.at = "enqTail"]),
         UNCHANGED <<setup, guarding, heap>> PROVE LockFreeInv'
<1> DEFINE v  == Views[t]
           v2 == Views'[t]
<1>1. PICK L : thread \in [Threads -> ThreadRecs(setup)] /\ Entire(L)
  BY DEF LockFreeInv
<1>2. Ready(L, t)
  BY <1>1, Start
<1>3. v.at = "enqCas"
  BY <1>2 DEF At, Local, Ready
<1>4. CASE TRUE
  <2>1. Becomes(t, [Local(t) EXCEPT !.at = "enqTail"]) /\ UNCHANGED <<setup, guarding, heap>>
    BY <1>4, <1>2, <1>3 DEF At, v
  <2>2. [Local(t) EXCEPT !.at = "enqTail"] = Set(Local(t), "enqTail", Local(t).result, Local(t).value, Local(t).top, Local(t).last, Local(t).next)
    BY <1>2 DEF Ready, Set, CallRecs
  <2>3. QuietPoints(v, "enqTail", Local(t).top)
    BY <1>2, <1>3 DEF Ready, QuietPoints, CallPoints, StackPoints, EnqPoints, DeqPoints, HelpPoints, ScanPoints,
                      Adding, Taking, Indexed
  <2>4. Local(t).result \in Results /\ Local(t).value \in Values \cup {Nothing}
        /\ Local(t).top \in N0(setup) /\ Local(t).last \in N0(setup) /\ Local(t).next \in N0(setup)
    BY <1>4, <1>2, <1>3 DEF Ready, Results, N0, NodeRecs
  <2>5. Leads(L, t, entry, node, tail, "enqTail", Local(t).result, Local(t).value, Local(t).top, Local(t).last, Local(t).next)
    BY <1>1, <1>2, <2>1, <2>2, <2>3, <2>4, ReadAction DEF Ready
  <2>6. After(v, v2, "enqTail", Local(t).result, Local(t).value, Local(t).top, Local(t).last, Local(t).next)
    BY <2>5 DEF Leads
  <2> HIDE DEF v, v2
  <2>7. KindOK(setup, v2)
    BY <1>4, <1>2, <1>3, <2>6 DEF Ready, After, KindOK, StackPoints, EnqPoints, DeqPoints, v
  <2>8. PushOK(setup, node, v2)
    BY <1>4, <1>2, <1>3, <2>6 DEF Ready, After, PushOK, Adding, EnqPoints, v
  <2>9. PopOK(setup, entry, L, node, Views', t)
    BY <1>4, <1>2, <1>3, <2>5, <2>6 DEF Ready, Leads, After, PopOK, Taking, N0, Safe, v, v2
  <2>10. EnqOK(setup, entry, L, node, Views', t)
    BY <1>4, <1>2, <1>3, <2>5, <2>6 DEF Ready, Leads, After, EnqOK, Safe, N0, v, v2, QueueOK, KindOK, EnqPoints
  <2>11. DeqOK(setup, entry, L, node, head, tail, Views', t)
    BY <1>4, <1>2, <1>3, <2>5, <2>6 DEF Ready, Leads, After, DeqOK, DeqPoints, Safe, N0, v, v2, QueueOK, KindOK
  <2> QED
    BY <2>5, <2>7, <2>8, <2>9, <2>10, <2>11 DEF Leads, CallOK, v2
<1> QED
  BY <1>4

\* The head has changed: TryDequeue starts again.
LEMMA KeepsFailDeq == ASSUME LockFreeInv, NEW t \in Threads, At(t, "deqCas"), Becomes(t, [Local(t) EXCEPT !.at = "deq", !.value = Nothing]),
         UNCHANGED <<setup, guarding, heap>> PROVE LockFreeInv'
<1> DEFINE v  == Views[t]
           v2 == Views'[t]
<1>1. PICK L : thread \in [Threads -> ThreadRecs(setup)] /\ Entire(L)
  BY DEF LockFreeInv
<1>2. Ready(L, t)
  BY <1>1, Start
<1>3. v.at = "deqCas"
  BY <1>2 DEF At, Local, Ready
<1>4. CASE TRUE
  <2>1. Becomes(t, [Local(t) EXCEPT !.at = "deq", !.value = Nothing]) /\ UNCHANGED <<setup, guarding, heap>>
    BY <1>4, <1>2, <1>3 DEF At, v
  <2>2. [Local(t) EXCEPT !.at = "deq", !.value = Nothing] = Set(Local(t), "deq", Local(t).result, Nothing, Local(t).top, Local(t).last, Local(t).next)
    BY <1>2 DEF Ready, Set, CallRecs
  <2>3. QuietPoints(v, "deq", Local(t).top)
    BY <1>2, <1>3 DEF Ready, QuietPoints, CallPoints, StackPoints, EnqPoints, DeqPoints, HelpPoints, ScanPoints,
                      Adding, Taking, Indexed
  <2>4. Local(t).result \in Results /\ Nothing \in Values \cup {Nothing}
        /\ Local(t).top \in N0(setup) /\ Local(t).last \in N0(setup) /\ Local(t).next \in N0(setup)
    BY <1>4, <1>2, <1>3 DEF Ready, Results, N0, NodeRecs
  <2>5. Leads(L, t, entry, node, tail, "deq", Local(t).result, Nothing, Local(t).top, Local(t).last, Local(t).next)
    BY <1>1, <1>2, <2>1, <2>2, <2>3, <2>4, ReadAction DEF Ready
  <2>6. After(v, v2, "deq", Local(t).result, Nothing, Local(t).top, Local(t).last, Local(t).next)
    BY <2>5 DEF Leads
  <2> HIDE DEF v, v2
  <2>7. KindOK(setup, v2)
    BY <1>4, <1>2, <1>3, <2>6 DEF Ready, After, KindOK, StackPoints, EnqPoints, DeqPoints, v
  <2>8. PushOK(setup, node, v2)
    BY <1>4, <1>2, <1>3, <2>6 DEF Ready, After, PushOK, Adding, EnqPoints, v
  <2>9. PopOK(setup, entry, L, node, Views', t)
    BY <1>4, <1>2, <1>3, <2>5, <2>6 DEF Ready, Leads, After, PopOK, Taking, N0, Safe, v, v2
  <2>10. EnqOK(setup, entry, L, node, Views', t)
    BY <1>4, <1>2, <1>3, <2>5, <2>6 DEF Ready, Leads, After, EnqOK, Safe, N0, v, v2, QueueOK, KindOK, EnqPoints
  <2>11. DeqOK(setup, entry, L, node, head, tail, Views', t)
    BY <1>4, <1>2, <1>3, <2>5, <2>6 DEF Ready, Leads, After, DeqOK, DeqPoints, Safe, N0, v, v2, QueueOK, KindOK
  <2> QED
    BY <2>5, <2>7, <2>8, <2>9, <2>10, <2>11 DEF Leads, CallOK, v2
<1> QED
  BY <1>4

\* The pool is empty.
LEMMA KeepsFullStack == ASSUME LockFreeInv, NEW t \in Threads, At(t, "push"), Becomes(t, [Local(t) EXCEPT !.at = "return", !.result = "full"]),
         UNCHANGED <<setup, guarding, heap>> PROVE LockFreeInv'
<1> DEFINE v  == Views[t]
           v2 == Views'[t]
<1>1. PICK L : thread \in [Threads -> ThreadRecs(setup)] /\ Entire(L)
  BY DEF LockFreeInv
<1>2. Ready(L, t)
  BY <1>1, Start
<1>3. v.at = "push"
  BY <1>2 DEF At, Local, Ready
<1>4. CASE TRUE
  <2>1. Becomes(t, [Local(t) EXCEPT !.at = "return", !.result = "full"]) /\ UNCHANGED <<setup, guarding, heap>>
    BY <1>4, <1>2, <1>3 DEF At, v
  <2>2. [Local(t) EXCEPT !.at = "return", !.result = "full"] = Set(Local(t), "return", "full", Local(t).value, Local(t).top, Local(t).last, Local(t).next)
    BY <1>2 DEF Ready, Set, CallRecs
  <2>3. QuietPoints(v, "return", Local(t).top)
    BY <1>2, <1>3 DEF Ready, QuietPoints, CallPoints, StackPoints, EnqPoints, DeqPoints, HelpPoints, ScanPoints,
                      Adding, Taking, Indexed
  <2>4. "full" \in Results /\ Local(t).value \in Values \cup {Nothing}
        /\ Local(t).top \in N0(setup) /\ Local(t).last \in N0(setup) /\ Local(t).next \in N0(setup)
    BY <1>4, <1>2, <1>3 DEF Ready, Results, N0, NodeRecs
  <2>5. Leads(L, t, entry, node, tail, "return", "full", Local(t).value, Local(t).top, Local(t).last, Local(t).next)
    BY <1>1, <1>2, <2>1, <2>2, <2>3, <2>4, ReadAction DEF Ready
  <2>6. After(v, v2, "return", "full", Local(t).value, Local(t).top, Local(t).last, Local(t).next)
    BY <2>5 DEF Leads
  <2> HIDE DEF v, v2
  <2>7. KindOK(setup, v2)
    BY <1>4, <1>2, <1>3, <2>6 DEF Ready, After, KindOK, StackPoints, EnqPoints, DeqPoints, v
  <2>8. PushOK(setup, node, v2)
    BY <1>4, <1>2, <1>3, <2>6 DEF Ready, After, PushOK, Adding, EnqPoints, v
  <2>9. PopOK(setup, entry, L, node, Views', t)
    BY <1>4, <1>2, <1>3, <2>5, <2>6 DEF Ready, Leads, After, PopOK, Taking, N0, Safe, v, v2
  <2>10. EnqOK(setup, entry, L, node, Views', t)
    BY <1>4, <1>2, <1>3, <2>5, <2>6 DEF Ready, Leads, After, EnqOK, Safe, N0, v, v2, QueueOK, KindOK, EnqPoints
  <2>11. DeqOK(setup, entry, L, node, head, tail, Views', t)
    BY <1>4, <1>2, <1>3, <2>5, <2>6 DEF Ready, Leads, After, DeqOK, DeqPoints, Safe, N0, v, v2, QueueOK, KindOK
  <2> QED
    BY <2>5, <2>7, <2>8, <2>9, <2>10, <2>11 DEF Leads, CallOK, v2
<1> QED
  BY <1>4

\* The pool is empty.
LEMMA KeepsFullQueue == ASSUME LockFreeInv, NEW t \in Threads, At(t, "enq"), Becomes(t, [Local(t) EXCEPT !.at = "return", !.result = "full"]),
         UNCHANGED <<setup, guarding, heap>> PROVE LockFreeInv'
<1> DEFINE v  == Views[t]
           v2 == Views'[t]
<1>1. PICK L : thread \in [Threads -> ThreadRecs(setup)] /\ Entire(L)
  BY DEF LockFreeInv
<1>2. Ready(L, t)
  BY <1>1, Start
<1>3. v.at = "enq"
  BY <1>2 DEF At, Local, Ready
<1>4. CASE TRUE
  <2>1. Becomes(t, [Local(t) EXCEPT !.at = "return", !.result = "full"]) /\ UNCHANGED <<setup, guarding, heap>>
    BY <1>4, <1>2, <1>3 DEF At, v
  <2>2. [Local(t) EXCEPT !.at = "return", !.result = "full"] = Set(Local(t), "return", "full", Local(t).value, Local(t).top, Local(t).last, Local(t).next)
    BY <1>2 DEF Ready, Set, CallRecs
  <2>3. QuietPoints(v, "return", Local(t).top)
    BY <1>2, <1>3 DEF Ready, QuietPoints, CallPoints, StackPoints, EnqPoints, DeqPoints, HelpPoints, ScanPoints,
                      Adding, Taking, Indexed
  <2>4. "full" \in Results /\ Local(t).value \in Values \cup {Nothing}
        /\ Local(t).top \in N0(setup) /\ Local(t).last \in N0(setup) /\ Local(t).next \in N0(setup)
    BY <1>4, <1>2, <1>3 DEF Ready, Results, N0, NodeRecs
  <2>5. Leads(L, t, entry, node, tail, "return", "full", Local(t).value, Local(t).top, Local(t).last, Local(t).next)
    BY <1>1, <1>2, <2>1, <2>2, <2>3, <2>4, ReadAction DEF Ready
  <2>6. After(v, v2, "return", "full", Local(t).value, Local(t).top, Local(t).last, Local(t).next)
    BY <2>5 DEF Leads
  <2> HIDE DEF v, v2
  <2>7. KindOK(setup, v2)
    BY <1>4, <1>2, <1>3, <2>6 DEF Ready, After, KindOK, StackPoints, EnqPoints, DeqPoints, v
  <2>8. PushOK(setup, node, v2)
    BY <1>4, <1>2, <1>3, <2>6 DEF Ready, After, PushOK, Adding, EnqPoints, v
  <2>9. PopOK(setup, entry, L, node, Views', t)
    BY <1>4, <1>2, <1>3, <2>5, <2>6 DEF Ready, Leads, After, PopOK, Taking, N0, Safe, v, v2
  <2>10. EnqOK(setup, entry, L, node, Views', t)
    BY <1>4, <1>2, <1>3, <2>5, <2>6 DEF Ready, Leads, After, EnqOK, Safe, N0, v, v2, QueueOK, KindOK, EnqPoints
  <2>11. DeqOK(setup, entry, L, node, head, tail, Views', t)
    BY <1>4, <1>2, <1>3, <2>5, <2>6 DEF Ready, Leads, After, DeqOK, DeqPoints, Safe, N0, v, v2, QueueOK, KindOK
  <2> QED
    BY <2>5, <2>7, <2>8, <2>9, <2>10, <2>11 DEF Leads, CallOK, v2
<1> QED
  BY <1>4

\* All entries have been looked at.
LEMMA KeepsHelpEnds == ASSUME LockFreeInv, NEW t \in Threads, At(t, "help"), Becomes(t, [Local(t) EXCEPT !.at = "return"]),
         UNCHANGED <<setup, guarding, heap>> PROVE LockFreeInv'
<1> DEFINE v  == Views[t]
           v2 == Views'[t]
<1>1. PICK L : thread \in [Threads -> ThreadRecs(setup)] /\ Entire(L)
  BY DEF LockFreeInv
<1>2. Ready(L, t)
  BY <1>1, Start
<1>3. v.at = "help"
  BY <1>2 DEF At, Local, Ready
<1>4. CASE TRUE
  <2>1. Becomes(t, [Local(t) EXCEPT !.at = "return"]) /\ UNCHANGED <<setup, guarding, heap>>
    BY <1>4, <1>2, <1>3 DEF At, v
  <2>2. [Local(t) EXCEPT !.at = "return"] = Set(Local(t), "return", Local(t).result, Local(t).value, Local(t).top, Local(t).last, Local(t).next)
    BY <1>2 DEF Ready, Set, CallRecs
  <2>3. QuietPoints(v, "return", Local(t).top)
    BY <1>2, <1>3 DEF Ready, QuietPoints, CallPoints, StackPoints, EnqPoints, DeqPoints, HelpPoints, ScanPoints,
                      Adding, Taking, Indexed
  <2>4. Local(t).result \in Results /\ Local(t).value \in Values \cup {Nothing}
        /\ Local(t).top \in N0(setup) /\ Local(t).last \in N0(setup) /\ Local(t).next \in N0(setup)
    BY <1>4, <1>2, <1>3 DEF Ready, Results, N0, NodeRecs
  <2>5. Leads(L, t, entry, node, tail, "return", Local(t).result, Local(t).value, Local(t).top, Local(t).last, Local(t).next)
    BY <1>1, <1>2, <2>1, <2>2, <2>3, <2>4, ReadAction DEF Ready
  <2>6. After(v, v2, "return", Local(t).result, Local(t).value, Local(t).top, Local(t).last, Local(t).next)
    BY <2>5 DEF Leads
  <2> HIDE DEF v, v2
  <2>7. KindOK(setup, v2)
    BY <1>4, <1>2, <1>3, <2>6 DEF Ready, After, KindOK, StackPoints, EnqPoints, DeqPoints, v
  <2>8. PushOK(setup, node, v2)
    BY <1>4, <1>2, <1>3, <2>6 DEF Ready, After, PushOK, Adding, EnqPoints, v
  <2>9. PopOK(setup, entry, L, node, Views', t)
    BY <1>4, <1>2, <1>3, <2>5, <2>6 DEF Ready, Leads, After, PopOK, Taking, N0, Safe, v, v2
  <2>10. EnqOK(setup, entry, L, node, Views', t)
    BY <1>4, <1>2, <1>3, <2>5, <2>6 DEF Ready, Leads, After, EnqOK, Safe, N0, v, v2, QueueOK, KindOK, EnqPoints
  <2>11. DeqOK(setup, entry, L, node, head, tail, Views', t)
    BY <1>4, <1>2, <1>3, <2>5, <2>6 DEF Ready, Leads, After, DeqOK, DeqPoints, Safe, N0, v, v2, QueueOK, KindOK
  <2> QED
    BY <2>5, <2>7, <2>8, <2>9, <2>10, <2>11 DEF Leads, CallOK, v2
<1> QED
  BY <1>4

-----------------------------------------------------------------------------
(* The tail is moved, and a new node is linked                             *)

\* A link that leads somewhere leads into the list, and not to its head.
LEMMA NextNodes ==
  ASSUME NEW s, NEW nd, NEW h, NEW L, Linked(s, nd, h, L), NULL \notin Nds(s)
  PROVE  \A n \in Range(L) : nd[n].next # NULL => nd[n].next \in Range(L) /\ nd[n].next # h
<1>1. L \in Seq(Nds(s)) /\ Len(L) \in Nat
  BY DEF Linked
<1>2. ASSUME NEW k \in 1..Len(L), nd[L[k]].next # NULL
      PROVE  nd[L[k]].next \in Range(L) /\ nd[L[k]].next # h
  <2>1. k # Len(L) /\ nd[L[k]].next = L[k + 1]
    BY <1>2 DEF Linked
  <2>2. k + 1 \in 1..Len(L) /\ 1 \in 1..Len(L) /\ k + 1 # 1
    BY <1>1, <2>1
  <2>3. L[k + 1] # L[1] /\ h = L[1]
    BY <1>1, <2>2 DEF Linked
  <2>4. L[k + 1] \in Range(L)
    BY <1>1, <2>2 DEF Range
  <2> QED
    BY <2>1, <2>3, <2>4
<1>3. \A n \in Range(L) : \E k \in 1..Len(L) : n = L[k]
  BY <1>1 DEF Range
<1> QED
  BY <1>2, <1>3

\* A step that moves the tail to the next node: it remains to show what the thread knows.
LEMMA SwingAction ==
  ASSUME NEW t \in Threads, NEW L, thread \in [Threads -> ThreadRecs(setup)], Entire(L),
         NEW a, NEW r \in Results, NEW va \in Values \cup {Nothing},
         NEW tp \in N0(setup), NEW la \in N0(setup), NEW ne \in N0(setup),
         NEW old \in Nds(setup), NEW new, node[old].next = new, new # NULL,
         tail' = IF tail = old THEN new ELSE tail,
         Becomes(t, Set(Local(t), a, r, va, tp, la, ne)),
         UNCHANGED <<setup, guarding, pool, node, head>>, QuietPoints(Views[t], a, tp),
         setup.kind = "queue"
  PROVE  Leads(L, t, entry, node, tail', a, r, va, tp, la, ne)
<1>1. /\ entry' = entry /\ node' = node /\ setup' = setup /\ counter' = counter
      /\ active_hazard_pointer' = active_hazard_pointer /\ pool' = pool /\ head' = head
  BY DEF guarding
<1>2. Ready(L, t)
  BY Start
<1>3. Linked(setup, node, head, L) /\ NULL \notin Nds(setup) /\ tail \in Range(L) /\ Range(L) \subseteq Nds(setup)
  BY <1>2 DEF Ready
<1>4. tail = old => new \in Range(L) /\ new # head
  BY <1>3, NextNodes
<1>5. Gentle(setup, entry, L, node, head, tail, Views, entry', node', tail', t)
  BY <1>1, <1>4 DEF Gentle, SameLists
<1>6. entry' \in [Ents(setup) -> EntryRecs(setup)] /\ node' \in [Nds(setup) -> NodeRecs(setup)] /\ tail' \in N0(setup)
  BY <1>1, <1>2, <1>3, <1>4 DEF Ready, N0
<1>7. Leads(L, t, entry', node', tail', a, r, va, tp, la, ne)
  BY <1>1, <1>5, <1>6, SetAction
<1> QED
  BY <1>1, <1>7

\* TryEnqueue helps another call to move the tail.
LEMMA KeepsEnqSwing == ASSUME LockFreeInv, NEW t \in Threads, EnqSwing(t) PROVE LockFreeInv'
<1> DEFINE v  == Views[t]
           v2 == Views'[t]
<1>1. PICK L : thread \in [Threads -> ThreadRecs(setup)] /\ Entire(L)
  BY DEF LockFreeInv
<1>2. Ready(L, t)
  BY <1>1, Start
<1>3. /\ At(t, "enqSwing") /\ Becomes(t, [Local(t) EXCEPT !.at = "enqTail"])
      /\ tail' = IF tail = Local(t).last THEN Local(t).next ELSE tail
      /\ UNCHANGED <<setup, guarding, pool, node, head>>
  BY DEF EnqSwing, SwingTail
<1>4. v.at = "enqSwing"
  BY <1>2, <1>3 DEF At, Local, Ready
<1>5. [Local(t) EXCEPT !.at = "enqTail"] = Set(Local(t), "enqTail", Local(t).result, Local(t).value, Local(t).top, Local(t).last, Local(t).next)
  BY <1>2 DEF Ready, Set, CallRecs
<1>6. QuietPoints(v, "enqTail", Local(t).top)
  BY <1>2, <1>4 DEF Ready, QuietPoints, CallPoints, StackPoints, EnqPoints, DeqPoints, HelpPoints, ScanPoints,
                    Adding, Taking, Indexed
<1>7. Local(t).last \in Nds(setup) /\ node[Local(t).last].next = Local(t).next /\ Local(t).next # NULL
  BY <1>2, <1>4 DEF Ready, EnqOK, DeqOK, DeqPoints, Safe
<1>8. Leads(L, t, entry, node, tail', "enqTail", Local(t).result, Local(t).value, Local(t).top, Local(t).last, Local(t).next)
  <2>1. Becomes(t, Set(Local(t), "enqTail", Local(t).result, Local(t).value, Local(t).top, Local(t).last, Local(t).next))
    BY <1>3, <1>5
  <2>2. setup.kind = "queue"
    BY <1>2, <1>4 DEF Ready, KindOK, EnqPoints, DeqPoints
  <2> QED
    BY <1>1, <1>2, <1>3, <1>6, <1>7, <2>1, <2>2, SwingAction DEF Ready
<1>9. After(v, v2, "enqTail", Local(t).result, Local(t).value, Local(t).top, Local(t).last, Local(t).next)
  BY <1>8 DEF Leads
<1> HIDE DEF v, v2
<1>10. KindOK(setup, v2)
  BY <1>2, <1>4, <1>9 DEF Ready, After, KindOK, StackPoints, EnqPoints, DeqPoints, v
<1>11. PushOK(setup, node, v2)
  BY <1>2, <1>4, <1>9 DEF Ready, After, PushOK, Adding, EnqPoints, v
<1>12. PopOK(setup, entry, L, node, Views', t)
  BY <1>9 DEF After, PopOK, Taking, v2
<1>13. EnqOK(setup, entry, L, node, Views', t)
  BY <1>9 DEF After, EnqOK, v2
<1>14. DeqOK(setup, entry, L, node, head, tail', Views', t)
  BY <1>9 DEF After, DeqOK, DeqPoints, v2
<1> QED
  BY <1>8, <1>10, <1>11, <1>12, <1>13, <1>14 DEF Leads, CallOK, v2

\* TryEnqueue moves the tail to its own node.
LEMMA KeepsEnqDone == ASSUME LockFreeInv, NEW t \in Threads, EnqDone(t) PROVE LockFreeInv'
<1> DEFINE v  == Views[t]
           v2 == Views'[t]
<1>1. PICK L : thread \in [Threads -> ThreadRecs(setup)] /\ Entire(L)
  BY DEF LockFreeInv
<1>2. Ready(L, t)
  BY <1>1, Start
<1>3. /\ At(t, "enqDone") /\ Becomes(t, [Local(t) EXCEPT !.at = "return"])
      /\ tail' = IF tail = Local(t).last THEN Local(t).mine ELSE tail
      /\ UNCHANGED <<setup, guarding, pool, node, head>>
  BY DEF EnqDone, SwingTail
<1>4. v.at = "enqDone"
  BY <1>2, <1>3 DEF At, Local, Ready
<1>5. [Local(t) EXCEPT !.at = "return"] = Set(Local(t), "return", Local(t).result, Local(t).value, Local(t).top, Local(t).last, Local(t).next)
  BY <1>2 DEF Ready, Set, CallRecs
<1>6. QuietPoints(v, "return", Local(t).top)
  BY <1>2, <1>4 DEF Ready, QuietPoints, CallPoints, StackPoints, EnqPoints, DeqPoints, HelpPoints, ScanPoints,
                    Adding, Taking, Indexed
<1>7. Local(t).last \in Nds(setup) /\ node[Local(t).last].next = Local(t).mine /\ Local(t).mine # NULL
  BY <1>2, <1>4 DEF Ready, EnqOK, DeqOK, DeqPoints, Safe
<1>8. Leads(L, t, entry, node, tail', "return", Local(t).result, Local(t).value, Local(t).top, Local(t).last, Local(t).next)
  <2>1. Becomes(t, Set(Local(t), "return", Local(t).result, Local(t).value, Local(t).top, Local(t).last, Local(t).next))
    BY <1>3, <1>5
  <2>2. setup.kind = "queue"
    BY <1>2, <1>4 DEF Ready, KindOK, EnqPoints, DeqPoints
  <2> QED
    BY <1>1, <1>2, <1>3, <1>6, <1>7, <2>1, <2>2, SwingAction DEF Ready
<1>9. After(v, v2, "return", Local(t).result, Local(t).value, Local(t).top, Local(t).last, Local(t).next)
  BY <1>8 DEF Leads
<1> HIDE DEF v, v2
<1>10. KindOK(setup, v2)
  BY <1>2, <1>4, <1>9 DEF Ready, After, KindOK, StackPoints, EnqPoints, DeqPoints, v
<1>11. PushOK(setup, node, v2)
  BY <1>2, <1>4, <1>9 DEF Ready, After, PushOK, Adding, EnqPoints, v
<1>12. PopOK(setup, entry, L, node, Views', t)
  BY <1>9 DEF After, PopOK, Taking, v2
<1>13. EnqOK(setup, entry, L, node, Views', t)
  BY <1>9 DEF After, EnqOK, v2
<1>14. DeqOK(setup, entry, L, node, head, tail', Views', t)
  BY <1>9 DEF After, DeqOK, DeqPoints, v2
<1> QED
  BY <1>8, <1>10, <1>11, <1>12, <1>13, <1>14 DEF Leads, CallOK, v2

\* TryDequeue helps another call to move the tail.
LEMMA KeepsDeqSwing == ASSUME LockFreeInv, NEW t \in Threads, DeqSwing(t) PROVE LockFreeInv'
<1> DEFINE v  == Views[t]
           v2 == Views'[t]
<1>1. PICK L : thread \in [Threads -> ThreadRecs(setup)] /\ Entire(L)
  BY DEF LockFreeInv
<1>2. Ready(L, t)
  BY <1>1, Start
<1>3. /\ At(t, "deqSwing") /\ Becomes(t, [Local(t) EXCEPT !.at = "deq"])
      /\ tail' = IF tail = Local(t).last THEN Local(t).next ELSE tail
      /\ UNCHANGED <<setup, guarding, pool, node, head>>
  BY DEF DeqSwing, SwingTail
<1>4. v.at = "deqSwing"
  BY <1>2, <1>3 DEF At, Local, Ready
<1>5. [Local(t) EXCEPT !.at = "deq"] = Set(Local(t), "deq", Local(t).result, Local(t).value, Local(t).top, Local(t).last, Local(t).next)
  BY <1>2 DEF Ready, Set, CallRecs
<1>6. QuietPoints(v, "deq", Local(t).top)
  BY <1>2, <1>4 DEF Ready, QuietPoints, CallPoints, StackPoints, EnqPoints, DeqPoints, HelpPoints, ScanPoints,
                    Adding, Taking, Indexed
<1>7. Local(t).last \in Nds(setup) /\ node[Local(t).last].next = Local(t).next /\ Local(t).next # NULL
  BY <1>2, <1>4 DEF Ready, EnqOK, DeqOK, DeqPoints, Safe
<1>8. Leads(L, t, entry, node, tail', "deq", Local(t).result, Local(t).value, Local(t).top, Local(t).last, Local(t).next)
  <2>1. Becomes(t, Set(Local(t), "deq", Local(t).result, Local(t).value, Local(t).top, Local(t).last, Local(t).next))
    BY <1>3, <1>5
  <2>2. setup.kind = "queue"
    BY <1>2, <1>4 DEF Ready, KindOK, EnqPoints, DeqPoints
  <2> QED
    BY <1>1, <1>2, <1>3, <1>6, <1>7, <2>1, <2>2, SwingAction DEF Ready
<1>9. After(v, v2, "deq", Local(t).result, Local(t).value, Local(t).top, Local(t).last, Local(t).next)
  BY <1>8 DEF Leads
<1> HIDE DEF v, v2
<1>10. KindOK(setup, v2)
  BY <1>2, <1>4, <1>9 DEF Ready, After, KindOK, StackPoints, EnqPoints, DeqPoints, v
<1>11. PushOK(setup, node, v2)
  BY <1>2, <1>4, <1>9 DEF Ready, After, PushOK, Adding, EnqPoints, v
<1>12. PopOK(setup, entry, L, node, Views', t)
  BY <1>9 DEF After, PopOK, Taking, v2
<1>13. EnqOK(setup, entry, L, node, Views', t)
  BY <1>9 DEF After, EnqOK, v2
<1>14. DeqOK(setup, entry, L, node, head, tail', Views', t)
  BY <1>9 DEF After, DeqOK, DeqPoints, v2
<1> QED
  BY <1>8, <1>10, <1>11, <1>12, <1>13, <1>14 DEF Leads, CallOK, v2

\* TryPush links its node, which nobody else can see, to the top.
LEMMA KeepsPushTop == ASSUME LockFreeInv, NEW t \in Threads, PushTop(t) PROVE LockFreeInv'
<1> DEFINE v  == Views[t]
           v2 == Views'[t]
           m  == Local(t).mine
<1>1. PICK L : thread \in [Threads -> ThreadRecs(setup)] /\ Entire(L)
  BY DEF LockFreeInv
<1>2. Ready(L, t)
  BY <1>1, Start
<1>3. /\ At(t, "pushTop") /\ Becomes(t, [Local(t) EXCEPT !.at = "pushCas", !.top = head])
      /\ node' = [node EXCEPT ![m].next = head]
      /\ UNCHANGED <<setup, guarding, pool, head, tail>>
  BY DEF PushTop
<1>4. v.at = "pushTop" /\ m = v.mine
  BY <1>2, <1>3 DEF At, Local, Ready
<1>5. m \in Nds(setup) /\ v.at \in Adding
  BY <1>2, <1>4 DEF Ready, PushOK, Adding
<1>6. node' \in [Nds(setup) -> NodeRecs(setup)] /\ node'[m].next = head
      /\ \A n \in Nds(setup) : n # m => node'[n] = node[n]
  <2>1. node \in [Nds(setup) -> NodeRecs(setup)] /\ head \in N0(setup)
    BY <1>2 DEF Ready
  <2>2. node[m] \in NodeRecs(setup)
    BY <1>5, <2>1
  <2>3. [node[m] EXCEPT !.next = head] \in NodeRecs(setup) /\ [node[m] EXCEPT !.next = head].next = head
    BY <2>1, <2>2 DEF NodeRecs
  <2>4. node' = [node EXCEPT ![m] = [node[m] EXCEPT !.next = head]]
    BY <1>3
  <2> QED
    BY <1>5, <2>1, <2>3, <2>4
<1>7. entry' = entry /\ tail' = tail /\ setup' = setup /\ counter' = counter
      /\ active_hazard_pointer' = active_hazard_pointer /\ pool' = pool /\ head' = head
  BY <1>3 DEF guarding
<1>8. Gentle(setup, entry, L, node, head, tail, Views, entry', node', tail', t)
  BY <1>4, <1>5, <1>6, <1>7 DEF Gentle, SameLists
<1>9. QuietPoints(v, "pushCas", head)
  BY <1>4 DEF QuietPoints, CallPoints, StackPoints, EnqPoints, DeqPoints, HelpPoints, ScanPoints, Adding,
              Taking, Indexed
<1>10. Becomes(t, Set(Local(t), "pushCas", Local(t).result, Local(t).value, head, Local(t).last, Local(t).next))
  <2>1. [Local(t) EXCEPT !.at = "pushCas", !.top = head]
        = Set(Local(t), "pushCas", Local(t).result, Local(t).value, head, Local(t).last, Local(t).next)
    BY <1>2 DEF Ready, Set, CallRecs
  <2> QED
    BY <1>3, <2>1
<1>11. Leads(L, t, entry', node', tail', "pushCas", Local(t).result, Local(t).value, head, Local(t).last, Local(t).next)
  BY <1>1, <1>2, <1>6, <1>7, <1>8, <1>9, <1>10, SetAction DEF Ready
<1>12. After(v, v2, "pushCas", Local(t).result, Local(t).value, head, Local(t).last, Local(t).next)
  BY <1>11 DEF Leads
<1> HIDE DEF v, v2, m
<1>13. KindOK(setup, v2)
  BY <1>2, <1>4, <1>12 DEF Ready, After, KindOK, StackPoints, EnqPoints, DeqPoints, v
<1>14. PushOK(setup, node', v2)
  BY <1>4, <1>5, <1>6, <1>12 DEF After, PushOK, Adding, EnqPoints
<1>15. PopOK(setup, entry', L, node', Views', t)
  BY <1>12 DEF After, PopOK, Taking, v2
<1>16. EnqOK(setup, entry', L, node', Views', t)
  BY <1>12 DEF After, EnqOK, v2
<1>17. DeqOK(setup, entry', L, node', head, tail', Views', t)
  BY <1>12 DEF After, DeqOK, DeqPoints, v2
<1> QED
  BY <1>11, <1>13, <1>14, <1>15, <1>16, <1>17 DEF Leads, CallOK, v2

-----------------------------------------------------------------------------
(* The beginning and the end of a call, and an entry that needs no help    *)

\* Nothing is asked of a call that is at none of the points of the containers.
LEMMA Nowhere ==
  ASSUME NEW s, NEW E, NEW L, NEW nd, NEW h, NEW tl, NEW V, NEW t,
         V[t].at \in {"idle", "return", "help", "scan", "free", "helped"}
  PROVE  CallOK(s, E, L, nd, h, tl, V, t)
<1>1. KindOK(s, V[t]) /\ PushOK(s, nd, V[t])
  BY DEF KindOK, PushOK, StackPoints, EnqPoints, DeqPoints, Adding
<1>2. PopOK(s, E, L, nd, V, t) /\ EnqOK(s, E, L, nd, V, t)
  BY DEF PopOK, EnqOK, Taking
<1>3. DeqOK(s, E, L, nd, h, tl, V, t)
  BY DEF DeqOK, DeqPoints
<1> QED
  BY <1>1, <1>2, <1>3 DEF CallOK

\* Nor has one that is about to leave.
LEMMA Leaving ==
  ASSUME NEW s, NEW E, NEW L, NEW nd, NEW h, NEW tl, NEW V, NEW t,
         V[t].at \in {"leaveRead", "leaveWrite"}, V[t].op = "leave", V[t].todo = <<>>,
         V[t].result = Nothing
  PROVE  CallOK(s, E, L, nd, h, tl, V, t)
<1>1. KindOK(s, V[t]) /\ PushOK(s, nd, V[t])
  BY DEF KindOK, PushOK, StackPoints, EnqPoints, DeqPoints, Adding
<1>2. PopOK(s, E, L, nd, V, t) /\ EnqOK(s, E, L, nd, V, t)
  BY DEF PopOK, EnqOK, Taking
<1>3. DeqOK(s, E, L, nd, h, tl, V, t)
  BY DEF DeqOK, DeqPoints
<1> QED
  BY <1>1, <1>2, <1>3 DEF CallOK

\* An active entry is passed over.
LEMMA KeepsHelpNext ==
  ASSUME LockFreeInv, NEW t \in Threads, At(t, "help"), NEW j \in Nat,
         Becomes(t, [Local(t) EXCEPT !.help = j]), UNCHANGED <<setup, guarding, heap>>
  PROVE  LockFreeInv'
<1> DEFINE c == [Local(t) EXCEPT !.help = j]
<1>1. PICK L : thread \in [Threads -> ThreadRecs(setup)] /\ Entire(L)
  BY DEF LockFreeInv
<1>2. Ready(L, t)
  BY <1>1, Start
<1>3. c \in CallRecs(setup) /\ c.at = "help" /\ Views[t].at = "help"
  BY <1>2 DEF Ready, CallRecs, At, Local
<1>4. /\ entry' = entry /\ node' = node /\ tail' = tail /\ setup' = setup /\ counter' = counter
      /\ active_hazard_pointer' = active_hazard_pointer /\ pool' = pool /\ head' = head
  BY DEF guarding, heap
<1> HIDE DEF c
<1>5. Silent(Views[t], With(Views[t], c))
  BY <1>2, <1>3 DEF Silent, Settled, With, Ready, Finished, HelpPoints, ScanPoints, Adding, Taking, Indexed
<1>6. Gentle(setup, entry, L, node, head, tail, Views, entry', node', tail', t)
  BY <1>4 DEF Gentle, SameLists
<1>7. entry' \in [Ents(setup) -> EntryRecs(setup)] /\ node' \in [Nds(setup) -> NodeRecs(setup)] /\ tail' \in N0(setup)
  BY <1>2, <1>4 DEF Ready
<1>8. Views'[t] = With(Views[t], c)
      /\ (CallOK(setup, entry', L, node', head, tail', Views', t) => LockFreeInv')
  <2>1. Becomes(t, c)
    BY DEF c
  <2> QED
    BY <1>1, <1>3, <1>4, <1>5, <1>6, <1>7, <2>1, QuietAction
<1>9. Views'[t].at = "help"
  BY <1>3, <1>8 DEF With
<1> QED
  BY <1>8, <1>9, Nowhere

\* A thread between two calls.
LEMMA IdleCall ==
  ASSUME NEW s \in Setups
  PROVE  Idle \in CallRecs(s) /\ Idle.at = "idle" /\ Idle.result = Nothing /\ Idle.op = "idle"
<1>1. 0 \in {n \in Int : n <= s.max_threads}
  BY Sizes
<1> QED
  BY <1>1 DEF CallRecs, CallPoints, N0, Results, Idle

\* The call returns.
LEMMA KeepsReturn == ASSUME LockFreeInv, NEW t \in Threads, Return(t) PROVE LockFreeInv'
<1>1. PICK L : thread \in [Threads -> ThreadRecs(setup)] /\ Entire(L)
  BY DEF LockFreeInv
<1>2. Ready(L, t)
  BY <1>1, Start
<1>3. At(t, "return") /\ Becomes(t, Idle) /\ UNCHANGED <<setup, guarding, heap>>
  BY DEF Return
<1>4. Idle \in CallRecs(setup) /\ Idle.at = "idle" /\ Views[t].at = "return"
  BY <1>1, <1>2, <1>3, Known, IdleCall DEF Ready, At, Local
<1>5. /\ entry' = entry /\ node' = node /\ tail' = tail /\ setup' = setup /\ counter' = counter
      /\ active_hazard_pointer' = active_hazard_pointer /\ pool' = pool /\ head' = head
  BY <1>3 DEF guarding, heap
<1>6. Silent(Views[t], With(Views[t], Idle))
  BY <1>2, <1>4 DEF Silent, Settled, With, Finished, HelpPoints, ScanPoints, Adding, Taking, Indexed, DeqPoints
<1>7. Gentle(setup, entry, L, node, head, tail, Views, entry', node', tail', t)
  BY <1>5 DEF Gentle, SameLists
<1>8. entry' \in [Ents(setup) -> EntryRecs(setup)] /\ node' \in [Nds(setup) -> NodeRecs(setup)] /\ tail' \in N0(setup)
  BY <1>2, <1>5 DEF Ready
<1>9. Views'[t] = With(Views[t], Idle)
      /\ (CallOK(setup, entry', L, node', head, tail', Views', t) => LockFreeInv')
  BY <1>1, <1>3, <1>4, <1>5, <1>6, <1>7, <1>8, QuietAction
<1>10. Views'[t].at = "idle"
  BY <1>4, <1>9 DEF With
<1> QED
  BY <1>9, <1>10, Nowhere

\* The next operation of the program begins.
LEMMA KeepsBegin == ASSUME LockFreeInv, NEW t \in Threads, Begin(t) PROVE LockFreeInv'
<1> DEFINE q == thread[t].todo
           o == Head(q)
           c == [Idle EXCEPT !.at = Entry(o.op), !.op = o.op, !.value = o.value]
           x == [thread[t] EXCEPT !.todo = Tail(q), !.call = c]
           v == Views[t]
<1>1. PICK L : thread \in [Threads -> ThreadRecs(setup)] /\ Entire(L)
  BY DEF LockFreeInv
<1>2. Ready(L, t)
  BY <1>1, Start
<1>3. At(t, "idle") /\ q # <<>> /\ UNCHANGED <<setup, guarding, heap>>
      /\ thread' = [thread EXCEPT ![t].todo = Tail(@), ![t].call = c]
  BY DEF Begin
<1>4. thread[t] \in ThreadRecs(setup) /\ q \in Seq(Ops) /\ thread[t].index \in Int
      /\ v.todo = q /\ v.at = "idle" /\ v.index = thread[t].index
  BY <1>1, <1>3, ViewFields DEF ThreadRecs, At, Local
<1>5. o \in Ops /\ Tail(q) \in Seq(Ops) /\ Len(q) \in Nat \ {0} /\ o = q[1]
      /\ Len(Tail(q)) = Len(q) - 1 /\ \A k \in 1..(Len(q) - 1) : Tail(q)[k] = q[k + 1]
  BY <1>3, <1>4
<1>6. thread' = [thread EXCEPT ![t] = x]
  BY <1>1, <1>3
<1>7. o.op \in {"put", "get", "leave"} /\ o.value \in Values \cup {Nothing}
  BY <1>5 DEF Ops
<1>8. /\ Entry(o.op) \in {"leave", "push", "enq", "pop", "deq"}
      /\ Entry(o.op) = "leave" <=> o.op = "leave"
      /\ Entry(o.op) \in {"push", "enq"} => o.op = "put"
      /\ Entry(o.op) \in {"pop", "deq"} => o.op = "get"
      /\ Entry(o.op) \in {"push", "pop"} => setup.kind = "stack"
      /\ Entry(o.op) \in {"enq", "deq"} => setup.kind = "queue"
  <2>1. setup.kind \in {"stack", "queue"}
    BY <1>1, Known, Sizes
  <2> QED
    BY <1>7, <2>1 DEF Entry
<1>9. c \in CallRecs(setup) /\ c.at = Entry(o.op) /\ c.op = o.op /\ c.result = Nothing
  <2>1. Idle \in CallRecs(setup) /\ Idle.result = Nothing
    BY <1>1, Known, IdleCall
  <2>2. Entry(o.op) \in CallPoints /\ o.op \in {"idle", "put", "get", "leave"}
    BY <1>7, <1>8 DEF CallPoints, StackPoints, EnqPoints, DeqPoints
  <2> HIDE DEF o
  <2> QED
    BY <1>7, <2>1, <2>2 DEF CallRecs
<1> HIDE DEF c
<1>10. x \in ThreadRecs(setup) /\ x.index = thread[t].index /\ x.todo = Tail(q) /\ x.call = c
  BY <1>4, <1>5, <1>9 DEF ThreadRecs
<1> HIDE DEF x
<1> DEFINE v2 == View(x)
<1>11. v2 \in ViewRecs(setup) /\ v2.index = v.index /\ v2.todo = Tail(q) /\ v2.at = Entry(o.op) /\ v2.op = o.op
       /\ v2.result = Nothing
  <2>1. v2 \in ViewRecs(setup)
    BY <1>4, <1>5, <1>9, <1>10 DEF View, ViewRecs, CallRecs
  <2> QED
    BY <1>4, <1>9, <1>10, <2>1 DEF View
<1>12. thread' \in [Threads -> ThreadRecs(setup)] /\ Views' = [Views EXCEPT ![t] = v2]
  BY <1>1, <1>6, <1>10 DEF Views
<1>13. Moves(Views, Views', t, v2) /\ Views' \in [Threads -> ViewRecs(setup)] /\ Views'[t] = v2
  <2>1. Views \in [Threads -> ViewRecs(setup)]
    BY <1>1 DEF Entire, Parts, Shapes
  <2> HIDE DEF Views, v2
  <2> QED
    BY <1>11, <1>12, <2>1 DEF Moves
<1> HIDE DEF v2
<1>14. LeavesLast(v2)
  <2>1. \A k \in DOMAIN q : q[k].op = "leave" => k = Len(q)
    BY <1>1, <1>4, Known DEF Leaves
  <2>2. \A k \in DOMAIN Tail(q) : Tail(q)[k].op = "leave" => k = Len(Tail(q))
    BY <1>4, <1>5, <2>1
  <2>3. v2.at = "leave" => Tail(q) = <<>>
    <3>1. 1 \in DOMAIN q
      BY <1>4, <1>5
    <3>2. v2.at = "leave" => q[1].op = "leave"
      <4>1. o = q[1]
        BY <1>5
      <4> HIDE DEF o
      <4> QED
        BY <1>8, <1>11, <4>1
    <3>3. v2.at = "leave" => 1 = Len(q)
      BY <2>1, <3>1, <3>2
    <3>4. \A z \in Seq(Ops) : Len(z) = 0 => z = <<>>
      OBVIOUS
    <3>5. v2.at = "leave" => Len(Tail(q)) = 0
      BY <1>5, <3>3
    <3> QED
      BY <1>5, <3>4, <3>5
  <2> QED
    BY <1>11, <2>2, <2>3 DEF LeavesLast
<1>15. Silent(v, v2)
  BY <1>3, <1>4, <1>8, <1>11 DEF Silent, Settled, Finished, HelpPoints, ScanPoints, Adding, Taking, Indexed, DeqPoints
<1>16. /\ entry' = entry /\ node' = node /\ tail' = tail /\ setup' = setup /\ counter' = counter
       /\ active_hazard_pointer' = active_hazard_pointer /\ pool' = pool /\ head' = head
  BY <1>3 DEF guarding, heap
<1>17. Gentle(setup, entry, L, node, head, tail, Views, entry', node', tail', t)
  BY <1>16 DEF Gentle, SameLists
<1>18. CallOK(setup, entry', L, node', head, tail', Views', t)
  <2>1. KindOK(setup, v2) /\ PushOK(setup, node', v2)
    BY <1>8, <1>11 DEF KindOK, PushOK, StackPoints, EnqPoints, DeqPoints, Adding
  <2>2. PopOK(setup, entry', L, node', Views', t) /\ EnqOK(setup, entry', L, node', Views', t)
    BY <1>8, <1>11, <1>13 DEF PopOK, EnqOK, Taking
  <2>3. DeqOK(setup, entry', L, node', head, tail', Views', t)
    BY <1>8, <1>11, <1>13 DEF DeqOK, DeqPoints
  <2> QED
    BY <1>13, <2>1, <2>2, <2>3 DEF CallOK
<1>19. Parts(setup, counter, entry', active_hazard_pointer, pool, node', head, tail', L, Views')
  <2>1. entry' \in [Ents(setup) -> EntryRecs(setup)] /\ node' \in [Nds(setup) -> NodeRecs(setup)] /\ tail' \in N0(setup)
    BY <1>2, <1>16 DEF Ready
  <2> HIDE DEF Views, v
  <2> QED
    BY <1>1, <1>13, <1>14, <1>15, <1>17, <1>18, <2>1, GentleStep DEF Entire, v
<1>20. Entire(L)'
  BY <1>16, <1>19 DEF Entire
<1> QED
  BY <1>12, <1>16, <1>20 DEF LockFreeInv

-----------------------------------------------------------------------------
(* The list when a node enters or leaves it                                *)

\* A node is put in front.
LEMMA LinkedPush ==
  ASSUME NEW s, NEW nd, NEW h, NEW L, Linked(s, nd, h, L), NEW m \in Nds(s), m \notin Range(L),
         nd[m].next = h, NULL \notin Nds(s)
  PROVE  Linked(s, nd, m, <<m>> \o L) /\ \A x : x \in Range(<<m>> \o L) <=> x \in Range(L) \/ x = m
<1> DEFINE K == <<m>> \o L
<1>1. L \in Seq(Nds(s)) /\ Len(L) \in Nat
  BY DEF Linked
<1>2. K \in Seq(Nds(s)) /\ Len(K) = Len(L) + 1 /\ K[1] = m
      /\ \A k \in 1..Len(L) : K[k + 1] = L[k]
  BY <1>1
<1>3. \A k \in 1..Len(K) : k = 1 \/ (k - 1 \in 1..Len(L) /\ K[k] = L[k - 1])
  BY <1>1, <1>2
<1>4. \A k \in 1..Len(L) : L[k] # m
  BY <1>1 DEF Range
<1> HIDE DEF K
<1>5. ASSUME NEW j \in 1..Len(K), NEW k \in 1..Len(K), K[j] = K[k] PROVE j = k
  <2>1. CASE j = 1 \/ k = 1
    BY <1>2, <1>3, <1>4, <1>5, <2>1
  <2>2. CASE j # 1 /\ k # 1
    <3>1. j - 1 \in 1..Len(L) /\ k - 1 \in 1..Len(L) /\ L[j - 1] = L[k - 1]
      BY <1>3, <1>5, <2>2
    <3>2. j - 1 = k - 1
      BY <3>1 DEF Linked
    <3> QED
      BY <1>1, <1>2, <3>2
  <2> QED
    BY <2>1, <2>2
<1>6. ASSUME NEW k \in 1..Len(K) PROVE nd[K[k]].next = IF k = Len(K) THEN NULL ELSE K[k + 1]
  <2>1. CASE k = 1
    <3>1. CASE Len(L) = 0
      BY <1>1, <1>2, <2>1, <3>1 DEF Linked
    <3>2. CASE Len(L) # 0
      <4>1. 1 \in 1..Len(L) /\ K[2] = L[1] /\ h = L[1] /\ k # Len(K)
        BY <1>1, <1>2, <2>1, <3>2 DEF Linked
      <4> QED
        BY <1>2, <2>1, <4>1
    <3> QED
      BY <3>1, <3>2
  <2>2. CASE k # 1
    <3>1. k - 1 \in 1..Len(L) /\ K[k] = L[k - 1] /\ (k = Len(K) <=> k - 1 = Len(L))
      BY <1>1, <1>2, <1>3, <2>2
    <3>2. nd[L[k - 1]].next = IF k - 1 = Len(L) THEN NULL ELSE L[(k - 1) + 1]
      BY <3>1 DEF Linked
    <3>3. k # Len(K) => k \in 1..Len(L) /\ (k - 1) + 1 = k /\ K[k + 1] = L[k]
      BY <1>1, <1>2, <3>1
    <3> QED
      BY <3>1, <3>2, <3>3
  <2> QED
    BY <2>1, <2>2
<1>7. Linked(s, nd, m, K)
  BY <1>1, <1>2, <1>5, <1>6 DEF Linked
<1>8. \A x : x \in Range(K) <=> x \in Range(L) \/ x = m
  <2>1. \A x : x \in Range(K) <=> \E k \in 1..Len(K) : K[k] = x
    BY <1>2 DEF Range
  <2>2. \A x : x \in Range(L) <=> \E k \in 1..Len(L) : L[k] = x
    BY <1>1 DEF Range
  <2>3. \A k \in 1..Len(L) : k + 1 \in 1..Len(K) /\ K[k + 1] = L[k]
    BY <1>1, <1>2
  <2>4. 1 \in 1..Len(K) /\ K[1] = m
    BY <1>1, <1>2
  <2>5. ASSUME NEW x, x \in Range(K) PROVE x \in Range(L) \/ x = m
    BY <1>2, <1>3, <2>1, <2>2, <2>5
  <2>6. ASSUME NEW x, x \in Range(L) PROVE x \in Range(K)
    BY <2>1, <2>2, <2>3, <2>6
  <2> QED
    BY <2>1, <2>4, <2>5, <2>6
<1> QED
  BY <1>7, <1>8 DEF K

\* Node m is linked behind node z.
Relinked(s, nd, nd2, z, m) ==
  nd[z].next = NULL /\ nd2[z].next = m /\ \A n \in Nds(s) : n # z => nd2[n].next = nd[n].next

\* A node is linked behind the last one.
LEMMA LinkedAppend ==
  ASSUME NEW s, NEW nd, NEW nd2, NEW h, NEW L, Linked(s, nd, h, L), NEW m \in Nds(s), m \notin Range(L),
         nd[m].next = NULL, NULL \notin Nds(s), NEW z \in Range(L), Relinked(s, nd, nd2, z, m)
  PROVE  Linked(s, nd2, h, Append(L, m)) /\ \A x : x \in Range(Append(L, m)) <=> x \in Range(L) \/ x = m
<1> DEFINE K == Append(L, m)
<1>0. nd[z].next = NULL /\ nd2[z].next = m /\ \A n \in Nds(s) : n # z => nd2[n].next = nd[n].next
  BY DEF Relinked
<1>1. L \in Seq(Nds(s)) /\ Len(L) \in Nat
  BY DEF Linked
<1>2. K \in Seq(Nds(s)) /\ Len(K) = Len(L) + 1 /\ K[Len(L) + 1] = m
      /\ \A k \in 1..Len(L) : K[k] = L[k]
  BY <1>1
<1>3. \A k \in 1..Len(K) : k = Len(K) \/ k \in 1..Len(L)
  BY <1>1, <1>2
<1>4. \A k \in 1..Len(L) : L[k] # m /\ L[k] \in Nds(s)
  BY <1>1 DEF Range
<1> HIDE DEF K
<1>5. ASSUME NEW j \in 1..Len(K), NEW k \in 1..Len(K), K[j] = K[k] PROVE j = k
  BY <1>1, <1>2, <1>3, <1>4, <1>5 DEF Linked
<1>6. PICK i \in 1..Len(L) : L[i] = z
  BY <1>1 DEF Range
<1>7. i = Len(L)
  <2>1. i # Len(L) => i + 1 \in 1..Len(L) /\ nd[L[i]].next = L[i + 1]
    BY <1>1, <1>6 DEF Linked
  <2> QED
    BY <1>0, <1>4, <1>6, <2>1
<1>8. \A k \in 1..Len(L) : k # Len(L) => L[k] # z
  BY <1>6, <1>7 DEF Linked
<1>9. ASSUME NEW k \in 1..Len(K) PROVE nd2[K[k]].next = IF k = Len(K) THEN NULL ELSE K[k + 1]
  <2>1. CASE k = Len(K)
    <3>1. K[k] = m /\ m # z
      BY <1>1, <1>2, <1>4, <1>6, <2>1
    <3> QED
      BY <1>0, <2>1, <3>1
  <2>2. CASE k = Len(L)
    <3>1. K[k] = z /\ K[k + 1] = m /\ k # Len(K)
      BY <1>1, <1>2, <1>6, <1>7, <2>2
    <3> QED
      BY <1>0, <3>1
  <2>3. CASE k # Len(K) /\ k # Len(L)
    <3>1. k \in 1..Len(L) /\ k + 1 \in 1..Len(L)
      BY <1>1, <1>2, <1>3, <2>3
    <3>2. K[k] = L[k] /\ K[k + 1] = L[k + 1] /\ L[k] # z /\ L[k] \in Nds(s)
      BY <1>2, <1>4, <1>8, <2>3, <3>1
    <3>3. nd[L[k]].next = L[k + 1]
      BY <2>3, <3>1 DEF Linked
    <3> QED
      BY <1>0, <2>3, <3>2, <3>3
  <2> QED
    BY <2>1, <2>2, <2>3
<1>10. h = K[1] /\ Len(K) # 0
  <2>1. 1 \in 1..Len(L)
    BY <1>1, <1>6
  <2> QED
    BY <1>1, <1>2, <2>1 DEF Linked
<1>11. Linked(s, nd2, h, K)
  BY <1>2, <1>5, <1>9, <1>10 DEF Linked
<1>12. \A x : x \in Range(K) <=> x \in Range(L) \/ x = m
  <2>1. \A x : x \in Range(K) <=> \E k \in 1..Len(K) : K[k] = x
    BY <1>2 DEF Range
  <2>2. \A x : x \in Range(L) <=> \E k \in 1..Len(L) : L[k] = x
    BY <1>1 DEF Range
  <2>3. \A k \in 1..Len(L) : k \in 1..Len(K)
    BY <1>1, <1>2
  <2>4. Len(K) \in 1..Len(K) /\ K[Len(K)] = m
    BY <1>1, <1>2
  <2>5. ASSUME NEW x, x \in Range(K) PROVE x \in Range(L) \/ x = m
    BY <1>2, <1>3, <2>1, <2>2, <2>4, <2>5
  <2>6. ASSUME NEW x, x \in Range(L) PROVE x \in Range(K)
    BY <1>2, <2>1, <2>2, <2>3, <2>6
  <2> QED
    BY <2>1, <2>4, <2>5, <2>6
<1> QED
  BY <1>11, <1>12 DEF K

\* The first node is taken out.
LEMMA LinkedTail ==
  ASSUME NEW s, NEW nd, NEW h, NEW L, Linked(s, nd, h, L), h # NULL, NULL \notin Nds(s)
  PROVE  Linked(s, nd, nd[h].next, Tail(L)) /\ \A x : x \in Range(Tail(L)) <=> x \in Range(L) /\ x # h
<1> DEFINE K == Tail(L)
<1>1. L \in Seq(Nds(s)) /\ Len(L) \in Nat \ {0} /\ h = L[1]
  BY DEF Linked
<1>2. K \in Seq(Nds(s)) /\ Len(K) = Len(L) - 1 /\ \A k \in 1..Len(K) : K[k] = L[k + 1]
  BY <1>1
<1>3. \A k \in 1..Len(K) : k + 1 \in 1..Len(L)
  BY <1>1, <1>2
<1> HIDE DEF K
<1>4. ASSUME NEW j \in 1..Len(K), NEW k \in 1..Len(K), K[j] = K[k] PROVE j = k
  <2>1. L[j + 1] = L[k + 1]
    BY <1>2, <1>4
  <2>2. j + 1 = k + 1
    BY <1>3, <2>1 DEF Linked
  <2> QED
    BY <1>1, <1>2, <2>2
<1>5. nd[h].next = IF Len(K) = 0 THEN NULL ELSE K[1]
  <2>1. 1 \in 1..Len(L) /\ (Len(K) = 0 <=> 1 = Len(L)) /\ (Len(K) # 0 => 1 \in 1..Len(K))
    BY <1>1, <1>2
  <2> QED
    BY <1>1, <1>2, <2>1 DEF Linked
<1>6. ASSUME NEW k \in 1..Len(K) PROVE nd[K[k]].next = IF k = Len(K) THEN NULL ELSE K[k + 1]
  <2>1. K[k] = L[k + 1] /\ k + 1 \in 1..Len(L) /\ (k = Len(K) <=> k + 1 = Len(L))
    BY <1>1, <1>2, <1>3
  <2>2. k # Len(K) => k + 1 \in 1..Len(K) /\ K[k + 1] = L[(k + 1) + 1]
    BY <1>1, <1>2
  <2> QED
    BY <2>1, <2>2 DEF Linked
<1>7. Linked(s, nd, nd[h].next, K)
  BY <1>2, <1>4, <1>5, <1>6 DEF Linked
<1>8. \A x : x \in Range(K) <=> x \in Range(L) /\ x # h
  <2>1. \A x : x \in Range(K) <=> \E k \in 1..Len(K) : K[k] = x
    BY <1>2 DEF Range
  <2>2. \A x : x \in Range(L) <=> \E k \in 1..Len(L) : L[k] = x
    BY <1>1 DEF Range
  <2>3. \A k \in 1..Len(L) : k = 1 \/ (k - 1 \in 1..Len(K) /\ K[k - 1] = L[k])
    BY <1>1, <1>2
  <2>4. \A k \in 1..Len(K) : K[k] = L[k + 1] /\ k + 1 \in 1..Len(L) /\ k + 1 # 1
    BY <1>1, <1>2
  <2>5. \A k \in 1..Len(L) : L[k] = L[1] => k = 1
    BY <1>1 DEF Linked
  <2>6. ASSUME NEW x, x \in Range(K) PROVE x \in Range(L) /\ x # h
    BY <1>1, <2>1, <2>2, <2>4, <2>5, <2>6
  <2>7. ASSUME NEW x, x \in Range(L), x # h PROVE x \in Range(K)
    BY <1>1, <2>1, <2>2, <2>3, <2>7
  <2> QED
    BY <2>6, <2>7
<1> QED
  BY <1>7, <1>8 DEF K

-----------------------------------------------------------------------------
(* The steps that move a node between the pool, a thread and the container *)

\* A node leaves the pool for the hands of a thread.
LEMMA AllocPlaces ==
  ASSUME NEW s, NEW E, NEW pl, NEW L, NEW V, NEW V2, NEW t \in Threads, NEW v2, NEW m \in Nds(s),
         OnePlace(s, E, pl, L, V), Moves(V, V2, t, v2), m \in pl,
         \A n \in Nds(s) : ~Holds(V[t], n), \A n \in Nds(s) : Holds(v2, n) <=> n = m
  PROVE  OnePlace(s, E, pl \ {m}, L, V2)
<1>1. \A u \in Threads, n \in Nds(s) : Holds(V2[u], n) <=> (u = t /\ n = m) \/ (u # t /\ Holds(V[u], n))
  BY DEF Moves
<1>2. \A u \in Threads : ~Holds(V[u], m)
  BY DEF OnePlace
<1>3. m \notin Range(L) /\ \A i \in Ents(s) : ~Rtd(E, i, m)
  BY DEF OnePlace
<1>4. ASSUME NEW u \in Threads, NEW n \in Nds(s), Holds(V2[u], n)
      PROVE  /\ n \notin pl \ {m} /\ n \notin Range(L)
             /\ \A i \in Ents(s) : ~Rtd(E, i, n)
             /\ \A x \in Threads : Holds(V2[x], n) => x = u
  BY <1>1, <1>2, <1>3, <1>4 DEF OnePlace
<1> QED
  BY <1>4 DEF OnePlace

\* A node goes from the hands of a thread into the container.
LEMMA EnterPlaces ==
  ASSUME NEW s, NEW E, NEW pl, NEW L, NEW L2, NEW V, NEW V2, NEW t \in Threads, NEW v2, NEW m \in Nds(s),
         OnePlace(s, E, pl, L, V), Moves(V, V2, t, v2), Holds(V[t], m),
         \A n \in Nds(s) : ~Holds(v2, n), \A x : x \in Range(L2) <=> x \in Range(L) \/ x = m
  PROVE  OnePlace(s, E, pl, L2, V2)
<1>1. \A u \in Threads, n \in Nds(s) : Holds(V2[u], n) => u # t /\ Holds(V[u], n) /\ V2[u] = V[u]
  BY DEF Moves
<1>2. m \notin pl /\ \A i \in Ents(s) : ~Rtd(E, i, m)
  BY DEF OnePlace
<1>3. \A u \in Threads : u # t => ~Holds(V[u], m)
  BY DEF OnePlace
<1>4. ASSUME NEW u \in Threads, NEW n \in Nds(s), Holds(V2[u], n)
      PROVE  /\ n \notin pl /\ n \notin Range(L2)
             /\ \A i \in Ents(s) : ~Rtd(E, i, n)
             /\ \A x \in Threads : Holds(V2[x], n) => x = u
  BY <1>1, <1>3, <1>4 DEF OnePlace
<1>5. \A i \in Ents(s) : \A n \in Nds(s) : Rtd(E, i, n) => n \notin pl /\ n \notin Range(L2)
  BY <1>2 DEF OnePlace
<1>6. \A n \in pl : n \notin Range(L2)
  BY <1>2 DEF OnePlace
<1> QED
  BY <1>4, <1>5, <1>6 DEF OnePlace

\* A node goes from the container into the hands of a thread.
LEMMA ExitPlaces ==
  ASSUME NEW s, NEW E, NEW pl, NEW L, NEW L2, NEW V, NEW V2, NEW t \in Threads, NEW v2, NEW m \in Nds(s),
         OnePlace(s, E, pl, L, V), Moves(V, V2, t, v2), m \in Range(L),
         \A n \in Nds(s) : ~Holds(V[t], n), \A n \in Nds(s) : Holds(v2, n) <=> n = m,
         \A x : x \in Range(L2) <=> x \in Range(L) /\ x # m
  PROVE  OnePlace(s, E, pl, L2, V2)
<1>1. \A u \in Threads, n \in Nds(s) : Holds(V2[u], n) <=> (u = t /\ n = m) \/ (u # t /\ Holds(V[u], n))
  BY DEF Moves
<1>2. m \notin pl /\ \A i \in Ents(s) : ~Rtd(E, i, m)
  BY DEF OnePlace
<1>3. \A u \in Threads : ~Holds(V[u], m)
  BY DEF OnePlace
<1>4. ASSUME NEW u \in Threads, NEW n \in Nds(s), Holds(V2[u], n)
      PROVE  /\ n \notin pl /\ n \notin Range(L2)
             /\ \A i \in Ents(s) : ~Rtd(E, i, n)
             /\ \A x \in Threads : Holds(V2[x], n) => x = u
  BY <1>1, <1>2, <1>3, <1>4 DEF OnePlace
<1>5. \A i \in Ents(s) : \A n \in Nds(s) : Rtd(E, i, n) => n \notin pl /\ n \notin Range(L2)
  BY DEF OnePlace
<1>6. \A n \in pl : n \notin Range(L2)
  BY DEF OnePlace
<1> QED
  BY <1>4, <1>5, <1>6 DEF OnePlace

\* What the others know is not lost: nodes that were in the container stay where guards
\* keep them, with their links, and no new node of another call is touched.
Spares(s, E, L, nd, h, V, L2, nd2, h2, V2, t) ==
  /\ \A n \in Nds(s) : Live(s, E, L, V, n) =>
       /\ Live(s, E, L2, V2, n)
       /\ nd2[n].next = nd[n].next \/ (s.kind = "queue" /\ nd[n].next = NULL)
       /\ s.kind = "queue" /\ n \in Range(L2) => n \in Range(L) /\ (n = h => n = h2)
  /\ \A u \in Threads : u # t /\ V[u].at \in Adding => nd2[V[u].mine].next = nd[V[u].mine].next

\* A step that takes a node into the list or out of it, or allocates one, keeps the parts.
LEMMA HeapStep ==
  ASSUME NEW s, NEW cnt, NEW act, NEW E, NEW pl, NEW nd, NEW h, NEW tl, NEW L, NEW V,
         NEW pl2 \in SUBSET Nds(s), NEW nd2 \in [Nds(s) -> NodeRecs(s)], NEW h2 \in N0(s), NEW L2,
         NEW V2 \in [Threads -> ViewRecs(s)], NEW t \in Threads, NEW v2,
         Parts(s, cnt, E, act, pl, nd, h, tl, L, V), Linked(s, nd2, h2, L2),
         Moves(V, V2, t, v2), Settled(V[t], v2), LeavesLast(v2),
         OnePlace(s, E, pl2, L2, V2), QueueOK(s, E, L2, nd2, tl),
         Spares(s, E, L, nd, h, V, L2, nd2, h2, V2, t),
         CallOK(s, E, L2, nd2, h2, tl, V2, t)
  PROVE  Parts(s, cnt, E, act, pl2, nd2, h2, tl, L2, V2)
<1>1. /\ s \in Setups /\ E \in [Ents(s) -> EntryRecs(s)] /\ HeapOK(s, pl, nd, h, tl)
      /\ Indices(s, cnt, V) /\ Scanned(s, cnt, E, V) /\ Room(s, E, V, act) /\ Leaves(V)
  BY DEF Parts, Shapes, Orderly
<1>2. NULL \notin Nds(s)
  BY SetupsAssumption, Sizes, <1>1 DEF Nds
<1>3. SameLists(s, E, E)
  BY DEF SameLists
<1>4. Indices(s, cnt, V2) /\ Scanned(s, cnt, E, V2) /\ Room(s, E, V2, act)
  <2>1. Indices(s, cnt, V2)
    BY <1>1, CalmIndices
  <2>2. Scanned(s, cnt, E, V2)
    BY <1>1, <1>3, CalmScanned
  <2>3. Room(s, E, V2, act)
    BY <1>1, <1>3, CalmRoom
  <2> QED
    BY <2>1, <2>2, <2>3
<1>5. Leaves(V2)
  BY <1>1 DEF Leaves, LeavesLast, Moves
<1>6. \A x \in Threads : V[x].at \in ScanPoints => V[x].scan \in Ents(s)
  BY <1>1 DEF Scanned, HelpPoints
<1>7. ASSUME NEW u \in Threads, u # t PROVE CallOK(s, E, L2, nd2, h2, tl, V2, u)
  <2>1. V2[u] = V[u] /\ CallOK(s, E, L, nd, h, tl, V, u)
    BY <1>7 DEF Moves, Parts
  <2>2. ASSUME NEW pos \in 0..(Gs(s) - 1), NEW n \in Nds(s), Safe(s, E, L, V, u, pos, n)
        PROVE  Safe(s, E, L2, V2, u, pos, n)
    <3>1. Live(s, E, L2, V2, n)
      BY <2>2 DEF Safe, Spares
    <3> QED
      BY <1>3, <1>6, <2>2, <3>1, CalmSafe
  <2>3. Undisturbed(s, E, L, nd, h, tl, V, E, L2, nd2, h2, tl, V2, u)
    BY <1>7, <2>1, <2>2 DEF Undisturbed, Spares
  <2> QED
    BY <1>1, <1>2, <2>1, <2>3, Bystander
<1>8. Shapes(s, E, pl2, nd2, h2, tl, L2, V2)
  BY <1>1 DEF Shapes, HeapOK
<1>9. Orderly(s, cnt, E, act, pl2, L2, V2)
  BY <1>4, <1>5 DEF Orderly
<1> QED
  BY <1>7, <1>8, <1>9 DEF Parts

\* The same for a step of the specification.
LEMMA HeapAction ==
  ASSUME NEW t \in Threads, NEW c \in CallRecs(setup), NEW L, NEW L2,
         thread \in [Threads -> ThreadRecs(setup)], Entire(L), Becomes(t, c),
         UNCHANGED <<setup, guarding, tail>>,
         pool' \in SUBSET Nds(setup), node' \in [Nds(setup) -> NodeRecs(setup)], head' \in N0(setup),
         Linked(setup, node', head', L2), c.at # "leave", Settled(Views[t], With(Views[t], c)),
         OnePlace(setup, entry, pool', L2, Views'), QueueOK(setup, entry, L2, node', tail),
         Spares(setup, entry, L, node, head, Views, L2, node', head', Views', t),
         CallOK(setup, entry, L2, node', head', tail, Views', t)
  PROVE  LockFreeInv'
<1>1. /\ thread' \in [Threads -> ThreadRecs(setup')] /\ Views' \in [Threads -> ViewRecs(setup)]
      /\ Moves(Views, Views', t, With(Views[t], c))
  BY BecomesMoves
<1>2. /\ entry' = entry /\ tail' = tail /\ setup' = setup /\ counter' = counter
      /\ active_hazard_pointer' = active_hazard_pointer
  BY DEF guarding
<1>3. LeavesLast(With(Views[t], c))
  BY Known DEF LeavesLast, Leaves, With
<1>4. Parts(setup, counter, entry, active_hazard_pointer, pool', node', head', tail, L2, Views')
  BY <1>1, <1>3, HeapStep DEF Entire
<1>5. Entire(L2)'
  BY <1>2, <1>4 DEF Entire
<1> QED
  BY <1>1, <1>5 DEF LockFreeInv

\* A node is allocated for the new value.
LEMMA KeepsAllocate ==
  ASSUME LockFreeInv, NEW t \in Threads, NEW to,
         (At(t, "push") /\ to = "pushTop") \/ (At(t, "enq") /\ to = "enqTail"), AllocateNode(t, to)
  PROVE  LockFreeInv'
<1> DEFINE v  == Views[t]
           v2 == Views'[t]
<1>1. PICK L : thread \in [Threads -> ThreadRecs(setup)] /\ Entire(L)
  BY DEF LockFreeInv
<1>2. Ready(L, t)
  BY <1>1, Start
<1>3. PICK m \in pool : /\ pool' = pool \ {m}
                        /\ node' = [node EXCEPT ![m] = [next |-> NULL, element |-> Local(t).value]]
                        /\ Becomes(t, [Local(t) EXCEPT !.at = to, !.mine = m])
                        /\ UNCHANGED <<setup, guarding, head, tail>>
  BY DEF AllocateNode
<1>4. m \in Nds(setup) /\ pool \in SUBSET Nds(setup) /\ OnePlace(setup, entry, pool, L, Views)
  BY <1>1, Known
<1>5. (v.at = "push" /\ to = "pushTop") \/ (v.at = "enq" /\ to = "enqTail")
  BY <1>2 DEF At, Local, Ready
<1> DEFINE c == [Local(t) EXCEPT !.at = to, !.mine = m]
<1>6. c \in CallRecs(setup) /\ c.at = to /\ c.mine = m /\ c.op = v.op /\ c.result = v.result
  <2>1. to \in CallPoints /\ m \in N0(setup) /\ Local(t) \in CallRecs(setup)
    BY <1>2, <1>4, <1>5 DEF CallPoints, StackPoints, EnqPoints, N0, Ready
  <2>2. Local(t).op = v.op /\ Local(t).result = v.result
    BY <1>1, ViewFields
  <2> QED
    BY <2>1, <2>2 DEF CallRecs
<1>7. Becomes(t, c)
  BY <1>3
<1> HIDE DEF c
<1>8. Views' \in [Threads -> ViewRecs(setup)] /\ Moves(Views, Views', t, With(v, c))
  BY <1>1, <1>3, <1>6, <1>7, BecomesMoves
<1>9. v2 = With(v, c) /\ v2.index = v.index /\ v2.at = to /\ v2.mine = m /\ v2.op = v.op /\ v2.result = v.result
  BY <1>6, <1>8 DEF Moves, With
<1>10. /\ node' \in [Nds(setup) -> NodeRecs(setup)] /\ node'[m].next = NULL
       /\ \A n \in Nds(setup) : n # m => node'[n] = node[n]
  <2>1. [next |-> NULL, element |-> Local(t).value] \in NodeRecs(setup)
    BY <1>2 DEF Ready, NodeRecs, N0
  <2> QED
    BY <1>2, <1>3, <1>4, <2>1 DEF Ready
<1>11. head' = head /\ tail' = tail /\ setup' = setup /\ entry' = entry
  BY <1>3 DEF guarding
<1> HIDE DEF v, v2
<1>12. Settled(v, v2)
  BY <1>5, <1>9 DEF Settled, Finished, HelpPoints, ScanPoints, Indexed, DeqPoints
<1>13. (\A n \in Nds(setup) : ~Holds(v, n)) /\ (\A n \in Nds(setup) : Holds(v2, n) <=> n = m)
  BY <1>5, <1>9 DEF Holds, Adding, Taking
<1>14. OnePlace(setup, entry, pool', L, Views')
  BY <1>3, <1>4, <1>8, <1>9, <1>13, AllocPlaces DEF v
<1>15. \A u \in Threads : ~Holds(Views[u], m)
  BY <1>4 DEF OnePlace
<1>16. \A n \in Nds(setup) : Live(setup, entry, L, Views, n) => n # m
  <2>1. m \notin Range(L) /\ \A i \in Ents(setup) : ~Rtd(entry, i, m)
    BY <1>4 DEF OnePlace
  <2> QED
    BY <1>15, <2>1 DEF Live, Holds
<1>17. \A k \in 1..Len(L) : L[k] \in Nds(setup) /\ L[k] # m
  <2>1. m \notin Range(L) /\ L \in Seq(Nds(setup))
    BY <1>2, <1>4 DEF OnePlace, Ready, Linked
  <2> QED
    BY <2>1 DEF Range
<1>18. Linked(setup, node', head', L)
  BY <1>2, <1>10, <1>11, <1>17 DEF Ready, Linked
<1>19. \A n \in Nds(setup) : Live(setup, entry, L, Views, n) => Live(setup, entry, L, Views', n)
  <2>1. \A u \in Threads : Views[u].at \in Taking => Views'[u] = Views[u]
    BY <1>5, <1>8 DEF Moves, Taking, v
  <2> QED
    BY <2>1 DEF Live
<1>20. \A u \in Threads : u # t /\ Views[u].at \in Adding => node'[Views[u].mine].next = node[Views[u].mine].next
  <2>1. \A u \in Threads : Views[u].at \in Adding => Views[u].mine \in Nds(setup)
    BY <1>1, Known DEF PushOK
  <2> QED
    BY <1>10, <1>15, <2>1 DEF Holds
<1>21. Spares(setup, entry, L, node, head, Views, L, node', head', Views', t)
  BY <1>10, <1>11, <1>16, <1>19, <1>20 DEF Spares
<1>22. QueueOK(setup, entry, L, node', tail)
  BY <1>2, <1>4, <1>10 DEF Ready, QueueOK, OnePlace
<1>23. CallOK(setup, entry, L, node', head', tail, Views', t)
  <2>1. KindOK(setup, v2)
    BY <1>2, <1>5, <1>9 DEF Ready, KindOK, StackPoints, EnqPoints, DeqPoints, v
  <2>2. PushOK(setup, node', v2)
    BY <1>4, <1>5, <1>9, <1>10 DEF PushOK, Adding
  <2>3. PopOK(setup, entry, L, node', Views', t) /\ EnqOK(setup, entry, L, node', Views', t)
    BY <1>5, <1>9 DEF PopOK, EnqOK, Taking, v2
  <2>4. DeqOK(setup, entry, L, node', head', tail, Views', t)
    BY <1>5, <1>9 DEF DeqOK, DeqPoints, v2
  <2> QED
    BY <2>1, <2>2, <2>3, <2>4 DEF CallOK, v2
<1> QED
  <2>1. c.at # "leave" /\ head' \in N0(setup) /\ pool' \in SUBSET Nds(setup) /\ UNCHANGED <<setup, guarding, tail>>
    BY <1>2, <1>3, <1>4, <1>5, <1>6, <1>11 DEF Ready
  <2>2. Settled(Views[t], With(Views[t], c))
    BY <1>9, <1>12 DEF v
  <2> QED
    BY <1>1, <1>6, <1>7, <1>10, <1>14, <1>18, <1>21, <1>22, <1>23, <2>1, <2>2, HeapAction

\* A node enters the container: what this asks of a step.
LEMMA Enters ==
  ASSUME NEW t \in Threads, NEW L, NEW L2, thread \in [Threads -> ThreadRecs(setup)], Entire(L),
         Moves(Views, Views', t, Views'[t]), NEW m \in Nds(setup), Holds(Views[t], m), Views[t].at \in Adding,
         Views'[t].at \notin Adding \cup Taking,
         \A x : x \in Range(L2) <=> x \in Range(L) \/ x = m,
         \A n \in Nds(setup) : node'[n].next = node[n].next
                               \/ (setup.kind = "queue" /\ n \in Range(L) /\ node[n].next = NULL /\ node'[n].next # NULL),
         setup.kind = "queue" => head' = head
  PROVE  /\ OnePlace(setup, entry, pool, L2, Views') /\ QueueOK(setup, entry, L2, node', tail)
         /\ Spares(setup, entry, L, node, head, Views, L2, node', head', Views', t)
<1>1. OnePlace(setup, entry, pool, L, Views) /\ QueueOK(setup, entry, L, node, tail)
  BY Known
<1>2. \A n \in Nds(setup) : ~Holds(Views'[t], n)
  BY DEF Holds
<1> DEFINE V  == Views
           V2 == Views'
<1>3. /\ \A n \in Nds(setup) : ~Holds(V2[t], n)
      /\ Moves(V, V2, t, V2[t]) /\ Holds(V[t], m) /\ V[t].at \notin Taking
  BY <1>2 DEF Adding, Taking
<1> HIDE DEF V, V2
<1>4. OnePlace(setup, entry, pool, L2, V2)
  BY <1>1, <1>3, EnterPlaces DEF V
<1>5. QueueOK(setup, entry, L2, node', tail)
  BY <1>1 DEF QueueOK
<1>6. \A n \in Nds(setup) : Live(setup, entry, L, V, n) => n # m
  <2>1. /\ m \notin Range(L) /\ \A i \in Ents(setup) : ~Rtd(entry, i, m)
        /\ \A u \in Threads : Holds(V[u], m) => u = t
    BY <1>1, <1>3 DEF OnePlace, V
  <2> QED
    BY <1>3, <2>1 DEF Live, Holds
<1>7. \A n \in Nds(setup) : Live(setup, entry, L, V, n) => Live(setup, entry, L2, V2, n)
  <2>1. \A u \in Threads : V[u].at \in Taking => V2[u] = V[u]
    BY <1>3 DEF Moves
  <2> QED
    BY <2>1 DEF Live
<1>8. \A u \in Threads : u # t /\ V[u].at \in Adding => node'[V[u].mine].next = node[V[u].mine].next
  <2>1. \A u \in Threads : V[u].at \in Adding => V[u].mine \in Nds(setup) /\ Holds(V[u], V[u].mine)
    BY Known DEF PushOK, Holds, V
  <2>2. \A u \in Threads : V[u].at \in Adding => V[u].mine \notin Range(L)
    BY <1>1, <2>1 DEF OnePlace, V
  <2> QED
    BY <2>1, <2>2
<1>9. Spares(setup, entry, L, node, head, V, L2, node', head', V2, t)
  BY <1>6, <1>7, <1>8 DEF Spares
<1> QED
  BY <1>4, <1>5, <1>9 DEF V, V2

\* What is seen of a step that sets these values.
LEMMA SetMoves ==
  ASSUME NEW t \in Threads, thread \in [Threads -> ThreadRecs(setup)], setup' = setup,
         NEW a \in CallPoints, NEW r \in Results, NEW va \in Values \cup {Nothing},
         NEW tp \in N0(setup), NEW la \in N0(setup), NEW ne \in N0(setup),
         Becomes(t, Set(Local(t), a, r, va, tp, la, ne))
  PROVE  /\ Set(Local(t), a, r, va, tp, la, ne) \in CallRecs(setup)
         /\ Set(Local(t), a, r, va, tp, la, ne).at = a
         /\ Views'[t] = With(Views[t], Set(Local(t), a, r, va, tp, la, ne))
         /\ Moves(Views, Views', t, Views'[t])
         /\ After(Views[t], Views'[t], a, r, va, tp, la, ne)
<1> DEFINE c == Set(Local(t), a, r, va, tp, la, ne)
<1>1. c \in CallRecs(setup) /\ c.at = a /\ After(Views[t], With(Views[t], c), a, r, va, tp, la, ne)
  <2>1. ASSUME thread \in [Threads -> ThreadRecs(setup)]
        PROVE  /\ Set(Local(t), a, r, va, tp, la, ne) \in CallRecs(setup)
               /\ Set(Local(t), a, r, va, tp, la, ne).at = a
               /\ After(Views[t], With(Views[t], Set(Local(t), a, r, va, tp, la, ne)), a, r, va, tp, la, ne)
    BY ONLY <2>1, t \in Threads, a \in CallPoints, r \in Results, va \in Values \cup {Nothing},
            tp \in N0(setup), la \in N0(setup), ne \in N0(setup), SetFields
  <2> QED
    BY <2>1
<1> HIDE DEF c
<1>2. Moves(Views, Views', t, With(Views[t], c))
  BY <1>1, BecomesMoves DEF c
<1>3. Views'[t] = With(Views[t], c)
  BY <1>2 DEF Moves
<1> QED
  BY <1>1, <1>2, <1>3 DEF c

\* The new node becomes the top of the stack.
LEMMA KeepsPush ==
  ASSUME LockFreeInv, NEW t \in Threads, At(t, "pushCas"), head = Local(t).top, head' = Local(t).mine,
         Ends(t, "done"), UNCHANGED <<setup, guarding, pool, node, tail>>
  PROVE  LockFreeInv'
<1> DEFINE v  == Views[t]
           v2 == Views'[t]
           m  == Local(t).mine
           c  == Set(Local(t), "return", "done", Local(t).value, Local(t).top, Local(t).last, Local(t).next)
<1>1. PICK L : thread \in [Threads -> ThreadRecs(setup)] /\ Entire(L)
  BY DEF LockFreeInv
<1>2. Ready(L, t)
  BY <1>1, Start
<1>3. v.at = "pushCas" /\ m = v.mine
  BY <1>2 DEF At, Local, Ready
<1>4. m \in Nds(setup) /\ node[m].next = head /\ setup.kind = "stack"
  BY <1>2, <1>3 DEF Ready, PushOK, Adding, KindOK, StackPoints
<1>5. Becomes(t, c)
  <2>1. [Local(t) EXCEPT !.at = "return", !.result = "done"] = c
    BY <1>2 DEF Ready, Set, CallRecs
  <2> QED
    BY <2>1 DEF Ends
<1>6. setup' = setup /\ entry' = entry /\ pool' = pool /\ node' = node /\ tail' = tail
  BY DEF guarding
<1>7. c \in CallRecs(setup) /\ c.at = "return" /\ v2 = With(v, c) /\ Moves(Views, Views', t, v2)
      /\ After(v, v2, "return", "done", Local(t).value, Local(t).top, Local(t).last, Local(t).next)
  <2>1. "return" \in CallPoints /\ "done" \in Results
    BY DEF CallPoints, Results
  <2>2. /\ Local(t).value \in Values \cup {Nothing} /\ Local(t).top \in N0(setup)
        /\ Local(t).last \in N0(setup) /\ Local(t).next \in N0(setup)
    BY <1>2 DEF Ready
  <2> QED
    BY <1>1, <1>5, <1>6, <2>1, <2>2, SetMoves
<1> HIDE DEF c, v, v2
<1>8. Holds(v, m) /\ v.at \in Adding /\ v2.at = "return" /\ v2.at \notin Adding \cup Taking /\ v2.index = v.index
  BY <1>3, <1>7 DEF Holds, Adding, Taking, After
<1>9. m \notin Range(L)
  BY <1>1, <1>4, <1>8, Known DEF OnePlace, v
<1>10. Linked(setup, node, m, <<m>> \o L) /\ \A x : x \in Range(<<m>> \o L) <=> x \in Range(L) \/ x = m
  BY <1>2, <1>4, <1>9, LinkedPush DEF Ready
<1>11. /\ OnePlace(setup, entry, pool, <<m>> \o L, Views') /\ QueueOK(setup, entry, <<m>> \o L, node', tail)
       /\ Spares(setup, entry, L, node, head, Views, <<m>> \o L, node', head', Views', t)
  BY <1>1, <1>4, <1>6, <1>7, <1>8, <1>10, Enters DEF v, v2
<1>12. CallOK(setup, entry, <<m>> \o L, node', head', tail, Views', t)
  BY <1>8, Nowhere DEF v2
<1>13. Settled(Views[t], With(Views[t], c))
  BY <1>3, <1>7, <1>8 DEF Settled, Finished, HelpPoints, ScanPoints, Indexed, DeqPoints, v, v2
<1> QED
  <2>1. /\ head' \in N0(setup) /\ pool' \in SUBSET Nds(setup) /\ node' \in [Nds(setup) -> NodeRecs(setup)]
        /\ UNCHANGED <<setup, guarding, tail>> /\ c.at # "leave"
    BY <1>1, <1>4, <1>6, <1>7, Known DEF N0
  <2> QED
    BY <1>1, <1>5, <1>6, <1>7, <1>10, <1>11, <1>12, <1>13, <2>1, HeapAction

\* The new node is linked behind the last one of the queue.
LEMMA KeepsEnq ==
  ASSUME LockFreeInv, NEW t \in Threads, At(t, "enqCas"), node[Local(t).last].next = NULL,
         node' = [node EXCEPT ![Local(t).last].next = Local(t).mine],
         Becomes(t, [Local(t) EXCEPT !.at = "enqDone", !.result = "done"]),
         UNCHANGED <<setup, guarding, pool, head, tail>>
  PROVE  LockFreeInv'
<1> DEFINE v  == Views[t]
           v2 == Views'[t]
           m  == Local(t).mine
           z  == Local(t).last
           c  == Set(Local(t), "enqDone", "done", Local(t).value, Local(t).top, Local(t).last, Local(t).next)
<1>1. PICK L : thread \in [Threads -> ThreadRecs(setup)] /\ Entire(L)
  BY DEF LockFreeInv
<1>2. Ready(L, t)
  BY <1>1, Start
<1>3. v.at = "enqCas" /\ m = v.mine /\ z = v.last
  BY <1>2 DEF At, Local, Ready
<1>4. /\ m \in Nds(setup) /\ node[m].next = NULL /\ setup.kind = "queue"
      /\ z \in Nds(setup) /\ Safe(setup, entry, L, Views, t, 0, z)
  BY <1>2, <1>3 DEF Ready, PushOK, Adding, KindOK, EnqPoints, EnqOK, Safe
<1>5. Becomes(t, c)
  <2>1. [Local(t) EXCEPT !.at = "enqDone", !.result = "done"] = c
    BY <1>2 DEF Ready, Set, CallRecs
  <2> QED
    BY <2>1
<1>6. setup' = setup /\ entry' = entry /\ pool' = pool /\ head' = head /\ tail' = tail
  BY DEF guarding
<1>7. c \in CallRecs(setup) /\ c.at = "enqDone" /\ v2 = With(v, c) /\ Moves(Views, Views', t, v2)
      /\ After(v, v2, "enqDone", "done", Local(t).value, Local(t).top, Local(t).last, Local(t).next)
  <2>1. "enqDone" \in CallPoints /\ "done" \in Results
    BY DEF CallPoints, Results, EnqPoints
  <2>2. /\ Local(t).value \in Values \cup {Nothing} /\ Local(t).top \in N0(setup)
        /\ Local(t).last \in N0(setup) /\ Local(t).next \in N0(setup)
    BY <1>2 DEF Ready
  <2> QED
    BY <1>1, <1>5, <1>6, <2>1, <2>2, SetMoves
<1> HIDE DEF c, v, v2
<1>8. Holds(v, m) /\ v.at \in Adding /\ v2.at = "enqDone" /\ v2.at \notin Adding \cup Taking /\ v2.index = v.index
      /\ v2.last = z /\ v2.mine = m /\ v2.op = v.op
  BY <1>3, <1>7 DEF Holds, Adding, Taking, After
<1>9. OnePlace(setup, entry, pool, L, Views) /\ QueueOK(setup, entry, L, node, tail)
  BY <1>1, Known
<1>10. m \notin Range(L)
  BY <1>4, <1>8, <1>9 DEF OnePlace, v
<1>11. z \in Range(L) /\ z # m
  <2>1. \A i \in Ents(setup) : ~Rtd(entry, i, z)
    BY <1>4, <1>9 DEF QueueOK
  <2>2. \A u \in Threads : ~(Views[u].at \in Taking /\ Views[u].top = z)
    BY <1>1, <1>4, Known DEF PopOK
  <2> QED
    BY <1>4, <1>10, <2>1, <2>2 DEF Safe, Live
<1>12. /\ node' \in [Nds(setup) -> NodeRecs(setup)] /\ node'[z].next = m
       /\ \A n \in Nds(setup) : n # z => node'[n] = node[n]
  <2>1. node \in [Nds(setup) -> NodeRecs(setup)] /\ m \in N0(setup)
    BY <1>2, <1>4 DEF Ready, N0
  <2>2. [node[z] EXCEPT !.next = m] \in NodeRecs(setup) /\ [node[z] EXCEPT !.next = m].next = m
    BY <1>4, <2>1 DEF NodeRecs
  <2>3. node' = [node EXCEPT ![z] = [node[z] EXCEPT !.next = m]]
    OBVIOUS
  <2> QED
    BY <1>4, <2>1, <2>2, <2>3
<1> DEFINE K == Append(L, m)
<1>13. Linked(setup, node', head, K) /\ \A x : x \in Range(K) <=> x \in Range(L) \/ x = m
  <2>1. Linked(setup, node, head, L) /\ NULL \notin Nds(setup)
    BY <1>2 DEF Ready
  <2>2. Relinked(setup, node, node', z, m)
    BY <1>12 DEF Relinked
  <2>3. m \in Nds(setup) /\ node[m].next = NULL
    BY <1>4
  <2> HIDE DEF z, m
  <2>4. Linked(setup, node', head, Append(L, m))
    BY <1>10, <1>11, <2>1, <2>2, <2>3, LinkedAppend
  <2>5. \A x : x \in Range(Append(L, m)) <=> x \in Range(L) \/ x = m
    BY <1>10, <1>11, <2>1, <2>2, <2>3, LinkedAppend
  <2> QED
    BY <2>4, <2>5
<1> HIDE DEF K, m, z
<1>14. \A n \in Nds(setup) : node'[n].next = node[n].next
              \/ (setup.kind = "queue" /\ n \in Range(L) /\ node[n].next = NULL /\ node'[n].next # NULL)
  BY <1>2, <1>4, <1>11, <1>12 DEF Ready, z, m
<1>15. /\ OnePlace(setup, entry, pool, K, Views') /\ QueueOK(setup, entry, K, node', tail)
       /\ Spares(setup, entry, L, node, head, Views, K, node', head', Views', t)
  BY <1>1, <1>4, <1>6, <1>7, <1>8, <1>13, <1>14, Enters DEF v, v2
<1>16. Settled(v, v2)
  BY <1>2, <1>3, <1>8 DEF Ready, Settled, Finished, HelpPoints, ScanPoints, Indexed, DeqPoints, v
<1>17. Safe(setup, entry, K, Views', t, 0, z)
  <2>1. Live(setup, entry, K, Views', z)
    BY <1>4, <1>15 DEF Spares, Safe
  <2>2. SameLists(setup, entry, entry)
    BY DEF SameLists
  <2>3. \A x \in Threads : Views[x].at \in ScanPoints => Views[x].scan \in Ents(setup)
    BY <1>1, Known DEF Scanned, HelpPoints
  <2> QED
    BY <1>4, <1>7, <1>16, <2>1, <2>2, <2>3, CalmSafe DEF v
<1>18. CallOK(setup, entry, K, node', head', tail, Views', t)
  <2>1. KindOK(setup, v2) /\ PushOK(setup, node', v2)
    BY <1>2, <1>3, <1>8 DEF Ready, KindOK, PushOK, StackPoints, EnqPoints, DeqPoints, Adding, v
  <2>2. PopOK(setup, entry, K, node', Views', t)
    BY <1>8 DEF PopOK, Taking, v2
  <2>3. EnqOK(setup, entry, K, node', Views', t)
    BY <1>2, <1>4, <1>8, <1>12, <1>17 DEF EnqOK, Ready, v2
  <2>4. DeqOK(setup, entry, K, node', head', tail, Views', t)
    BY <1>8 DEF DeqOK, DeqPoints, v2
  <2> QED
    BY <2>1, <2>2, <2>3, <2>4 DEF CallOK, v2
<1> QED
  <2>1. /\ head' \in N0(setup) /\ pool' \in SUBSET Nds(setup)
        /\ UNCHANGED <<setup, guarding, tail>> /\ c.at # "leave" /\ Linked(setup, node', head', K)
        /\ OnePlace(setup, entry, pool', K, Views')
    BY <1>1, <1>6, <1>7, <1>13, <1>15, Known
  <2>2. Settled(Views[t], With(Views[t], c))
    BY <1>7, <1>16 DEF v
  <2> QED
    BY <1>1, <1>5, <1>7, <1>12, <1>15, <1>18, <2>1, <2>2, HeapAction

\* A node leaves the container: what this asks of a step.
LEMMA Exits ==
  ASSUME NEW t \in Threads, NEW L, thread \in [Threads -> ThreadRecs(setup)], Entire(L),
         Moves(Views, Views', t, Views'[t]), Views[t].at \notin Adding \cup Taking,
         Views'[t].at \in Taking, Views'[t].top = head, head # NULL, node' = node,
         setup.kind = "queue" => tail # head
  PROVE  /\ OnePlace(setup, entry, pool, Tail(L), Views') /\ QueueOK(setup, entry, Tail(L), node', tail)
         /\ Spares(setup, entry, L, node, head, Views, Tail(L), node', node[head].next, Views', t)
         /\ Linked(setup, node', node[head].next, Tail(L)) /\ node[head].next \in N0(setup)
<1> DEFINE V  == Views
           V2 == Views'
           K  == Tail(L)
<1>1. /\ OnePlace(setup, entry, pool, L, V) /\ QueueOK(setup, entry, L, node, tail)
      /\ Linked(setup, node, head, L) /\ NULL \notin Nds(setup) /\ node \in [Nds(setup) -> NodeRecs(setup)]
  BY Known
<1>2. head \in Range(L) /\ head \in Nds(setup)
  BY <1>1, FirstNodes
<1>3. \A x : x \in Range(K) <=> x \in Range(L) /\ x # head
  BY <1>1, LinkedTail
<1>4. Linked(setup, node, node[head].next, K)
  BY <1>1, LinkedTail
<1>5. /\ \A n \in Nds(setup) : ~Holds(V[t], n)
      /\ \A n \in Nds(setup) : Holds(V2[t], n) <=> n = head
      /\ Moves(V, V2, t, V2[t]) /\ V[t].at \notin Taking /\ V2[t].at \in Taking /\ V2[t].top = head
  BY DEF Holds, Adding, Taking
<1> HIDE DEF V, V2, K
<1>6. OnePlace(setup, entry, pool, K, V2)
  BY <1>1, <1>2, <1>3, <1>5, ExitPlaces
<1>7. QueueOK(setup, entry, K, node, tail)
  BY <1>1, <1>3 DEF QueueOK
<1>8. \A n \in Nds(setup) : Live(setup, entry, L, V, n) => Live(setup, entry, K, V2, n)
  <2>1. \A u \in Threads : V[u].at \in Taking => V2[u] = V[u]
    BY <1>5 DEF Moves
  <2> QED
    BY <1>3, <1>5, <2>1 DEF Live
<1>9. Spares(setup, entry, L, node, head, V, K, node, node[head].next, V2, t)
  BY <1>3, <1>8 DEF Spares
<1>10. node[head].next \in N0(setup)
  BY <1>1, <1>2 DEF NodeRecs
<1> QED
  BY <1>4, <1>6, <1>7, <1>9, <1>10 DEF V, V2, K

\* The top of the stack is taken.
LEMMA KeepsPop ==
  ASSUME LockFreeInv, NEW t \in Threads, At(t, "popCas"), head = Local(t).top, head' = Local(t).next,
         Becomes(t, [Local(t) EXCEPT !.at = "popTake", !.result = node[Local(t).top].element]),
         UNCHANGED <<setup, guarding, pool, node, tail>>
  PROVE  LockFreeInv'
<1> DEFINE v  == Views[t]
           v2 == Views'[t]
           c  == Set(Local(t), "popTake", node[Local(t).top].element, Local(t).value, Local(t).top, Local(t).last, Local(t).next)
<1>1. PICK L : thread \in [Threads -> ThreadRecs(setup)] /\ Entire(L)
  BY DEF LockFreeInv
<1>2. Ready(L, t)
  BY <1>1, Start
<1>3. v.at = "popCas" /\ head = v.top /\ head' = v.next
  BY <1>2 DEF At, Local, Ready
<1>4. /\ head \in Nds(setup) /\ head # NULL /\ node[head].next = v.next /\ setup.kind = "stack"
      /\ setup.kind = "queue" => tail # head /\ node[head].next # NULL
  BY <1>2, <1>3 DEF Ready, KindOK, StackPoints, DeqPoints, PopOK, Safe
<1>5. Becomes(t, c)
  <2>1. [Local(t) EXCEPT !.at = "popTake", !.result = node[Local(t).top].element] = c
    BY <1>2 DEF Ready, Set, CallRecs
  <2> QED
    BY <2>1
<1>6. setup' = setup /\ entry' = entry /\ pool' = pool /\ node' = node /\ tail' = tail
  BY DEF guarding
<1>7. c \in CallRecs(setup) /\ c.at = "popTake" /\ v2 = With(v, c) /\ Moves(Views, Views', t, v2)
      /\ After(v, v2, "popTake", node[Local(t).top].element, Local(t).value, Local(t).top, Local(t).last, Local(t).next)
  <2>1. "popTake" \in CallPoints /\ node[Local(t).top].element \in Results
    BY <1>2, <1>3, <1>4 DEF CallPoints, Results, StackPoints, Ready, NodeRecs
  <2>2. /\ Local(t).value \in Values \cup {Nothing} /\ Local(t).top \in N0(setup)
        /\ Local(t).last \in N0(setup) /\ Local(t).next \in N0(setup)
    BY <1>2 DEF Ready
  <2>3. ASSUME NEW r \in Results, NEW w \in Values \cup {Nothing},
               Becomes(t, Set(Local(t), "popTake", r, w, Local(t).top, Local(t).last, Local(t).next))
        PROVE  /\ Set(Local(t), "popTake", r, w, Local(t).top, Local(t).last, Local(t).next) \in CallRecs(setup)
               /\ Set(Local(t), "popTake", r, w, Local(t).top, Local(t).last, Local(t).next).at = "popTake"
               /\ v2 = With(v, Set(Local(t), "popTake", r, w, Local(t).top, Local(t).last, Local(t).next))
               /\ Moves(Views, Views', t, v2)
               /\ After(v, v2, "popTake", r, w, Local(t).top, Local(t).last, Local(t).next)
    BY ONLY <1>1, <1>6, <2>1, <2>2, <2>3, t \in Threads, SetMoves
  <2> QED
    BY <1>5, <2>1, <2>2, <2>3
<1> HIDE DEF c, v, v2
<1>8. v.at \notin Adding \cup Taking /\ v2.at = "popTake" /\ v2.at \in Taking /\ v2.top = head /\ v2.index = v.index
      /\ v2.op = v.op
  BY <1>3, <1>7 DEF Adding, Taking, After
<1> DEFINE K == Tail(L)
<1>9. /\ OnePlace(setup, entry, pool, K, Views') /\ QueueOK(setup, entry, K, node', tail)
      /\ Spares(setup, entry, L, node, head, Views, K, node', head', Views', t)
      /\ Linked(setup, node', head', K) /\ head' \in N0(setup)
  <2>1. head' = node[head].next
    BY <1>3, <1>4
  <2>2. /\ OnePlace(setup, entry, pool, K, Views') /\ QueueOK(setup, entry, K, node', tail)
        /\ Spares(setup, entry, L, node, head, Views, K, node', node[head].next, Views', t)
        /\ Linked(setup, node', node[head].next, K) /\ node[head].next \in N0(setup)
    BY <1>1, <1>4, <1>6, <1>7, <1>8, Exits DEF v, v2
  <2> QED
    BY <2>1, <2>2
<1> HIDE DEF K
<1>10. Settled(v, v2)
  BY <1>2, <1>3, <1>8 DEF Ready, Settled, Finished, HelpPoints, ScanPoints, Indexed, DeqPoints, v
<1>11. CallOK(setup, entry, K, node', head', tail, Views', t)
  <2>1. KindOK(setup, v2) /\ PushOK(setup, node', v2)
    BY <1>2, <1>3, <1>8 DEF Ready, KindOK, PushOK, StackPoints, EnqPoints, DeqPoints, Adding, v
  <2>2. PopOK(setup, entry, K, node', Views', t)
    BY <1>4, <1>6, <1>8 DEF PopOK, Taking, v2
  <2>3. EnqOK(setup, entry, K, node', Views', t)
    BY <1>8 DEF EnqOK, v2
  <2>4. DeqOK(setup, entry, K, node', head', tail, Views', t)
    BY <1>8 DEF DeqOK, DeqPoints, v2
  <2> QED
    BY <2>1, <2>2, <2>3, <2>4 DEF CallOK, v2
<1> QED
  <2>1. /\ pool' \in SUBSET Nds(setup) /\ node' \in [Nds(setup) -> NodeRecs(setup)]
        /\ UNCHANGED <<setup, guarding, tail>> /\ c.at # "leave" /\ OnePlace(setup, entry, pool', K, Views')
    BY <1>1, <1>6, <1>7, <1>9, Known
  <2>2. Settled(Views[t], With(Views[t], c))
    BY <1>7, <1>10 DEF v
  <2> QED
    BY <1>1, <1>5, <1>7, <1>9, <1>11, <2>1, <2>2, HeapAction

\* The node behind the head of the queue becomes the head.
LEMMA KeepsDeq ==
  ASSUME LockFreeInv, NEW t \in Threads, At(t, "deqCas"), head = Local(t).top, head' = Local(t).next,
         Becomes(t, [Local(t) EXCEPT !.at = "retire", !.result = Local(t).value, !.value = Nothing]),
         UNCHANGED <<setup, guarding, pool, node, tail>>
  PROVE  LockFreeInv'
<1> DEFINE v  == Views[t]
           v2 == Views'[t]
           c  == Set(Local(t), "retire", Local(t).value, Nothing, Local(t).top, Local(t).last, Local(t).next)
<1>1. PICK L : thread \in [Threads -> ThreadRecs(setup)] /\ Entire(L)
  BY DEF LockFreeInv
<1>2. Ready(L, t)
  BY <1>1, Start
<1>3. v.at = "deqCas" /\ head = v.top /\ head' = v.next
  BY <1>2 DEF At, Local, Ready
<1>4. /\ head \in Nds(setup) /\ head # NULL /\ node[head].next = v.next /\ setup.kind = "queue"
      /\ setup.kind = "queue" => tail # head /\ node[head].next # NULL
  BY <1>2, <1>3 DEF Ready, KindOK, StackPoints, DeqPoints, DeqOK, Safe
<1>5. Becomes(t, c)
  <2>1. [Local(t) EXCEPT !.at = "retire", !.result = Local(t).value, !.value = Nothing] = c
    BY <1>2 DEF Ready, Set, CallRecs
  <2> QED
    BY <2>1
<1>6. setup' = setup /\ entry' = entry /\ pool' = pool /\ node' = node /\ tail' = tail
  BY DEF guarding
<1>7. c \in CallRecs(setup) /\ c.at = "retire" /\ v2 = With(v, c) /\ Moves(Views, Views', t, v2)
      /\ After(v, v2, "retire", Local(t).value, Nothing, Local(t).top, Local(t).last, Local(t).next)
  <2>1. "retire" \in CallPoints /\ Local(t).value \in Results
    BY <1>2, <1>3, <1>4 DEF CallPoints, Results, StackPoints, Ready, NodeRecs
  <2>2. /\ Nothing \in Values \cup {Nothing} /\ Local(t).top \in N0(setup)
        /\ Local(t).last \in N0(setup) /\ Local(t).next \in N0(setup)
    BY <1>2 DEF Ready
  <2>3. ASSUME NEW r \in Results, NEW w \in Values \cup {Nothing},
               Becomes(t, Set(Local(t), "retire", r, w, Local(t).top, Local(t).last, Local(t).next))
        PROVE  /\ Set(Local(t), "retire", r, w, Local(t).top, Local(t).last, Local(t).next) \in CallRecs(setup)
               /\ Set(Local(t), "retire", r, w, Local(t).top, Local(t).last, Local(t).next).at = "retire"
               /\ v2 = With(v, Set(Local(t), "retire", r, w, Local(t).top, Local(t).last, Local(t).next))
               /\ Moves(Views, Views', t, v2)
               /\ After(v, v2, "retire", r, w, Local(t).top, Local(t).last, Local(t).next)
    BY ONLY <1>1, <1>6, <2>1, <2>2, <2>3, t \in Threads, SetMoves
  <2> QED
    BY <1>5, <2>1, <2>2, <2>3
<1> HIDE DEF c, v, v2
<1>8. v.at \notin Adding \cup Taking /\ v2.at = "retire" /\ v2.at \in Taking /\ v2.top = head /\ v2.index = v.index
      /\ v2.op = v.op
  BY <1>3, <1>7 DEF Adding, Taking, After
<1> DEFINE K == Tail(L)
<1>9. /\ OnePlace(setup, entry, pool, K, Views') /\ QueueOK(setup, entry, K, node', tail)
      /\ Spares(setup, entry, L, node, head, Views, K, node', head', Views', t)
      /\ Linked(setup, node', head', K) /\ head' \in N0(setup)
  <2>1. head' = node[head].next
    BY <1>3, <1>4
  <2>2. /\ OnePlace(setup, entry, pool, K, Views') /\ QueueOK(setup, entry, K, node', tail)
        /\ Spares(setup, entry, L, node, head, Views, K, node', node[head].next, Views', t)
        /\ Linked(setup, node', node[head].next, K) /\ node[head].next \in N0(setup)
    BY <1>1, <1>4, <1>6, <1>7, <1>8, Exits DEF v, v2
  <2> QED
    BY <2>1, <2>2
<1> HIDE DEF K
<1>10. Settled(v, v2)
  BY <1>2, <1>3, <1>8 DEF Ready, Settled, Finished, HelpPoints, ScanPoints, Indexed, DeqPoints, v
<1>11. CallOK(setup, entry, K, node', head', tail, Views', t)
  <2>1. KindOK(setup, v2) /\ PushOK(setup, node', v2)
    BY <1>2, <1>3, <1>8 DEF Ready, KindOK, PushOK, StackPoints, EnqPoints, DeqPoints, Adding, v
  <2>2. PopOK(setup, entry, K, node', Views', t)
    BY <1>4, <1>6, <1>8 DEF PopOK, Taking, v2
  <2>3. EnqOK(setup, entry, K, node', Views', t)
    BY <1>8 DEF EnqOK, v2
  <2>4. DeqOK(setup, entry, K, node', head', tail, Views', t)
    BY <1>8 DEF DeqOK, DeqPoints, v2
  <2> QED
    BY <2>1, <2>2, <2>3, <2>4 DEF CallOK, v2
<1> QED
  <2>1. /\ pool' \in SUBSET Nds(setup) /\ node' \in [Nds(setup) -> NodeRecs(setup)]
        /\ UNCHANGED <<setup, guarding, tail>> /\ c.at # "leave" /\ OnePlace(setup, entry, pool', K, Views')
    BY <1>1, <1>6, <1>7, <1>9, Known
  <2>2. Settled(Views[t], With(Views[t], c))
    BY <1>7, <1>10 DEF v
  <2> QED
    BY <1>1, <1>5, <1>7, <1>9, <1>11, <2>1, <2>2, HeapAction
=============================================================================
