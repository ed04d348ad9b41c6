---------------------------- MODULE MCContainers ----------------------------
(* Programs for the containers; in each setup one of them is in use.       *)
EXTENDS Containers, TLC

CONSTANTS t1, t2, t3

TheValues == {"a", "b", "c", "d"}

P1(v) == [op |-> "put", value |-> v]
G1    == [op |-> "get", value |-> Nothing]
Leaving == [op |-> "leave", value |-> Nothing]

Setup(k, m, c, p, q, r) ==
  [kind |-> k, max_threads |-> m, capacity |-> c,
   program |-> [t \in Threads |-> IF t = t1 THEN p ELSE IF t = t2 THEN q ELSE r]]

NoSetup == Setup("stack", 1, 1, <<>>, <<>>, <<>>)

TheSetups == {
  \* One thread puts and takes until its retired nodes are scanned and used again.
  Setup("stack", 2, 1, <<P1("a"), G1, P1("b"), G1, P1("c"), G1, P1("a")>>, <<G1, P1("d")>>, <<>>),
  \* Few indices: the pool gets exhausted; a thread without an index.
  Setup("stack", 1, 1, <<P1("a"), P1("b"), G1, G1, P1("c")>>, <<P1("d"), P1("d"), G1>>, <<>>),
  \* A thread leaves and the other frees its nodes.
  Setup("stack", 2, 1, <<P1("a"), P1("b"), P1("c"), G1, G1, P1("a"), G1>>, <<G1, Leaving>>, <<>>),
  \* Two threads leave at once, and one decrement is lost.
  Setup("stack", 3, 1, <<P1("a"), G1, P1("b"), G1, P1("c"), G1>>, <<G1, Leaving>>, <<Leaving>>),
  \* The queue: both operations against each other; a node that is used again.
  Setup("queue", 2, 1, <<P1("a"), G1, P1("b"), G1>>, <<P1("c"), G1>>, <<>>),
  Setup("queue", 2, 1, <<P1("a"), G1, P1("b"), G1, P1("c"), G1, P1("a"), G1, P1("b"), G1, P1("c")>>,
        <<G1>>, <<>>),
  Setup("queue", 2, 1, <<P1("a"), G1, P1("b"), G1, P1("c"), G1, P1("a"), G1, P1("b"), G1, P1("c")>>,
        <<P1("d")>>, <<>>),
  Setup("queue", 1, 1, <<P1("a"), P1("b"), P1("c"), P1("d"), P1("a"), G1>>, <<>>, <<>>)}

PSetup(k, n, p, q, r) ==
  [kind |-> k, real_size |-> n,
   program |-> [t \in Threads |-> IF t = t1 THEN p ELSE IF t = t2 THEN q ELSE r]]

A == "allocate"
F == "free"
ThePoolSetups == {
  PSetup("array", 2, <<A, F, A>>, <<A, A, F>>, <<A, F>>),
  PSetup("tree", 3, <<A, F, A>>, <<A, A, F>>, <<A, F>>),
  PSetup("tree", 5, <<A, A, F>>, <<A, A>>, <<A, F>>),
  PSetup("tree", 1, <<A, F>>, <<A, F>>, <<>>)}

NoPool == PSetup("array", 1, <<>>, <<>>, <<>>)
NoSpsc == [capacity |-> 1, puts |-> <<>>, gets |-> 0]
Rounds == <<"a", "b", "c", "d", "a", "b", "c", "d", "a", "b">>
TheSpscSetups == {[capacity |-> c, puts |-> Rounds, gets |-> 10] : c \in {2, 3}}

\* One container at a time.
OneInUse ==
  /\ Init
  /\ \/ psetup = NoPool /\ spsc.gets = 0
     \/ setup = NoSetup /\ spsc.gets = 0
     \/ setup = NoSetup /\ psetup = NoPool

MCSpec == OneInUse /\ [][Next]_vars

AllSetups     == TheSetups \cup {NoSetup}
AllPoolSetups == ThePoolSetups \cup {NoPool}
AllSpscSetups == TheSpscSetups \cup {NoSpsc}

\* The programs of the queues are those of which NodesAccounted is proved.
ASSUME EnoughIndices
=============================================================================
