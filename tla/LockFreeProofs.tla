--------------------------- MODULE LockFreeProofs ---------------------------
(***************************************************************************)
(* The steps of the lock-free stack and queue that retire a node or scan a *)
(* list keep the invariant of module LockFreeCalls; no node is used after  *)
(* it was freed, and none is lost; and every call takes effect at once, as *)
(* LinearContainer promises.                                               *)
(***************************************************************************)
EXTENDS LockFreeCalls

-----------------------------------------------------------------------------
(* The steps on the indices, the flags and the retired lists               *)

\* The guards and the container are the same, and every node that a call under way guards
\* is still safe.
Spared(s, E, L, V, E2, V2, t) ==
  /\ \A i \in Ents(s) : E2[i].guards = E[i].guards
  /\ \A u \in Threads, pos \in 0..(Gs(s) - 1), n \in Nds(s) :
       /\ u # t /\ V[u].index \in Ents(s) /\ V[u].at \notin {"idle", "return", "leaveRead", "leaveWrite"}
       /\ Safe(s, E, L, V, u, pos, n)
       => Safe(s, E2, L, V2, u, pos, n)

\* A step that changes the retired lists, the pool or the counts keeps the parts.
LEMMA ListStep ==
  ASSUME NEW s, NEW cnt, NEW act, NEW E, NEW pl, NEW nd, NEW h, NEW tl, NEW L, NEW V,
         NEW cnt2, NEW act2, NEW E2 \in [Ents(s) -> EntryRecs(s)], NEW pl2 \in SUBSET Nds(s),
         NEW V2 \in [Threads -> ViewRecs(s)], NEW t \in Threads, NEW v2,
         Parts(s, cnt, E, act, pl, nd, h, tl, L, V), Moves(V, V2, t, v2),
         Orderly(s, cnt2, E2, act2, pl2, L, V2), QueueOK(s, E2, L, nd, tl),
         Spared(s, E, L, V, E2, V2, t), CallOK(s, E2, L, nd, h, tl, V2, t)
  PROVE  Parts(s, cnt2, E2, act2, pl2, nd, h, tl, L, V2)
<1>1. /\ s \in Setups /\ HeapOK(s, pl, nd, h, tl) /\ Linked(s, nd, h, L) /\ Indices(s, cnt, V)
  BY DEF Parts, Shapes, Orderly
<1>2. NULL \notin Nds(s)
  BY SetupsAssumption, Sizes, <1>1 DEF Nds
<1>3. ASSUME NEW u \in Threads, u # t PROVE CallOK(s, E2, L, nd, h, tl, V2, u)
  <2>1. V2[u] = V[u] /\ CallOK(s, E, L, nd, h, tl, V, u)
    BY <1>3 DEF Moves, Parts
  <2>2. CASE V[u].index = NoIndex
    BY <1>1, <2>1, <2>2, Unindexed
  <2>3. CASE V[u].index # NoIndex
    <3>1. V[u].index \in Ents(s)
      BY <1>1, <2>3 DEF Indices, Ents
    <3>2. Undisturbed(s, E, L, nd, h, tl, V, E2, L, nd, h, tl, V2, u)
      BY <1>3, <2>1, <3>1 DEF Undisturbed, Spared
    <3> QED
      BY <1>1, <1>2, <2>1, <3>2, Bystander
  <2> QED
    BY <2>2, <2>3
<1>4. Shapes(s, E2, pl2, nd, h, tl, L, V2)
  BY <1>1 DEF Shapes, HeapOK
<1> QED
  BY <1>3, <1>4 DEF Parts

\* The same for a step of the specification.
LEMMA ListAction ==
  ASSUME NEW t \in Threads, NEW L, Entire(L), NEW v2,
         thread' \in [Threads -> ThreadRecs(setup)], Views' \in [Threads -> ViewRecs(setup)],
         Moves(Views, Views', t, v2), UNCHANGED <<setup, node, head, tail>>,
         entry' \in [Ents(setup) -> EntryRecs(setup)], pool' \in SUBSET Nds(setup),
         Orderly(setup, counter', entry', active_hazard_pointer', pool', L, Views'),
         QueueOK(setup, entry', L, node, tail),
         Spared(setup, entry, L, Views, entry', Views', t),
         CallOK(setup, entry', L, node, head, tail, Views', t)
  PROVE  LockFreeInv'
<1>1. setup' = setup /\ node' = node /\ head' = head /\ tail' = tail
  OBVIOUS
<1>2. Parts(setup, counter', entry', active_hazard_pointer', pool', node, head, tail, L, Views')
  BY ListStep DEF Entire
<1>3. Entire(L)'
  BY <1>1, <1>2 DEF Entire
<1> QED
  BY <1>1, <1>3 DEF LockFreeInv

\* Nobody else gets or loses an index.
LEMMA KeptIndices ==
  ASSUME NEW s, NEW cnt, NEW V, NEW V2, NEW t \in Threads, NEW v2,
         Moves(V, V2, t, v2), Indices(s, cnt, V), v2.index = V[t].index,
         V[t].at # "giveBack", v2.at # "giveBack", v2.at \in Indexed => V[t].index # NoIndex
  PROVE  Indices(s, cnt, V2)
<1>1. \A u \in Threads : V2[u].index = V[u].index /\ (V2[u].at = "giveBack" <=> V[u].at = "giveBack")
  BY DEF Moves
<1>2. {u \in Threads : V2[u].at = "giveBack"} = {u \in Threads : V[u].at = "giveBack"}
  BY <1>1
<1>3. \A u \in Threads : V2[u].at \in Indexed => V2[u].index # NoIndex
  BY DEF Moves, Indices
<1>4. (\E u \in Threads : V2[u].at = "giveBack") =>
        cnt >= s.max_threads + Cardinality({u \in Threads : V2[u].at = "giveBack"})
  BY <1>1, <1>2 DEF Indices
<1>5. \A u \in Threads : V2[u].index \in {NoIndex} \cup Ents(s) /\ V2[u].index < cnt
  BY <1>1 DEF Indices
<1>6. \A u, x \in Threads : V2[u].index = V2[x].index /\ V2[u].index # NoIndex => u = x
  BY <1>1 DEF Indices
<1>7. \A u \in Threads : V2[u].at = "giveBack" => V2[u].index = NoIndex
  BY <1>1 DEF Indices
<1> QED
  BY <1>3, <1>4, <1>5, <1>6, <1>7 DEF Indices

\* The thread has the rest of its program still to do.
LEMMA KeptLeaves ==
  ASSUME NEW V, NEW V2, NEW t \in Threads, NEW v2, Moves(V, V2, t, v2), Leaves(V),
         v2.todo = V[t].todo, v2.at # "leave" \/ V[t].at = "leave"
  PROVE  Leaves(V2)
  BY DEF Leaves, Moves

-----------------------------------------------------------------------------
(* A node is retired                                                       *)

\* While a thread works and does not scan, nobody scans its list.
LEMMA NotScanned ==
  ASSUME NEW s, NEW cnt, NEW E, NEW V, Indices(s, cnt, V), Scanned(s, cnt, E, V), NEW t \in Threads,
         V[t].index # NoIndex, ~Finished(V[t]), V[t].at \notin HelpPoints
  PROVE  \A u \in Threads : V[u].at \in HelpPoints => V[u].scan # V[t].index
<1> SUFFICES ASSUME NEW u \in Threads, V[u].at \in HelpPoints, V[u].scan = V[t].index PROVE FALSE
  OBVIOUS
<1>1. CASE V[u].help = 0
  <2>1. V[u].index = V[t].index
    BY <1>1 DEF Scanned
  <2> QED
    BY <2>1 DEF Indices
<1>2. CASE V[u].help # 0
  BY <1>2 DEF Scanned
<1> QED
  BY <1>1, <1>2

\* The size of a retired list: more than all the guards, and enough below the threshold.
LEMMA ListSize ==
  ASSUME NEW s \in Setups
  PROVE  /\ All(s) < RetiredListMaxSize(s)
         /\ \A n \in Nat, act \in Int :
              act <= s.max_threads /\ ~(4 * n >= 5 * act * Gs(s)) => n < RetiredListMaxSize(s)
<1> DEFINE m == s.max_threads
           x == (5 * m * Gs(s)) \div 4
<1>1. m \in Nat \ {0} /\ s.kind \in {"stack", "queue"} /\ Gs(s) \in {1, 2}
  BY Sizes
<1>2. RetiredListMaxSize(s) = x + 1
  BY DEF RetiredListMaxSize, Gs
<1> HIDE DEF m
<1>3. CASE Gs(s) = 1
  <2>1. \A y \in Nat : 4 * ((5 * y * 1) \div 4) <= 5 * y /\ 5 * y < 4 * ((5 * y * 1) \div 4) + 4
                       /\ (5 * y * 1) \div 4 \in Int
    OBVIOUS
  <2>2. x \in Int /\ 4 * x <= 5 * m /\ 5 * m < 4 * x + 4
    BY <1>1, <1>3, <2>1
  <2> HIDE DEF x
  <2>3. All(s) = m
    BY <1>1, <1>3 DEF All, m
  <2>4. \A n \in Nat, act \in Int : act <= m /\ ~(4 * n >= 5 * act * 1) => n < x + 1
    BY <1>1, <2>2
  <2> QED
    BY <1>1, <1>2, <1>3, <2>2, <2>3, <2>4 DEF m
<1>4. CASE Gs(s) = 2
  <2>1. \A y \in Nat : 4 * ((5 * y * 2) \div 4) <= 10 * y /\ 10 * y < 4 * ((5 * y * 2) \div 4) + 4
                       /\ (5 * y * 2) \div 4 \in Int
    OBVIOUS
  <2>2. x \in Int /\ 4 * x <= 10 * m /\ 10 * m < 4 * x + 4
    BY <1>1, <1>4, <2>1
  <2> HIDE DEF x
  <2>3. All(s) = 2 * m
    BY <1>1, <1>4 DEF All, m
  <2>4. \A n \in Nat, act \in Int : act <= m /\ ~(4 * n >= 5 * act * 2) => n < x + 1
    BY <1>1, <2>2
  <2> QED
    BY <1>1, <1>2, <1>4, <2>2, <2>3, <2>4 DEF m
<1> QED
  BY <1>1, <1>3, <1>4

\* Node m is added to list i.
Added(s, E, E2, i, m) ==
  /\ E2[i].retired = Append(E[i].retired, m)
  /\ \A j \in Ents(s) : /\ j # i => E2[j].retired = E[j].retired
                        /\ E2[j].is_active = E[j].is_active /\ E2[j].guards = E[j].guards

\* What is on which list then.
AddedNodes(s, E, E2, i, m) ==
  \A j \in Ents(s) : \A n : Rtd(E2, j, n) <=> Rtd(E, j, n) \/ (j = i /\ n = m)
\* Where on the lists.
AddedPlaces(s, E, E2, i, m) ==
  \A j \in Ents(s) : \A k \in DOMAIN E2[j].retired :
    \/ k \in DOMAIN E[j].retired /\ E2[j].retired[k] = E[j].retired[k]
    \/ j = i /\ k = Len(E[i].retired) + 1 /\ E2[j].retired[k] = m

\* A node that is added to a list is its last one.
LEMMA AddedLists ==
  ASSUME NEW s, NEW E \in [Ents(s) -> EntryRecs(s)], NEW E2, NEW i \in Ents(s), NEW m \in Nds(s),
         Added(s, E, E2, i, m)
  PROVE  /\ AddedNodes(s, E, E2, i, m) /\ AddedPlaces(s, E, E2, i, m)
         /\ Len(E2[i].retired) = Len(E[i].retired) + 1 /\ Len(E[i].retired) \in Nat
<1>1. E[i].retired \in Seq(Nds(s)) /\ E2[i].retired = Append(E[i].retired, m)
  BY DEF EntryRecs, Added
<1> DEFINE q == E[i].retired
           q2 == E2[i].retired
<1> HIDE DEF q, q2
<1>2. q \in Seq(Nds(s)) /\ q2 = Append(q, m)
  BY <1>1 DEF q, q2
<1>3. /\ Len(q2) = Len(q) + 1 /\ Len(q) \in Nat /\ DOMAIN q = 1..Len(q) /\ DOMAIN q2 = 1..(Len(q) + 1)
      /\ q2[Len(q) + 1] = m /\ \A k \in 1..Len(q) : q2[k] = q[k]
  BY <1>2
<1>4. \A n : (\E k \in DOMAIN q2 : q2[k] = n) <=> (\E k \in DOMAIN q : q[k] = n) \/ n = m
  <2>1. Len(q) + 1 \in DOMAIN q2 /\ \A k \in DOMAIN q : k \in DOMAIN q2
    BY <1>3
  <2>2. \A k \in DOMAIN q2 : k \in DOMAIN q \/ k = Len(q) + 1
    BY <1>3
  <2> QED
    BY <1>3, <2>1, <2>2
<1>5. \A j \in Ents(s) : j # i => E2[j].retired = E[j].retired
  BY DEF Added
<1>6. \A j \in Ents(s) : \A n : Rtd(E2, j, n) <=> Rtd(E, j, n) \/ (j = i /\ n = m)
  <2> TAKE j \in Ents(s)
  <2> TAKE n
  <2>1. CASE j = i
    BY <1>4, <2>1 DEF Rtd, q, q2
  <2>2. CASE j # i
    BY <1>5, <2>2 DEF Rtd
  <2> QED
    BY <2>1, <2>2
<1>7. \A k \in DOMAIN q2 : (k \in DOMAIN q /\ q2[k] = q[k]) \/ (k = Len(q) + 1 /\ q2[k] = m)
  BY <1>3
<1>8. \A j \in Ents(s) : \A k \in DOMAIN E2[j].retired :
        (k \in DOMAIN E[j].retired /\ E2[j].retired[k] = E[j].retired[k])
        \/ (j = i /\ k = Len(E[i].retired) + 1 /\ E2[j].retired[k] = m)
  BY <1>5, <1>7 DEF q, q2
<1> QED
  BY <1>3, <1>6, <1>8 DEF q, q2, AddedNodes, AddedPlaces

\* The thread that has retired a node scans its own list, or the list is short.
Retiring(s, act, E2, v, v2) ==
  /\ v2.index = v.index /\ v2.todo = v.todo
  /\ \/ v2.at = "scan" /\ v2.scan = v.index /\ v2.k = 0 /\ v2.hazards = {} /\ v2.help = 0
     \/ v2.at = "return" /\ ~(4 * Len(E2[v.index].retired) >= 5 * act * Gs(s))

\* A node that is retired is in one place,
LEMMA RetirePlaces ==
  ASSUME NEW s, NEW E \in [Ents(s) -> EntryRecs(s)], NEW E2, NEW pl, NEW L, NEW V, NEW V2,
         NEW t \in Threads, NEW v2, NEW act, NEW i \in Ents(s), NEW m \in Nds(s), V[t].index = i,
         V[t].at = "retire", V[t].top = m, Moves(V, V2, t, v2), Added(s, E, E2, i, m),
         Retiring(s, act, E2, V[t], v2), OnePlace(s, E, pl, L, V)
  PROVE  OnePlace(s, E2, pl, L, V2)
<1>1. \A j \in Ents(s) : \A n : Rtd(E2, j, n) <=> Rtd(E, j, n) \/ (j = i /\ n = m)
  <2>1. AddedNodes(s, E, E2, i, m)
    BY AddedLists
  <2> QED
    BY <2>1 DEF AddedNodes
<1>2. \A j \in Ents(s) : \A k \in DOMAIN E2[j].retired :
        (k \in DOMAIN E[j].retired /\ E2[j].retired[k] = E[j].retired[k])
        \/ (j = i /\ k = Len(E[i].retired) + 1 /\ E2[j].retired[k] = m)
  <2>1. AddedPlaces(s, E, E2, i, m)
    BY AddedLists
  <2> QED
    BY <2>1 DEF AddedPlaces
<1>3. Holds(V[t], m)
  BY DEF Holds, Taking
<1>4. m \notin pl /\ m \notin Range(L) /\ (\A j \in Ents(s) : ~Rtd(E, j, m))
      /\ \A u \in Threads : Holds(V[u], m) => u = t
  BY <1>3 DEF OnePlace
<1>5. \A n \in Nds(s) : ~Holds(v2, n)
  BY DEF Retiring, Holds, Adding, Taking
<1>6. \A u \in Threads, n \in Nds(s) : Holds(V2[u], n) => u # t /\ Holds(V[u], n) /\ V2[u] = V[u]
  BY <1>5 DEF Moves
<1>7. \A j \in Ents(s) : \A n \in Nds(s) : Rtd(E2, j, n) => n \notin pl /\ n \notin Range(L)
  BY <1>1, <1>4 DEF OnePlace
<1>8. ASSUME NEW u \in Threads, NEW n \in Nds(s), Holds(V2[u], n)
      PROVE  /\ n \notin pl /\ n \notin Range(L)
             /\ \A j \in Ents(s) : ~Rtd(E2, j, n)
             /\ \A x \in Threads : Holds(V2[x], n) => x = u
  BY <1>1, <1>4, <1>6, <1>8 DEF OnePlace
<1>9. ASSUME NEW a \in Ents(s), NEW b \in Ents(s), NEW k \in DOMAIN E2[a].retired, NEW l \in DOMAIN E2[b].retired,
             E2[a].retired[k] = E2[b].retired[l]
      PROVE  a = b /\ k = l
  <2>1. \A j \in Ents(s) : \A x \in DOMAIN E[j].retired : E[j].retired[x] # m
    BY <1>4 DEF Rtd
  <2>2. CASE E2[a].retired[k] = m
    <3>1. a = i /\ k = Len(E[i].retired) + 1
      BY <1>2, <2>1, <2>2
    <3>2. b = i /\ l = Len(E[i].retired) + 1
      BY <1>2, <1>9, <2>1, <2>2
    <3> QED
      BY <3>1, <3>2
  <2>3. CASE E2[a].retired[k] # m
    <3>1. k \in DOMAIN E[a].retired /\ l \in DOMAIN E[b].retired /\ E[a].retired[k] = E[b].retired[l]
      BY <1>2, <1>9, <2>3
    <3> QED
      BY <3>1 DEF OnePlace
  <2> QED
    BY <2>2, <2>3
<1> QED
  BY <1>7, <1>8, <1>9 DEF OnePlace

\* the list that it is added to is scanned by no other thread,
LEMMA RetireScanned ==
  ASSUME NEW s \in Setups, NEW cnt, NEW E, NEW E2, NEW V, NEW V2, NEW act, NEW t \in Threads, NEW v2,
         NEW i \in Ents(s), NEW m, V[t].index = i, i # NoIndex, V[t].at = "retire", Moves(V, V2, t, v2),
         Added(s, E, E2, i, m), Retiring(s, act, E2, V[t], v2), Indices(s, cnt, V), Scanned(s, cnt, E, V)
  PROVE  Scanned(s, cnt, E2, V2)
<1>1. ~Finished(V[t]) /\ V[t].at \notin HelpPoints
  BY DEF Finished, HelpPoints, ScanPoints
<1>2. \A u \in Threads : V[u].at \in HelpPoints => V[u].scan # i
  BY <1>1, NotScanned
<1>3. \A j \in Ents(s) : E2[j].is_active = E[j].is_active
  BY DEF Added
<1>4. \A u \in Threads : V2[u].index = V[u].index /\ (u # t => V2[u] = V[u])
  BY DEF Moves, Retiring
<1>5. V2[t] = v2 /\ (v2.at \in HelpPoints => v2.at = "scan" /\ v2.scan = i /\ v2.k = 0 /\ v2.help = 0)
  BY DEF Moves, Retiring, HelpPoints, ScanPoints
<1>6. \A u \in Threads : V[u].index # NoIndex => V[u].index \in Ents(s)
  BY DEF Indices, Ents
<1>7. E[i].is_active
  BY <1>1 DEF Scanned
<1>8. \A j \in Ents(s) : ~E2[j].is_active => j < cnt
  BY <1>3 DEF Scanned
<1>9. ASSUME NEW u \in Threads, V2[u].index # NoIndex, ~Finished(V2[u]) PROVE E2[V2[u].index].is_active
  BY <1>3, <1>4, <1>6, <1>7, <1>9 DEF Scanned
<1>10. \A u \in Threads : Finished(V[u]) => Finished(V2[u])
  BY <1>1, <1>4
<1>11. ASSUME NEW u \in Threads, V2[u].at \in HelpPoints
       PROVE  /\ V2[u].scan \in Ents(s)
              /\ V2[u].help = 0 => V2[u].scan = V2[u].index /\ V2[u].at # "helped"
              /\ V2[u].help # 0 => /\ E2[V2[u].scan].is_active /\ V2[u].scan < cnt
                                   /\ \A x \in Threads : V2[x].index = V2[u].scan => Finished(V2[x])
  <2>1. CASE u = t
    BY <1>4, <1>5, <1>11, <2>1
  <2>2. CASE u # t
    BY <1>3, <1>4, <1>10, <1>11, <2>2 DEF Scanned
  <2> QED
    BY <2>1, <2>2
<1>12. \A u, x \in Threads : V2[u].at \in HelpPoints /\ V2[x].at \in HelpPoints /\ V2[u].scan = V2[x].scan
         => u = x
  BY <1>2, <1>4, <1>5 DEF Scanned
<1>13. ASSUME NEW u \in Threads, V2[u].at \in ScanPoints
       PROVE  V2[u].k \in 0..All(s) /\ (V2[u].at = "scan" <=> V2[u].k < All(s))
  <2>1. CASE u = t
    <3>1. v2.at \in HelpPoints
      BY <1>5, <1>13, <2>1 DEF HelpPoints
    <3>2. All(s) \in Nat \ {0}
      BY Sizes
    <3>3. V2[u].at = "scan" /\ V2[u].k = 0
      BY <1>5, <2>1, <3>1
    <3> QED
      BY <3>2, <3>3
  <2>2. CASE u # t
    BY <1>4, <1>13, <2>2 DEF Scanned
  <2> QED
    BY <2>1, <2>2
<1> QED
  BY <1>8, <1>9, <1>11, <1>12, <1>13 DEF Scanned

\* it has room afterwards or is scanned next,
LEMMA RetireRoom ==
  ASSUME NEW s \in Setups, NEW cnt, NEW E \in [Ents(s) -> EntryRecs(s)], NEW E2, NEW V, NEW V2, NEW act,
         NEW t \in Threads, NEW v2, NEW i \in Ents(s), NEW m \in Nds(s), V[t].index = i, i # NoIndex,
         V[t].at = "retire", Moves(V, V2, t, v2), Added(s, E, E2, i, m), Retiring(s, act, E2, V[t], v2),
         Indices(s, cnt, V), Scanned(s, cnt, E, V), Room(s, E, V, act)
  PROVE  Room(s, E2, V2, act)
<1>1. \A u \in Threads : V[u].at \in HelpPoints => V[u].scan # i
  BY NotScanned DEF Finished, HelpPoints, ScanPoints
<1>2. Len(E2[i].retired) = Len(E[i].retired) + 1 /\ Len(E[i].retired) \in Nat
  BY AddedLists
<1>3. Len(E[i].retired) < RetiredListMaxSize(s)
  BY <1>1 DEF Room, HelpPoints
<1>4. RetiredListMaxSize(s) \in Nat
  BY Sizes
<1>5. Len(E2[i].retired) <= RetiredListMaxSize(s) /\ Len(E2[i].retired) \in Nat
  BY <1>2, <1>3, <1>4
<1>6. V2[t] = v2 /\ \A u \in Threads : u # t => V2[u] = V[u]
  BY DEF Moves
<1>7. (\A u \in Threads : V2[u].at \in ScanPoints => V2[u].scan # i)
        => Len(E2[i].retired) < RetiredListMaxSize(s)
  <2>1. CASE v2.at = "scan"
    BY <1>6, <2>1 DEF Retiring, ScanPoints
  <2>2. CASE v2.at # "scan"
    <3>1. ~(4 * Len(E2[i].retired) >= 5 * act * Gs(s))
      BY <2>2 DEF Retiring
    <3>2. act \in Int /\ act <= s.max_threads
      BY DEF Room
    <3> QED
      BY <1>5, <3>1, <3>2, ListSize
  <2> QED
    BY <2>1, <2>2
<1>8. ASSUME NEW j \in Ents(s), j # i
      PROVE  /\ Len(E2[j].retired) <= RetiredListMaxSize(s)
             /\ (\A u \in Threads : V2[u].at \in ScanPoints => V2[u].scan # j)
                  => Len(E2[j].retired) < RetiredListMaxSize(s)
  <2>1. E2[j].retired = E[j].retired
    BY <1>8 DEF Added
  <2>2. V[t].at \notin ScanPoints
    BY DEF ScanPoints
  <2> QED
    BY <1>6, <2>1, <2>2 DEF Room
<1>9. ASSUME NEW u \in Threads, V2[u].at \in ScanPoints
      PROVE  IsFiniteSet(V2[u].hazards) /\ Cardinality(V2[u].hazards) <= V2[u].k
  <2>1. CASE u = t
    <3>1. V2[u].hazards = {} /\ V2[u].k = 0
      BY <1>6, <1>9, <2>1 DEF Retiring, ScanPoints
    <3> QED
      BY <3>1, FS_EmptySet
  <2>2. CASE u # t
    BY <1>6, <1>9, <2>2 DEF Room
  <2> QED
    BY <2>1, <2>2
<1> QED
  BY <1>5, <1>7, <1>8, <1>9 DEF Room

\* and what others have guarded is kept.
LEMMA RetireSpared ==
  ASSUME NEW s \in Setups, NEW cnt, NEW E \in [Ents(s) -> EntryRecs(s)], NEW E2, NEW L, NEW V, NEW V2, NEW act,
         NEW t \in Threads, NEW v2, NEW i \in Ents(s), NEW m \in Nds(s), V[t].index = i, i # NoIndex,
         V[t].at = "retire", V[t].top = m, Moves(V, V2, t, v2), Added(s, E, E2, i, m),
         Retiring(s, act, E2, V[t], v2), Indices(s, cnt, V), Scanned(s, cnt, E, V)
  PROVE  Spared(s, E, L, V, E2, V2, t)
<1>1. \A u \in Threads : V[u].at \in HelpPoints => V[u].scan # i
  BY NotScanned DEF Finished, HelpPoints, ScanPoints
<1>2. \A j \in Ents(s) : \A n : Rtd(E2, j, n) <=> Rtd(E, j, n) \/ (j = i /\ n = m)
  <2>1. AddedNodes(s, E, E2, i, m)
    BY AddedLists
  <2> QED
    BY <2>1 DEF AddedNodes
<1>3. \A j \in Ents(s) : E2[j].guards = E[j].guards
  BY DEF Added
<1>4. V2[t] = v2 /\ \A u \in Threads : u # t => V2[u] = V[u]
  BY DEF Moves
<1>5. ASSUME NEW u \in Threads, NEW pos \in 0..(Gs(s) - 1), NEW n \in Nds(s), u # t, V[u].index \in Ents(s),
             Safe(s, E, L, V, u, pos, n)
      PROVE  Safe(s, E2, L, V2, u, pos, n)
  <2>1. Live(s, E2, L, V2, n)
    <3>1. \A j \in Ents(s) : Rtd(E, j, n) => Rtd(E2, j, n)
      BY <1>2
    <3>2. n = m => Rtd(E2, i, n)
      BY <1>2
    <3>3. \A x \in Threads : V[x].at \in Taking /\ V[x].top = n => x # t \/ n = m
      OBVIOUS
    <3> QED
      BY <1>4, <1>5, <3>1, <3>2, <3>3 DEF Safe, Live
  <2>2. V2[u] = V[u] /\ E2[V2[u].index].guards[pos] = n
    BY <1>3, <1>4, <1>5 DEF Safe, Guarded
  <2>3. ASSUME NEW x \in Threads, V2[x].at \in ScanPoints, Rtd(E2, V2[x].scan, n),
               Gs(s) * V2[u].index + pos < V2[x].k
        PROVE  n \in V2[x].hazards
    <3>1. CASE x = t
      <4>1. v2.k = 0
        BY <1>4, <2>3, <3>1 DEF Retiring, ScanPoints
      <4>2. Gs(s) \in {1, 2} /\ V[u].index \in Nat /\ pos \in Nat
        BY <1>5, Sizes DEF Ents
      <4>3. ~(Gs(s) * V[u].index + pos < 0)
        BY <4>2
      <4> QED
        BY <1>4, <2>2, <2>3, <3>1, <4>1, <4>3
    <3>2. CASE x # t
      <4>1. V2[x] = V[x] /\ V[x].scan # i /\ V[x].scan \in Ents(s)
        BY <1>1, <1>4, <2>3, <3>2 DEF HelpPoints, Scanned
      <4>2. Rtd(E, V[x].scan, n)
        BY <1>2, <2>3, <4>1
      <4> QED
        BY <1>5, <2>2, <2>3, <4>1, <4>2 DEF Safe, Guarded
    <3> QED
      BY <3>1, <3>2
  <2> QED
    BY <1>5, <2>1, <2>2, <2>3 DEF Safe, Guarded
<1> QED
  BY <1>3, <1>5 DEF Spared

-----------------------------------------------------------------------------
(* The steps of EnqueuePointerForDeletion, Scan and HelpScan               *)

\* How many guards an entry has.
LEMMA GuardCount ==
  ASSUME setup \in Setups
  PROVE  Cardinality(Guards) = Gs(setup)
<1>1. ASSUME NEW a \in Int, NEW b \in Int PROVE Cardinality(a..b) = IF a > b THEN 0 ELSE b - a + 1
  BY FS_Interval
<1>2. ASSUME NEW a, NEW b, a = 0, b = 0 PROVE Cardinality(a..b) = 1
  <2>1. a \in Int /\ b \in Int /\ ~(a > b) /\ b - a + 1 = 1
    BY <1>2
  <2> QED
    BY <1>1, <2>1
<1>3. ASSUME NEW a, NEW b, a = 0, b = 1 PROVE Cardinality(a..b) = 2
  <2>1. a \in Int /\ b \in Int /\ ~(a > b) /\ b - a + 1 = 2
    BY <1>3
  <2> QED
    BY <1>1, <2>1
<1>4. Cardinality(0..0) = 1 /\ Cardinality(0..1) = 2
  BY <1>2, <1>3
<1> QED
  BY <1>4 DEF Guards, Gs

\* One list of one entry is changed; the flag of one entry is set or cleared.
Relisted(s, E, E2, i, q) ==
  /\ E2[i].retired = q
  /\ \A j \in Ents(s) : /\ j # i => E2[j].retired = E[j].retired
                        /\ E2[j].is_active = E[j].is_active /\ E2[j].guards = E[j].guards
\* The lists and the guards of all entries are as they were.
Alike(s, E, E2) == \A j \in Ents(s) : E2[j].retired = E[j].retired /\ E2[j].guards = E[j].guards
\* Entry i has become active.
Raised(s, E, E2, i) ==
  /\ Alike(s, E, E2) /\ E2[i].is_active
  /\ \A j \in Ents(s) : j # i => E2[j].is_active = E[j].is_active
\* Entry i has become inactive.
Lowered(s, E, E2, i) ==
  /\ Alike(s, E, E2) /\ ~E2[i].is_active
  /\ \A j \in Ents(s) : j # i => E2[j].is_active = E[j].is_active

\* The entries when a list is changed.
LEMMA ListChanged ==
  ASSUME NEW s, NEW E \in [Ents(s) -> EntryRecs(s)], NEW i \in Ents(s), NEW q \in Seq(Nds(s)), NEW E2,
         E2 = [E EXCEPT ![i].retired = q]
  PROVE  E2 \in [Ents(s) -> EntryRecs(s)] /\ Relisted(s, E, E2, i, q)
<1>1. \A e \in EntryRecs(s) : /\ [e EXCEPT !.retired = q] \in EntryRecs(s)
                              /\ [e EXCEPT !.retired = q].retired = q
                              /\ [e EXCEPT !.retired = q].is_active = e.is_active
                              /\ [e EXCEPT !.retired = q].guards = e.guards
  BY DEF EntryRecs
<1>2. E2 = [E EXCEPT ![i] = [E[i] EXCEPT !.retired = q]]
  OBVIOUS
<1> HIDE DEF EntryRecs
<1> QED
  BY <1>1, <1>2 DEF Relisted

\* The entries when a flag is set.
LEMMA FlagRaised ==
  ASSUME NEW s, NEW E \in [Ents(s) -> EntryRecs(s)], NEW i \in Ents(s), NEW E2,
         E2 = [E EXCEPT ![i].is_active = TRUE]
  PROVE  E2 \in [Ents(s) -> EntryRecs(s)] /\ Raised(s, E, E2, i)
<1>1. \A e \in EntryRecs(s) : /\ [e EXCEPT !.is_active = TRUE] \in EntryRecs(s) /\ [e EXCEPT !.is_active = TRUE].is_active
                              /\ [e EXCEPT !.is_active = TRUE].retired = e.retired /\ [e EXCEPT !.is_active = TRUE].guards = e.guards
  BY DEF EntryRecs
<1>2. E2 = [E EXCEPT ![i] = [E[i] EXCEPT !.is_active = TRUE]]
  OBVIOUS
<1> HIDE DEF EntryRecs
<1> QED
  BY <1>1, <1>2 DEF Raised, Alike

\* The entries when a flag is cleared.
LEMMA FlagLowered ==
  ASSUME NEW s, NEW E \in [Ents(s) -> EntryRecs(s)], NEW i \in Ents(s), NEW E2,
         E2 = [E EXCEPT ![i].is_active = FALSE]
  PROVE  E2 \in [Ents(s) -> EntryRecs(s)] /\ Lowered(s, E, E2, i)
<1>1. \A e \in EntryRecs(s) : /\ [e EXCEPT !.is_active = FALSE] \in EntryRecs(s) /\ ~[e EXCEPT !.is_active = FALSE].is_active
                              /\ [e EXCEPT !.is_active = FALSE].retired = e.retired /\ [e EXCEPT !.is_active = FALSE].guards = e.guards
  BY DEF EntryRecs
<1>2. E2 = [E EXCEPT ![i] = [E[i] EXCEPT !.is_active = FALSE]]
  OBVIOUS
<1> HIDE DEF EntryRecs
<1> QED
  BY <1>1, <1>2 DEF Lowered, Alike

\* A call that begins to scan.
Scans(c, i, j) == c.at = "scan" /\ c.scan = i /\ c.k = 0 /\ c.hazards = {} /\ c.help = j

\* What Scanning sets.
LEMMA ScanningFields ==
  ASSUME NEW s, NEW x \in CallRecs(s), NEW i \in Nat, NEW j \in Nat
  PROVE  Scanning(x, i, j) \in CallRecs(s) /\ Scans(Scanning(x, i, j), i, j)
  BY DEF Scans, Scanning, CallRecs, CallPoints, HelpPoints, ScanPoints, N0

\* A node is retired.
LEMMA KeepsRetire == ASSUME LockFreeInv, NEW t \in Threads, Retire(t) PROVE LockFreeInv'
<1> DEFINE v == Views[t]
           i == MyEntry(t)
           m == Local(t).top
           list == entry[i].retired
           c == IF Exceeded(Len(Append(list, m))) THEN Scanning(Local(t), i, 0)
                ELSE [Local(t) EXCEPT !.at = "return"]
           v2 == With(v, c)
           act == active_hazard_pointer
<1>1. PICK L : thread \in [Threads -> ThreadRecs(setup)] /\ Entire(L)
  BY DEF LockFreeInv
<1>2. Ready(L, t)
  BY <1>1, Start
<1>3. v.at = "retire" /\ v.index = i /\ v.top = m /\ i # NoIndex /\ i \in Ents(setup) /\ m \in Nds(setup)
  BY <1>2 DEF Ready, Retire, At, MyEntry, Indexed, PopOK, Taking, Local
<1>4. /\ setup \in Setups /\ entry \in [Ents(setup) -> EntryRecs(setup)] /\ pool \in SUBSET Nds(setup)
      /\ OnePlace(setup, entry, pool, L, Views) /\ Indices(setup, counter, Views) /\ Leaves(Views)
      /\ Scanned(setup, counter, entry, Views) /\ Room(setup, entry, Views, act)
      /\ QueueOK(setup, entry, L, node, tail)
  BY <1>1, Known
<1>5. Len(list) < RetiredListMaxSize(setup)
  <2>1. \A u \in Threads : Views[u].at \in HelpPoints => Views[u].scan # Views[t].index
    <3>1. Views[t].index # NoIndex /\ ~Finished(Views[t]) /\ Views[t].at \notin HelpPoints
      BY <1>3 DEF Finished, HelpPoints, ScanPoints
    <3> QED
      BY <1>4, <3>1, NotScanned
  <2> QED
    BY <1>3, <1>4, <2>1 DEF Room, HelpPoints
<1>6. /\ entry' = [entry EXCEPT ![i].retired = Append(list, m)] /\ Becomes(t, c)
      /\ setup' = setup /\ counter' = counter /\ active_hazard_pointer' = act /\ pool' = pool /\ node' = node
      /\ head' = head /\ tail' = tail
  BY <1>5 DEF Retire, heap
<1>7. list \in Seq(Nds(setup)) /\ Append(list, m) \in Seq(Nds(setup))
  <2>1. list \in Seq(Nds(setup))
    BY <1>3, <1>4 DEF EntryRecs
  <2> QED
    BY <1>3, <2>1
<1>8. /\ entry' \in [Ents(setup) -> EntryRecs(setup)] /\ entry'[i].retired = Append(list, m)
      /\ \A j \in Ents(setup) : /\ j # i => entry'[j].retired = entry[j].retired
                                /\ entry'[j].is_active = entry[j].is_active /\ entry'[j].guards = entry[j].guards
  <2> HIDE DEF i, m, list
  <2> DEFINE q == Append(list, m)
  <2>1. q \in Seq(Nds(setup)) /\ i \in Ents(setup) /\ entry' = [entry EXCEPT ![i].retired = q]
    BY <1>3, <1>6, <1>7
  <2> HIDE DEF q
  <2>2. entry' \in [Ents(setup) -> EntryRecs(setup)] /\ Relisted(setup, entry, entry', i, q)
    BY <1>4, <2>1, ListChanged
  <2> QED
    BY <2>2 DEF q, Relisted
<1>9. Added(setup, entry, entry', i, m)
  BY <1>8 DEF Added
<1>10. /\ c \in CallRecs(setup)
       /\ \/ c.at = "scan" /\ c.scan = i /\ c.k = 0 /\ c.hazards = {} /\ c.help = 0
          \/ c.at = "return" /\ ~(4 * Len(entry'[i].retired) >= 5 * act * Gs(setup))
  <2>1. i \in Nat /\ 0 \in Nat
    BY <1>3 DEF Ents
  <2>2. Local(t) \in CallRecs(setup)
    BY <1>2 DEF Ready
  <2>3. CASE Exceeded(Len(Append(list, m)))
    <3>1. c = Scanning(Local(t), i, 0)
      BY <2>3
    <3> HIDE DEF c, i
    <3>2. c \in CallRecs(setup) /\ Scans(c, i, 0)
      BY <2>1, <2>2, <3>1, ScanningFields
    <3> QED
      BY <3>2 DEF Scans
  <2>4. CASE ~Exceeded(Len(Append(list, m)))
    <3>1. c = [Local(t) EXCEPT !.at = "return"]
      BY <2>4
    <3>2. c \in CallRecs(setup) /\ c.at = "return"
      BY <2>2, <3>1 DEF CallRecs, CallPoints
    <3>3. Cardinality(Guards) = Gs(setup)
      BY <1>4, GuardCount
    <3>4. ~(4 * Len(entry'[i].retired) >= 5 * act * Gs(setup))
      <4> HIDE DEF list, m
      <4> QED
        BY <1>8, <2>4, <3>3 DEF Exceeded
    <3> HIDE DEF c
    <3> QED
      BY <3>2, <3>4
  <2> QED
    BY <2>3, <2>4
<1> HIDE DEF c, i, m, list
<1>11. /\ thread' \in [Threads -> ThreadRecs(setup')] /\ Views' \in [Threads -> ViewRecs(setup)]
       /\ Moves(Views, Views', t, v2)
  BY <1>1, <1>6, <1>10, BecomesMoves
<1>12. Retiring(setup, act, entry', v, v2)
  BY <1>3, <1>10 DEF Retiring, With
<1>13. v2.at \in {"scan", "return"} /\ v2.index = v.index /\ v2.todo = v.todo
  BY <1>10 DEF With
<1> HIDE DEF v2
<1>14. Views[t].index = i /\ Views[t].at = "retire" /\ Views[t].top = m
       /\ Retiring(setup, act, entry', Views[t], v2)
  BY <1>3, <1>12
<1> HIDE DEF v
<1>15. OnePlace(setup, entry', pool, L, Views')
  BY <1>3, <1>4, <1>9, <1>11, <1>14, RetirePlaces
<1>16. Indices(setup, counter, Views')
  <2>1. v2.index = Views[t].index /\ Views[t].at # "giveBack" /\ v2.at # "giveBack"
        /\ (v2.at \in Indexed => Views[t].index # NoIndex)
    BY <1>3, <1>13, <1>14 DEF v
  <2> QED
    BY <1>4, <1>11, <2>1, KeptIndices
<1>17. Leaves(Views')
  <2>1. v2.todo = Views[t].todo /\ v2.at # "leave"
    BY <1>13 DEF v
  <2> QED
    BY <1>4, <1>11, <2>1, KeptLeaves
<1>18. Scanned(setup, counter, entry', Views')
  BY <1>3, <1>4, <1>9, <1>11, <1>14, RetireScanned
<1>19. Room(setup, entry', Views', act)
  BY <1>3, <1>4, <1>9, <1>11, <1>14, RetireRoom
<1>20. Spared(setup, entry, L, Views, entry', Views', t)
  BY <1>3, <1>4, <1>9, <1>11, <1>14, RetireSpared
<1>21. QueueOK(setup, entry', L, node, tail)
  <2>1. AddedNodes(setup, entry, entry', i, m)
    BY <1>3, <1>4, <1>9, AddedLists
  <2>2. setup.kind = "queue" => node[m].next # NULL
    BY <1>2, <1>14 DEF Ready, PopOK, Taking
  <2> QED
    BY <1>4, <2>1, <2>2 DEF QueueOK, AddedNodes
<1>22. CallOK(setup, entry', L, node, head, tail, Views', t)
  <2>1. Views'[t] = v2
    BY <1>11 DEF Moves
  <2>2. Views'[t].at \in {"idle", "return", "help", "scan", "free", "helped"}
    BY <1>13, <2>1
  <2> QED
    BY <2>2, Nowhere
<1>23. Orderly(setup, counter', entry', active_hazard_pointer', pool', L, Views')
  BY <1>6, <1>15, <1>16, <1>17, <1>18, <1>19 DEF Orderly
<1>24. pool' \in SUBSET Nds(setup) /\ thread' \in [Threads -> ThreadRecs(setup)]
       /\ UNCHANGED <<setup, node, head, tail>>
  BY <1>4, <1>6, <1>11
<1> QED
  BY <1>1, <1>8, <1>11, <1>20, <1>21, <1>22, <1>23, <1>24, ListAction

\* A thread that takes no node leaves every node where it is.
LEMMA SamePlaces ==
  ASSUME NEW s, NEW E, NEW E2, NEW pl, NEW L, NEW V, NEW V2, NEW t \in Threads, NEW v2,
         Moves(V, V2, t, v2), \A i \in Ents(s) : E2[i].retired = E[i].retired,
         \A n : Holds(v2, n) => Holds(V[t], n), OnePlace(s, E, pl, L, V)
  PROVE  OnePlace(s, E2, pl, L, V2)
<1>1. \A u \in Threads : \A n : Holds(V2[u], n) => Holds(V[u], n)
  BY DEF Moves
<1>2. \A i \in Ents(s) : \A n : Rtd(E2, i, n) <=> Rtd(E, i, n)
  BY DEF Rtd
<1>3. \A i \in Ents(s) : \A n \in Nds(s) : Rtd(E2, i, n) => n \notin pl /\ n \notin Range(L)
  BY <1>2 DEF OnePlace
<1>4. \A u \in Threads, n \in Nds(s) : Holds(V2[u], n) =>
        /\ n \notin pl /\ n \notin Range(L) /\ \A i \in Ents(s) : ~Rtd(E2, i, n)
        /\ \A x \in Threads : Holds(V2[x], n) => x = u
  BY <1>1, <1>2 DEF OnePlace
<1>5. \A i, j \in Ents(s) :
        \A k \in DOMAIN E2[i].retired, l \in DOMAIN E2[j].retired :
          E2[i].retired[k] = E2[j].retired[l] => i = j /\ k = l
  BY DEF OnePlace
<1> QED
  BY <1>3, <1>4, <1>5 DEF OnePlace

\* A thread reads the guard number v.k.
Reading(s, E, v, v2) ==
  /\ v.at = "scan" /\ v2.index = v.index /\ v2.todo = v.todo /\ v2.scan = v.scan /\ v2.help = v.help
  /\ v2.k = v.k + 1 /\ v2.at = (IF v.k + 1 < All(s) THEN "scan" ELSE "free")
  /\ \E seen : /\ v2.hazards = v.hazards \cup seen /\ (seen = {} \/ \E n : seen = {n})
               /\ \A i \in Ents(s), pos \in 0..(Gs(s) - 1) :
                    Gs(s) * i + pos = v.k /\ E[i].is_active /\ E[i].guards[pos] # NULL
                      => E[i].guards[pos] \in seen

\* The thread goes on with its scan.
LEMMA ReadingScanned ==
  ASSUME NEW s \in Setups, NEW cnt, NEW E, NEW V, NEW V2, NEW t \in Threads, NEW v2, Moves(V, V2, t, v2),
         Reading(s, E, V[t], v2), Scanned(s, cnt, E, V)
  PROVE  Scanned(s, cnt, E, V2)
<1>1. V2[t] = v2 /\ \A u \in Threads : u # t => V2[u] = V[u]
  BY DEF Moves
<1>2. \A u \in Threads : /\ V2[u].index = V[u].index /\ V2[u].scan = V[u].scan /\ V2[u].help = V[u].help
                         /\ V2[u].at \in HelpPoints => V[u].at \in HelpPoints
                         /\ V2[u].at = "helped" <=> V[u].at = "helped"
                         /\ Finished(V2[u]) <=> Finished(V[u])
  BY <1>1 DEF Reading, HelpPoints, ScanPoints, Finished
<1>3. All(s) \in Nat \ {0} /\ V[t].k \in 0..All(s) /\ V[t].k < All(s)
  BY Sizes DEF Reading, Scanned, ScanPoints
<1>4. v2.k \in 0..All(s) /\ (v2.at = "scan" <=> v2.k < All(s))
  BY <1>3 DEF Reading
<1>5. \A u \in Threads : V2[u].at \in ScanPoints => V2[u].k \in 0..All(s) /\ (V2[u].at = "scan" <=> V2[u].k < All(s))
  BY <1>1, <1>4 DEF Scanned
<1>6. \A u \in Threads : V2[u].at \in HelpPoints =>
        /\ V2[u].scan \in Ents(s)
        /\ V2[u].help = 0 => V2[u].scan = V2[u].index /\ V2[u].at # "helped"
        /\ V2[u].help # 0 => /\ E[V2[u].scan].is_active /\ V2[u].scan < cnt
                             /\ \A x \in Threads : V2[x].index = V2[u].scan => Finished(V2[x])
  BY <1>2 DEF Scanned
<1>7. \A u, x \in Threads : V2[u].at \in HelpPoints /\ V2[x].at \in HelpPoints /\ V2[u].scan = V2[x].scan
        => u = x
  BY <1>2 DEF Scanned
<1>8. \A u \in Threads : V2[u].index # NoIndex /\ ~Finished(V2[u]) => E[V2[u].index].is_active
  BY <1>2 DEF Scanned
<1>9. \A i \in Ents(s) : ~E[i].is_active => i < cnt
  BY DEF Scanned
<1> QED
  BY <1>5, <1>6, <1>7, <1>8, <1>9 DEF Scanned

\* It has read at most as many hazards as guards.
LEMMA ReadingRoom ==
  ASSUME NEW s \in Setups, NEW cnt, NEW E, NEW V, NEW V2, NEW t \in Threads, NEW v2, NEW act, Moves(V, V2, t, v2),
         Reading(s, E, V[t], v2), Scanned(s, cnt, E, V), Room(s, E, V, act)
  PROVE  Room(s, E, V2, act)
<1>1. V2[t] = v2 /\ \A u \in Threads : u # t => V2[u] = V[u]
  BY DEF Moves
<1>2. V[t].at \in ScanPoints /\ V[t].k \in Nat
  <2>1. V[t].at \in ScanPoints
    BY DEF Reading, ScanPoints
  <2>2. V[t].k \in 0..All(s)
    BY <2>1 DEF Scanned
  <2> QED
    BY <2>1, <2>2
<1>3. \A u \in Threads : (V2[u].at \in ScanPoints <=> V[u].at \in ScanPoints) /\ V2[u].scan = V[u].scan
  BY <1>1 DEF Reading, ScanPoints
<1>4. IsFiniteSet(V[t].hazards) /\ Cardinality(V[t].hazards) <= V[t].k
  BY <1>2 DEF Room
<1>5. IsFiniteSet(v2.hazards) /\ Cardinality(v2.hazards) <= v2.k
  <2>1. PICK seen : v2.hazards = V[t].hazards \cup seen /\ (seen = {} \/ \E n : seen = {n}) /\ v2.k = V[t].k + 1
    BY DEF Reading
  <2>2. Cardinality(V[t].hazards) \in Nat
    BY <1>4, FS_CardinalityType
  <2>3. CASE seen = {}
    <3>1. v2.hazards = V[t].hazards
      BY <2>1, <2>3
    <3>2. v2.k = V[t].k + 1
      BY <2>1
    <3>3. Cardinality(V[t].hazards) <= V[t].k + 1
      BY <1>2, <1>4, <2>2
    <3> QED
      BY <1>4, <3>1, <3>2, <3>3
  <2>4. CASE \E n : seen = {n}
    <3>1. PICK n : v2.hazards = V[t].hazards \cup {n}
      BY <2>1, <2>4
    <3>2. /\ IsFiniteSet(V[t].hazards \cup {n})
          /\ Cardinality(V[t].hazards \cup {n})
               = IF n \in V[t].hazards THEN Cardinality(V[t].hazards) ELSE Cardinality(V[t].hazards) + 1
      BY <1>4, FS_AddElement
    <3> QED
      BY <1>2, <1>4, <2>1, <2>2, <3>1, <3>2
  <2> QED
    BY <2>1, <2>3, <2>4
<1>6. \A u \in Threads : V2[u].at \in ScanPoints => IsFiniteSet(V2[u].hazards) /\ Cardinality(V2[u].hazards) <= V2[u].k
  BY <1>1, <1>5 DEF Room
<1>7. \A i \in Ents(s) :
        /\ Len(E[i].retired) <= RetiredListMaxSize(s)
        /\ (\A u \in Threads : V2[u].at \in ScanPoints => V2[u].scan # i)
             => Len(E[i].retired) < RetiredListMaxSize(s)
  BY <1>3 DEF Room
<1>8. act \in Int /\ act <= s.max_threads
  BY DEF Room
<1> QED
  BY <1>6, <1>7, <1>8 DEF Room

\* It has read every guard that keeps a node on the list, so far.
LEMMA ReadingSpared ==
  ASSUME NEW s \in Setups, NEW cnt, NEW E, NEW L, NEW V, NEW V2, NEW t \in Threads, NEW v2, Moves(V, V2, t, v2),
         Reading(s, E, V[t], v2), Scanned(s, cnt, E, V), NULL \notin Nds(s)
  PROVE  Spared(s, E, L, V, E, V2, t)
<1>1. V2[t] = v2 /\ \A u \in Threads : u # t => V2[u] = V[u]
  BY DEF Moves
<1>2. V[t].at \in ScanPoints /\ V[t].k \in Nat /\ v2.k = V[t].k + 1 /\ v2.scan = V[t].scan
      /\ v2.at \notin Taking /\ V[t].at \notin Taking
  <2>1. V[t].at \in ScanPoints
    BY DEF Reading, ScanPoints
  <2>2. V[t].k \in 0..All(s)
    BY <2>1 DEF Scanned
  <2> QED
    BY <2>1, <2>2 DEF Reading, Taking, ScanPoints
<1>3. ASSUME NEW u \in Threads, NEW pos \in 0..(Gs(s) - 1), NEW n \in Nds(s), u # t, V[u].index \in Ents(s),
             V[u].at \notin {"idle", "return", "leaveRead", "leaveWrite"}, Safe(s, E, L, V, u, pos, n)
      PROVE  Safe(s, E, L, V2, u, pos, n)
  <2>1. V2[u] = V[u] /\ E[V[u].index].guards[pos] = n
    BY <1>1, <1>3 DEF Safe, Guarded
  <2>2. Live(s, E, L, V2, n)
    BY <1>1, <1>2, <1>3 DEF Safe, Live
  <2>3. ASSUME NEW x \in Threads, V2[x].at \in ScanPoints, Rtd(E, V2[x].scan, n), Gs(s) * V[u].index + pos < V2[x].k
        PROVE  n \in V2[x].hazards
    <3>1. CASE x # t
      <4>1. V2[x] = V[x]
        BY <1>1, <3>1
      <4> QED
        BY <1>3, <2>3, <4>1 DEF Safe, Guarded
    <3>2. CASE x = t
      <4>1. PICK seen : /\ v2.hazards = V[t].hazards \cup seen
                        /\ \A i \in Ents(s), p \in 0..(Gs(s) - 1) :
                             Gs(s) * i + p = V[t].k /\ E[i].is_active /\ E[i].guards[p] # NULL
                               => E[i].guards[p] \in seen
        BY DEF Reading
      <4>2. Gs(s) * V[u].index + pos \in Nat
        <5>1. Gs(s) \in {1, 2} /\ V[u].index \in Nat /\ pos \in Nat
          BY <1>3, Sizes DEF Ents
        <5> QED
          BY <5>1
      <4>3. Gs(s) * V[u].index + pos < V[t].k \/ Gs(s) * V[u].index + pos = V[t].k
        <5> DEFINE y == Gs(s) * V[u].index + pos
        <5>1. y \in Nat /\ y < V[t].k + 1
          BY <1>1, <1>2, <2>3, <3>2, <4>2
        <5> HIDE DEF y
        <5>2. y < V[t].k \/ y = V[t].k
          BY <1>2, <5>1
        <5> QED
          BY <5>2 DEF y
      <4>4. CASE Gs(s) * V[u].index + pos < V[t].k
        <5>1. n \in V[t].hazards
          BY <1>1, <1>2, <1>3, <2>3, <3>2, <4>4 DEF Safe, Guarded
        <5> QED
          BY <1>1, <3>2, <4>1, <5>1
      <4>5. CASE Gs(s) * V[u].index + pos = V[t].k
        <5>1. E[V[u].index].is_active
          <6>1. V[u].index # NoIndex /\ ~Finished(V[u])
            BY <1>3 DEF Finished, Ents, NoIndex
          <6> QED
            BY <6>1 DEF Scanned
        <5>2. n # NULL
          BY <1>3
        <5>3. n \in seen
          BY <1>3, <2>1, <4>1, <4>5, <5>1, <5>2
        <5> QED
          BY <1>1, <3>2, <4>1, <5>3
      <4> QED
        BY <4>3, <4>4, <4>5
    <3> QED
      BY <3>1, <3>2
  <2> QED
    BY <1>3, <2>1, <2>2, <2>3 DEF Safe, Guarded
<1> QED
  BY <1>3 DEF Spared

\* Which guard of which entry is number k.
LEMMA GuardNumber ==
  ASSUME NEW s \in Setups, NEW k \in Nat, k < All(s)
  PROVE  /\ k \div Gs(s) \in Ents(s) /\ k % Gs(s) \in 0..(Gs(s) - 1)
         /\ \A i \in Ents(s), pos \in 0..(Gs(s) - 1) :
              Gs(s) * i + pos = k => i = k \div Gs(s) /\ pos = k % Gs(s)
<1>1. s.max_threads \in Nat \ {0} /\ Gs(s) \in {1, 2} /\ All(s) = Gs(s) * s.max_threads
  BY Sizes DEF All
<1> DEFINE n == s.max_threads
<1> HIDE DEF n
<1>2. n \in Nat \ {0} /\ Ents(s) = 0..(n - 1) /\ k < Gs(s) * n
  BY <1>1 DEF n, Ents
<1>3. CASE Gs(s) = 1
  BY <1>2, <1>3
<1>4. CASE Gs(s) = 2
  BY <1>2, <1>4
<1> QED
  BY <1>1, <1>3, <1>4

\* A step of a call of which only the guards, the lists and the flags of the entries know.
LEMMA CallAction ==
  ASSUME NEW t \in Threads, NEW L, thread \in [Threads -> ThreadRecs(setup)], Entire(L),
         NEW c \in CallRecs(setup), Becomes(t, c), UNCHANGED <<setup, node, head, tail>>,
         entry' \in [Ents(setup) -> EntryRecs(setup)], pool' \in SUBSET Nds(setup)
  PROVE  /\ Moves(Views, Views', t, With(Views[t], c)) /\ Views'[t] = With(Views[t], c)
         /\ /\ Orderly(setup, counter', entry', active_hazard_pointer', pool', L, Views')
            /\ QueueOK(setup, entry', L, node, tail)
            /\ Spared(setup, entry, L, Views, entry', Views', t)
            /\ CallOK(setup, entry', L, node, head, tail, Views', t)
            => LockFreeInv'
<1>1. /\ thread' \in [Threads -> ThreadRecs(setup')] /\ Views' \in [Threads -> ViewRecs(setup)]
      /\ Moves(Views, Views', t, With(Views[t], c))
  BY BecomesMoves
<1>2. Views'[t] = With(Views[t], c)
  BY <1>1 DEF Moves
<1>3. thread' \in [Threads -> ThreadRecs(setup)]
  BY <1>1
<1> DEFINE v2 == With(Views[t], c)
<1>4. Moves(Views, Views', t, v2)
  BY <1>1
<1> HIDE DEF v2
<1>5. ASSUME Orderly(setup, counter', entry', active_hazard_pointer', pool', L, Views'),
             QueueOK(setup, entry', L, node, tail), Spared(setup, entry, L, Views, entry', Views', t),
             CallOK(setup, entry', L, node, head, tail, Views', t)
      PROVE  LockFreeInv'
  BY <1>1, <1>3, <1>4, <1>5, ListAction
<1> QED
  BY <1>1, <1>2, <1>5

\* A guard is read.
LEMMA KeepsScanGuard == ASSUME LockFreeInv, NEW t \in Threads, ScanGuard(t) PROVE LockFreeInv'
<1> DEFINE v == Views[t]
           G == Gs(setup)
           k == Local(t).k
           e == entry[k \div G]
           seen == IF e.is_active /\ e.guards[k % G] # NULL THEN {e.guards[k % G]} ELSE {}
           c == [Local(t) EXCEPT !.k = @ + 1, !.hazards = @ \cup seen,
                   !.at = IF k + 1 < G * setup.max_threads THEN "scan" ELSE "free"]
           v2 == With(v, c)
           act == active_hazard_pointer
<1>1. PICK L : thread \in [Threads -> ThreadRecs(setup)] /\ Entire(L)
  BY DEF LockFreeInv
<1>2. /\ setup \in Setups /\ entry \in [Ents(setup) -> EntryRecs(setup)] /\ pool \in SUBSET Nds(setup)
      /\ OnePlace(setup, entry, pool, L, Views) /\ Indices(setup, counter, Views) /\ Leaves(Views)
      /\ Scanned(setup, counter, entry, Views) /\ Room(setup, entry, Views, act)
      /\ QueueOK(setup, entry, L, node, tail) /\ NULL \notin Nds(setup)
  BY <1>1, Known
<1>3. /\ Local(t) \in CallRecs(setup) /\ v.at = "scan" /\ v.k = k /\ v.scan = Local(t).scan
      /\ v.help = Local(t).help /\ v.hazards = Local(t).hazards
  <2>1. /\ Local(t) \in CallRecs(setup) /\ v.at = Local(t).at /\ v.k = k /\ v.scan = Local(t).scan
        /\ v.help = Local(t).help /\ v.hazards = Local(t).hazards
    BY <1>1, ViewFields
  <2>2. Local(t).at = "scan"
    BY DEF ScanGuard, At, Local
  <2> QED
    BY <2>1, <2>2
<1>4. k \in Nat /\ k < All(setup) /\ v.index # NoIndex
  BY <1>2, <1>3 DEF Scanned, ScanPoints, Indices, Indexed, HelpPoints, CallRecs
<1>5. /\ k \div G \in Ents(setup) /\ k % G \in 0..(G - 1)
      /\ \A i \in Ents(setup), pos \in 0..(G - 1) : G * i + pos = k => i = k \div G /\ pos = k % G
  <2> HIDE DEF k
  <2> QED
    BY <1>2, <1>4, GuardNumber
<1>6. Becomes(t, c) /\ setup' = setup /\ entry' = entry /\ counter' = counter /\ act' = act
      /\ pool' = pool /\ node' = node /\ head' = head /\ tail' = tail
  <2>1. Cardinality(Guards) = G
    BY <1>2, GuardCount
  <2> QED
    BY <2>1 DEF ScanGuard, guarding, heap
<1>7. e \in EntryRecs(setup) /\ e.guards[k % G] \in N0(setup)
  BY <1>2, <1>5 DEF EntryRecs
<1>8. seen \subseteq Nds(setup) /\ (seen = {} \/ \E n : seen = {n})
  BY <1>7 DEF N0
<1>9. \A i \in Ents(setup), pos \in 0..(G - 1) :
        G * i + pos = k /\ entry[i].is_active /\ entry[i].guards[pos] # NULL => entry[i].guards[pos] \in seen
  BY <1>5
<1> HIDE DEF seen
<1>10. /\ c \in CallRecs(setup) /\ c.k = k + 1 /\ c.hazards = v.hazards \cup seen
       /\ c.at = (IF k + 1 < All(setup) THEN "scan" ELSE "free") /\ c.scan = v.scan /\ c.help = v.help
  <2>1. G * setup.max_threads = All(setup)
    BY DEF All
  <2>2. "scan" \in CallPoints /\ "free" \in CallPoints
    BY DEF CallPoints, HelpPoints, ScanPoints
  <2> DEFINE a == IF k + 1 < G * setup.max_threads THEN "scan" ELSE "free"
  <2>3. a \in CallPoints
    BY <2>2
  <2> HIDE DEF a
  <2>4. c = [Local(t) EXCEPT !.k = @ + 1, !.hazards = @ \cup seen, !.at = a]
    BY DEF a
  <2>5. /\ c \in CallRecs(setup) /\ c.k = k + 1 /\ c.hazards = v.hazards \cup seen
        /\ c.at = a /\ c.scan = v.scan /\ c.help = v.help
    <3> DEFINE x == Local(t)
    <3>1. x \in CallRecs(setup) /\ c = [x EXCEPT !.k = @ + 1, !.hazards = @ \cup seen, !.at = a]
      BY <1>3, <2>4
    <3> HIDE DEF c, x
    <3>2. x.k + 1 \in Nat /\ x.hazards \cup seen \in SUBSET Nds(setup)
      BY <1>8, <3>1 DEF CallRecs
    <3>3. c.k = x.k + 1 /\ c.hazards = x.hazards \cup seen /\ c.at = a /\ c.scan = x.scan /\ c.help = x.help
      BY <3>1 DEF CallRecs
    <3>4. \A kk \in Nat, hh \in SUBSET Nds(setup) :
            [x EXCEPT !.k = kk, !.hazards = hh, !.at = a] \in CallRecs(setup)
      BY <2>3, <3>1 DEF CallRecs
    <3>5. c = [x EXCEPT !.k = x.k + 1, !.hazards = x.hazards \cup seen, !.at = a]
      BY <3>1
    <3>6. c \in CallRecs(setup)
      BY <3>2, <3>4, <3>5
    <3> QED
      BY <1>3, <3>3, <3>6 DEF x
  <2> QED
    BY <2>1, <2>5 DEF a
<1> HIDE DEF c
<1>11. UNCHANGED <<setup, node, head, tail>> /\ entry' \in [Ents(setup) -> EntryRecs(setup)] /\ pool' \in SUBSET Nds(setup)
  BY <1>2, <1>6
<1>12. /\ Moves(Views, Views', t, With(Views[t], c)) /\ Views'[t] = With(Views[t], c)
       /\ /\ Orderly(setup, counter', entry', active_hazard_pointer', pool', L, Views')
          /\ QueueOK(setup, entry', L, node, tail)
          /\ Spared(setup, entry, L, Views, entry', Views', t)
          /\ CallOK(setup, entry', L, node, head, tail, Views', t)
          => LockFreeInv'
  BY <1>1, <1>6, <1>10, <1>11, CallAction
<1>13. /\ v2.index = v.index /\ v2.todo = v.todo /\ v2.at \in ScanPoints /\ v.at \in ScanPoints
       /\ v2.at # "leave" /\ v2.at # "giveBack" /\ v.at # "giveBack"
       /\ \A n : ~Holds(v2, n)
  BY <1>3, <1>10 DEF With, ScanPoints, Holds, Adding, Taking
<1>14. Reading(setup, entry, v, v2)
  BY <1>3, <1>8, <1>9, <1>10, ZenonT(60) DEF Reading, With
<1> HIDE DEF v2
<1>15. Moves(Views, Views', t, v2) /\ Views'[t] = v2 /\ Reading(setup, entry, Views[t], v2)
  BY <1>12, <1>14 DEF v2
<1>16. OnePlace(setup, entry, pool, L, Views')
  BY <1>2, <1>13, <1>15, SamePlaces
<1>17. Indices(setup, counter, Views')
  BY <1>2, <1>4, <1>13, <1>15, KeptIndices
<1>18. Leaves(Views')
  BY <1>2, <1>13, <1>15, KeptLeaves
<1>19. Scanned(setup, counter, entry, Views')
  BY <1>2, <1>15, ReadingScanned
<1>20. Room(setup, entry, Views', act)
  BY <1>2, <1>15, ReadingRoom
<1>21. Spared(setup, entry, L, Views, entry', Views', t)
  <2>1. Spared(setup, entry, L, Views, entry, Views', t)
    BY <1>2, <1>15, ReadingSpared
  <2> QED
    BY <1>6, <2>1
<1>22. CallOK(setup, entry', L, node, head, tail, Views', t)
  <2>1. Views'[t].at \in {"idle", "return", "help", "scan", "free", "helped"}
    BY <1>13, <1>15 DEF ScanPoints
  <2> QED
    BY <2>1, Nowhere
<1>23. Orderly(setup, counter', entry', active_hazard_pointer', pool', L, Views')
  BY <1>6, <1>16, <1>17, <1>18, <1>19, <1>20 DEF Orderly
<1> QED
  BY <1>2, <1>6, <1>12, <1>21, <1>22, <1>23

\* The nodes of list i that are no hazards go back to the pool.
Freeing(s, E, E2, pl, pl2, i, H) ==
  /\ \A j \in Ents(s) : /\ j # i => E2[j].retired = E[j].retired
                        /\ E2[j].is_active = E[j].is_active /\ E2[j].guards = E[j].guards
  /\ \A n : Rtd(E2, i, n) <=> Rtd(E, i, n) /\ n \in H
  /\ \A j, k \in DOMAIN E2[i].retired : E2[i].retired[j] = E2[i].retired[k] => j = k
  /\ \A n : n \in pl2 <=> n \in pl \/ (Rtd(E, i, n) /\ n \notin H)

\* The end of a scan.
ScanEnds(v, v2) ==
  /\ v.at = "free" /\ v2.at = (IF v.help = 0 THEN "help" ELSE "helped")
  /\ v2.index = v.index /\ v2.todo = v.todo /\ v2.scan = v.scan /\ v2.help = v.help

\* What is on the lists when nodes are freed.
LEMMA FreedNodes ==
  ASSUME NEW s, NEW E, NEW E2, NEW pl, NEW pl2, NEW i \in Ents(s), NEW H, Freeing(s, E, E2, pl, pl2, i, H)
  PROVE  \A j \in Ents(s) : \A n : Rtd(E2, j, n) <=> Rtd(E, j, n) /\ (j = i => n \in H)
<1> TAKE j \in Ents(s)
<1>1. CASE j = i
  BY <1>1 DEF Freeing
<1>2. CASE j # i
  <2>1. E2[j].retired = E[j].retired
    BY <1>2 DEF Freeing
  <2> QED
    BY <1>2, <2>1 DEF Rtd
<1> QED
  BY <1>1, <1>2

\* The nodes that are freed were nowhere else.
LEMMA FreesPlaces ==
  ASSUME NEW s, NEW E, NEW E2, NEW pl, NEW pl2 \in SUBSET Nds(s), NEW L, NEW V, NEW V2, NEW t \in Threads, NEW v2,
         NEW i \in Ents(s), NEW H, Freeing(s, E, E2, pl, pl2, i, H), Moves(V, V2, t, v2), ScanEnds(V[t], v2),
         OnePlace(s, E, pl, L, V)
  PROVE  OnePlace(s, E2, pl2, L, V2)
<1>1. \A n : ~Holds(v2, n)
  BY DEF ScanEnds, Holds, Adding, Taking
<1>2. \A u \in Threads : \A n : Holds(V2[u], n) => Holds(V[u], n)
  BY <1>1 DEF Moves
<1>3. \A j \in Ents(s) : \A n : Rtd(E2, j, n) <=> Rtd(E, j, n) /\ (j = i => n \in H)
  BY FreedNodes
<1>4. \A n : n \in pl2 <=> n \in pl \/ (Rtd(E, i, n) /\ n \notin H)
  BY DEF Freeing
<1>5. \A n \in pl2 : n \notin Range(L)
  BY <1>4 DEF OnePlace
<1>6. ASSUME NEW j \in Ents(s), NEW n \in Nds(s), Rtd(E, j, n), Rtd(E, i, n) PROVE j = i
  <2>1. PICK k \in DOMAIN E[j].retired : E[j].retired[k] = n
    BY <1>6 DEF Rtd
  <2>2. PICK l \in DOMAIN E[i].retired : E[i].retired[l] = n
    BY <1>6 DEF Rtd
  <2> QED
    BY <2>1, <2>2 DEF OnePlace
<1>7. \A j \in Ents(s) : \A n \in Nds(s) : Rtd(E2, j, n) => n \notin pl2 /\ n \notin Range(L)
  BY <1>3, <1>4, <1>6 DEF OnePlace
<1>8. \A u \in Threads, n \in Nds(s) : Holds(V2[u], n) =>
        /\ n \notin pl2 /\ n \notin Range(L) /\ \A j \in Ents(s) : ~Rtd(E2, j, n)
        /\ \A x \in Threads : Holds(V2[x], n) => x = u
  BY <1>2, <1>3, <1>4 DEF OnePlace
<1>9. ASSUME NEW a \in Ents(s), NEW b \in Ents(s), NEW k \in DOMAIN E2[a].retired, NEW l \in DOMAIN E2[b].retired,
             E2[a].retired[k] = E2[b].retired[l]
      PROVE  a = b /\ k = l
  <2> DEFINE n == E2[a].retired[k]
  <2>1. Rtd(E2, a, n) /\ Rtd(E2, b, n)
    BY <1>9 DEF Rtd
  <2>2. PICK x \in DOMAIN E[a].retired : E[a].retired[x] = n
    BY <1>3, <2>1 DEF Rtd
  <2>3. PICK y \in DOMAIN E[b].retired : E[b].retired[y] = n
    BY <1>3, <2>1 DEF Rtd
  <2>4. a = b
    BY <2>2, <2>3 DEF OnePlace
  <2>5. CASE a = i
    BY <1>9, <2>4, <2>5 DEF Freeing
  <2>6. CASE a # i
    <3>1. E2[a].retired = E[a].retired
      BY <2>6 DEF Freeing
    <3> QED
      BY <1>9, <2>4, <3>1 DEF OnePlace
  <2> QED
    BY <2>4, <2>5, <2>6
<1> QED
  BY <1>5, <1>7, <1>8, <1>9 DEF OnePlace

\* The thread stops scanning; it has reserved the entry if it is not its own.
LEMMA FreesScanned ==
  ASSUME NEW s, NEW cnt, NEW E, NEW E2, NEW V, NEW V2, NEW t \in Threads, NEW v2,
         \A j \in Ents(s) : E2[j].is_active = E[j].is_active,
         Moves(V, V2, t, v2), ScanEnds(V[t], v2), Indices(s, cnt, V), Scanned(s, cnt, E, V)
  PROVE  Scanned(s, cnt, E2, V2)
<1>1. V2[t] = v2 /\ \A u \in Threads : u # t => V2[u] = V[u]
  BY DEF Moves
<1>2. \A u \in Threads : /\ V2[u].index = V[u].index /\ V2[u].scan = V[u].scan /\ V2[u].help = V[u].help
                         /\ V2[u].at \in HelpPoints => V[u].at \in HelpPoints
                         /\ Finished(V2[u]) <=> Finished(V[u])
                         /\ V2[u].at = "helped" => V[u].at = "helped" \/ V[u].help # 0
                         /\ V2[u].at \in ScanPoints => V2[u] = V[u]
  BY <1>1 DEF ScanEnds, HelpPoints, ScanPoints, Finished
<1>3. \A u \in Threads : V[u].index # NoIndex => V[u].index \in Ents(s)
  BY DEF Indices, Ents
<1>4. \A i \in Ents(s) : ~E2[i].is_active => i < cnt
  BY DEF Scanned
<1>5. \A u \in Threads : V2[u].index # NoIndex /\ ~Finished(V2[u]) => E2[V2[u].index].is_active
  BY <1>2, <1>3 DEF Scanned
<1>6. \A u \in Threads : V2[u].at \in HelpPoints =>
        /\ V2[u].scan \in Ents(s)
        /\ V2[u].help = 0 => V2[u].scan = V2[u].index /\ V2[u].at # "helped"
        /\ V2[u].help # 0 => /\ E2[V2[u].scan].is_active /\ V2[u].scan < cnt
                             /\ \A x \in Threads : V2[x].index = V2[u].scan => Finished(V2[x])
  BY <1>2 DEF Scanned
<1>7. \A u, x \in Threads : V2[u].at \in HelpPoints /\ V2[x].at \in HelpPoints /\ V2[u].scan = V2[x].scan
        => u = x
  BY <1>2 DEF Scanned
<1>8. \A u \in Threads : V2[u].at \in ScanPoints => V2[u].k \in 0..All(s) /\ (V2[u].at = "scan" <=> V2[u].k < All(s))
  BY <1>2 DEF Scanned
<1> QED
  BY <1>4, <1>5, <1>6, <1>7, <1>8 DEF Scanned

\* The list that was scanned has room again.
LEMMA FreesRoom ==
  ASSUME NEW s \in Setups, NEW cnt, NEW E, NEW E2, NEW pl, NEW pl2, NEW V, NEW V2, NEW act, NEW t \in Threads, NEW v2,
         NEW i \in Ents(s), i = V[t].scan, Freeing(s, E, E2, pl, pl2, i, V[t].hazards), E2[i].retired \in Seq(Nds(s)),
         Moves(V, V2, t, v2), ScanEnds(V[t], v2), Scanned(s, cnt, E, V), Room(s, E, V, act)
  PROVE  Room(s, E2, V2, act)
<1>1. V2[t] = v2 /\ \A u \in Threads : u # t => V2[u] = V[u]
  BY DEF Moves
<1>2. V[t].at \in ScanPoints /\ v2.at \notin ScanPoints
  BY DEF ScanEnds, ScanPoints
<1>3. \A u \in Threads : V2[u].at \in ScanPoints => u # t /\ V2[u] = V[u]
  BY <1>1, <1>2
<1> DEFINE H == V[t].hazards
           q == E2[i].retired
<1>4. IsFiniteSet(H) /\ Cardinality(H) <= V[t].k /\ V[t].k \in 0..All(s)
  BY <1>2 DEF Room, Scanned
<1>5. q \in Seq(H) /\ \A j, k \in 1..Len(q) : q[j] = q[k] => j = k
  <2>1. \A k \in DOMAIN q : q[k] \in H
    BY DEF Freeing, Rtd
  <2>2. DOMAIN q = 1..Len(q) /\ Len(q) \in Nat
    OBVIOUS
  <2>3. \A j, k \in DOMAIN q : q[j] = q[k] => j = k
    BY DEF Freeing
  <2>4. \A A, B : \A z \in Seq(B) : (\A k \in DOMAIN z : z[k] \in A) => z \in Seq(A)
    OBVIOUS
  <2> HIDE DEF H, q
  <2>5. q \in Seq(Nds(s))
    BY DEF q
  <2> QED
    BY <2>1, <2>2, <2>3, <2>4, <2>5
<1> HIDE DEF H, q
<1>6. Len(q) <= Cardinality(H) /\ Len(q) \in Nat /\ Cardinality(H) \in Nat
  <2>1. q \in Injection(1..Len(q), H)
    BY <1>5 DEF Injection, IsInjective
  <2>2. 1 \in Int /\ Len(q) \in Int /\ Len(q) >= 0
    BY <1>5
  <2>3. Cardinality(1..Len(q)) = IF 1 > Len(q) THEN 0 ELSE Len(q) - 1 + 1
    BY <2>2, FS_Interval
  <2>4. Cardinality(1..Len(q)) <= Cardinality(H)
    BY <1>4, <2>1, FS_Injection
  <2>5. Cardinality(H) \in Nat
    BY <1>4, FS_CardinalityType
  <2> QED
    BY <2>2, <2>3, <2>4, <2>5
<1>7. Len(q) < RetiredListMaxSize(s)
  <2>1. All(s) < RetiredListMaxSize(s) /\ All(s) \in Nat /\ RetiredListMaxSize(s) \in Nat
    BY ListSize, Sizes
  <2> QED
    BY <1>4, <1>6, <2>1
<1>8. RetiredListMaxSize(s) \in Nat
  BY Sizes
<1>9. ASSUME NEW j \in Ents(s)
      PROVE  /\ Len(E2[j].retired) <= RetiredListMaxSize(s)
             /\ (\A u \in Threads : V2[u].at \in ScanPoints => V2[u].scan # j)
                  => Len(E2[j].retired) < RetiredListMaxSize(s)
  <2>1. CASE j = i
    BY <1>6, <1>7, <1>8, <2>1 DEF q
  <2>2. CASE j # i
    <3>1. E2[j].retired = E[j].retired
      BY <2>2 DEF Freeing
    <3>2. (\A u \in Threads : V2[u].at \in ScanPoints => V2[u].scan # j)
            => \A u \in Threads : V[u].at \in ScanPoints => V[u].scan # j
      BY <1>1, <2>2
    <3> QED
      BY <3>1, <3>2 DEF Room
  <2> QED
    BY <2>1, <2>2
<1>10. \A u \in Threads : V2[u].at \in ScanPoints => IsFiniteSet(V2[u].hazards) /\ Cardinality(V2[u].hazards) <= V2[u].k
  BY <1>3 DEF Room
<1>11. act \in Int /\ act <= s.max_threads
  BY DEF Room
<1> QED
  BY <1>9, <1>10, <1>11 DEF Room

\* A node that somebody guards has been read as a hazard.
LEMMA FreesSpared ==
  ASSUME NEW s \in Setups, NEW cnt, NEW E, NEW E2, NEW pl, NEW pl2, NEW L, NEW V, NEW V2, NEW t \in Threads, NEW v2,
         NEW i \in Ents(s), i = V[t].scan, Freeing(s, E, E2, pl, pl2, i, V[t].hazards),
         Moves(V, V2, t, v2), ScanEnds(V[t], v2), Scanned(s, cnt, E, V)
  PROVE  Spared(s, E, L, V, E2, V2, t)
<1>1. V2[t] = v2 /\ \A u \in Threads : u # t => V2[u] = V[u]
  BY DEF Moves
<1>2. V[t].at \in ScanPoints /\ V[t].at \notin Taking /\ v2.at \notin ScanPoints /\ V[t].at \in HelpPoints
  BY DEF ScanEnds, ScanPoints, Taking, HelpPoints
<1>3. V[t].k = All(s)
  <2>1. V[t].k \in 0..All(s) /\ ~(V[t].k < All(s))
    BY <1>2 DEF Scanned, ScanEnds
  <2>2. All(s) \in Nat
    BY Sizes
  <2> QED
    BY <2>1, <2>2
<1>4. \A j \in Ents(s) : \A n : Rtd(E2, j, n) <=> Rtd(E, j, n) /\ (j = i => n \in V[t].hazards)
  BY FreedNodes
<1>5. \A x \in Threads : x # t /\ V[x].at \in ScanPoints => V[x].scan # i /\ V[x].scan \in Ents(s)
  BY <1>2 DEF Scanned, HelpPoints
<1>6. \A j \in Ents(s), pos \in 0..(Gs(s) - 1) : Gs(s) * j + pos < All(s)
  <2>1. s.max_threads \in Nat /\ Gs(s) \in {1, 2}
    BY Sizes
  <2>2. CASE Gs(s) = 1
    BY <2>1, <2>2 DEF Ents, All
  <2>3. CASE Gs(s) = 2
    BY <2>1, <2>3 DEF Ents, All
  <2> QED
    BY <2>1, <2>2, <2>3
<1>7. ASSUME NEW u \in Threads, NEW pos \in 0..(Gs(s) - 1), NEW n \in Nds(s), u # t, V[u].index \in Ents(s),
             Safe(s, E, L, V, u, pos, n)
      PROVE  Safe(s, E2, L, V2, u, pos, n)
  <2>1. V2[u] = V[u] /\ E2[V2[u].index].guards[pos] = n
    BY <1>1, <1>7 DEF Safe, Guarded, Freeing
  <2>2. Rtd(E, i, n) => n \in V[t].hazards
    <3>1. Gs(s) * V[u].index + pos < V[t].k
      BY <1>3, <1>6, <1>7
    <3> QED
      BY <1>2, <1>7, <3>1 DEF Safe, Guarded
  <2>3. Live(s, E2, L, V2, n)
    BY <1>1, <1>2, <1>4, <1>7, <2>2 DEF Safe, Live
  <2>4. ASSUME NEW x \in Threads, V2[x].at \in ScanPoints, Rtd(E2, V2[x].scan, n), Gs(s) * V2[u].index + pos < V2[x].k
        PROVE  n \in V2[x].hazards
    <3>1. x # t /\ V2[x] = V[x]
      BY <1>1, <1>2, <2>4
    <3>2. Rtd(E, V[x].scan, n)
      BY <1>4, <1>5, <2>4, <3>1
    <3> QED
      BY <1>7, <2>1, <2>4, <3>1, <3>2 DEF Safe, Guarded
  <2> QED
    BY <1>7, <2>1, <2>3, <2>4 DEF Safe, Guarded
<1>8. \A j \in Ents(s) : E2[j].guards = E[j].guards
  BY DEF Freeing
<1> QED
  BY <1>7, <1>8 DEF Spared

\* The retired nodes that are no hazards are freed.
LEMMA KeepsScanFrees == ASSUME LockFreeInv, NEW t \in Threads, ScanFrees(t) PROVE LockFreeInv'
<1> DEFINE v == Views[t]
           i == Local(t).scan
           H == Local(t).hazards
           list == entry[i].retired
           kept == Kept(list, H)
           c == [Local(t) EXCEPT !.at = IF Local(t).help = 0 THEN "help" ELSE "helped"]
           v2 == With(v, c)
           act == active_hazard_pointer
<1>1. PICK L : thread \in [Threads -> ThreadRecs(setup)] /\ Entire(L)
  BY DEF LockFreeInv
<1>2. /\ setup \in Setups /\ entry \in [Ents(setup) -> EntryRecs(setup)] /\ pool \in SUBSET Nds(setup)
      /\ OnePlace(setup, entry, pool, L, Views) /\ Indices(setup, counter, Views) /\ Leaves(Views)
      /\ Scanned(setup, counter, entry, Views) /\ Room(setup, entry, Views, act)
      /\ QueueOK(setup, entry, L, node, tail)
  BY <1>1, Known
<1>3. /\ Local(t) \in CallRecs(setup) /\ v.at = "free" /\ v.scan = i /\ v.help = Local(t).help /\ v.hazards = H
  BY <1>1, ViewFields DEF ScanFrees, At, Local
<1>4. i \in Ents(setup) /\ v.index # NoIndex
  BY <1>2, <1>3 DEF Scanned, HelpPoints, ScanPoints, Indices, Indexed
<1>5. /\ pool' = pool \cup (Range(list) \ Range(kept)) /\ entry' = [entry EXCEPT ![i].retired = kept] /\ Becomes(t, c)
      /\ setup' = setup /\ counter' = counter /\ act' = act /\ node' = node /\ head' = head /\ tail' = tail
  BY DEF ScanFrees, Goes
<1>6. list \in Seq(Nds(setup)) /\ \A j, k \in 1..Len(list) : list[j] = list[k] => j = k
  <2>1. list \in Seq(Nds(setup))
    BY <1>2, <1>4 DEF EntryRecs
  <2>2. \A j, k \in DOMAIN list : list[j] = list[k] => j = k
    BY <1>2, <1>4 DEF OnePlace
  <2> QED
    BY <2>1, <2>2
<1> HIDE DEF list
<1>7. /\ kept \in Seq(Nds(setup))
      /\ \A x : (\E k \in DOMAIN kept : kept[k] = x) <=> (\E k \in DOMAIN list : list[k] = x) /\ x \in H
      /\ \A j, k \in DOMAIN kept : kept[j] = kept[k] => j = k
  <2> HIDE DEF H
  <2> QED
    BY <1>6, KeptFacts
<1> HIDE DEF kept
<1>8. \A n : n \in pool' <=> n \in pool \/ ((\E k \in DOMAIN list : list[k] = n) /\ n \notin H)
  <2>1. \A n : (n \in Range(list) <=> \E k \in DOMAIN list : list[k] = n)
               /\ (n \in Range(kept) <=> \E k \in DOMAIN kept : kept[k] = n)
    BY DEF Range
  <2> QED
    BY <1>5, <1>7, <2>1
<1>9. entry' \in [Ents(setup) -> EntryRecs(setup)] /\ Relisted(setup, entry, entry', i, kept)
  <2> HIDE DEF i
  <2> QED
    BY <1>2, <1>4, <1>5, <1>7, ListChanged
<1>10. Freeing(setup, entry, entry', pool, pool', i, H)
  <2>1. entry'[i].retired = kept /\ entry[i].retired = list
    BY <1>9 DEF Relisted, list
  <2> HIDE DEF i, H
  <2> QED
    BY <1>7, <1>8, <1>9, <2>1 DEF Freeing, Relisted, Rtd
<1>11. pool' \in SUBSET Nds(setup)
  <2>1. \A k \in DOMAIN list : list[k] \in Nds(setup)
    BY <1>6
  <2> QED
    BY <1>2, <1>8, <2>1
<1>12. /\ c \in CallRecs(setup) /\ c.at = (IF v.help = 0 THEN "help" ELSE "helped")
       /\ c.scan = v.scan /\ c.help = v.help
  BY <1>3 DEF CallRecs, CallPoints, HelpPoints
<1> HIDE DEF c
<1>13. UNCHANGED <<setup, node, head, tail>>
  BY <1>5
<1>14. /\ Moves(Views, Views', t, With(Views[t], c)) /\ Views'[t] = With(Views[t], c)
       /\ /\ Orderly(setup, counter', entry', active_hazard_pointer', pool', L, Views')
          /\ QueueOK(setup, entry', L, node, tail)
          /\ Spared(setup, entry, L, Views, entry', Views', t)
          /\ CallOK(setup, entry', L, node, head, tail, Views', t)
          => LockFreeInv'
  BY <1>1, <1>5, <1>9, <1>11, <1>12, <1>13, CallAction
<1>15. ScanEnds(v, v2)
  BY <1>3, <1>12 DEF ScanEnds, With
<1>16. v2.index = v.index /\ v2.todo = v.todo /\ v2.at \in {"help", "helped"} /\ v.at # "giveBack"
  BY <1>3, <1>15 DEF ScanEnds
<1> HIDE DEF v2
<1>17. Moves(Views, Views', t, v2) /\ Views'[t] = v2 /\ ScanEnds(Views[t], v2)
  BY <1>14, <1>15 DEF v2
<1>18. i = Views[t].scan /\ Freeing(setup, entry, entry', pool, pool', i, Views[t].hazards)
       /\ entry'[i].retired \in Seq(Nds(setup))
  BY <1>3, <1>7, <1>9, <1>10 DEF Relisted
<1> HIDE DEF i, H
<1>19. OnePlace(setup, entry', pool', L, Views')
  BY <1>2, <1>4, <1>11, <1>17, <1>18, FreesPlaces
<1>20. Indices(setup, counter, Views')
  <2>1. v2.at # "giveBack"
    BY <1>16
  <2> QED
    BY <1>2, <1>4, <1>16, <1>17, <2>1, KeptIndices
<1>21. Leaves(Views')
  <2>1. v2.at # "leave"
    BY <1>16
  <2> QED
    BY <1>2, <1>16, <1>17, <2>1, KeptLeaves
<1>22. Scanned(setup, counter, entry', Views')
  <2>1. \A j \in Ents(setup) : entry'[j].is_active = entry[j].is_active
    BY <1>9 DEF Relisted
  <2> QED
    BY <1>2, <1>17, <2>1, FreesScanned
<1>23. Room(setup, entry', Views', act)
  BY <1>2, <1>4, <1>17, <1>18, FreesRoom
<1>24. Spared(setup, entry, L, Views, entry', Views', t)
  BY <1>2, <1>4, <1>17, <1>18, FreesSpared
<1>25. QueueOK(setup, entry', L, node, tail)
  <2>1. \A j \in Ents(setup) : \A n : Rtd(entry', j, n) => Rtd(entry, j, n)
    BY <1>4, <1>10, FreedNodes
  <2> QED
    BY <1>2, <2>1 DEF QueueOK
<1>26. CallOK(setup, entry', L, node, head, tail, Views', t)
  <2>1. Views'[t].at \in {"idle", "return", "help", "scan", "free", "helped"}
    BY <1>16, <1>17
  <2> QED
    BY <2>1, Nowhere
<1>27. Orderly(setup, counter', entry', active_hazard_pointer', pool', L, Views')
  BY <1>5, <1>19, <1>20, <1>21, <1>22, <1>23 DEF Orderly
<1> QED
  BY <1>14, <1>24, <1>25, <1>26, <1>27

\* The lists and the guards are the same, and a thread that begins to scan has read nothing.
Begins(s, E, E2, v, v2) ==
  /\ \A i \in Ents(s) : E2[i].retired = E[i].retired /\ E2[i].guards = E[i].guards
  /\ v.at \notin ScanPoints \cup Taking /\ v2.at \notin Taking
  /\ v2.at \in ScanPoints => v2.k = 0 /\ v2.hazards = {}

\* The lists are as long as before.
LEMMA BeginsRoom ==
  ASSUME NEW s \in Setups, NEW E, NEW E2, NEW V, NEW V2, NEW act, NEW act2, NEW t \in Threads, NEW v2,
         Moves(V, V2, t, v2), Begins(s, E, E2, V[t], v2), Room(s, E, V, act), act2 \in Int, act2 <= s.max_threads
  PROVE  Room(s, E2, V2, act2)
<1>1. V2[t] = v2 /\ \A u \in Threads : u # t => V2[u] = V[u]
  BY DEF Moves
<1>2. \A u \in Threads : V[u].at \in ScanPoints => V2[u] = V[u]
  BY <1>1 DEF Begins
<1>3. ASSUME NEW j \in Ents(s)
      PROVE  /\ Len(E2[j].retired) <= RetiredListMaxSize(s)
             /\ (\A u \in Threads : V2[u].at \in ScanPoints => V2[u].scan # j)
                  => Len(E2[j].retired) < RetiredListMaxSize(s)
  <2>1. E2[j].retired = E[j].retired
    BY DEF Begins
  <2>2. (\A u \in Threads : V2[u].at \in ScanPoints => V2[u].scan # j)
          => \A u \in Threads : V[u].at \in ScanPoints => V[u].scan # j
    BY <1>2
  <2> QED
    BY <2>1, <2>2 DEF Room
<1>4. ASSUME NEW u \in Threads, V2[u].at \in ScanPoints
      PROVE  IsFiniteSet(V2[u].hazards) /\ Cardinality(V2[u].hazards) <= V2[u].k
  <2>1. CASE u = t
    <3>1. V2[u].hazards = {} /\ V2[u].k = 0
      BY <1>1, <1>4, <2>1 DEF Begins
    <3> QED
      BY <3>1, FS_EmptySet
  <2>2. CASE u # t
    BY <1>1, <1>4, <2>2 DEF Room
  <2> QED
    BY <2>1, <2>2
<1> QED
  BY <1>3, <1>4 DEF Room

\* The nodes that are guarded are as safe as before.
LEMMA BeginsSpared ==
  ASSUME NEW s \in Setups, NEW cnt, NEW E, NEW E2, NEW L, NEW V, NEW V2, NEW t \in Threads, NEW v2,
         Moves(V, V2, t, v2), Begins(s, E, E2, V[t], v2), Scanned(s, cnt, E, V)
  PROVE  Spared(s, E, L, V, E2, V2, t)
<1>1. V2[t] = v2 /\ \A u \in Threads : u # t => V2[u] = V[u]
  BY DEF Moves
<1>2. \A j \in Ents(s) : \A n : Rtd(E2, j, n) <=> Rtd(E, j, n)
  BY DEF Begins, Rtd
<1>3. ASSUME NEW u \in Threads, NEW pos \in 0..(Gs(s) - 1), NEW n \in Nds(s), u # t, V[u].index \in Ents(s),
             Safe(s, E, L, V, u, pos, n)
      PROVE  Safe(s, E2, L, V2, u, pos, n)
  <2>1. V2[u] = V[u] /\ E2[V2[u].index].guards[pos] = n
    BY <1>1, <1>3 DEF Safe, Guarded, Begins
  <2>2. Live(s, E2, L, V2, n)
    BY <1>1, <1>2, <1>3 DEF Safe, Live, Begins
  <2>3. ASSUME NEW x \in Threads, V2[x].at \in ScanPoints, Rtd(E2, V2[x].scan, n), Gs(s) * V2[u].index + pos < V2[x].k
        PROVE  n \in V2[x].hazards
    <3>1. x # t
      <4>1. Gs(s) \in {1, 2} /\ V[u].index \in Nat /\ pos \in Nat
        BY <1>3, Sizes DEF Ents
      <4>2. ~(Gs(s) * V[u].index + pos < 0)
        BY <4>1
      <4>3. x = t => V2[x].k = 0
        BY <1>1, <2>3 DEF Begins
      <4> QED
        BY <2>1, <2>3, <4>2, <4>3
    <3>2. V2[x] = V[x] /\ V[x].scan \in Ents(s)
      BY <1>1, <2>3, <3>1 DEF Scanned, HelpPoints
    <3>3. Rtd(E, V[x].scan, n)
      BY <1>2, <2>3, <3>2
    <3> QED
      BY <1>3, <2>1, <2>3, <3>2, <3>3 DEF Safe, Guarded
  <2> QED
    BY <1>3, <2>1, <2>2, <2>3 DEF Safe, Guarded
<1>4. \A j \in Ents(s) : E2[j].guards = E[j].guards
  BY DEF Begins
<1> QED
  BY <1>3, <1>4 DEF Spared

\* Inactive entry i is reserved.
LEMMA ReserveScanned ==
  ASSUME NEW s \in Setups, NEW cnt, NEW E, NEW E2, NEW V, NEW V2, NEW t \in Threads, NEW v2, NEW i \in Ents(s),
         Raised(s, E, E2, i), ~E[i].is_active, Moves(V, V2, t, v2), V[t].at = "help",
         v2.index = V[t].index, v2.todo = V[t].todo, v2.at \in {"scan", "helped"}, v2.scan = i, v2.help = i + 1,
         v2.at = "scan" => v2.k = 0, Indices(s, cnt, V), Scanned(s, cnt, E, V)
  PROVE  Scanned(s, cnt, E2, V2)
<1>1. V2[t] = v2 /\ \A u \in Threads : u # t => V2[u] = V[u]
  BY DEF Moves
<1>2. ~Finished(V[t]) /\ V[t].at \notin HelpPoints /\ ~Finished(v2)
  BY DEF Finished, HelpPoints, ScanPoints
<1>3. \A u \in Threads : V2[u].index = V[u].index /\ (Finished(V2[u]) <=> Finished(V[u]))
  BY <1>1, <1>2
<1>4. \A j \in Ents(s) : E[j].is_active => E2[j].is_active
  BY DEF Raised
<1>5. \A u \in Threads : V[u].index # NoIndex => V[u].index \in Ents(s)
  BY DEF Indices, Ents
<1>6. \A u \in Threads : V[u].at \in HelpPoints => V[u].scan # i
  <2> SUFFICES ASSUME NEW u \in Threads, V[u].at \in HelpPoints, V[u].scan = i PROVE FALSE
    OBVIOUS
  <2>1. ~Finished(V[u])
    BY DEF Finished, HelpPoints, ScanPoints
  <2>2. i # NoIndex
    BY DEF Ents, NoIndex
  <2> QED
    BY <2>1, <2>2 DEF Scanned
<1>7. E2[i].is_active /\ i < cnt /\ \A x \in Threads : V2[x].index = i => Finished(V2[x])
  <2>1. i # NoIndex
    BY DEF Ents, NoIndex
  <2> QED
    BY <1>3, <2>1 DEF Scanned, Raised
<1>8. i + 1 # 0
  BY DEF Ents
<1>9. \A j \in Ents(s) : ~E2[j].is_active => j < cnt
  BY <1>4 DEF Scanned
<1>10. \A u \in Threads : V2[u].index # NoIndex /\ ~Finished(V2[u]) => E2[V2[u].index].is_active
  BY <1>3, <1>4, <1>5 DEF Scanned
<1>11. ASSUME NEW u \in Threads, V2[u].at \in HelpPoints
       PROVE  /\ V2[u].scan \in Ents(s)
              /\ V2[u].help = 0 => V2[u].scan = V2[u].index /\ V2[u].at # "helped"
              /\ V2[u].help # 0 => /\ E2[V2[u].scan].is_active /\ V2[u].scan < cnt
                                   /\ \A x \in Threads : V2[x].index = V2[u].scan => Finished(V2[x])
  <2>1. CASE u = t
    BY <1>1, <1>7, <1>8, <2>1
  <2>2. CASE u # t
    BY <1>1, <1>3, <1>4, <1>11, <2>2 DEF Scanned
  <2> QED
    BY <2>1, <2>2
<1>12. \A u, x \in Threads : V2[u].at \in HelpPoints /\ V2[x].at \in HelpPoints /\ V2[u].scan = V2[x].scan
         => u = x
  BY <1>1, <1>6 DEF Scanned
<1>13. ASSUME NEW u \in Threads, V2[u].at \in ScanPoints
       PROVE  V2[u].k \in 0..All(s) /\ (V2[u].at = "scan" <=> V2[u].k < All(s))
  <2>1. CASE u = t
    <3>1. V2[u].at = "scan" /\ V2[u].k = 0
      BY <1>1, <1>13, <2>1 DEF ScanPoints
    <3>2. All(s) \in Nat \ {0}
      BY Sizes
    <3> QED
      BY <3>1, <3>2
  <2>2. CASE u # t
    BY <1>1, <1>13, <2>2 DEF Scanned
  <2> QED
    BY <2>1, <2>2
<1> QED
  BY <1>9, <1>10, <1>11, <1>12, <1>13 DEF Scanned

\* Nobody is left that uses or scans entry i.
Deserted(V, V2, t, i) ==
  /\ \A u \in Threads : V[u].index = i => Finished(V2[u])
  /\ \A u \in Threads : u # t /\ V[u].at \in HelpPoints => V[u].scan # i

\* Entry i is inactive from now on.
LEMMA ReleaseScanned ==
  ASSUME NEW s, NEW cnt, NEW E, NEW E2, NEW V, NEW V2, NEW t \in Threads, NEW v2, NEW i \in Ents(s),
         Lowered(s, E, E2, i), i < cnt, Moves(V, V2, t, v2), v2.index = V[t].index, v2.at \notin HelpPoints,
         ~Finished(V[t]), Deserted(V, V2, t, i),
         Indices(s, cnt, V), Scanned(s, cnt, E, V)
  PROVE  Scanned(s, cnt, E2, V2)
<1>1. V2[t] = v2 /\ \A u \in Threads : u # t => V2[u] = V[u]
  BY DEF Moves
<1>2. \A u \in Threads : V2[u].index = V[u].index /\ (Finished(V[u]) => Finished(V2[u]))
  BY <1>1
<1>3. \A u \in Threads : V2[u].at \in HelpPoints => V2[u] = V[u] /\ V[u].scan # i
  BY <1>1 DEF Deserted
<1>4. \A j \in Ents(s) : j # i => E2[j].is_active = E[j].is_active
  BY DEF Lowered
<1>5. \A u \in Threads : V[u].index # NoIndex => V[u].index \in Ents(s)
  BY DEF Indices, Ents
<1>6. \A j \in Ents(s) : ~E2[j].is_active => j < cnt
  BY <1>4 DEF Scanned
<1>7. ASSUME NEW u \in Threads, V2[u].index # NoIndex, ~Finished(V2[u]) PROVE E2[V2[u].index].is_active
  <2>1. V[u].index # i /\ V[u].index \in Ents(s) /\ ~Finished(V[u])
    BY <1>2, <1>5, <1>7 DEF Deserted
  <2>2. E[V[u].index].is_active
    BY <1>2, <1>7, <2>1 DEF Scanned
  <2> QED
    BY <1>2, <1>4, <2>1, <2>2
<1>8. ASSUME NEW u \in Threads, V2[u].at \in HelpPoints
      PROVE  /\ V2[u].scan \in Ents(s)
             /\ V2[u].help = 0 => V2[u].scan = V2[u].index /\ V2[u].at # "helped"
             /\ V2[u].help # 0 => /\ E2[V2[u].scan].is_active /\ V2[u].scan < cnt
                                  /\ \A x \in Threads : V2[x].index = V2[u].scan => Finished(V2[x])
  <2>1. V2[u] = V[u] /\ V[u].scan # i /\ V[u].at \in HelpPoints
    BY <1>3, <1>8
  <2> QED
    BY <1>2, <1>4, <2>1 DEF Scanned
<1>9. \A u, x \in Threads : V2[u].at \in HelpPoints /\ V2[x].at \in HelpPoints /\ V2[u].scan = V2[x].scan
        => u = x
  BY <1>3 DEF Scanned
<1>10. \A u \in Threads : V2[u].at \in ScanPoints =>
         V2[u].k \in 0..All(s) /\ (V2[u].at = "scan" <=> V2[u].k < All(s))
  BY <1>3 DEF Scanned, HelpPoints
<1> QED
  BY <1>6, <1>7, <1>8, <1>9, <1>10 DEF Scanned

\* A step of a call that changes the flag of an entry.
LEMMA FlagAction ==
  ASSUME NEW t \in Threads, NEW L, thread \in [Threads -> ThreadRecs(setup)], Entire(L),
         NEW c \in CallRecs(setup), Becomes(t, c), UNCHANGED <<setup, counter, heap>>,
         entry' \in [Ents(setup) -> EntryRecs(setup)], Alike(setup, entry, entry'),
         active_hazard_pointer' \in Int, active_hazard_pointer' <= setup.max_threads,
         Views[t].at \in {"help", "helped", "leave", "leaveWrite"}, Views[t].index # NoIndex,
         c.at \in {"scan", "helped", "help", "return", "leaveRead"},
         c.at = "scan" => c.k = 0 /\ c.hazards = {},
         c.at = "leaveRead" => c.op = "leave" /\ c.result = Nothing /\ Views[t].todo = <<>>
  PROVE  /\ Moves(Views, Views', t, With(Views[t], c))
         /\ Scanned(setup, counter, entry', Views') => LockFreeInv'
<1> DEFINE v2 == With(Views[t], c)
           act2 == active_hazard_pointer'
<1>1. /\ setup \in Setups /\ entry \in [Ents(setup) -> EntryRecs(setup)] /\ pool \in SUBSET Nds(setup)
      /\ OnePlace(setup, entry, pool, L, Views) /\ Indices(setup, counter, Views) /\ Leaves(Views)
      /\ Scanned(setup, counter, entry, Views) /\ Room(setup, entry, Views, active_hazard_pointer)
      /\ QueueOK(setup, entry, L, node, tail)
  BY Known
<1>2. entry' \in [Ents(setup) -> EntryRecs(setup)]
  OBVIOUS
<1>3. setup' = setup /\ counter' = counter /\ pool' = pool /\ node' = node /\ head' = head /\ tail' = tail
  BY DEF heap
<1>4. UNCHANGED <<setup, node, head, tail>> /\ pool' \in SUBSET Nds(setup)
  BY <1>1, <1>3
<1>5. /\ Moves(Views, Views', t, With(Views[t], c)) /\ Views'[t] = With(Views[t], c)
      /\ /\ Orderly(setup, counter', entry', active_hazard_pointer', pool', L, Views')
         /\ QueueOK(setup, entry', L, node, tail)
         /\ Spared(setup, entry, L, Views, entry', Views', t)
         /\ CallOK(setup, entry', L, node, head, tail, Views', t)
         => LockFreeInv'
  BY <1>2, <1>4, CallAction
<1>6. /\ v2.index = Views[t].index /\ v2.todo = Views[t].todo /\ v2.at = c.at
      /\ v2.k = c.k /\ v2.hazards = c.hazards /\ v2.op = c.op /\ v2.result = c.result
  BY DEF With
<1> HIDE DEF v2
<1>7. Moves(Views, Views', t, v2) /\ Views'[t] = v2
  BY <1>5 DEF v2
<1>8. \A j \in Ents(setup) : entry'[j].retired = entry[j].retired /\ entry'[j].guards = entry[j].guards
  BY DEF Alike
<1>9. Begins(setup, entry, entry', Views[t], v2)
  BY <1>6, <1>8 DEF Begins, ScanPoints, Taking
<1>10. \A n : Holds(v2, n) => Holds(Views[t], n)
  BY <1>6 DEF Holds, Adding, Taking
<1>11. OnePlace(setup, entry', pool, L, Views')
  BY <1>1, <1>7, <1>8, <1>10, SamePlaces
<1>12. Indices(setup, counter, Views')
  <2>1. v2.index = Views[t].index /\ Views[t].at # "giveBack" /\ v2.at # "giveBack"
    BY <1>6
  <2> QED
    BY <1>1, <1>7, <2>1, KeptIndices
<1>13. Leaves(Views')
  <2>1. v2.todo = Views[t].todo /\ v2.at # "leave"
    BY <1>6
  <2> QED
    BY <1>1, <1>7, <2>1, KeptLeaves
<1>14. Room(setup, entry', Views', act2)
  BY <1>1, <1>7, <1>9, BeginsRoom
<1>15. Spared(setup, entry, L, Views, entry', Views', t)
  BY <1>1, <1>7, <1>9, BeginsSpared
<1>16. QueueOK(setup, entry', L, node, tail)
  <2>1. \A j \in Ents(setup) : \A n : Rtd(entry', j, n) => Rtd(entry, j, n)
    BY <1>8 DEF Rtd
  <2> QED
    BY <1>1, <2>1 DEF QueueOK
<1>17. CallOK(setup, entry', L, node, head, tail, Views', t)
  <2>1. CASE c.at = "leaveRead"
    BY <1>6, <1>7, <2>1, Leaving
  <2>2. CASE c.at # "leaveRead"
    <3>1. Views'[t].at \in {"idle", "return", "help", "scan", "free", "helped"}
      BY <1>6, <1>7, <2>2
    <3> QED
      BY <3>1, Nowhere
  <2> QED
    BY <2>1, <2>2
<1>18. ASSUME Scanned(setup, counter, entry', Views') PROVE LockFreeInv'
  <2>1. Orderly(setup, counter', entry', active_hazard_pointer', pool', L, Views')
    BY <1>3, <1>11, <1>12, <1>13, <1>14, <1>18 DEF Orderly
  <2> QED
    BY <1>5, <1>15, <1>16, <1>17, <2>1
<1> QED
  BY <1>5, <1>18

\* An inactive entry is reserved.
LEMMA KeepsReserve ==
  ASSUME LockFreeInv, NEW t \in Threads, At(t, "help"), Local(t).help < setup.max_threads,
         ~entry[Local(t).help].is_active,
         entry' = [entry EXCEPT ![Local(t).help].is_active = TRUE],
         Becomes(t, IF entry[Local(t).help].retired # <<>> THEN Scanning(Local(t), Local(t).help, Local(t).help + 1)
                    ELSE [Local(t) EXCEPT !.at = "helped", !.scan = Local(t).help, !.help = Local(t).help + 1]),
         UNCHANGED <<setup, counter, active_hazard_pointer, heap>>
  PROVE  LockFreeInv'
<1> DEFINE i == Local(t).help
           c == IF entry[i].retired # <<>> THEN Scanning(Local(t), i, i + 1)
                ELSE [Local(t) EXCEPT !.at = "helped", !.scan = i, !.help = i + 1]
           v2 == With(Views[t], c)
<1>1. PICK L : thread \in [Threads -> ThreadRecs(setup)] /\ Entire(L)
  BY DEF LockFreeInv
<1>2. /\ setup \in Setups /\ entry \in [Ents(setup) -> EntryRecs(setup)] /\ Indices(setup, counter, Views) /\ Scanned(setup, counter, entry, Views)
      /\ Room(setup, entry, Views, active_hazard_pointer)
  BY <1>1, Known
<1>3. Local(t) \in CallRecs(setup) /\ Views[t].at = "help" /\ Views[t].index # NoIndex
  BY <1>1, <1>2, ViewFields DEF At, Local, Indices, Indexed
<1>4. i \in Ents(setup) /\ i \in Nat /\ i + 1 \in Nat
  <2>1. i \in Nat /\ setup.max_threads \in Nat
    BY <1>2, <1>3, Sizes DEF CallRecs
  <2> QED
    BY <2>1 DEF Ents
<1>5. Becomes(t, c)
  OBVIOUS
<1>6. /\ c \in CallRecs(setup) /\ c.scan = i /\ c.help = i + 1 /\ c.at \in {"scan", "helped"}
      /\ c.at = "scan" => c.k = 0 /\ c.hazards = {}
  <2>1. CASE entry[i].retired # <<>>
    <3>1. c = Scanning(Local(t), i, i + 1)
      BY <2>1
    <3> DEFINE j == i + 1
    <3> HIDE DEF c, i, j
    <3>2. c \in CallRecs(setup) /\ Scans(c, i, j)
      BY <1>3, <1>4, <3>1, ScanningFields DEF j
    <3> QED
      BY <3>2 DEF Scans, j
  <2>2. CASE entry[i].retired = <<>>
    <3>1. c = [Local(t) EXCEPT !.at = "helped", !.scan = i, !.help = i + 1]
      BY <2>2
    <3> HIDE DEF c, i
    <3> QED
      BY <1>3, <1>4, <3>1 DEF CallRecs, CallPoints, HelpPoints
  <2> QED
    BY <2>1, <2>2
<1> HIDE DEF c
<1>7. active_hazard_pointer' \in Int /\ active_hazard_pointer' <= setup.max_threads
  BY <1>2 DEF Room
<1>8. UNCHANGED <<setup, counter, heap>> /\ c.at \in {"scan", "helped", "help", "return"} /\ Views[t].at \in {"help", "helped", "leave"}
      /\ entry' = [entry EXCEPT ![i].is_active = TRUE]
      /\ ~entry[i].is_active
  BY <1>3, <1>6
<1> HIDE DEF i
<1>9. /\ Moves(Views, Views', t, With(Views[t], c)) /\ Raised(setup, entry, entry', i)
      /\ Scanned(setup, counter, entry', Views') => LockFreeInv'
  <2>1. entry' \in [Ents(setup) -> EntryRecs(setup)] /\ Raised(setup, entry, entry', i)
    BY <1>2, <1>4, <1>8, FlagRaised
  <2>2. Alike(setup, entry, entry')
    BY <2>1 DEF Raised
  <2> QED
    BY <1>1, <1>3, <1>5, <1>6, <1>7, <1>8, <2>1, <2>2, FlagAction
<1>10. /\ v2.index = Views[t].index /\ v2.todo = Views[t].todo /\ v2.at \in {"scan", "helped"} /\ v2.scan = i
       /\ v2.help = i + 1 /\ (v2.at = "scan" => v2.k = 0)
  BY <1>6 DEF With
<1> HIDE DEF v2
<1>11. Moves(Views, Views', t, v2)
  BY <1>9 DEF v2
<1>12. Scanned(setup, counter, entry', Views')
  BY <1>2, <1>3, <1>4, <1>8, <1>9, <1>10, <1>11, ReserveScanned
<1> QED
  BY <1>9, <1>12

\* The reserved entry is inactive again.
LEMMA KeepsHelped == ASSUME LockFreeInv, NEW t \in Threads, Helped(t) PROVE LockFreeInv'
<1> DEFINE i == Local(t).scan
           c == [Local(t) EXCEPT !.at = "help"]
           v2 == With(Views[t], c)
<1>1. PICK L : thread \in [Threads -> ThreadRecs(setup)] /\ Entire(L)
  BY DEF LockFreeInv
<1>2. /\ setup \in Setups /\ entry \in [Ents(setup) -> EntryRecs(setup)] /\ Indices(setup, counter, Views) /\ Scanned(setup, counter, entry, Views)
      /\ Room(setup, entry, Views, active_hazard_pointer)
  BY <1>1, Known
<1>3. Local(t) \in CallRecs(setup) /\ Views[t].at = "helped" /\ Views[t].scan = i
  BY <1>1, ViewFields DEF Helped, At, Local
<1>4. /\ i \in Ents(setup) /\ i < counter /\ Views[t].index # NoIndex /\ Views[t].at \in HelpPoints
      /\ \A u \in Threads : Views[u].index = i => Finished(Views[u])
  BY <1>2, <1>3 DEF Scanned, HelpPoints, Indices, Indexed
<1>5. Becomes(t, c) /\ entry' = [entry EXCEPT ![i].is_active = FALSE]
      /\ UNCHANGED <<setup, counter, heap>> /\ active_hazard_pointer' = active_hazard_pointer
  BY DEF Helped, Goes
<1>6. c \in CallRecs(setup) /\ c.at = "help"
  BY <1>3 DEF CallRecs, CallPoints
<1> HIDE DEF c, i
<1>7. active_hazard_pointer' \in Int /\ active_hazard_pointer' <= setup.max_threads
  BY <1>2, <1>5 DEF Room
<1>8. /\ c.at \in {"scan", "helped", "help", "return"} /\ c.at # "scan"
      /\ Views[t].at \in {"help", "helped", "leave"}
  BY <1>3, <1>6
<1>9. /\ Moves(Views, Views', t, With(Views[t], c)) /\ Lowered(setup, entry, entry', i)
      /\ Scanned(setup, counter, entry', Views') => LockFreeInv'
  <2>1. entry' \in [Ents(setup) -> EntryRecs(setup)] /\ Lowered(setup, entry, entry', i)
    BY <1>2, <1>4, <1>5, FlagLowered
  <2>2. Alike(setup, entry, entry')
    BY <2>1 DEF Lowered
  <2> QED
    BY <1>1, <1>4, <1>5, <1>6, <1>7, <1>8, <2>1, <2>2, FlagAction
<1>10. v2.index = Views[t].index /\ v2.at = "help" /\ v2.at \notin HelpPoints /\ ~Finished(Views[t])
  BY <1>3, <1>6 DEF With, HelpPoints, ScanPoints, Finished
<1> HIDE DEF v2
<1>11. Moves(Views, Views', t, v2)
  BY <1>9 DEF v2
<1>12. \A u \in Threads : Views[u].index = i => Finished(Views'[u])
  BY <1>4, <1>10, <1>11 DEF Moves
<1>13. \A u \in Threads : u # t /\ Views[u].at \in HelpPoints => Views[u].scan # i
  BY <1>2, <1>3, <1>4 DEF Scanned
<1>14. Scanned(setup, counter, entry', Views')
  <2>1. Deserted(Views, Views', t, i)
    BY <1>12, <1>13 DEF Deserted
  <2> QED
    BY <1>2, <1>4, <1>9, <1>10, <1>11, <2>1, ReleaseScanned
<1> QED
  BY <1>9, <1>14

\* A thread leaves: its entry is inactive.
LEMMA KeepsLeave == ASSUME LockFreeInv, NEW t \in Threads, Leave(t) PROVE LockFreeInv'
<1> DEFINE i == MyEntry(t)
           c == [Local(t) EXCEPT !.at = "leaveRead"]
           v2 == With(Views[t], c)
<1>1. PICK L : thread \in [Threads -> ThreadRecs(setup)] /\ Entire(L)
  BY DEF LockFreeInv
<1>2. /\ setup \in Setups /\ entry \in [Ents(setup) -> EntryRecs(setup)] /\ Indices(setup, counter, Views) /\ Scanned(setup, counter, entry, Views)
      /\ Room(setup, entry, Views, active_hazard_pointer) /\ Leaves(Views)
  BY <1>1, Known
<1>3. Local(t) \in CallRecs(setup) /\ Views[t].at = "leave" /\ Views[t].index = i /\ i # NoIndex
      /\ Views[t].op = Local(t).op /\ Views[t].result = Local(t).result
  BY <1>1, ViewFields DEF Leave, At, Local, MyEntry
<1>4. i \in Ents(setup) /\ i < counter /\ Views[t].todo = <<>>
  BY <1>2, <1>3 DEF Indices, Leaves
<1>a. Views[t].op = "leave" /\ Views[t].result = Nothing
  <2>1. CallOK(setup, entry, L, node, head, tail, Views, t)
    BY <1>1 DEF Entire, Parts
  <2> QED
    BY <1>3, <2>1 DEF CallOK, KindOK
<1>5. Becomes(t, c) /\ entry' = [entry EXCEPT ![i].is_active = FALSE]
      /\ UNCHANGED <<setup, counter, heap>> /\ active_hazard_pointer' = active_hazard_pointer
  <2>1. ~Finished(Views[t])
    BY <1>3 DEF Finished
  <2>2. entry[i].is_active
    BY <1>2, <1>3, <2>1 DEF Scanned
  <2> QED
    BY <2>2 DEF Leave, Goes
<1>6. c \in CallRecs(setup) /\ c.at = "leaveRead" /\ c.op = "leave" /\ c.result = Nothing
  BY <1>3, <1>a DEF CallRecs, CallPoints
<1> HIDE DEF c, i
<1>7. active_hazard_pointer' \in Int /\ active_hazard_pointer' <= setup.max_threads
  BY <1>2, <1>5 DEF Room
<1>8. /\ c.at \in {"scan", "helped", "help", "return", "leaveRead"} /\ c.at # "scan"
      /\ c.at = "leaveRead" => c.op = "leave" /\ c.result = Nothing /\ Views[t].todo = <<>>
      /\ Views[t].at \in {"help", "helped", "leave", "leaveWrite"} /\ Views[t].index # NoIndex
  BY <1>3, <1>4, <1>6
<1>9. /\ Moves(Views, Views', t, With(Views[t], c)) /\ Lowered(setup, entry, entry', i)
      /\ Scanned(setup, counter, entry', Views') => LockFreeInv'
  <2>1. entry' \in [Ents(setup) -> EntryRecs(setup)] /\ Lowered(setup, entry, entry', i)
    BY <1>2, <1>4, <1>5, FlagLowered
  <2>2. Alike(setup, entry, entry')
    BY <2>1 DEF Lowered
  <2> QED
    BY <1>1, <1>4, <1>5, <1>6, <1>7, <1>8, <2>1, <2>2, FlagAction
<1>10. v2.index = Views[t].index /\ v2.at \notin HelpPoints /\ ~Finished(Views[t]) /\ Finished(v2)
       /\ Views[t].at \notin HelpPoints
  BY <1>3, <1>4, <1>6 DEF With, HelpPoints, ScanPoints, Finished
<1> HIDE DEF v2
<1>11. Moves(Views, Views', t, v2)
  BY <1>9 DEF v2
<1>12. \A u \in Threads : Views[u].index = i => Finished(Views'[u])
  <2>1. \A u \in Threads : Views[u].index = i => u = t
    BY <1>2, <1>3 DEF Indices
  <2> QED
    BY <1>10, <1>11, <2>1 DEF Moves
<1>13. \A u \in Threads : u # t /\ Views[u].at \in HelpPoints => Views[u].scan # i
  <2>1. \A u \in Threads : Views[u].at \in HelpPoints => Views[u].scan # Views[t].index
    BY <1>2, <1>8, <1>10, NotScanned
  <2> QED
    BY <1>3, <2>1
<1>14. Scanned(setup, counter, entry', Views')
  <2>1. Deserted(Views, Views', t, i)
    BY <1>12, <1>13 DEF Deserted
  <2> QED
    BY <1>2, <1>4, <1>9, <1>10, <1>11, <2>1, ReleaseScanned
<1> QED
  BY <1>9, <1>14

\* It reads how many threads are active,
LEMMA KeepsLeaveRead == ASSUME LockFreeInv, NEW t \in Threads, LeaveRead(t) PROVE LockFreeInv'
<1> DEFINE c == [Local(t) EXCEPT !.at = "leaveWrite", !.count = active_hazard_pointer]
<1>1. PICK L : thread \in [Threads -> ThreadRecs(setup)] /\ Entire(L)
  BY DEF LockFreeInv
<1>2. Ready(L, t) /\ Room(setup, entry, Views, active_hazard_pointer) /\ Indices(setup, counter, Views)
  BY <1>1, Start, Known
<1>3. Becomes(t, c) /\ UNCHANGED <<setup, guarding, heap>> /\ Views[t].at = "leaveRead"
  BY <1>2 DEF LeaveRead, Ready, At, Local
<1>4. Views[t].op = "leave" /\ Views[t].result = Nothing /\ Views[t].todo = <<>>
  <2>1. CallOK(setup, entry, L, node, head, tail, Views, t)
    BY <1>1 DEF Entire, Parts
  <2> QED
    BY <1>3, <2>1 DEF CallOK, KindOK
<1>5. /\ entry' = entry /\ node' = node /\ tail' = tail /\ setup' = setup /\ counter' = counter
      /\ active_hazard_pointer' = active_hazard_pointer /\ pool' = pool /\ head' = head
  BY <1>3 DEF guarding, heap
<1>6. /\ c \in CallRecs(setup) /\ c.at = "leaveWrite" /\ c.op = Views[t].op
      /\ c.result = Views[t].result
  <2>1. active_hazard_pointer \in {n \in Int : n <= setup.max_threads}
    BY <1>2 DEF Room
  <2>2. Local(t) \in CallRecs(setup) /\ Views[t].op = Local(t).op /\ Views[t].result = Local(t).result
    BY <1>1, ViewFields
  <2> QED
    BY <2>1, <2>2 DEF CallRecs, CallPoints
<1> HIDE DEF c
<1>7. Silent(Views[t], With(Views[t], c))
  <2>1. Views[t].index # NoIndex
    BY <1>2, <1>3 DEF Indices, Indexed
  <2> QED
    BY <1>3, <1>4, <1>6, <2>1
       DEF Silent, Settled, With, Finished, HelpPoints, ScanPoints, Adding, Taking, Indexed, DeqPoints
<1>8. Gentle(setup, entry, L, node, head, tail, Views, entry', node', tail', t)
  BY <1>5 DEF Gentle, SameLists
<1>9. entry' \in [Ents(setup) -> EntryRecs(setup)] /\ node' \in [Nds(setup) -> NodeRecs(setup)] /\ tail' \in N0(setup)
  BY <1>2, <1>5 DEF Ready
<1>10. Views'[t] = With(Views[t], c)
       /\ (CallOK(setup, entry', L, node', head, tail', Views', t) => LockFreeInv')
  BY <1>1, <1>3, <1>5, <1>6, <1>7, <1>8, <1>9, QuietAction
<1>11. /\ Views'[t].at = "leaveWrite" /\ Views'[t].op = "leave" /\ Views'[t].todo = <<>>
       /\ Views'[t].result = Nothing
  BY <1>4, <1>6, <1>10 DEF With
<1> QED
  BY <1>10, <1>11, Leaving

\* and writes one less than it has read: never more than there may be.
LEMMA KeepsLeaveWrite == ASSUME LockFreeInv, NEW t \in Threads, LeaveWrite(t) PROVE LockFreeInv'
<1> DEFINE c == [Local(t) EXCEPT !.at = "return", !.result = "done"]
           v2 == With(Views[t], c)
<1>1. PICK L : thread \in [Threads -> ThreadRecs(setup)] /\ Entire(L)
  BY DEF LockFreeInv
<1>2. /\ setup \in Setups /\ entry \in [Ents(setup) -> EntryRecs(setup)] /\ Indices(setup, counter, Views)
      /\ Scanned(setup, counter, entry, Views) /\ Room(setup, entry, Views, active_hazard_pointer)
  BY <1>1, Known
<1>3. /\ Becomes(t, c) /\ UNCHANGED <<setup, counter, heap>> /\ entry' = entry
      /\ active_hazard_pointer' = Local(t).count - 1
  BY DEF LeaveWrite, Ends
<1>4. Local(t) \in CallRecs(setup) /\ Views[t].at = "leaveWrite" /\ Views[t].index # NoIndex
  <2>1. Local(t) \in CallRecs(setup) /\ Views[t].at = "leaveWrite"
    BY <1>1, ViewFields DEF LeaveWrite, At, Local
  <2> QED
    BY <1>2, <2>1 DEF Indices, Indexed
<1>5. c \in CallRecs(setup) /\ c.at = "return"
  BY <1>4 DEF CallRecs, CallPoints, Results
<1>6. active_hazard_pointer' \in Int /\ active_hazard_pointer' <= setup.max_threads
  <2>1. Local(t).count \in {n \in Int : n <= setup.max_threads} /\ setup.max_threads \in Nat
    BY <1>2, <1>4, Sizes DEF CallRecs
  <2> QED
    BY <1>3, <2>1
<1>7. Views[t].todo = <<>>
  <2>1. CallOK(setup, entry, L, node, head, tail, Views, t)
    BY <1>1 DEF Entire, Parts
  <2> QED
    BY <1>4, <2>1 DEF CallOK, KindOK
<1> HIDE DEF c
<1>8. Becomes(t, c) /\ setup' = setup
  BY <1>3
<1>9. Moves(Views, Views', t, v2)
  BY <1>1, <1>5, <1>8, BecomesMoves
<1>10. Settled(Views[t], v2)
  BY <1>4, <1>5, <1>7 DEF Settled, With, Finished, HelpPoints, ScanPoints, Indexed, DeqPoints
<1> HIDE DEF v2
<1>11. /\ SameLists(setup, entry, entry') /\ Alike(setup, entry, entry')
       /\ entry' \in [Ents(setup) -> EntryRecs(setup)]
  BY <1>2, <1>3 DEF SameLists, Alike
<1>12. Scanned(setup, counter, entry', Views')
  BY <1>2, <1>9, <1>10, <1>11, CalmScanned
<1> QED
  BY <1>1, <1>3, <1>4, <1>5, <1>6, <1>8, <1>11, <1>12, FlagAction

\* HelpScan.
LEMMA KeepsHelpScan == ASSUME LockFreeInv, NEW t \in Threads, HelpScan(t) PROVE LockFreeInv'
<1> DEFINE i == Local(t).help
<1>1. At(t, "help") /\ UNCHANGED <<setup, counter, active_hazard_pointer, heap>>
  BY DEF HelpScan
<1>2. CASE /\ i < setup.max_threads /\ ~entry[i].is_active
           /\ entry' = [entry EXCEPT ![i].is_active = TRUE]
           /\ Becomes(t, IF entry[i].retired # <<>> THEN Scanning(Local(t), i, i + 1)
                         ELSE [Local(t) EXCEPT !.at = "helped", !.scan = i, !.help = i + 1])
  BY <1>1, <1>2, KeepsReserve
<1>3. CASE Becomes(t, [Local(t) EXCEPT !.help = i + 1]) /\ UNCHANGED entry
  <2>1. UNCHANGED <<setup, guarding, heap>>
    BY <1>1, <1>3 DEF guarding
  <2>2. i + 1 \in Nat
    BY ViewFields DEF LockFreeInv, CallRecs
  <2> QED
    BY <1>1, <1>3, <2>1, <2>2, KeepsHelpNext
<1>4. CASE Goes(t, "return") /\ UNCHANGED entry
  <2>1. UNCHANGED <<setup, guarding, heap>>
    BY <1>1, <1>4 DEF guarding
  <2> QED
    BY <1>1, <1>4, <2>1, KeepsHelpEnds DEF Goes
<1> QED
  BY <1>2, <1>3, <1>4 DEF HelpScan

-----------------------------------------------------------------------------
(* The indices of the threads                                              *)

\* A thread at another point, with another index.
Numbered(v, x, a) ==
  [index |-> x, todo |-> v.todo, at |-> a, op |-> v.op, value |-> v.value, result |-> v.result,
   mine |-> v.mine, top |-> v.top, last |-> v.last, next |-> v.next, scan |-> v.scan, k |-> v.k,
   help |-> v.help, hazards |-> v.hazards]

\* What is seen of a thread that asks for an index.
LEMMA IndexMoves ==
  ASSUME NEW t \in Threads, NEW x \in Int, NEW a \in CallPoints, thread \in [Threads -> ThreadRecs(setup)],
         thread' = [thread EXCEPT ![t].index = x, ![t].call.at = a]
  PROVE  /\ thread' \in [Threads -> ThreadRecs(setup)] /\ Views' \in [Threads -> ViewRecs(setup)]
         /\ Moves(Views, Views', t, Numbered(Views[t], x, a))
<1> DEFINE d == [thread[t].call EXCEPT !.at = a]
           y == [thread[t] EXCEPT !.index = x, !.call = d]
           v2 == Numbered(Views[t], x, a)
<1>1. thread[t] \in ThreadRecs(setup) /\ thread[t].call \in CallRecs(setup) /\ thread[t].todo \in Seq(Ops)
  BY DEF ThreadRecs
<1>2. d \in CallRecs(setup)
  BY <1>1 DEF CallRecs
<1>3. thread' = [thread EXCEPT ![t] = y]
  BY <1>1 DEF ThreadRecs
<1>4. y \in ThreadRecs(setup)
  <2> HIDE DEF d
  <2> QED
    BY <1>1, <1>2 DEF ThreadRecs
<1>5. View(y) = v2
  <2> DEFINE e == thread[t].call
  <2>1. y.index = x /\ y.todo = thread[t].todo /\ y.call = d
    <3> HIDE DEF d
    <3> QED
      BY <1>1 DEF ThreadRecs
  <2>2. /\ d.at = a /\ d.op = e.op /\ d.value = e.value
        /\ d.result = e.result /\ d.mine = e.mine /\ d.top = e.top /\ d.last = e.last /\ d.next = e.next
        /\ d.scan = e.scan /\ d.k = e.k /\ d.help = e.help /\ d.hazards = e.hazards
    BY <1>1 DEF CallRecs
  <2>3. Views[t] = View(thread[t])
    BY DEF Views
  <2> HIDE DEF y, d
  <2> QED
    BY <2>1, <2>2, <2>3 DEF View, Numbered
<1>6. \A z \in ThreadRecs(setup) : View(z) \in ViewRecs(setup)
  BY DEF View, ViewRecs, ThreadRecs, CallRecs
<1> HIDE DEF y, d
<1>7. thread' \in [Threads -> ThreadRecs(setup)] /\ thread'[t] = y /\ \A u \in Threads : u # t => thread'[u] = thread[u]
  BY <1>3, <1>4
<1> HIDE DEF v2
<1>8. Views' = [u \in Threads |-> View(thread'[u])] /\ Views = [u \in Threads |-> View(thread[u])]
  BY DEF Views
<1>9. Views' \in [Threads -> ViewRecs(setup)]
  BY <1>6, <1>7, <1>8
<1>10. Moves(Views, Views', t, v2)
  BY <1>5, <1>7, <1>8 DEF Moves
<1> QED
  BY <1>7, <1>9, <1>10 DEF v2

\* How many threads have to give back what they have counted.
Backs(V) == {u \in Threads : V[u].at = "giveBack"}

\* There are finitely many.
LEMMA FiniteBacks == \A V : IsFiniteSet(Backs(V)) /\ Cardinality(Backs(V)) \in Nat
<1> TAKE V
<1>1. Backs(V) \in SUBSET Threads
  BY DEF Backs
<1>2. IsFiniteSet(Backs(V))
  BY <1>1, ThreadsAssumption, FS_Subset
<1> QED
  BY <1>2, FS_CardinalityType

\* The thread has got index cnt.
LEMMA TakenIndices ==
  ASSUME NEW s \in Setups, NEW cnt, NEW V, NEW V2, NEW t \in Threads, NEW v2, Moves(V, V2, t, v2), cnt < s.max_threads,
         v2.index = cnt, v2.at = V[t].at, V[t].at \in {"leave", "guard", "enqGuard", "deqGuard"}, Indices(s, cnt, V)
  PROVE  Indices(s, cnt + 1, V2) /\ cnt \in Ents(s)
<1>1. V2[t] = v2 /\ \A u \in Threads : V2[u].at = V[u].at /\ (u # t => V2[u] = V[u])
  BY DEF Moves
<1>2. cnt \in Nat /\ s.max_threads \in Nat
  BY Sizes DEF Indices
<1>3. cnt \in Ents(s) /\ cnt # NoIndex
  BY <1>2 DEF Ents, NoIndex
<1>4. \A u \in Threads : V[u].at # "giveBack"
  <2> SUFFICES ASSUME NEW u \in Threads, V[u].at = "giveBack" PROVE FALSE
    OBVIOUS
  <2>1. cnt >= s.max_threads + Cardinality(Backs(V))
    BY DEF Indices, Backs
  <2>2. Cardinality(Backs(V)) \in Nat
    BY FiniteBacks
  <2> QED
    BY <1>2, <2>1, <2>2
<1>5. \A u \in Threads : V[u].index \in {NoIndex} \cup Ents(s) /\ V[u].index < cnt /\ V[u].index \in Int
  BY DEF Indices, Ents, NoIndex
<1>6. \A u \in Threads : V2[u].index \in {NoIndex} \cup Ents(s) /\ V2[u].index < cnt + 1
  BY <1>1, <1>2, <1>3, <1>5
<1>7. \A u \in Threads : V[u].index # cnt
  BY <1>2, <1>5
<1>8. \A u, x \in Threads : V2[u].index = V2[x].index /\ V2[u].index # NoIndex => u = x
  BY <1>1, <1>7 DEF Indices
<1>9. \A u \in Threads : V2[u].at \in Indexed => V2[u].index # NoIndex
  BY <1>1, <1>3 DEF Indices
<1>10. \A u \in Threads : V2[u].at # "giveBack"
  BY <1>1, <1>4
<1> QED
  BY <1>2, <1>3, <1>6, <1>8, <1>9, <1>10 DEF Indices

\* The thread has got none.
LEMMA MissedIndices ==
  ASSUME NEW s \in Setups, NEW cnt, NEW V, NEW V2, NEW t \in Threads, NEW v2, Moves(V, V2, t, v2), ~(cnt < s.max_threads),
         v2.index = V[t].index, v2.at = "giveBack", V[t].at # "giveBack", V[t].index = NoIndex, Indices(s, cnt, V)
  PROVE  Indices(s, cnt + 1, V2)
<1>1. V2[t] = v2 /\ \A u \in Threads : u # t => V2[u] = V[u]
  BY DEF Moves
<1>2. cnt \in Nat /\ s.max_threads \in Nat
  BY Sizes DEF Indices
<1>3. Backs(V2) = Backs(V) \cup {t} /\ t \notin Backs(V)
  BY <1>1 DEF Backs
<1>4. Cardinality(Backs(V)) \in Nat /\ Cardinality(Backs(V2)) = Cardinality(Backs(V)) + 1
  <2>1. IsFiniteSet(Backs(V)) /\ Cardinality(Backs(V)) \in Nat
    BY FiniteBacks
  <2>2. Cardinality(Backs(V) \cup {t}) = IF t \in Backs(V) THEN Cardinality(Backs(V)) ELSE Cardinality(Backs(V)) + 1
    BY <2>1, FS_AddElement
  <2> QED
    BY <1>3, <2>1, <2>2
<1>5. cnt >= s.max_threads + Cardinality(Backs(V))
  <2>1. CASE Backs(V) = {}
    BY <1>2, <2>1, FS_EmptySet
  <2>2. CASE Backs(V) # {}
    <3>1. \E u \in Threads : V[u].at = "giveBack"
      BY <2>2 DEF Backs
    <3> QED
      BY <3>1 DEF Indices, Backs
  <2> QED
    BY <2>1, <2>2
<1>6. cnt + 1 >= s.max_threads + Cardinality(Backs(V2)) /\ cnt + 1 \in Nat
  BY <1>2, <1>4, <1>5
<1>7. \A u \in Threads : V2[u].index = V[u].index
  BY <1>1
<1>8. \A u \in Threads : V2[u].index \in {NoIndex} \cup Ents(s) /\ V2[u].index < cnt + 1
  <2>1. \A u \in Threads : V[u].index \in {NoIndex} \cup Ents(s) /\ V[u].index < cnt /\ V[u].index \in Int
    BY DEF Indices, Ents, NoIndex
  <2> QED
    BY <1>2, <1>7, <2>1
<1>9. \A u, x \in Threads : V2[u].index = V2[x].index /\ V2[u].index # NoIndex => u = x
  BY <1>7 DEF Indices
<1>10. \A u \in Threads : V2[u].at = "giveBack" => V2[u].index = NoIndex
  BY <1>1 DEF Indices
<1>11. "giveBack" \notin Indexed
  BY DEF Indexed, HelpPoints, ScanPoints, DeqPoints
<1>12. \A u \in Threads : V2[u].at \in Indexed => V2[u].index # NoIndex
  BY <1>1, <1>11 DEF Indices
<1> QED
  BY <1>6, <1>8, <1>9, <1>10, <1>12 DEF Indices, Backs

\* The thread gives back what it has counted.
LEMMA BackIndices ==
  ASSUME NEW s \in Setups, NEW cnt, NEW V, NEW V2, NEW t \in Threads, NEW v2, Moves(V, V2, t, v2), V[t].at = "giveBack",
         v2.index = V[t].index, v2.at = "return", Indices(s, cnt, V)
  PROVE  Indices(s, cnt - 1, V2) /\ s.max_threads <= cnt - 1
<1>1. V2[t] = v2 /\ \A u \in Threads : u # t => V2[u] = V[u]
  BY DEF Moves
<1>2. cnt \in Nat /\ s.max_threads \in Nat \ {0}
  BY Sizes DEF Indices
<1>3. Backs(V2) = Backs(V) \ {t} /\ t \in Backs(V)
  BY <1>1 DEF Backs
<1>4. /\ Cardinality(Backs(V)) \in Nat /\ Cardinality(Backs(V2)) \in Nat
      /\ Cardinality(Backs(V2)) = Cardinality(Backs(V)) - 1
  <2>1. IsFiniteSet(Backs(V)) /\ Cardinality(Backs(V)) \in Nat /\ Cardinality(Backs(V2)) \in Nat
    BY FiniteBacks
  <2>2. Cardinality(Backs(V) \ {t}) = IF t \in Backs(V) THEN Cardinality(Backs(V)) - 1 ELSE Cardinality(Backs(V))
    BY <2>1, FS_RemoveElement
  <2> QED
    BY <1>3, <2>1, <2>2
<1>5. cnt >= s.max_threads + Cardinality(Backs(V))
  BY DEF Indices, Backs
<1>6. cnt - 1 >= s.max_threads + Cardinality(Backs(V2)) /\ cnt - 1 \in Nat /\ s.max_threads <= cnt - 1
  BY <1>2, <1>4, <1>5
<1>7. \A u \in Threads : V2[u].index = V[u].index
  BY <1>1
<1>8. \A u \in Threads : V2[u].index \in {NoIndex} \cup Ents(s) /\ V2[u].index < cnt - 1
  <2>1. \A u \in Threads : V[u].index \in {NoIndex} \cup Ents(s)
    BY DEF Indices
  <2>2. \A i \in {NoIndex} \cup Ents(s) : i < cnt - 1
    BY <1>2, <1>6 DEF Ents, NoIndex
  <2> QED
    BY <1>7, <2>1, <2>2
<1>9. \A u, x \in Threads : V2[u].index = V2[x].index /\ V2[u].index # NoIndex => u = x
  BY <1>7 DEF Indices
<1>10. \A u \in Threads : V2[u].at = "giveBack" => V2[u].index = NoIndex
  BY <1>1 DEF Indices
<1>11. "return" \notin Indexed
  BY DEF Indexed, HelpPoints, ScanPoints, DeqPoints
<1>12. \A u \in Threads : V2[u].at \in Indexed => V2[u].index # NoIndex
  BY <1>1, <1>11 DEF Indices
<1> QED
  BY <1>6, <1>8, <1>9, <1>10, <1>12 DEF Indices, Backs

\* The thread has the same index, or one that nobody has had before.
NewIndex(V, t, v2) ==
  \/ v2.index = V[t].index
  \/ \A u \in Threads : V[u].at \in HelpPoints => V[u].scan # v2.index

\* The counter changes, and nobody is scanned because of that.
LEMMA CountScanned ==
  ASSUME NEW s, NEW cnt, NEW cnt2, NEW E, NEW V, NEW V2, NEW t \in Threads, NEW v2, Moves(V, V2, t, v2),
         V[t].at \notin HelpPoints, v2.at \notin HelpPoints, Finished(V[t]) => Finished(v2), NewIndex(V, t, v2),
         \A i \in Ents(s) : i < cnt => i < cnt2,
         v2.index # NoIndex /\ ~Finished(v2) => E[v2.index].is_active, Scanned(s, cnt, E, V)
  PROVE  Scanned(s, cnt2, E, V2)
<1>1. V2[t] = v2 /\ \A u \in Threads : u # t => V2[u] = V[u]
  BY DEF Moves
<1>2. \A u \in Threads : V2[u].at \in HelpPoints => u # t /\ V2[u] = V[u] /\ V[u].at \in HelpPoints
  BY <1>1
<1>3. \A i \in Ents(s) : ~E[i].is_active => i < cnt2
  BY DEF Scanned
<1>4. \A u \in Threads : V2[u].index # NoIndex /\ ~Finished(V2[u]) => E[V2[u].index].is_active
  BY <1>1 DEF Scanned
<1>5. ASSUME NEW u \in Threads, V2[u].at \in HelpPoints
      PROVE  /\ V2[u].scan \in Ents(s)
             /\ V2[u].help = 0 => V2[u].scan = V2[u].index /\ V2[u].at # "helped"
             /\ V2[u].help # 0 => /\ E[V2[u].scan].is_active /\ V2[u].scan < cnt2
                                  /\ \A x \in Threads : V2[x].index = V2[u].scan => Finished(V2[x])
  <2>1. u # t /\ V2[u] = V[u] /\ V[u].at \in HelpPoints
    BY <1>2, <1>5
  <2>2. /\ V[u].scan \in Ents(s)
        /\ V[u].help = 0 => V[u].scan = V[u].index /\ V[u].at # "helped"
        /\ V[u].help # 0 => /\ E[V[u].scan].is_active /\ V[u].scan < cnt
                            /\ \A x \in Threads : V[x].index = V[u].scan => Finished(V[x])
    BY <2>1 DEF Scanned
  <2>3. ASSUME V[u].help # 0, NEW x \in Threads, V2[x].index = V[u].scan PROVE Finished(V2[x])
    <3>1. CASE x = t
      <4>1. V[t].index = V[u].scan
        BY <1>1, <2>1, <2>3, <3>1 DEF NewIndex
      <4> QED
        BY <1>1, <2>2, <2>3, <3>1, <4>1
    <3>2. CASE x # t
      BY <1>1, <2>2, <2>3, <3>2
    <3> QED
      BY <3>1, <3>2
  <2> QED
    BY <2>1, <2>2, <2>3
<1>6. \A u, x \in Threads : V2[u].at \in HelpPoints /\ V2[x].at \in HelpPoints /\ V2[u].scan = V2[x].scan
        => u = x
  BY <1>2 DEF Scanned
<1>7. \A u \in Threads : V2[u].at \in ScanPoints =>
        V2[u].k \in 0..All(s) /\ (V2[u].at = "scan" <=> V2[u].k < All(s))
  BY <1>2 DEF Scanned, HelpPoints
<1> QED
  BY <1>3, <1>4, <1>5, <1>6, <1>7 DEF Scanned

\* A step of a thread on the counter.
LEMMA CountAction ==
  ASSUME NEW t \in Threads, NEW L, Entire(L), NEW v2, thread' \in [Threads -> ThreadRecs(setup)],
         Views' \in [Threads -> ViewRecs(setup)], Moves(Views, Views', t, v2),
         UNCHANGED <<setup, entry, active_hazard_pointer, heap>>, v2.todo = Views[t].todo,
         v2.at # "leave" \/ Views[t].at = "leave", Views[t].at \notin HelpPoints, v2.at \notin HelpPoints,
         Views[t].at \notin Taking, v2.at \notin Taking, \A n : Holds(v2, n) => Holds(Views[t], n),
         Indices(setup, counter', Views'), Scanned(setup, counter', entry, Views'),
         CallOK(setup, entry, L, node, head, tail, Views', t)
  PROVE  LockFreeInv'
<1>1. /\ setup \in Setups /\ entry \in [Ents(setup) -> EntryRecs(setup)] /\ pool \in SUBSET Nds(setup)
      /\ OnePlace(setup, entry, pool, L, Views) /\ Leaves(Views)
      /\ Scanned(setup, counter, entry, Views) /\ Room(setup, entry, Views, active_hazard_pointer)
      /\ QueueOK(setup, entry, L, node, tail)
  BY Known
<1>2. setup' = setup /\ pool' = pool /\ node' = node /\ head' = head /\ tail' = tail
      /\ entry' = entry /\ active_hazard_pointer' = active_hazard_pointer
  BY DEF heap
<1>3. Begins(setup, entry, entry, Views[t], v2)
  BY DEF Begins, HelpPoints
<1>4. OnePlace(setup, entry, pool, L, Views')
  <2>1. \A i \in Ents(setup) : entry[i].retired = entry[i].retired
    OBVIOUS
  <2> QED
    BY <1>1, <2>1, SamePlaces
<1>5. Leaves(Views')
  BY <1>1, KeptLeaves
<1>6. Room(setup, entry, Views', active_hazard_pointer)
  <2>1. active_hazard_pointer \in Int /\ active_hazard_pointer <= setup.max_threads
    BY <1>1 DEF Room
  <2> QED
    BY <1>1, <1>3, <2>1, BeginsRoom
<1>7. Spared(setup, entry, L, Views, entry, Views', t)
  BY <1>1, <1>3, BeginsSpared
<1>8. Orderly(setup, counter', entry', active_hazard_pointer', pool', L, Views')
  BY <1>2, <1>4, <1>5, <1>6 DEF Orderly
<1>9. /\ UNCHANGED <<setup, node, head, tail>> /\ entry' \in [Ents(setup) -> EntryRecs(setup)]
      /\ pool' \in SUBSET Nds(setup) /\ QueueOK(setup, entry', L, node, tail)
      /\ Spared(setup, entry, L, Views, entry', Views', t) /\ CallOK(setup, entry', L, node, head, tail, Views', t)
  BY <1>1, <1>2, <1>7
<1> QED
  BY <1>8, <1>9, ListAction

\* The thread asks for an index.
LEMMA KeepsTakeIndex == ASSUME LockFreeInv, NEW t \in Threads, TakeIndex(t) PROVE LockFreeInv'
<1> DEFINE v == Views[t]
           x == IF counter < setup.max_threads THEN counter ELSE v.index
           a == IF counter < setup.max_threads THEN v.at ELSE "giveBack"
           v2 == Numbered(v, x, a)
<1>1. PICK L : thread \in [Threads -> ThreadRecs(setup)] /\ Entire(L)
  BY DEF LockFreeInv
<1>2. /\ setup \in Setups /\ Indices(setup, counter, Views) /\ Scanned(setup, counter, entry, Views)
      /\ KindOK(setup, v) /\ PushOK(setup, node, v) /\ PopOK(setup, entry, L, node, Views, t)
      /\ EnqOK(setup, entry, L, node, Views, t) /\ DeqOK(setup, entry, L, node, head, tail, Views, t)
  BY <1>1, Known
<1>3. /\ Local(t) \in CallRecs(setup) /\ v.at = thread[t].call.at /\ v.index = thread[t].index
      /\ v.index = NoIndex /\ v.at \in {"leave", "guard", "enqGuard", "deqGuard"}
  BY <1>1, ViewFields DEF TakeIndex, NeedsEntry, At, Local
<1>4. counter' = counter + 1 /\ UNCHANGED <<setup, entry, active_hazard_pointer, heap>>
      /\ thread' = [thread EXCEPT ![t].index = x, ![t].call.at = a]
  BY <1>3 DEF TakeIndex
<1>5. x \in Int /\ a \in CallPoints
  <2>1. counter \in Nat
    BY <1>2 DEF Indices
  <2> QED
    BY <1>3, <2>1 DEF NoIndex, CallPoints, StackPoints, EnqPoints, DeqPoints
<1>6. /\ v2.index = x /\ v2.at = a /\ v2.todo = v.todo /\ v2.op = v.op /\ v2.result = v.result
      /\ v2.mine = v.mine /\ v2.top = v.top /\ v2.last = v.last
  BY DEF Numbered
<1>7. /\ thread' \in [Threads -> ThreadRecs(setup)] /\ Views' \in [Threads -> ViewRecs(setup)]
      /\ Moves(Views, Views', t, v2)
  <2> HIDE DEF x, a
  <2> QED
    BY <1>1, <1>4, <1>5, IndexMoves
<1> HIDE DEF v2
<1>8. /\ a \in {v.at, "giveBack"} /\ a \notin HelpPoints /\ v.at \notin HelpPoints /\ ~Finished(v)
      /\ a \notin Taking /\ v.at \notin Taking /\ ~Finished(v2)
  BY <1>3, <1>6 DEF HelpPoints, ScanPoints, Taking, Finished
<1>9. \A n : Holds(v2, n) => Holds(v, n)
  BY <1>3, <1>6 DEF Holds, Adding, Taking
<1>10. Indices(setup, counter + 1, Views') /\ (counter < setup.max_threads => counter \in Ents(setup))
  <2>1. CASE counter < setup.max_threads
    BY <1>2, <1>3, <1>6, <1>7, <2>1, TakenIndices
  <2>2. CASE ~(counter < setup.max_threads)
    <3>1. v2.index = Views[t].index /\ v2.at = "giveBack" /\ Views[t].at # "giveBack" /\ Views[t].index = NoIndex
      BY <1>3, <1>6, <2>2
    <3> QED
      BY <1>2, <1>7, <2>2, <3>1, MissedIndices
  <2> QED
    BY <2>1, <2>2
<1>11. Scanned(setup, counter + 1, entry, Views')
  <2>1. counter \in Nat /\ \A u \in Threads : Views[u].index < counter /\ Views[u].index \in Int
    BY <1>2 DEF Indices, Ents, NoIndex
  <2>2. \A i \in Ents(setup) : i < counter => i < counter + 1
    BY <2>1 DEF Ents
  <2>3. NewIndex(Views, t, v2)
    <3>1. CASE counter < setup.max_threads
      <4>1. \A u \in Threads : Views[u].at \in HelpPoints => Views[u].scan < counter /\ Views[u].scan \in Int
        BY <1>2, <2>1 DEF Scanned, Ents
      <4>2. \A u \in Threads : Views[u].at \in HelpPoints => Views[u].scan # counter
        BY <2>1, <4>1
      <4> QED
        BY <1>6, <3>1, <4>2 DEF NewIndex
    <3>2. CASE ~(counter < setup.max_threads)
      BY <1>6, <3>2 DEF NewIndex
    <3> QED
      BY <3>1, <3>2
  <2>4. v2.index # NoIndex => entry[v2.index].is_active
    <3>1. CASE counter < setup.max_threads
      <4>1. counter \in Ents(setup) /\ ~(counter < counter)
        BY <1>10, <2>1, <3>1
      <4>2. entry[counter].is_active
        BY <1>2, <4>1 DEF Scanned
      <4> QED
        BY <1>6, <3>1, <4>2
    <3>2. CASE ~(counter < setup.max_threads)
      BY <1>3, <1>6, <3>2
    <3> QED
      BY <3>1, <3>2
  <2>5. Views[t].at \notin HelpPoints /\ v2.at \notin HelpPoints /\ ~Finished(Views[t])
    BY <1>6, <1>8
  <2> DEFINE n == counter + 1
  <2>6. \A i \in Ents(setup) : i < counter => i < n
    BY <2>2
  <2> HIDE DEF n
  <2>7. Scanned(setup, n, entry, Views')
    BY <1>2, <1>7, <2>3, <2>4, <2>5, <2>6, CountScanned
  <2> QED
    BY <2>7 DEF n
<1>12. Views'[t] = v2
  BY <1>7 DEF Moves
<1>13. CallOK(setup, entry, L, node, head, tail, Views', t)
  <2>1. KindOK(setup, v2)
    BY <1>2, <1>3, <1>6, <1>8 DEF KindOK, StackPoints, EnqPoints, DeqPoints
  <2>2. PushOK(setup, node, v2)
    BY <1>2, <1>3, <1>6, <1>8 DEF PushOK, Adding, EnqPoints
  <2>3. PopOK(setup, entry, L, node, Views', t)
    BY <1>2, <1>3, <1>6, <1>8, <1>12 DEF PopOK, Taking
  <2>4. EnqOK(setup, entry, L, node, Views', t)
    BY <1>2, <1>3, <1>6, <1>8, <1>12 DEF EnqOK
  <2>5. DeqOK(setup, entry, L, node, head, tail, Views', t)
    BY <1>2, <1>3, <1>6, <1>8, <1>12 DEF DeqOK, DeqPoints
  <2> QED
    BY <1>12, <2>1, <2>2, <2>3, <2>4, <2>5 DEF CallOK
<1>14. /\ v2.todo = Views[t].todo /\ (v2.at # "leave" \/ Views[t].at = "leave") /\ Views[t].at \notin HelpPoints
       /\ v2.at \notin HelpPoints /\ Views[t].at \notin Taking /\ v2.at \notin Taking
       /\ \A n : Holds(v2, n) => Holds(Views[t], n)
  BY <1>6, <1>8, <1>9
<1>15. Indices(setup, counter', Views') /\ Scanned(setup, counter', entry, Views')
  BY <1>4, <1>10, <1>11
<1> QED
  BY <1>1, <1>4, <1>7, <1>13, <1>14, <1>15, CountAction

\* The thread that has got no index gives back what it has counted.
LEMMA KeepsGiveBack == ASSUME LockFreeInv, NEW t \in Threads, GiveBack(t) PROVE LockFreeInv'
<1> DEFINE v == Views[t]
           c == [Local(t) EXCEPT !.at = "return", !.result = "exception"]
           v2 == With(v, c)
           n2 == counter - 1
<1>1. PICK L : thread \in [Threads -> ThreadRecs(setup)] /\ Entire(L)
  BY DEF LockFreeInv
<1>2. setup \in Setups /\ Indices(setup, counter, Views) /\ Scanned(setup, counter, entry, Views)
  BY <1>1, Known
<1>3. Local(t) \in CallRecs(setup) /\ v.at = "giveBack"
  BY <1>1, ViewFields DEF GiveBack, At, Local
<1>4. counter' = n2 /\ Becomes(t, c) /\ UNCHANGED <<setup, entry, active_hazard_pointer, heap>>
  BY DEF GiveBack, Ends
<1>5. c \in CallRecs(setup) /\ c.at = "return"
  BY <1>3 DEF CallRecs, CallPoints, Results
<1> HIDE DEF c
<1>6. /\ thread' \in [Threads -> ThreadRecs(setup')] /\ Views' \in [Threads -> ViewRecs(setup)]
      /\ Moves(Views, Views', t, v2)
  BY <1>1, <1>4, <1>5, BecomesMoves
<1>7. v2.index = v.index /\ v2.at = "return" /\ v2.todo = v.todo
  BY <1>5 DEF With
<1> HIDE DEF v2
<1>8. Indices(setup, n2, Views') /\ setup.max_threads <= n2
  BY <1>2, <1>3, <1>6, <1>7, BackIndices
<1>9. v.index = NoIndex
  BY <1>2, <1>3 DEF Indices
<1>10. Scanned(setup, n2, entry, Views')
  <2>1. n2 \in Nat /\ setup.max_threads \in Nat
    BY <1>2, <1>8, Sizes DEF Indices
  <2> HIDE DEF n2
  <2>2. \A i \in Ents(setup) : i < counter => i < n2
    BY <1>8, <2>1 DEF Ents
  <2>3. NewIndex(Views, t, v2) /\ v2.index = NoIndex /\ Views[t].at \notin HelpPoints /\ v2.at \notin HelpPoints
        /\ ~Finished(Views[t])
    BY <1>3, <1>7, <1>9 DEF NewIndex, HelpPoints, ScanPoints, Finished
  <2> QED
    BY <1>2, <1>6, <2>2, <2>3, CountScanned
<1>11. CallOK(setup, entry, L, node, head, tail, Views', t)
  <2>1. Views'[t].at \in {"idle", "return", "help", "scan", "free", "helped"}
    BY <1>6, <1>7 DEF Moves
  <2> QED
    BY <2>1, Nowhere
<1>12. /\ v2.todo = Views[t].todo /\ v2.at # "leave" /\ Views[t].at \notin HelpPoints
       /\ v2.at \notin HelpPoints /\ Views[t].at \notin Taking /\ v2.at \notin Taking
       /\ \A n : Holds(v2, n) => Holds(Views[t], n)
  BY <1>3, <1>7 DEF HelpPoints, ScanPoints, Taking, Holds, Adding
<1>13. Indices(setup, counter', Views') /\ Scanned(setup, counter', entry, Views')
       /\ thread' \in [Threads -> ThreadRecs(setup)]
  BY <1>4, <1>6, <1>8, <1>10
<1> QED
  BY <1>1, <1>4, <1>6, <1>11, <1>12, <1>13, CountAction

-----------------------------------------------------------------------------
(* The invariant holds                                                     *)

\* Every step of a thread on the stack or the queue keeps the invariant.
LEMMA KeepsHazardStep == ASSUME LockFreeInv, NEW t \in Threads, HazardStep(t) PROVE LockFreeInv'
  BY KeepsBegin, KeepsReturn, KeepsTakeIndex, KeepsGiveBack, KeepsRetire, KeepsScanGuard, KeepsScanFrees,
     KeepsHelpScan, KeepsHelped, KeepsLeave, KeepsLeaveRead, KeepsLeaveWrite DEF HazardStep

\* The steps of the stack.
LEMMA KeepsStackStep ==
  ASSUME LockFreeInv, NEW t \in Threads,
         PushTop(t) \/ PushCas(t) \/ PopTop(t) \/ PopGuard(t) \/ PopCheck(t) \/ PopNext(t) \/ PopCas(t) \/ PopUnguard(t)
  PROVE  LockFreeInv'
<1>1. ASSUME PushCas(t) PROVE LockFreeInv'
  <2>1. At(t, "pushCas") /\ UNCHANGED <<setup, guarding, pool, node, tail>>
    BY <1>1 DEF PushCas
  <2>2. CASE head = Local(t).top /\ head' = Local(t).mine /\ Ends(t, "done")
    BY <2>1, <2>2, KeepsPush
  <2>3. CASE Goes(t, "pushTop") /\ UNCHANGED head
    <3>1. UNCHANGED <<setup, guarding, heap>>
      BY <2>1, <2>3 DEF heap
    <3> QED
      BY <2>1, <2>3, <3>1, KeepsFailPush DEF Goes
  <2> QED
    BY <1>1, <2>2, <2>3 DEF PushCas
<1>2. ASSUME PopCas(t) PROVE LockFreeInv'
  <2>1. At(t, "popCas") /\ UNCHANGED <<setup, guarding, pool, node, tail>>
    BY <1>2 DEF PopCas
  <2>2. CASE head = Local(t).top /\ head' = Local(t).next
             /\ Becomes(t, [Local(t) EXCEPT !.at = "popTake", !.result = node[Local(t).top].element])
    BY <2>1, <2>2, KeepsPop
  <2>3. CASE Goes(t, "popAgain") /\ UNCHANGED head
    <3>1. UNCHANGED <<setup, guarding, heap>>
      BY <2>1, <2>3 DEF heap
    <3> QED
      BY <2>1, <2>3, <3>1, KeepsFailPop DEF Goes
  <2> QED
    BY <1>2, <2>2, <2>3 DEF PopCas
<1>3. ASSUME PopUnguard(t) PROVE LockFreeInv'
  BY <1>3, KeepsPopUnguardAgain, KeepsPopUnguardTake DEF PopUnguard
<1> QED
  BY <1>1, <1>2, <1>3, KeepsPushTop, KeepsPopTop, KeepsPopGuard, KeepsPopCheck, KeepsPopNext

\* The steps of the queue.
LEMMA KeepsEnqStep ==
  ASSUME LockFreeInv, NEW t \in Threads,
         EnqTail(t) \/ EnqGuard(t) \/ EnqCheck(t) \/ EnqNext(t) \/ EnqAgain(t) \/ EnqSwing(t) \/ EnqCas(t) \/ EnqDone(t)
  PROVE  LockFreeInv'
<1>1. ASSUME EnqCas(t) PROVE LockFreeInv'
  <2>1. At(t, "enqCas") /\ UNCHANGED <<setup, guarding, pool, head, tail>>
    BY <1>1 DEF EnqCas
  <2>2. CASE /\ node[Local(t).last].next = NULL /\ node' = [node EXCEPT ![Local(t).last].next = Local(t).mine]
             /\ Becomes(t, [Local(t) EXCEPT !.at = "enqDone", !.result = "done"])
    BY <2>1, <2>2, KeepsEnq
  <2>3. CASE Goes(t, "enqTail") /\ UNCHANGED node
    <3>1. UNCHANGED <<setup, guarding, heap>>
      BY <2>1, <2>3 DEF heap
    <3> QED
      BY <2>1, <2>3, <3>1, KeepsFailEnq DEF Goes
  <2> QED
    BY <1>1, <2>2, <2>3 DEF EnqCas
<1> QED
  BY <1>1, KeepsEnqTail, KeepsEnqGuard, KeepsEnqCheck, KeepsEnqNext, KeepsEnqAgain, KeepsEnqSwing, KeepsEnqDone

\* The other half of them.
LEMMA KeepsDeqStep ==
  ASSUME LockFreeInv, NEW t \in Threads,
         DeqHead(t) \/ DeqGuard(t) \/ DeqCheck(t) \/ DeqTail(t) \/ DeqNext(t) \/ DeqGuardNext(t) \/ DeqAgain(t)
         \/ DeqSwing(t) \/ DeqElement(t) \/ DeqCas(t)
  PROVE  LockFreeInv'
<1>1. ASSUME DeqCas(t) PROVE LockFreeInv'
  <2>1. At(t, "deqCas") /\ UNCHANGED <<setup, guarding, pool, node, tail>>
    BY <1>1 DEF DeqCas
  <2>2. CASE /\ head = Local(t).top /\ head' = Local(t).next
             /\ Becomes(t, [Local(t) EXCEPT !.at = "retire", !.result = Local(t).value, !.value = Nothing])
    BY <2>1, <2>2, KeepsDeq
  <2>3. CASE Becomes(t, [Local(t) EXCEPT !.at = "deq", !.value = Nothing]) /\ UNCHANGED head
    <3>1. UNCHANGED <<setup, guarding, heap>>
      BY <2>1, <2>3 DEF heap
    <3> QED
      BY <2>1, <2>3, <3>1, KeepsFailDeq
  <2> QED
    BY <1>1, <2>2, <2>3 DEF DeqCas
<1> QED
  BY <1>1, KeepsDeqHead, KeepsDeqGuard, KeepsDeqCheck, KeepsDeqTail, KeepsDeqNext, KeepsDeqGuardNext, KeepsDeqAgain,
     KeepsDeqSwing, KeepsDeqElement

\* A node is taken from the pool, or there is none.
LEMMA KeepsAllocation == ASSUME LockFreeInv, NEW t \in Threads, Allocate(t) PROVE LockFreeInv'
<1>1. CASE At(t, "push") /\ AllocateNode(t, "pushTop")
  BY <1>1, KeepsAllocate
<1>2. CASE At(t, "enq") /\ AllocateNode(t, "enqTail")
  BY <1>2, KeepsAllocate
<1>3. CASE At(t, "push") /\ AllocateFails(t)
  BY <1>3, KeepsFullStack DEF AllocateFails, Ends
<1>4. CASE At(t, "enq") /\ AllocateFails(t)
  BY <1>4, KeepsFullQueue DEF AllocateFails, Ends
<1> QED
  BY <1>1, <1>2, <1>3, <1>4 DEF Allocate

\* The steps of the lock-free containers.
LEMMA KeepsStep == ASSUME LockFreeInv, NEW t \in Threads, LockFreeStep(t) PROVE LockFreeInv'
  BY KeepsHazardStep, KeepsAllocation, KeepsStackStep, KeepsEnqStep, KeepsDeqStep DEF LockFreeStep

\* Of the other containers the invariant knows nothing.
LEMMA KeepsElse == ASSUME LockFreeInv, UNCHANGED hvars PROVE LockFreeInv'
<1>1. /\ setup' = setup /\ counter' = counter /\ entry' = entry /\ active_hazard_pointer' = active_hazard_pointer
      /\ pool' = pool /\ node' = node /\ head' = head /\ tail' = tail /\ thread' = thread
  BY DEF hvars, guarding, heap
<1>2. Views' = Views
  BY <1>1 DEF Views
<1>3. PICK L : thread \in [Threads -> ThreadRecs(setup)] /\ Entire(L)
  BY DEF LockFreeInv
<1>4. Entire(L)'
  BY <1>1, <1>2, <1>3 DEF Entire
<1> QED
  BY <1>1, <1>3, <1>4 DEF LockFreeInv

\* The constructors establish it.
LEMMA BeginsInv == ASSUME HazardInit PROVE LockFreeInv
<1> DEFINE s == setup
           L == IF s.kind = "stack" THEN <<>> ELSE <<1>>
           V == Views
<1>1. /\ s \in Setups /\ counter = 0 /\ active_hazard_pointer = s.max_threads
      /\ head = (IF s.kind = "stack" THEN NULL ELSE 1) /\ tail = head /\ pool = Nds(s) \ {head}
      /\ node = [n \in Nds(s) |-> [next |-> NULL, element |-> Nothing]]
  BY DEF HazardInit, Nodes, Nds
<1>2. /\ s.max_threads \in Nat \ {0} /\ s.kind \in {"stack", "queue"} /\ PoolSize(s) \in Nat \ {0}
      /\ RetiredListMaxSize(s) \in Nat \ {0} /\ Gs(s) \in {1, 2}
  BY <1>1, Sizes
<1>3. 1 \in Nds(s) /\ NULL \notin Nds(s) /\ head \in N0(s)
  BY <1>1, <1>2, SetupsAssumption DEF Nds, N0
<1>4. entry = [i \in Ents(s) |-> [is_active |-> TRUE, guards |-> [p \in Guards |-> NULL], retired |-> <<>>]]
  BY DEF HazardInit, Entries, Ents
<1>5. Guards = 0..(Gs(s) - 1)
  <2>1. 1 - 1 = 0 /\ 2 - 1 = 1
    OBVIOUS
  <2>2. CASE s.kind = "stack"
    <3>1. Gs(s) = 1 /\ Guards = 0..0
      BY <2>2 DEF Gs, Guards
    <3> QED
      BY <2>1, <3>1
  <2>3. CASE s.kind # "stack"
    <3>1. Gs(s) = 2 /\ Guards = 0..1
      BY <2>3 DEF Gs, Guards
    <3> QED
      BY <2>1, <3>1
  <2> QED
    BY <2>2, <2>3
<1>6. entry \in [Ents(s) -> EntryRecs(s)] /\ \A i \in Ents(s) : entry[i].is_active /\ entry[i].retired = <<>>
  <2>1. [p \in Guards |-> NULL] \in [0..(Gs(s) - 1) -> N0(s)] /\ <<>> \in Seq(Nds(s))
    BY <1>5 DEF N0
  <2> QED
    BY <1>4, <2>1 DEF EntryRecs
<1>7. thread = [t \in Threads |-> [index |-> NoIndex, todo |-> s.program[t], call |-> Idle]]
  BY DEF HazardInit
<1>8. s.program \in [Threads -> Seq(Ops)]
      /\ \A t \in Threads : \A k \in DOMAIN s.program[t] : s.program[t][k].op = "leave" => k = Len(s.program[t])
  BY <1>1, SetupsAssumption
<1>9. Idle \in CallRecs(s)
  BY <1>1, IdleCall
<1>10. thread \in [Threads -> ThreadRecs(s)]
  <2>1. NoIndex \in Int
    BY DEF NoIndex
  <2> QED
    BY <1>7, <1>8, <1>9, <2>1 DEF ThreadRecs
<1>11. \A t \in Threads : V[t].index = NoIndex /\ V[t].todo = s.program[t] /\ V[t].at = "idle"
  BY <1>7 DEF Views, View, Idle
<1>12. V \in [Threads -> ViewRecs(s)]
  <2>1. \A z \in ThreadRecs(setup) : View(z) \in ViewRecs(setup)
    BY DEF View, ViewRecs, ThreadRecs, CallRecs
  <2> QED
    BY <1>10, <2>1 DEF Views
<1> HIDE DEF V
<1>13. \A i \in Ents(s) : \A n : ~Rtd(entry, i, n)
  BY <1>6 DEF Rtd
<1>14. HeapOK(s, pool, node, head, tail)
  <2>1. [next |-> NULL, element |-> Nothing] \in NodeRecs(s)
    BY DEF NodeRecs, N0
  <2> QED
    BY <1>1, <1>3, <2>1 DEF HeapOK
<1>15. Linked(s, node, head, L) /\ \A n : n \in Range(L) <=> s.kind = "queue" /\ n = 1
  <2>1. CASE s.kind = "stack"
    BY <1>1, <2>1 DEF Linked, Range
  <2>2. CASE s.kind = "queue"
    <3>1. L = <<1>> /\ head = 1 /\ node[1].next = NULL
      BY <1>1, <1>3, <2>2
    <3> HIDE DEF L
    <3>2. L \in Seq(Nds(s)) /\ Len(L) = 1 /\ L[1] = 1 /\ DOMAIN L = {1}
      BY <1>3, <3>1
    <3> QED
      BY <2>2, <3>1, <3>2 DEF Linked, Range
  <2> QED
    BY <1>2, <2>1, <2>2
<1> HIDE DEF L
<1>16. OnePlace(s, entry, pool, L, V)
  <2>1. \A t \in Threads, n \in Nds(s) : ~Holds(V[t], n)
    BY <1>11 DEF Holds, Adding, Taking
  <2>2. \A n \in pool : n \notin Range(L)
    BY <1>1, <1>15
  <2>3. \A i \in Ents(s) : DOMAIN entry[i].retired = {}
    BY <1>6
  <2> QED
    BY <1>13, <2>1, <2>2, <2>3 DEF OnePlace
<1>17. Indices(s, counter, V)
  BY <1>1, <1>11 DEF Indices, NoIndex, Indexed, HelpPoints, ScanPoints, DeqPoints
<1>18. Leaves(V)
  BY <1>8, <1>11 DEF Leaves
<1>19. Scanned(s, counter, entry, V)
  BY <1>6, <1>11 DEF Scanned, HelpPoints, ScanPoints
<1>20. Room(s, entry, V, active_hazard_pointer)
  <2>1. \A i \in Ents(s) : Len(entry[i].retired) = 0
    BY <1>6
  <2> QED
    BY <1>1, <1>2, <1>11, <2>1 DEF Room, ScanPoints
<1>21. QueueOK(s, entry, L, node, tail)
  BY <1>1, <1>13, <1>15 DEF QueueOK
<1>22. \A t \in Threads : CallOK(s, entry, L, node, head, tail, V, t)
  BY <1>11, Nowhere
<1>23. Entire(L)
  <2>1. Shapes(s, entry, pool, node, head, tail, L, V)
    BY <1>1, <1>6, <1>12, <1>14, <1>15 DEF Shapes
  <2>2. Orderly(s, counter, entry, active_hazard_pointer, pool, L, V)
    BY <1>16, <1>17, <1>18, <1>19, <1>20 DEF Orderly
  <2> QED
    BY <1>21, <1>22, <2>1, <2>2 DEF Entire, Parts, V
<1> QED
  BY <1>10, <1>23 DEF LockFreeInv

\* The invariant of the lock-free containers holds in every behaviour.
LEMMA LockFreeInvariant == Spec => []LockFreeInv
<1>1. Init => LockFreeInv
  BY BeginsInv DEF Init
<1>2. LockFreeInv /\ [Next]_vars => LockFreeInv'
  <2> SUFFICES ASSUME LockFreeInv, [Next]_vars PROVE LockFreeInv'
    OBVIOUS
  <2>1. CASE \E t \in Threads : LockFreeStep(t)
    BY <2>1, KeepsStep
  <2>2. CASE UNCHANGED hvars
    BY <2>2, KeepsElse
  <2>3. [Next]_vars => (\E t \in Threads : LockFreeStep(t)) \/ UNCHANGED hvars
    BY DEF Next, vars
  <2> QED
    BY <2>1, <2>2, <2>3
<1> QED
  BY <1>1, <1>2, PTL DEF Spec

\* No thread reads or writes a node that is back in the pool (SafeAccess): whatever the
\* number of threads and of indices, the size of the container and the programs, the guard
\* keeps the node while it is taken out, retired and scanned by others.
THEOREM LockFreeSafeAccess == Spec => []SafeAccess
<1>1. LockFreeInv => SafeAccess
  <2> SUFFICES ASSUME LockFreeInv, NEW t \in Threads PROVE Accesses(t) \cap pool = {}
    BY DEF SafeAccess
  <2>1. PICK L : thread \in [Threads -> ThreadRecs(setup)] /\ Entire(L)
    BY DEF LockFreeInv
  <2>2. /\ OnePlace(setup, entry, pool, L, Views) /\ pool \in SUBSET Nds(setup)
        /\ PopOK(setup, entry, L, node, Views, t) /\ EnqOK(setup, entry, L, node, Views, t)
        /\ DeqOK(setup, entry, L, node, head, tail, Views, t)
    BY <2>1, Known
  <2>3. /\ Local(t).at = Views[t].at /\ Local(t).top = Views[t].top /\ Local(t).last = Views[t].last
        /\ Local(t).next = Views[t].next
    BY <2>1, ViewFields
  <2>4. \A pos, n : Safe(setup, entry, L, Views, t, pos, n) => n \notin pool
    <3> SUFFICES ASSUME NEW n \in Nds(setup), Live(setup, entry, L, Views, n) PROVE n \notin pool
      BY DEF Safe
    <3>1. \A u \in Threads : Views[u].at \in Taking /\ Views[u].top = n => Holds(Views[u], n)
      BY DEF Holds
    <3> QED
      BY <2>2, <3>1 DEF Live, OnePlace
  <2>5. \A n \in Accesses(t) : \E pos : Safe(setup, entry, L, Views, t, pos, n)
    <3>1. CASE Views[t].at = "popNext"
      <4>1. Accesses(t) = {Views[t].top}
        BY <2>3, <3>1 DEF Accesses, At, Local
      <4> QED
        BY <2>2, <3>1, <4>1 DEF PopOK
    <3>2. CASE Views[t].at \in {"enqNext", "enqCas"}
      <4>1. Accesses(t) = {Views[t].last}
        BY <2>3, <3>2 DEF Accesses, At, Local
      <4> QED
        BY <2>2, <3>2, <4>1 DEF EnqOK
    <3>3. CASE Views[t].at = "deqNext"
      <4>1. Accesses(t) = {Views[t].top}
        BY <2>3, <3>3 DEF Accesses, At, Local
      <4> QED
        BY <2>2, <3>3, <4>1 DEF DeqOK, DeqPoints
    <3>4. CASE Views[t].at = "deqElement"
      <4>1. Accesses(t) = {Views[t].next}
        BY <2>3, <3>4 DEF Accesses, At, Local
      <4> QED
        BY <2>2, <3>4, <4>1 DEF DeqOK
    <3>5. CASE Views[t].at \notin {"popNext", "enqNext", "enqCas", "deqNext", "deqElement"}
      <4>1. Accesses(t) = {}
        BY <2>3, <3>5 DEF Accesses, At, Local
      <4> QED
        BY <4>1
    <3> QED
      BY <3>1, <3>2, <3>3, <3>4, <3>5
  <2> QED
    BY <2>4, <2>5
<1> QED
  BY <1>1, LockFreeInvariant, PTL

-----------------------------------------------------------------------------
(* Every node is somewhere                                                 *)

\* The nodes of the container.
Linkeds == Range(ChainOf(setup, node, head))

\* A node is in the pool, in the container, retired, or held by a thread.
Stored(n) == n \in pool \/ n \in Linkeds \/ \E i \in Ents(setup) : Rtd(entry, i, n)
\* Every node is stored or held.
AllPlaced == \A n \in Nds(setup) : Stored(n) \/ \E t \in Threads : Holds(thread[t].call, n)

\* The threads of a queue that have an index.
Numbers == {t \in Threads : thread[t].index # NoIndex}

\* No thread of a queue is without an index when it needs one.
EveryIndex ==
  setup.kind = "queue" =>
    /\ counter = Cardinality(Numbers)
    /\ \A t \in Threads : thread[t].call.at # "giveBack"
    /\ \A t \in Threads : thread[t].call.at # "idle" \/ thread[t].todo # <<>> \/ thread[t].index # NoIndex
         => setup.program[t] # <<>>

\* A record with the fields that tell what a thread holds.
Shape(c) == "at" \in DOMAIN c /\ "mine" \in DOMAIN c /\ "top" \in DOMAIN c
\* Two calls hold the same.
SameHold(c, d) == d.at = c.at /\ d.mine = c.mine /\ d.top = c.top

\* A call goes on with c, the others stay where they are.
Turns(t, c) ==
  \A u \in Threads : /\ thread'[u].index = thread[u].index /\ thread'[u].todo = thread[u].todo
                     /\ SameHold(IF u = t THEN c ELSE thread[u].call, thread'[u].call)

\* What Becomes does to the threads.
LEMMA BecomesTurns ==
  ASSUME thread \in [Threads -> ThreadRecs(setup)], NEW t \in Threads, NEW c, Becomes(t, c), Shape(c)
  PROVE  Turns(t, c)
<1>1. \A u \in Threads : thread[u] \in ThreadRecs(setup) /\ thread[u].call \in CallRecs(setup)
  BY DEF ThreadRecs
<1> DEFINE saw(u) == thread[u].call.op = "get" /\ Contents = <<>>
           r(u)   == IF u = t THEN c ELSE thread[u].call
           d(u)   == IF saw(u) /\ r(u).op = "get" THEN [r(u) EXCEPT !.saw = TRUE] ELSE r(u)
<1>2. \A u \in Threads : thread'[u] = [thread[u] EXCEPT !.call = d(u)]
  BY DEF Becomes
<1>3. \A u \in Threads : Shape(r(u))
  BY <1>1 DEF Shape, CallRecs
<1>4. \A x : Shape(x) => SameHold(x, [x EXCEPT !.saw = TRUE]) /\ SameHold(x, x)
  BY DEF Shape, SameHold
<1>5. \A u \in Threads : SameHold(r(u), d(u))
  <2> HIDE DEF r
  <2> QED
    BY <1>3, <1>4
<1> HIDE DEF d
<1>6. \A x \in ThreadRecs(setup) : \A e : /\ [x EXCEPT !.call = e].index = x.index
                                          /\ [x EXCEPT !.call = e].todo = x.todo
                                          /\ [x EXCEPT !.call = e].call = e
  BY DEF ThreadRecs
<1>7. ASSUME NEW u \in Threads PROVE /\ thread'[u].index = thread[u].index /\ thread'[u].todo = thread[u].todo
                                     /\ thread'[u].call = d(u)
  <2>1. thread[u] \in ThreadRecs(setup) /\ thread'[u] = [thread[u] EXCEPT !.call = d(u)]
    BY <1>1, <1>2
  <2> QED
    BY <1>6, <2>1
<1> QED
  BY <1>5, <1>7 DEF Turns

\* The same threads hold the same nodes.
LEMMA SameHolds == ASSUME NEW c, NEW d, SameHold(c, d) PROVE \A n : Holds(d, n) <=> Holds(c, n)
  BY DEF SameHold, Holds

\* The nodes are somewhere after a step if those that t held or that were stored are.
LEMMA Placing ==
  ASSUME NEW t \in Threads, NEW c, Turns(t, c), setup' = setup, AllPlaced,
         \A n \in Nds(setup) : Stored(n) \/ Holds(thread[t].call, n) => Stored(n)' \/ Holds(c, n)
  PROVE  AllPlaced'
<1> SUFFICES ASSUME NEW n \in Nds(setup) PROVE Stored(n)' \/ \E u \in Threads : Holds(thread'[u].call, n)
  BY DEF AllPlaced
<1>1. \A u \in Threads : SameHold(IF u = t THEN c ELSE thread[u].call, thread'[u].call)
  BY DEF Turns
<1>2. Holds(c, n) => Holds(thread'[t].call, n)
  <2>1. SameHold(c, thread'[t].call)
    BY <1>1
  <2> QED
    BY <2>1, SameHolds
<1>3. ASSUME NEW u \in Threads, u # t, Holds(thread[u].call, n) PROVE Holds(thread'[u].call, n)
  <2>1. SameHold(thread[u].call, thread'[u].call)
    BY <1>1, <1>3
  <2> QED
    BY <1>3, <2>1, SameHolds
<1>4. Stored(n) \/ \E u \in Threads : Holds(thread[u].call, n)
  BY DEF AllPlaced
<1> QED
  BY <1>2, <1>3, <1>4

\* The indices are the same after a step of a call.
LEMMA Counting ==
  ASSUME NEW t \in Threads, NEW c, Turns(t, c), setup' = setup, counter' = counter, EveryIndex,
         thread[t].call.at # "idle", c.at # "giveBack"
  PROVE  EveryIndex'
<1> SUFFICES ASSUME setup.kind = "queue" PROVE EveryIndex'
  BY DEF EveryIndex
<1>1. \A u \in Threads : thread'[u].index = thread[u].index /\ thread'[u].todo = thread[u].todo
  BY DEF Turns
<1>2. \A u \in Threads : thread'[u].call.at = IF u = t THEN c.at ELSE thread[u].call.at
  BY DEF Turns, SameHold
<1>3. Numbers' = Numbers
  BY <1>1 DEF Numbers
<1>4. counter' = Cardinality(Numbers')
  BY <1>3 DEF EveryIndex
<1>5. \A u \in Threads : thread'[u].call.at # "giveBack"
  BY <1>2 DEF EveryIndex
<1>6. \A u \in Threads : thread'[u].call.at # "idle" \/ thread'[u].todo # <<>> \/ thread'[u].index # NoIndex
         => setup.program[u] # <<>>
  BY <1>1, <1>2 DEF EveryIndex
<1> QED
  BY <1>4, <1>5, <1>6 DEF EveryIndex

\* A call goes on and holds what it held.
Carries(x, c) == Shape(c) /\ x.at # "idle" /\ c.at # "giveBack" /\ \A n : Holds(x, n) => Holds(c, n)

\* The nodes that are stored stay where they are.
Steady == /\ setup' = setup /\ counter' = counter /\ pool' = pool /\ Linkeds' = Linkeds
          /\ \A i \in Ents(setup) : entry'[i].retired = entry[i].retired

\* No list of nodes changes.
LEMMA Carrying ==
  ASSUME thread \in [Threads -> ThreadRecs(setup)], NEW t \in Threads, NEW c, Becomes(t, c),
         Carries(Local(t), c), Steady, AllPlaced, EveryIndex
  PROVE  AllPlaced' /\ EveryIndex'
<1>1. Turns(t, c) /\ setup' = setup /\ counter' = counter /\ thread[t].call.at # "idle" /\ c.at # "giveBack"
  BY BecomesTurns DEF Carries, Steady, Local
<1>2. \A n : Stored(n) => Stored(n)'
  BY DEF Stored, Steady, Rtd
<1>3. \A n : Holds(thread[t].call, n) => Holds(c, n)
  BY DEF Carries, Local
<1>4. AllPlaced'
  BY <1>1, <1>2, <1>3, Placing
<1> QED
  BY <1>1, <1>4, Counting

\* Every node is somewhere, and every thread of a queue has its index.
Placement == AllPlaced /\ EveryIndex

\* The retired lists are as they were.
SameRetired(s, E, E2) == \A i \in Ents(s) : E2[i].retired = E[i].retired

\* A step that moves no node.
LEMMA Unmoved ==
  ASSUME LockFreeInv, Placement, NEW t \in Threads, NEW c, Becomes(t, c), Carries(Local(t), c),
         setup' = setup, counter' = counter, pool' = pool, node' = node, head' = head,
         SameRetired(setup, entry, entry')
  PROVE  Placement'
<1>1. thread \in [Threads -> ThreadRecs(setup)]
  BY DEF LockFreeInv
<1>2. Steady
  BY DEF Steady, Linkeds, SameRetired
<1> QED
  BY <1>1, <1>2, Carrying DEF Placement

\* A step that only reads.
LEMMA UnmovedRead ==
  ASSUME LockFreeInv, Placement, NEW t \in Threads, NEW c, Becomes(t, c), Carries(Local(t), c),
         UNCHANGED <<setup, guarding, heap>>
  PROVE  Placement'
<1>1. /\ setup' = setup /\ counter' = counter /\ pool' = pool /\ node' = node /\ head' = head
      /\ SameRetired(setup, entry, entry')
  BY DEF guarding, heap, SameRetired
<1> QED
  BY <1>1, Unmoved

\* A step that sets a guard.
LEMMA UnmovedGuard ==
  ASSUME LockFreeInv, Placement, NEW t \in Threads, NEW where, NEW pos, NEW n, NEW c,
         Guard(t, where, pos, n, c), Carries(Local(t), c)
  PROVE  Placement'
<1>1. /\ setup' = setup /\ counter' = counter /\ pool' = pool /\ node' = node /\ head' = head
      /\ Becomes(t, c) /\ entry' = [entry EXCEPT ![MyEntry(t)].guards[pos] = n]
  BY DEF Guard, heap
<1>2. entry \in [Ents(setup) -> EntryRecs(setup)]
  BY DEF LockFreeInv, Entire, Parts, Shapes
<1> DEFINE i == MyEntry(t)
           g == [entry[i].guards EXCEPT ![pos] = n]
<1>3. entry' = [entry EXCEPT ![i] = [entry[i] EXCEPT !.guards = g]]
  BY <1>1
<1>4. \A e \in EntryRecs(setup) : \A x : [e EXCEPT !.guards = x].retired = e.retired
  BY DEF EntryRecs
<1>5. SameRetired(setup, entry, entry')
  <2> HIDE DEF g, i
  <2> QED
    BY <1>2, <1>3, <1>4 DEF SameRetired
<1> QED
  BY <1>1, <1>5, Unmoved

\* A step that sets a flag.
LEMMA UnmovedFlag ==
  ASSUME LockFreeInv, Placement, NEW t \in Threads, NEW c, Becomes(t, c), Carries(Local(t), c), NEW i, NEW b,
         entry' = [entry EXCEPT ![i].is_active = b], UNCHANGED <<setup, counter, heap>>
  PROVE  Placement'
<1>1. /\ setup' = setup /\ counter' = counter /\ pool' = pool /\ node' = node /\ head' = head
  BY DEF heap
<1>2. entry \in [Ents(setup) -> EntryRecs(setup)]
  BY DEF LockFreeInv, Entire, Parts, Shapes
<1>3. entry' = [entry EXCEPT ![i] = [entry[i] EXCEPT !.is_active = b]]
  OBVIOUS
<1>4. \A e \in EntryRecs(setup) : [e EXCEPT !.is_active = b].retired = e.retired
  BY DEF EntryRecs
<1>5. SameRetired(setup, entry, entry')
  BY <1>2, <1>3, <1>4 DEF SameRetired
<1> QED
  BY <1>1, <1>5, Unmoved

\* A step that changes the tail, or nothing.
LEMMA UnmovedHeap ==
  ASSUME LockFreeInv, Placement, NEW t \in Threads, NEW c, Becomes(t, c), Carries(Local(t), c),
         UNCHANGED <<setup, guarding, pool, node, head>>
  PROVE  Placement'
<1>1. setup' = setup /\ counter' = counter /\ pool' = pool /\ node' = node /\ head' = head
      /\ SameRetired(setup, entry, entry')
  BY DEF guarding, SameRetired
<1> QED
  BY <1>1, Unmoved

\* The steps of TryPop that move no node.
LEMMA UnmovedPop ==
  ASSUME LockFreeInv, Placement, NEW t \in Threads,
         PopTop(t) \/ PopGuard(t) \/ PopCheck(t) \/ PopNext(t) \/ PopUnguard(t)
  PROVE  Placement'
<1>0. Local(t) \in CallRecs(setup)
  BY DEF LockFreeInv, ThreadRecs, Local
<1>1. CASE PopTop(t)
  <2> DEFINE c == IF head = NULL THEN [Local(t) EXCEPT !.at = "return", !.result = "empty"]
                  ELSE [Local(t) EXCEPT !.at = "guard", !.top = head]
  <2>1. Becomes(t, c) /\ UNCHANGED <<setup, guarding, heap>> /\ Local(t).at = "pop"
    BY <1>1 DEF PopTop, Reads, At, Local
  <2>2. Carries(Local(t), c)
    BY <1>0, <2>1 DEF Carries, Shape, Holds, Adding, Taking, CallRecs
  <2> HIDE DEF c
  <2> QED
    BY <2>1, <2>2, UnmovedRead
<1>2. CASE PopGuard(t)
  <2> DEFINE c == [Local(t) EXCEPT !.at = "popCheck"]
  <2>1. Guard(t, "guard", 0, Local(t).top, c) /\ Local(t).at = "guard"
    BY <1>2 DEF PopGuard, Guard, At, Local
  <2>2. Carries(Local(t), c)
    BY <1>0, <2>1 DEF Carries, Shape, Holds, Adding, Taking, CallRecs
  <2> HIDE DEF c
  <2> QED
    BY <2>1, <2>2, UnmovedGuard
<1>3. CASE PopCheck(t)
  <2> DEFINE c == [Local(t) EXCEPT !.at = IF head = Local(t).top THEN "popNext" ELSE "pop"]
  <2>1. Becomes(t, c) /\ UNCHANGED <<setup, guarding, heap>> /\ Local(t).at = "popCheck"
    BY <1>3 DEF PopCheck, Reads, At, Local
  <2>2. Carries(Local(t), c)
    BY <1>0, <2>1 DEF Carries, Shape, Holds, Adding, Taking, CallRecs
  <2> HIDE DEF c
  <2> QED
    BY <2>1, <2>2, UnmovedRead
<1>4. CASE PopNext(t)
  <2> DEFINE c == [Local(t) EXCEPT !.at = "popCas", !.next = node[Local(t).top].next]
  <2>1. Becomes(t, c) /\ UNCHANGED <<setup, guarding, heap>> /\ Local(t).at = "popNext"
    BY <1>4 DEF PopNext, Reads, At, Local
  <2>2. Carries(Local(t), c)
    BY <1>0, <2>1 DEF Carries, Shape, Holds, Adding, Taking, CallRecs
  <2> HIDE DEF c
  <2> QED
    BY <2>1, <2>2, UnmovedRead
<1>5. CASE Guard(t, "popAgain", 0, NULL, [Local(t) EXCEPT !.at = "pop"])
  <2> DEFINE c == [Local(t) EXCEPT !.at = "pop"]
  <2>1. Guard(t, "popAgain", 0, NULL, c) /\ Local(t).at = "popAgain"
    BY <1>5 DEF PopUnguard, Guard, At, Local
  <2>2. Carries(Local(t), c)
    BY <1>0, <2>1 DEF Carries, Shape, Holds, Adding, Taking, CallRecs
  <2> HIDE DEF c
  <2> QED
    BY <2>1, <2>2, UnmovedGuard
<1>6. CASE Guard(t, "popTake", 0, NULL, [Local(t) EXCEPT !.at = "retire"])
  <2> DEFINE c == [Local(t) EXCEPT !.at = "retire"]
  <2>1. Guard(t, "popTake", 0, NULL, c) /\ Local(t).at = "popTake"
    BY <1>6 DEF PopUnguard, Guard, At, Local
  <2>2. Carries(Local(t), c)
    BY <1>0, <2>1 DEF Carries, Shape, Holds, Adding, Taking, CallRecs
  <2> HIDE DEF c
  <2> QED
    BY <2>1, <2>2, UnmovedGuard
<1>7. PopUnguard(t) => Guard(t, "popAgain", 0, NULL, [Local(t) EXCEPT !.at = "pop"])
       \/ Guard(t, "popTake", 0, NULL, [Local(t) EXCEPT !.at = "retire"])
  BY DEF PopUnguard
<1> QED
  BY <1>1, <1>2, <1>3, <1>4, <1>5, <1>6, <1>7

\* The steps of TryEnqueue that move no node.
LEMMA UnmovedEnq ==
  ASSUME LockFreeInv, Placement, NEW t \in Threads,
         EnqTail(t) \/ EnqGuard(t) \/ EnqCheck(t) \/ EnqNext(t) \/ EnqAgain(t) \/ EnqSwing(t) \/ EnqDone(t)
  PROVE  Placement'
<1>0. Local(t) \in CallRecs(setup)
  BY DEF LockFreeInv, ThreadRecs, Local
<1>1. CASE EnqTail(t)
  <2> DEFINE c == [Local(t) EXCEPT !.at = "enqGuard", !.last = tail]
  <2>1. Becomes(t, c) /\ UNCHANGED <<setup, guarding, heap>> /\ Local(t).at = "enqTail"
    BY <1>1 DEF EnqTail, Reads, At, Local
  <2>2. Carries(Local(t), c)
    BY <1>0, <2>1 DEF Carries, Shape, Holds, Adding, Taking, CallRecs
  <2> HIDE DEF c
  <2> QED
    BY <2>1, <2>2, UnmovedRead
<1>2. CASE EnqGuard(t)
  <2> DEFINE c == [Local(t) EXCEPT !.at = "enqCheck"]
  <2>1. Guard(t, "enqGuard", 0, Local(t).last, c) /\ Local(t).at = "enqGuard"
    BY <1>2 DEF EnqGuard, Guard, At, Local
  <2>2. Carries(Local(t), c)
    BY <1>0, <2>1 DEF Carries, Shape, Holds, Adding, Taking, CallRecs
  <2> HIDE DEF c
  <2> QED
    BY <2>1, <2>2, UnmovedGuard
<1>3. CASE EnqCheck(t)
  <2> DEFINE c == [Local(t) EXCEPT !.at = IF tail = Local(t).last THEN "enqNext" ELSE "enqTail"]
  <2>1. Becomes(t, c) /\ UNCHANGED <<setup, guarding, heap>> /\ Local(t).at = "enqCheck"
    BY <1>3 DEF EnqCheck, Reads, At, Local
  <2>2. Carries(Local(t), c)
    BY <1>0, <2>1 DEF Carries, Shape, Holds, Adding, Taking, CallRecs
  <2> HIDE DEF c
  <2> QED
    BY <2>1, <2>2, UnmovedRead
<1>4. CASE EnqNext(t)
  <2> DEFINE c == [Local(t) EXCEPT !.at = "enqAgain", !.next = node[Local(t).last].next]
  <2>1. Becomes(t, c) /\ UNCHANGED <<setup, guarding, heap>> /\ Local(t).at = "enqNext"
    BY <1>4 DEF EnqNext, Reads, At, Local
  <2>2. Carries(Local(t), c)
    BY <1>0, <2>1 DEF Carries, Shape, Holds, Adding, Taking, CallRecs
  <2> HIDE DEF c
  <2> QED
    BY <2>1, <2>2, UnmovedRead
<1>5. CASE EnqAgain(t)
  <2> DEFINE a == CASE tail # Local(t).last -> "enqTail"
                    [] tail = Local(t).last /\ Local(t).next = NULL -> "enqCas"
                    [] OTHER -> "enqSwing"
             c == [Local(t) EXCEPT !.at = a]
  <2>1. Becomes(t, c) /\ UNCHANGED <<setup, guarding, heap>> /\ Local(t).at = "enqAgain"
    BY <1>5 DEF EnqAgain, Reads, At, Local
  <2>2. a \in {"enqTail", "enqCas", "enqSwing"}
    OBVIOUS
  <2> HIDE DEF a
  <2>3. Carries(Local(t), c)
    BY <1>0, <2>1, <2>2 DEF Carries, Shape, Holds, Adding, Taking, CallRecs
  <2> HIDE DEF c
  <2> QED
    BY <2>1, <2>3, UnmovedRead
<1>6. CASE EnqSwing(t)
  <2> DEFINE c == [Local(t) EXCEPT !.at = "enqTail"]
  <2>1. Becomes(t, c) /\ UNCHANGED <<setup, guarding, pool, node, head>> /\ Local(t).at = "enqSwing"
    BY <1>6 DEF EnqSwing, SwingTail, At, Local
  <2>2. Carries(Local(t), c)
    BY <1>0, <2>1 DEF Carries, Shape, Holds, Adding, Taking, CallRecs
  <2> HIDE DEF c
  <2> QED
    BY <2>1, <2>2, UnmovedHeap
<1>7. CASE EnqDone(t)
  <2> DEFINE c == [Local(t) EXCEPT !.at = "return"]
  <2>1. Becomes(t, c) /\ UNCHANGED <<setup, guarding, pool, node, head>> /\ Local(t).at = "enqDone"
    BY <1>7 DEF EnqDone, SwingTail, At, Local
  <2>2. Carries(Local(t), c)
    BY <1>0, <2>1 DEF Carries, Shape, Holds, Adding, Taking, CallRecs
  <2> HIDE DEF c
  <2> QED
    BY <2>1, <2>2, UnmovedHeap
<1> QED
  BY <1>1, <1>2, <1>3, <1>4, <1>5, <1>6, <1>7

\* The steps of TryDequeue that move no node.
LEMMA UnmovedDeq ==
  ASSUME LockFreeInv, Placement, NEW t \in Threads,
         \/ DeqHead(t) \/ DeqGuard(t) \/ DeqCheck(t) \/ DeqTail(t) \/ DeqNext(t)
         \/ DeqGuardNext(t) \/ DeqAgain(t) \/ DeqSwing(t) \/ DeqElement(t)
  PROVE  Placement'
<1>0. Local(t) \in CallRecs(setup)
  BY DEF LockFreeInv, ThreadRecs, Local
<1>1. CASE DeqHead(t)
  <2> DEFINE c == [Local(t) EXCEPT !.at = "deqGuard", !.top = head]
  <2>1. Becomes(t, c) /\ UNCHANGED <<setup, guarding, heap>> /\ Local(t).at = "deq"
    BY <1>1 DEF DeqHead, Reads, At, Local
  <2>2. Carries(Local(t), c)
    BY <1>0, <2>1 DEF Carries, Shape, Holds, Adding, Taking, CallRecs
  <2> HIDE DEF c
  <2> QED
    BY <2>1, <2>2, UnmovedRead
<1>2. CASE DeqGuard(t)
  <2> DEFINE c == [Local(t) EXCEPT !.at = "deqCheck"]
  <2>1. Guard(t, "deqGuard", 0, Local(t).top, c) /\ Local(t).at = "deqGuard"
    BY <1>2 DEF DeqGuard, Guard, At, Local
  <2>2. Carries(Local(t), c)
    BY <1>0, <2>1 DEF Carries, Shape, Holds, Adding, Taking, CallRecs
  <2> HIDE DEF c
  <2> QED
    BY <2>1, <2>2, UnmovedGuard
<1>3. CASE DeqCheck(t)
  <2> DEFINE c == [Local(t) EXCEPT !.at = IF head = Local(t).top THEN "deqTail" ELSE "deq"]
  <2>1. Becomes(t, c) /\ UNCHANGED <<setup, guarding, heap>> /\ Local(t).at = "deqCheck"
    BY <1>3 DEF DeqCheck, Reads, At, Local
  <2>2. Carries(Local(t), c)
    BY <1>0, <2>1 DEF Carries, Shape, Holds, Adding, Taking, CallRecs
  <2> HIDE DEF c
  <2> QED
    BY <2>1, <2>2, UnmovedRead
<1>4. CASE DeqTail(t)
  <2> DEFINE c == [Local(t) EXCEPT !.at = "deqNext", !.last = tail]
  <2>1. Becomes(t, c) /\ UNCHANGED <<setup, guarding, heap>> /\ Local(t).at = "deqTail"
    BY <1>4 DEF DeqTail, Reads, At, Local
  <2>2. Carries(Local(t), c)
    BY <1>0, <2>1 DEF Carries, Shape, Holds, Adding, Taking, CallRecs
  <2> HIDE DEF c
  <2> QED
    BY <2>1, <2>2, UnmovedRead
<1>5. CASE DeqNext(t)
  <2> DEFINE c == [Local(t) EXCEPT !.at = "deqGuardNext", !.next = node[Local(t).top].next]
  <2>1. Becomes(t, c) /\ UNCHANGED <<setup, guarding, heap>> /\ Local(t).at = "deqNext"
    BY <1>5 DEF DeqNext, Reads, At, Local
  <2>2. Carries(Local(t), c)
    BY <1>0, <2>1 DEF Carries, Shape, Holds, Adding, Taking, CallRecs
  <2> HIDE DEF c
  <2> QED
    BY <2>1, <2>2, UnmovedRead
<1>6. CASE DeqGuardNext(t)
  <2> DEFINE c == [Local(t) EXCEPT !.at = "deqAgain"]
  <2>1. Guard(t, "deqGuardNext", 1, Local(t).next, c) /\ Local(t).at = "deqGuardNext"
    BY <1>6 DEF DeqGuardNext, Guard, At, Local
  <2>2. Carries(Local(t), c)
    BY <1>0, <2>1 DEF Carries, Shape, Holds, Adding, Taking, CallRecs
  <2> HIDE DEF c
  <2> QED
    BY <2>1, <2>2, UnmovedGuard
<1>7. CASE DeqAgain(t)
  <2> DEFINE x == Local(t)
             c == CASE head # x.top -> [x EXCEPT !.at = "deq"]
                    [] head = x.top /\ x.next = NULL -> [x EXCEPT !.at = "return", !.result = "empty"]
                    [] head = x.top /\ x.next # NULL ->
                         [x EXCEPT !.at = IF x.top = x.last THEN "deqSwing" ELSE "deqElement"]
  <2>1. Becomes(t, c) /\ UNCHANGED <<setup, guarding, heap>> /\ Local(t).at = "deqAgain"
    BY <1>7 DEF DeqAgain, Reads, At, Local
  <2>2. Carries(Local(t), c)
    <3>1. CASE head # x.top
      <4>1. c = [x EXCEPT !.at = "deq"]
        BY <3>1
      <4> HIDE DEF c
      <4> QED
        BY <1>0, <2>1, <4>1 DEF Carries, Shape, Holds, Adding, Taking, CallRecs
    <3>2. CASE head = x.top /\ x.next = NULL
      <4>1. c = [x EXCEPT !.at = "return", !.result = "empty"]
        BY <3>2
      <4> HIDE DEF c
      <4> QED
        BY <1>0, <2>1, <4>1 DEF Carries, Shape, Holds, Adding, Taking, CallRecs
    <3>3. CASE head = x.top /\ x.next # NULL
      <4>1. c = [x EXCEPT !.at = IF x.top = x.last THEN "deqSwing" ELSE "deqElement"]
        BY <3>3
      <4> HIDE DEF c
      <4> QED
        BY <1>0, <2>1, <4>1 DEF Carries, Shape, Holds, Adding, Taking, CallRecs
    <3> QED
      BY <3>1, <3>2, <3>3
  <2> HIDE DEF c
  <2> QED
    BY <2>1, <2>2, UnmovedRead
<1>8. CASE DeqSwing(t)
  <2> DEFINE c == [Local(t) EXCEPT !.at = "deq"]
  <2>1. Becomes(t, c) /\ UNCHANGED <<setup, guarding, pool, node, head>> /\ Local(t).at = "deqSwing"
    BY <1>8 DEF DeqSwing, SwingTail, At, Local
  <2>2. Carries(Local(t), c)
    BY <1>0, <2>1 DEF Carries, Shape, Holds, Adding, Taking, CallRecs
  <2> HIDE DEF c
  <2> QED
    BY <2>1, <2>2, UnmovedHeap
<1>9. CASE DeqElement(t)
  <2> DEFINE c == [Local(t) EXCEPT !.at = "deqCas", !.value = node[Local(t).next].element]
  <2>1. Becomes(t, c) /\ UNCHANGED <<setup, guarding, heap>> /\ Local(t).at = "deqElement"
    BY <1>9 DEF DeqElement, Reads, At, Local
  <2>2. Carries(Local(t), c)
    BY <1>0, <2>1 DEF Carries, Shape, Holds, Adding, Taking, CallRecs
  <2> HIDE DEF c
  <2> QED
    BY <2>1, <2>2, UnmovedRead
<1> QED
  BY <1>1, <1>2, <1>3, <1>4, <1>5, <1>6, <1>7, <1>8, <1>9

\* A compare-and-swap that fails, or an empty pool.
LEMMA UnmovedFail ==
  ASSUME LockFreeInv, Placement, NEW t \in Threads, UNCHANGED <<setup, guarding, pool, node, head>>,
         \/ At(t, "pushCas") /\ Becomes(t, [Local(t) EXCEPT !.at = "pushTop"])
         \/ At(t, "popCas") /\ Becomes(t, [Local(t) EXCEPT !.at = "popAgain"])
         \/ At(t, "enqCas") /\ Becomes(t, [Local(t) EXCEPT !.at = "enqTail"])
         \/ At(t, "deqCas") /\ Becomes(t, [Local(t) EXCEPT !.at = "deq", !.value = Nothing])
         \/ At(t, "push") /\ Becomes(t, [Local(t) EXCEPT !.at = "return", !.result = "full"])
         \/ At(t, "enq") /\ Becomes(t, [Local(t) EXCEPT !.at = "return", !.result = "full"])
  PROVE  Placement'
<1>0. Local(t) \in CallRecs(setup)
  BY DEF LockFreeInv, ThreadRecs, Local
<1>1. CASE At(t, "pushCas") /\ Becomes(t, [Local(t) EXCEPT !.at = "pushTop"])
  <2> DEFINE c == [Local(t) EXCEPT !.at = "pushTop"]
  <2>1. Becomes(t, c) /\ Local(t).at = "pushCas"
    BY <1>1 DEF At, Local
  <2>2. Carries(Local(t), c)
    BY <1>0, <2>1 DEF Carries, Shape, Holds, Adding, Taking, CallRecs
  <2> HIDE DEF c
  <2> QED
    BY <2>1, <2>2, UnmovedHeap
<1>2. CASE At(t, "popCas") /\ Becomes(t, [Local(t) EXCEPT !.at = "popAgain"])
  <2> DEFINE c == [Local(t) EXCEPT !.at = "popAgain"]
  <2>1. Becomes(t, c) /\ Local(t).at = "popCas"
    BY <1>2 DEF At, Local
  <2>2. Carries(Local(t), c)
    BY <1>0, <2>1 DEF Carries, Shape, Holds, Adding, Taking, CallRecs
  <2> HIDE DEF c
  <2> QED
    BY <2>1, <2>2, UnmovedHeap
<1>3. CASE At(t, "enqCas") /\ Becomes(t, [Local(t) EXCEPT !.at = "enqTail"])
  <2> DEFINE c == [Local(t) EXCEPT !.at = "enqTail"]
  <2>1. Becomes(t, c) /\ Local(t).at = "enqCas"
    BY <1>3 DEF At, Local
  <2>2. Carries(Local(t), c)
    BY <1>0, <2>1 DEF Carries, Shape, Holds, Adding, Taking, CallRecs
  <2> HIDE DEF c
  <2> QED
    BY <2>1, <2>2, UnmovedHeap
<1>4. CASE At(t, "deqCas") /\ Becomes(t, [Local(t) EXCEPT !.at = "deq", !.value = Nothing])
  <2> DEFINE c == [Local(t) EXCEPT !.at = "deq", !.value = Nothing]
  <2>1. Becomes(t, c) /\ Local(t).at = "deqCas"
    BY <1>4 DEF At, Local
  <2>2. Carries(Local(t), c)
    BY <1>0, <2>1 DEF Carries, Shape, Holds, Adding, Taking, CallRecs
  <2> HIDE DEF c
  <2> QED
    BY <2>1, <2>2, UnmovedHeap
<1>5. CASE At(t, "push") /\ Becomes(t, [Local(t) EXCEPT !.at = "return", !.result = "full"])
  <2> DEFINE c == [Local(t) EXCEPT !.at = "return", !.result = "full"]
  <2>1. Becomes(t, c) /\ Local(t).at = "push"
    BY <1>5 DEF At, Local
  <2>2. Carries(Local(t), c)
    BY <1>0, <2>1 DEF Carries, Shape, Holds, Adding, Taking, CallRecs
  <2> HIDE DEF c
  <2> QED
    BY <2>1, <2>2, UnmovedHeap
<1>6. CASE At(t, "enq") /\ Becomes(t, [Local(t) EXCEPT !.at = "return", !.result = "full"])
  <2> DEFINE c == [Local(t) EXCEPT !.at = "return", !.result = "full"]
  <2>1. Becomes(t, c) /\ Local(t).at = "enq"
    BY <1>6 DEF At, Local
  <2>2. Carries(Local(t), c)
    BY <1>0, <2>1 DEF Carries, Shape, Holds, Adding, Taking, CallRecs
  <2> HIDE DEF c
  <2> QED
    BY <2>1, <2>2, UnmovedHeap
<1> QED
  BY <1>1, <1>2, <1>3, <1>4, <1>5, <1>6

\* Returning, scanning and helping move no node.
LEMMA UnmovedScan ==
  ASSUME LockFreeInv, Placement, NEW t \in Threads,
         Return(t) \/ ScanGuard(t) \/ HelpScan(t) \/ Helped(t)
         \/ Leave(t) \/ LeaveRead(t) \/ LeaveWrite(t)
  PROVE  Placement'
<1>0. Local(t) \in CallRecs(setup)
  BY DEF LockFreeInv, ThreadRecs, Local
<1>1. CASE Return(t)
  <2> DEFINE c == Idle
  <2>1. Becomes(t, c) /\ UNCHANGED <<setup, guarding, heap>> /\ Local(t).at = "return"
    BY <1>1 DEF Return, Return, At, Local
  <2>2. Carries(Local(t), c)
    BY <1>0, <2>1 DEF Carries, Shape, Holds, Adding, Taking, CallRecs, Idle
  <2> HIDE DEF c
  <2> QED
    BY <2>1, <2>2, UnmovedRead
<1>2. CASE ScanGuard(t)
  <2>1. PICK h, a : /\ Becomes(t, [Local(t) EXCEPT !.k = @ + 1, !.hazards = h, !.at = a])
                    /\ a \in {"scan", "free"} /\ UNCHANGED <<setup, guarding, heap>> /\ Local(t).at = "scan"
    BY <1>2, ZenonT(40) DEF ScanGuard, At, Local
  <2> DEFINE c == [Local(t) EXCEPT !.k = @ + 1, !.hazards = h, !.at = a]
  <2>2. Carries(Local(t), c)
    BY <1>0, <2>1 DEF Carries, Shape, Holds, Adding, Taking, CallRecs
  <2> HIDE DEF c
  <2> QED
    BY <2>1, <2>2, UnmovedRead DEF c
<1>3. CASE HelpScan(t)
  <2> DEFINE i == Local(t).help
  <2>0. Local(t).at = "help" /\ setup' = setup /\ UNCHANGED <<setup, counter, active_hazard_pointer, heap>>
    BY <1>3 DEF HelpScan, At, Local
  <2>1. CASE /\ entry' = [entry EXCEPT ![i].is_active = TRUE]
             /\ Becomes(t, IF entry[i].retired # <<>> THEN Scanning(Local(t), i, i + 1)
                           ELSE [Local(t) EXCEPT !.at = "helped", !.scan = i, !.help = i + 1])
    <3> DEFINE c == IF entry[i].retired # <<>> THEN Scanning(Local(t), i, i + 1)
                    ELSE [Local(t) EXCEPT !.at = "helped", !.scan = i, !.help = i + 1]
    <3>1. Carries(Local(t), c)
      BY <1>0, <2>0 DEF Carries, Shape, Holds, Adding, Taking, CallRecs, Scanning
    <3> HIDE DEF c
    <3>2. Becomes(t, c)
      BY <2>1 DEF c
    <3> QED
      BY <2>0, <2>1, <3>1, <3>2, UnmovedFlag
  <2>2. CASE entry' = entry /\ Becomes(t, [Local(t) EXCEPT !.help = i + 1])
    <3> DEFINE c == [Local(t) EXCEPT !.help = i + 1]
    <3>1. Carries(Local(t), c)
      BY <1>0, <2>0 DEF Carries, Shape, Holds, Adding, Taking, CallRecs
    <3> HIDE DEF c
    <3>2. Becomes(t, c) /\ UNCHANGED <<setup, guarding, heap>>
      BY <2>0, <2>2 DEF c, guarding
    <3> QED
      BY <3>1, <3>2, UnmovedRead
  <2>3. CASE entry' = entry /\ Goes(t, "return")
    <3> DEFINE c == [Local(t) EXCEPT !.at = "return"]
    <3>1. Carries(Local(t), c)
      BY <1>0, <2>0 DEF Carries, Shape, Holds, Adding, Taking, CallRecs
    <3> HIDE DEF c
    <3>2. Becomes(t, c) /\ UNCHANGED <<setup, guarding, heap>>
      BY <2>0, <2>3 DEF c, guarding, Goes
    <3> QED
      BY <3>1, <3>2, UnmovedRead
  <2> QED
    BY <1>3, <2>1, <2>2, <2>3 DEF HelpScan
<1>4. CASE Helped(t)
  <2> DEFINE c == [Local(t) EXCEPT !.at = "help"]
             i == Local(t).scan
  <2>1. Local(t).at = "helped" /\ Becomes(t, c) /\ entry' = [entry EXCEPT ![i].is_active = FALSE]
        /\ UNCHANGED <<setup, counter, heap>>
    BY <1>4 DEF Helped, Goes, At, Local
  <2>2. Carries(Local(t), c)
    BY <1>0, <2>1 DEF Carries, Shape, Holds, Adding, Taking, CallRecs
  <2> HIDE DEF c, i
  <2> QED
    BY <2>1, <2>2, UnmovedFlag
<1>5. CASE Leave(t)
  <2> DEFINE i == MyEntry(t)
  <2>1. PICK a, r : /\ Becomes(t, [Local(t) EXCEPT !.at = a, !.result = r]) /\ Local(t).at = "leave"
                    /\ a \in {"leaveRead", "return"} /\ UNCHANGED <<setup, counter, heap>>
                    /\ (entry' = [entry EXCEPT ![i].is_active = FALSE]) \/ UNCHANGED guarding
    <3>1. [Local(t) EXCEPT !.at = "leaveRead"] = [Local(t) EXCEPT !.at = "leaveRead", !.result = Local(t).result]
      BY <1>0 DEF CallRecs
    <3> QED
      BY <1>5, <3>1 DEF Leave, Goes, Ends, At, Local, guarding
  <2> DEFINE c == [Local(t) EXCEPT !.at = a, !.result = r]
  <2>2. Carries(Local(t), c)
    BY <1>0, <2>1 DEF Carries, Shape, Holds, Adding, Taking, CallRecs
  <2> HIDE DEF c, i
  <2>3. Becomes(t, c)
    BY <2>1 DEF c
  <2> QED
    BY <2>1, <2>2, <2>3, UnmovedFlag, UnmovedRead
<1>6. CASE LeaveRead(t)
  <2> DEFINE c == [Local(t) EXCEPT !.at = "leaveWrite", !.count = active_hazard_pointer]
  <2>1. Becomes(t, c) /\ UNCHANGED <<setup, guarding, heap>> /\ Local(t).at = "leaveRead"
    BY <1>6 DEF LeaveRead, At, Local
  <2>2. Carries(Local(t), c)
    BY <1>0, <2>1 DEF Carries, Shape, Holds, Adding, Taking, CallRecs
  <2> HIDE DEF c
  <2> QED
    BY <2>1, <2>2, UnmovedRead
<1>7. CASE LeaveWrite(t)
  <2> DEFINE c == [Local(t) EXCEPT !.at = "return", !.result = "done"]
  <2>1. /\ Becomes(t, c) /\ UNCHANGED <<setup, counter, heap>> /\ entry' = entry
        /\ Local(t).at = "leaveWrite"
    BY <1>7 DEF LeaveWrite, Ends, At, Local
  <2>2. Carries(Local(t), c)
    BY <1>0, <2>1 DEF Carries, Shape, Holds, Adding, Taking, CallRecs
  <2> HIDE DEF c
  <2>3. SameRetired(setup, entry, entry')
    BY <2>1 DEF SameRetired
  <2> QED
    BY <2>1, <2>2, <2>3, Unmoved DEF heap
<1> QED
  BY <1>1, <1>2, <1>3, <1>4, <1>5, <1>6, <1>7

-----------------------------------------------------------------------------
(* The steps that move a node                                              *)

\* A node goes from one place to another.
LEMMA Moving ==
  ASSUME LockFreeInv, Placement, NEW t \in Threads, NEW c, Becomes(t, c), Shape(c),
         Local(t).at # "idle", c.at # "giveBack", setup' = setup, counter' = counter,
         \A n \in Nds(setup) : Stored(n) \/ Holds(Local(t), n) => Stored(n)' \/ Holds(c, n)
  PROVE  Placement'
<1>1. Turns(t, c)
  BY BecomesTurns DEF LockFreeInv
<1>2. AllPlaced'
  BY <1>1, Placing DEF Local, Placement
<1>3. EveryIndex'
  BY <1>1, Counting DEF Local, Placement
<1> QED
  BY <1>2, <1>3 DEF Placement

\* The nodes of the container are those of the list of the invariant.
LEMMA ListKnown ==
  ASSUME NEW L, Entire(L)
  PROVE  /\ setup \in Setups /\ NULL \notin Nds(setup) /\ node \in [Nds(setup) -> NodeRecs(setup)]
         /\ Linked(setup, node, head, L) /\ Linkeds = Range(L)
<1>1. setup \in Setups /\ node \in [Nds(setup) -> NodeRecs(setup)] /\ Linked(setup, node, head, L)
  BY DEF Entire, Parts, Shapes, HeapOK
<1>2. ChainOf(setup, node, head) = L
  BY <1>1, ChainIs
<1>3. NULL \notin Nds(setup)
  BY <1>1, SetupsAssumption, Sizes DEF Nds
<1> QED
  BY <1>1, <1>2, <1>3 DEF Linkeds

\* The nodes after the step.
LEMMA NodesNext ==
  ASSUME LockFreeInv', setup' = setup
  PROVE  node' \in [Nds(setup) -> NodeRecs(setup)]
  BY DEF LockFreeInv, Entire, Parts, Shapes, HeapOK

\* The list after the step.
LEMMA ListNext ==
  ASSUME LockFreeInv', setup' = setup, setup \in Setups, NEW L, Linked(setup, node', head', L)
  PROVE  Linkeds' = Range(L)
<1>1. node' \in [Nds(setup) -> NodeRecs(setup)]
  BY NodesNext
<1>2. ChainOf(setup, node', head') = L
  BY <1>1, ChainIs
<1> QED
  BY <1>2 DEF Linkeds

\* A node that is not in the container is changed.
LEMMA ListApart ==
  ASSUME LockFreeInv, LockFreeInv', setup' = setup, head' = head, NEW m, m \notin Linkeds,
         \A n \in Nds(setup) : n # m => node'[n].next = node[n].next
  PROVE  Linkeds' = Linkeds
<1>1. PICK L : Entire(L)
  BY DEF LockFreeInv
<1>2. setup \in Setups /\ Linked(setup, node, head, L) /\ Linkeds = Range(L)
  BY <1>1, ListKnown
<1>3. \A k \in 1..Len(L) : L[k] \in Nds(setup) /\ L[k] \in Range(L)
  BY <1>2 DEF Linked, Range
<1>4. \A k \in 1..Len(L) : node'[L[k]].next = node[L[k]].next
  BY <1>2, <1>3
<1>5. Linked(setup, node', head', L)
  BY <1>2, <1>4 DEF Linked
<1> QED
  BY <1>2, <1>5, ListNext

\* A node that is held is not in the container.
LEMMA HeldApart ==
  ASSUME LockFreeInv, NEW t \in Threads, NEW n \in Nds(setup), Holds(Local(t), n)
  PROVE  n \notin Linkeds
<1>1. PICK L : thread \in [Threads -> ThreadRecs(setup)] /\ Entire(L)
  BY DEF LockFreeInv
<1>2. Linkeds = Range(L)
  BY <1>1, ListKnown
<1>3. OnePlace(setup, entry, pool, L, Views)
  BY <1>1, Known
<1>4. Holds(Views[t], n)
  <2>1. Views[t].at = Local(t).at /\ Views[t].mine = Local(t).mine /\ Views[t].top = Local(t).top
    BY <1>1, ViewFields
  <2> QED
    BY <2>1 DEF Holds
<1> QED
  BY <1>2, <1>3, <1>4 DEF OnePlace

\* A node is allocated: from the pool to the thread.
LEMMA MovesAllocated ==
  ASSUME LockFreeInv, LockFreeInv', Placement, NEW t \in Threads, NEW to,
         (At(t, "push") /\ to = "pushTop") \/ (At(t, "enq") /\ to = "enqTail"), AllocateNode(t, to)
  PROVE  Placement'
<1>1. PICK m \in pool : /\ pool' = pool \ {m}
                        /\ node' = [node EXCEPT ![m] = [next |-> NULL, element |-> Local(t).value]]
                        /\ Becomes(t, [Local(t) EXCEPT !.at = to, !.mine = m])
                        /\ UNCHANGED <<setup, guarding, head, tail>>
  BY DEF AllocateNode
<1>2. setup' = setup /\ counter' = counter /\ entry' = entry /\ head' = head
  BY <1>1 DEF guarding
<1>3. PICK L : Entire(L)
  BY DEF LockFreeInv
<1>4. Linkeds = Range(L) /\ node \in [Nds(setup) -> NodeRecs(setup)]
  BY <1>3, ListKnown
<1>5. m \notin Linkeds
  <2>1. OnePlace(setup, entry, pool, L, Views)
    BY <1>3 DEF Entire, Parts, Orderly
  <2> QED
    BY <1>1, <1>4, <2>1 DEF OnePlace
<1>6. \A n \in Nds(setup) : n # m => node'[n].next = node[n].next
  BY <1>1, <1>4
<1>7. Linkeds' = Linkeds
  BY <1>2, <1>5, <1>6, ListApart
<1> DEFINE c == [Local(t) EXCEPT !.at = to, !.mine = m]
<1>8. Local(t) \in CallRecs(setup) /\ Local(t).at \in {"push", "enq"} /\ to \in {"pushTop", "enqTail"}
  BY DEF LockFreeInv, ThreadRecs, Local, At
<1>9. Shape(c) /\ c.at = to /\ c.mine = m
  BY <1>8 DEF Shape, CallRecs
<1>10. Becomes(t, c)
  BY <1>1
<1> HIDE DEF c
<1>11. \A n : ~Holds(Local(t), n)
  BY <1>8 DEF Holds, Adding, Taking
<1>12. \A n : Stored(n) => Stored(n)' \/ n = m
  BY <1>1, <1>2, <1>7 DEF Stored
<1>13. Holds(c, m)
  BY <1>8, <1>9 DEF Holds, Adding
<1>14. Local(t).at # "idle" /\ c.at # "giveBack"
  BY <1>8, <1>9
<1> QED
  BY <1>2, <1>9, <1>10, <1>11, <1>12, <1>13, <1>14, Moving

\* The new node is linked to the top before it is put there.
LEMMA MovesPushTop ==
  ASSUME LockFreeInv, LockFreeInv', Placement, NEW t \in Threads, PushTop(t)
  PROVE  Placement'
<1> DEFINE m == Local(t).mine
           c == [Local(t) EXCEPT !.at = "pushCas", !.top = head]
<1>1. /\ node' = [node EXCEPT ![m].next = head] /\ Becomes(t, c) /\ Local(t).at = "pushTop"
      /\ setup' = setup /\ counter' = counter /\ entry' = entry /\ head' = head /\ pool' = pool
  BY DEF PushTop, guarding, At, Local
<1>2. PICK L : thread \in [Threads -> ThreadRecs(setup)] /\ Entire(L)
  BY DEF LockFreeInv
<1>3. Local(t) \in CallRecs(setup)
  BY DEF LockFreeInv, ThreadRecs, Local
<1>4. node \in [Nds(setup) -> NodeRecs(setup)]
  BY <1>2, ListKnown
<1>5. m \in Nds(setup)
  <2>1. PushOK(setup, node, Views[t]) /\ Views[t].at = Local(t).at /\ Views[t].mine = m
    BY <1>2, Known, ViewFields
  <2> QED
    BY <1>1, <2>1 DEF PushOK, Adding
<1>6. m \notin Linkeds
  <2>1. Holds(Local(t), m)
    BY <1>1 DEF Holds, Adding
  <2> HIDE DEF m
  <2> QED
    BY <1>5, <2>1, HeldApart
<1>7. \A n \in Nds(setup) : n # m => node'[n].next = node[n].next
  <2> HIDE DEF m
  <2> QED
    BY <1>1, <1>4
<1>8. Linkeds' = Linkeds
  <2> HIDE DEF m
  <2> QED
    BY <1>1, <1>6, <1>7, ListApart
<1>9. Carries(Local(t), c)
  BY <1>1, <1>3 DEF Carries, Shape, Holds, Adding, Taking, CallRecs
<1> HIDE DEF c
<1>10. Steady
  BY <1>1, <1>8 DEF Steady
<1> QED
  BY <1>1, <1>2, <1>9, <1>10, Carrying DEF Placement

\* The new node becomes the top of the stack.
LEMMA MovesPushed ==
  ASSUME LockFreeInv, LockFreeInv', Placement, NEW t \in Threads, At(t, "pushCas"), head = Local(t).top,
         head' = Local(t).mine, Ends(t, "done"), UNCHANGED <<setup, guarding, pool, node, tail>>
  PROVE  Placement'
<1> DEFINE m == Local(t).mine
           c == [Local(t) EXCEPT !.at = "return", !.result = "done"]
<1>1. /\ Becomes(t, c) /\ Local(t).at = "pushCas" /\ setup' = setup /\ counter' = counter /\ entry' = entry
      /\ pool' = pool /\ node' = node /\ head' = m
  BY DEF Ends, At, Local, guarding
<1>2. PICK L : thread \in [Threads -> ThreadRecs(setup)] /\ Entire(L)
  BY DEF LockFreeInv
<1>3. Local(t) \in CallRecs(setup)
  BY DEF LockFreeInv, ThreadRecs, Local
<1>4. /\ setup \in Setups /\ NULL \notin Nds(setup) /\ Linked(setup, node, head, L) /\ Linkeds = Range(L)
  BY <1>2, ListKnown
<1>5. m \in Nds(setup) /\ node[m].next = head
  <2>1. PushOK(setup, node, Views[t]) /\ Views[t].at = Local(t).at /\ Views[t].mine = m /\ Views[t].top = head
    BY <1>2, Known, ViewFields
  <2> QED
    BY <1>1, <2>1 DEF PushOK, Adding
<1>6. Holds(Local(t), m) /\ \A n : Holds(Local(t), n) => n = m
  BY <1>1 DEF Holds, Adding, Taking
<1>7. Shape(c) /\ c.at = "return"
  BY <1>3 DEF Shape, CallRecs
<1> HIDE DEF m, c
<1>8. m \notin Linkeds
  BY <1>5, <1>6, HeldApart
<1>9. Linked(setup, node, m, <<m>> \o L) /\ \A x : x \in Range(<<m>> \o L) <=> x \in Range(L) \/ x = m
  BY <1>4, <1>5, <1>8, LinkedPush
<1> DEFINE K == <<m>> \o L
<1>10. Linked(setup, node', head', K) /\ \A x : x \in Range(K) <=> x \in Range(L) \/ x = m
  BY <1>1, <1>9
<1> HIDE DEF K
<1>11. Linkeds' = Range(K)
  BY <1>1, <1>4, <1>10, ListNext
<1>12. \A n : Stored(n) \/ n = m => Stored(n)'
  BY <1>1, <1>4, <1>10, <1>11 DEF Stored
<1>13. Local(t).at # "idle" /\ c.at # "giveBack"
  BY <1>1, <1>7
<1> QED
  BY <1>1, <1>6, <1>7, <1>12, <1>13, Moving

\* The new node is linked behind the last one of the queue.
LEMMA MovesEnqueued ==
  ASSUME LockFreeInv, LockFreeInv', Placement, NEW t \in Threads, At(t, "enqCas"), node[Local(t).last].next = NULL,
         node' = [node EXCEPT ![Local(t).last].next = Local(t).mine],
         Becomes(t, [Local(t) EXCEPT !.at = "enqDone", !.result = "done"]),
         UNCHANGED <<setup, guarding, pool, head, tail>>
  PROVE  Placement'
<1> DEFINE m == Local(t).mine
           z == Local(t).last
           c == [Local(t) EXCEPT !.at = "enqDone", !.result = "done"]
<1>1. /\ Becomes(t, c) /\ Local(t).at = "enqCas" /\ setup' = setup /\ counter' = counter /\ entry' = entry
      /\ pool' = pool /\ head' = head /\ node' = [node EXCEPT ![z].next = m] /\ node[z].next = NULL
  BY DEF At, Local, guarding
<1>2. PICK L : thread \in [Threads -> ThreadRecs(setup)] /\ Entire(L)
  BY DEF LockFreeInv
<1>3. Local(t) \in CallRecs(setup)
  BY DEF LockFreeInv, ThreadRecs, Local
<1>4. /\ setup \in Setups /\ NULL \notin Nds(setup) /\ Linked(setup, node, head, L) /\ Linkeds = Range(L)
      /\ node \in [Nds(setup) -> NodeRecs(setup)]
  BY <1>2, ListKnown
<1>5. /\ PushOK(setup, node, Views[t]) /\ EnqOK(setup, entry, L, node, Views, t) /\ KindOK(setup, Views[t])
      /\ QueueOK(setup, entry, L, node, tail)
      /\ Views[t].at = "enqCas" /\ Views[t].mine = m /\ Views[t].last = z
  BY <1>1, <1>2, Known, ViewFields
<1>6. m \in Nds(setup) /\ node[m].next = NULL
  BY <1>5 DEF PushOK, Adding, EnqPoints
<1>7. z \in Nds(setup) /\ Live(setup, entry, L, Views, z) /\ setup.kind = "queue"
  BY <1>5 DEF EnqOK, Safe, KindOK, EnqPoints
<1>8. z \in Range(L)
  <2>1. \A i \in Ents(setup) : ~Rtd(entry, i, z)
    BY <1>1, <1>5, <1>7 DEF QueueOK
  <2>2. ASSUME NEW u \in Threads, Views[u].at \in Taking, Views[u].top = z PROVE FALSE
    <3>1. PopOK(setup, entry, L, node, Views, u)
      BY <1>2, Known
    <3> QED
      BY <1>1, <1>7, <2>2, <3>1 DEF PopOK
  <2> QED
    BY <1>7, <2>1, <2>2 DEF Live
<1>9. Holds(Local(t), m) /\ \A n : Holds(Local(t), n) => n = m
  BY <1>1 DEF Holds, Adding, Taking
<1>10. Shape(c) /\ c.at = "enqDone"
  BY <1>3 DEF Shape, CallRecs
<1> HIDE DEF m, z, c
<1>11. m \notin Linkeds
  BY <1>6, <1>9, HeldApart
<1>12. Relinked(setup, node, node', z, m)
  <2>1. node' = [node EXCEPT ![z] = [node[z] EXCEPT !.next = m]]
    BY <1>1
  <2>2. \A x \in NodeRecs(setup) : [x EXCEPT !.next = m].next = m
    BY DEF NodeRecs
  <2>3. node[z] \in NodeRecs(setup) /\ node'[z] = [node[z] EXCEPT !.next = m]
        /\ \A n \in Nds(setup) : n # z => node'[n] = node[n]
    BY <1>4, <1>7, <2>1
  <2>4. node'[z].next = m
    BY <2>2, <2>3
  <2> QED
    BY <1>1, <2>3, <2>4 DEF Relinked
<1> DEFINE K == Append(L, m)
<1>13. Linked(setup, node', head, K) /\ \A x : x \in Range(K) <=> x \in Range(L) \/ x = m
  BY <1>4, <1>6, <1>8, <1>11, <1>12, LinkedAppend
<1> HIDE DEF K
<1>14. Linkeds' = Range(K)
  BY <1>1, <1>4, <1>13, ListNext
<1>15. \A n : Stored(n) \/ n = m => Stored(n)'
  BY <1>1, <1>4, <1>13, <1>14 DEF Stored
<1>16. Local(t).at # "idle" /\ c.at # "giveBack"
  BY <1>1, <1>10
<1> QED
  BY <1>1, <1>9, <1>10, <1>15, <1>16, Moving

\* The first node is taken out, and the thread holds it.
LEMMA MovesTaken ==
  ASSUME LockFreeInv, LockFreeInv', Placement, NEW t \in Threads, Local(t).at \in {"popCas", "deqCas"},
         head = Local(t).top, head' = Local(t).next, NEW c, Becomes(t, c), Shape(c), c.at \in Taking,
         c.top = Local(t).top, UNCHANGED <<setup, guarding, pool, node, tail>>
  PROVE  Placement'
<1>1. setup' = setup /\ counter' = counter /\ entry' = entry /\ pool' = pool /\ node' = node
  BY DEF guarding
<1>2. PICK L : thread \in [Threads -> ThreadRecs(setup)] /\ Entire(L)
  BY DEF LockFreeInv
<1>3. /\ setup \in Setups /\ NULL \notin Nds(setup) /\ Linked(setup, node, head, L) /\ Linkeds = Range(L)
  BY <1>2, ListKnown
<1>4. /\ PopOK(setup, entry, L, node, Views, t) /\ DeqOK(setup, entry, L, node, head, tail, Views, t)
      /\ Views[t].at = Local(t).at /\ Views[t].top = head /\ Views[t].next = head'
  BY <1>2, Known, ViewFields
<1>5. head \in Nds(setup) /\ node[head].next = head'
  <2>1. CASE Views[t].at = "popCas"
    BY <1>4, <2>1 DEF PopOK, Safe
  <2>2. CASE Views[t].at = "deqCas"
    BY <1>4, <2>2 DEF DeqOK, DeqPoints, Safe
  <2> QED
    BY <1>4, <2>1, <2>2
<1> DEFINE K == Tail(L)
<1>6. Linked(setup, node, node[head].next, K) /\ \A x : x \in Range(K) <=> x \in Range(L) /\ x # head
  BY <1>3, <1>5, LinkedTail
<1> HIDE DEF K
<1>7. Linkeds' = Range(K)
  BY <1>1, <1>3, <1>5, <1>6, ListNext
<1>8. \A n : Stored(n) => Stored(n)' \/ n = head
  BY <1>1, <1>3, <1>6, <1>7 DEF Stored
<1>9. Holds(c, head) /\ \A n : ~Holds(Local(t), n)
  BY DEF Holds, Adding, Taking
<1>10. Local(t).at # "idle" /\ c.at # "giveBack"
  BY DEF Taking
<1> QED
  BY <1>1, <1>8, <1>9, <1>10, Moving

\* TryPop and TryDequeue take the first node.
LEMMA MovesPopDeq ==
  ASSUME LockFreeInv, LockFreeInv', Placement, NEW t \in Threads, head = Local(t).top, head' = Local(t).next,
         \/ At(t, "popCas") /\ Becomes(t, [Local(t) EXCEPT !.at = "popTake", !.result = node[Local(t).top].element])
         \/ At(t, "deqCas") /\ Becomes(t, [Local(t) EXCEPT !.at = "retire", !.result = Local(t).value,
                                                           !.value = Nothing]),
         UNCHANGED <<setup, guarding, pool, node, tail>>
  PROVE  Placement'
<1>1. Local(t) \in CallRecs(setup)
  BY DEF LockFreeInv, ThreadRecs, Local
<1>2. CASE At(t, "popCas") /\ Becomes(t, [Local(t) EXCEPT !.at = "popTake", !.result = node[Local(t).top].element])
  <2> DEFINE c == [Local(t) EXCEPT !.at = "popTake", !.result = node[Local(t).top].element]
  <2>1. Shape(c) /\ c.at \in Taking /\ c.top = Local(t).top
    BY <1>1 DEF Shape, Taking, CallRecs
  <2>2. Local(t).at \in {"popCas", "deqCas"} /\ Becomes(t, c)
    BY <1>2 DEF At, Local
  <2> HIDE DEF c
  <2> QED
    BY <2>1, <2>2, MovesTaken
<1>3. CASE At(t, "deqCas") /\ Becomes(t, [Local(t) EXCEPT !.at = "retire", !.result = Local(t).value,
                                                          !.value = Nothing])
  <2> DEFINE c == [Local(t) EXCEPT !.at = "retire", !.result = Local(t).value, !.value = Nothing]
  <2>1. Shape(c) /\ c.at \in Taking /\ c.top = Local(t).top
    BY <1>1 DEF Shape, Taking, CallRecs
  <2>2. Local(t).at \in {"popCas", "deqCas"} /\ Becomes(t, c)
    BY <1>3 DEF At, Local
  <2> HIDE DEF c
  <2> QED
    BY <2>1, <2>2, MovesTaken
<1> QED
  BY <1>2, <1>3

\* A node is retired: from the thread to its list, where there is room.
LEMMA MovesRetired ==
  ASSUME LockFreeInv, LockFreeInv', Placement, NEW t \in Threads, Retire(t)
  PROVE  Placement'
<1> DEFINE i == MyEntry(t)
           m == Local(t).top
           list == entry[i].retired
           c == IF Exceeded(Len(Append(list, m))) THEN Scanning(Local(t), i, 0)
                ELSE [Local(t) EXCEPT !.at = "return"]
<1>1. PICK L : thread \in [Threads -> ThreadRecs(setup)] /\ Entire(L)
  BY DEF LockFreeInv
<1>2. Ready(L, t)
  BY <1>1, Start
<1>3. /\ Views[t].at = "retire" /\ Views[t].index = i /\ i # NoIndex /\ i \in Ents(setup) /\ m \in Nds(setup)
      /\ Local(t).at = "retire" /\ Local(t) \in CallRecs(setup)
  BY <1>2 DEF Ready, Retire, At, MyEntry, Indexed, PopOK, Taking, Local
<1>4. /\ entry \in [Ents(setup) -> EntryRecs(setup)] /\ Indices(setup, counter, Views)
      /\ Scanned(setup, counter, entry, Views) /\ Room(setup, entry, Views, active_hazard_pointer)
  BY <1>1, Known
<1>5. Len(list) < RetiredListMaxSize(setup)
  <2>1. Views[t].index # NoIndex /\ ~Finished(Views[t]) /\ Views[t].at \notin HelpPoints
    BY <1>3 DEF Finished, HelpPoints, ScanPoints
  <2>2. \A u \in Threads : Views[u].at \in HelpPoints => Views[u].scan # Views[t].index
    BY <1>4, <2>1, NotScanned
  <2> QED
    BY <1>3, <1>4, <2>2 DEF Room, HelpPoints
<1>6. /\ entry' = [entry EXCEPT ![i].retired = Append(list, m)] /\ Becomes(t, c)
      /\ setup' = setup /\ counter' = counter /\ pool' = pool /\ node' = node /\ head' = head
  BY <1>5 DEF Retire, heap
<1>7. list \in Seq(Nds(setup))
  BY <1>3, <1>4 DEF EntryRecs
<1>8. Shape(c) /\ c.at \in {"scan", "return"}
  <2>1. Shape(Scanning(Local(t), i, 0)) /\ Scanning(Local(t), i, 0).at = "scan"
    BY <1>3 DEF Shape, Scanning, CallRecs
  <2>2. Shape([Local(t) EXCEPT !.at = "return"]) /\ [Local(t) EXCEPT !.at = "return"].at = "return"
    BY <1>3 DEF Shape, CallRecs
  <2> QED
    BY <2>1, <2>2
<1>9. \A n : Holds(Local(t), n) => n = m
  BY <1>3 DEF Holds, Adding
<1> HIDE DEF c, i, m, list
<1> DEFINE q == Append(list, m)
<1>10. q \in Seq(Nds(setup)) /\ entry' = [entry EXCEPT ![i].retired = q]
  BY <1>3, <1>6, <1>7
<1> HIDE DEF q
<1>11. Relisted(setup, entry, entry', i, q)
  BY <1>3, <1>4, <1>10, ListChanged
<1>12. Added(setup, entry, entry', i, m)
  BY <1>3, <1>11 DEF Added, Relisted, q, list
<1>13. AddedNodes(setup, entry, entry', i, m)
  BY <1>3, <1>4, <1>12, AddedLists
<1>14. \A n : Stored(n) \/ n = m => Stored(n)'
  BY <1>3, <1>6, <1>13 DEF Stored, AddedNodes, Linkeds
<1>15. Local(t).at # "idle" /\ c.at # "giveBack"
  BY <1>3, <1>8
<1> QED
  BY <1>6, <1>8, <1>9, <1>14, <1>15, Moving

\* Nodes are freed: from a list to the pool, unless they are hazards.
LEMMA MovesFreed ==
  ASSUME LockFreeInv, LockFreeInv', Placement, NEW t \in Threads, ScanFrees(t)
  PROVE  Placement'
<1> DEFINE i == Local(t).scan
           H == Local(t).hazards
           list == entry[i].retired
           kept == Kept(list, H)
           c == [Local(t) EXCEPT !.at = IF Local(t).help = 0 THEN "help" ELSE "helped"]
<1>1. PICK L : thread \in [Threads -> ThreadRecs(setup)] /\ Entire(L)
  BY DEF LockFreeInv
<1>2. /\ entry \in [Ents(setup) -> EntryRecs(setup)] /\ OnePlace(setup, entry, pool, L, Views)
      /\ Scanned(setup, counter, entry, Views)
  BY <1>1, Known
<1>3. Local(t).at = "free" /\ Views[t].at = "free" /\ Views[t].scan = i /\ Local(t) \in CallRecs(setup)
  BY <1>1, ViewFields DEF ScanFrees, At, Local
<1>4. i \in Ents(setup)
  BY <1>2, <1>3 DEF Scanned, HelpPoints, ScanPoints
<1>5. /\ pool' = pool \cup (Range(list) \ Range(kept)) /\ entry' = [entry EXCEPT ![i].retired = kept] /\ Becomes(t, c)
      /\ setup' = setup /\ counter' = counter /\ node' = node /\ head' = head
  BY DEF ScanFrees, Goes
<1>6. list \in Seq(Nds(setup)) /\ \A j, k \in 1..Len(list) : list[j] = list[k] => j = k
  <2>1. list \in Seq(Nds(setup))
    BY <1>2, <1>4 DEF EntryRecs
  <2>2. \A j, k \in DOMAIN list : list[j] = list[k] => j = k
    BY <1>2, <1>4 DEF OnePlace
  <2> QED
    BY <2>1, <2>2
<1>7. Shape(c) /\ c.at \in {"help", "helped"} /\ \A n : ~Holds(Local(t), n)
  BY <1>3 DEF Shape, CallRecs, Holds, Adding, Taking
<1> HIDE DEF list, H, c, i
<1>8. kept \in Seq(Nds(setup))
  BY <1>6, KeptFacts
<1> HIDE DEF kept
<1>9. Relisted(setup, entry, entry', i, kept)
  BY <1>2, <1>4, <1>5, <1>8, ListChanged
<1>10. ASSUME NEW j \in Ents(setup), NEW n, Rtd(entry, j, n) PROVE Stored(n)'
  <2>1. CASE j = i
    <3>1. n \in Range(list) /\ entry'[j].retired = kept
      BY <1>9, <1>10, <2>1 DEF Rtd, Range, list, Relisted
    <3>2. CASE n \in Range(kept)
      <4>1. Rtd(entry', j, n)
        BY <3>1, <3>2 DEF Rtd, Range
      <4> QED
        BY <1>5, <4>1 DEF Stored
    <3>3. CASE n \notin Range(kept)
      BY <1>5, <3>1, <3>3 DEF Stored
    <3> QED
      BY <3>2, <3>3
  <2>2. CASE j # i
    <3>1. entry'[j].retired = entry[j].retired
      BY <1>9, <2>2 DEF Relisted
    <3>2. Rtd(entry', j, n)
      BY <1>10, <3>1 DEF Rtd
    <3> QED
      BY <1>5, <3>2 DEF Stored
  <2> QED
    BY <2>1, <2>2
<1>11. \A n : Stored(n) => Stored(n)'
  <2> SUFFICES ASSUME NEW n, Stored(n) PROVE Stored(n)'
    OBVIOUS
  <2>1. CASE n \in pool \/ n \in Linkeds
    BY <1>5, <2>1 DEF Stored, Linkeds
  <2> QED
    BY <1>10, <2>1 DEF Stored
<1>12. Local(t).at # "idle" /\ c.at # "giveBack"
  BY <1>3, <1>7
<1> QED
  BY <1>5, <1>7, <1>11, <1>12, Moving

\* A thread begins a call.
LEMMA MovesBegun == ASSUME LockFreeInv, Placement, NEW t \in Threads, Begin(t) PROVE Placement'
<1> DEFINE q == thread[t].todo
           o == Head(q)
           c == [Idle EXCEPT !.at = Entry(o.op), !.op = o.op, !.value = o.value]
           x == [thread[t] EXCEPT !.todo = Tail(q), !.call = c]
<1>1. thread \in [Threads -> ThreadRecs(setup)]
  BY DEF LockFreeInv
<1>2. /\ thread[t].call.at = "idle" /\ q # <<>> /\ UNCHANGED <<setup, guarding, heap>>
      /\ thread' = [thread EXCEPT ![t].todo = Tail(@), ![t].call = c]
  BY DEF Begin, At
<1>3. thread' = [thread EXCEPT ![t] = x] /\ thread[t] \in ThreadRecs(setup)
  BY <1>1, <1>2
<1>4. c.at \in {"leave", "push", "enq", "pop", "deq"}
  <2>1. q \in Seq(Ops)
    BY <1>3 DEF ThreadRecs
  <2>2. o \in Ops
    BY <1>2, <2>1
  <2>3. Entry(o.op) \in {"leave", "push", "enq", "pop", "deq"}
    BY <2>2 DEF Entry, Ops
  <2>4. "at" \in DOMAIN Idle
    BY DEF Idle
  <2>5. \A z : "at" \in DOMAIN z => \A a, b, d : [z EXCEPT !.at = a, !.op = b, !.value = d].at = a
    OBVIOUS
  <2>6. c.at = Entry(o.op)
    <3> HIDE DEF o
    <3> QED
      BY <2>4, <2>5
  <2> QED
    BY <2>3, <2>6
<1> HIDE DEF c
<1>5. x.index = thread[t].index /\ x.call = c
  BY <1>3 DEF ThreadRecs
<1> HIDE DEF x
<1>6. \A u \in Threads : thread'[u] = IF u = t THEN x ELSE thread[u]
  BY <1>1, <1>3
<1>7. /\ setup' = setup /\ counter' = counter /\ entry' = entry /\ pool' = pool /\ node' = node /\ head' = head
  BY <1>2 DEF guarding, heap
<1>8. AllPlaced'
  <2>1. \A n : Stored(n) => Stored(n)'
    BY <1>7 DEF Stored, Linkeds
  <2>2. \A u \in Threads, n \in Nds(setup) : Holds(thread[u].call, n) => Holds(thread'[u].call, n)
    <3>1. \A n : ~Holds(thread[t].call, n)
      BY <1>2 DEF Holds, Adding, Taking
    <3> QED
      BY <1>6, <3>1
  <2>3. \A n \in Nds(setup) : Stored(n) \/ \E u \in Threads : Holds(thread[u].call, n)
    BY DEF Placement, AllPlaced
  <2> QED
    BY <1>7, <2>1, <2>2, <2>3 DEF AllPlaced
<1>9. EveryIndex'
  <2> SUFFICES ASSUME setup.kind = "queue" PROVE EveryIndex'
    BY <1>7 DEF EveryIndex
  <2>1. /\ counter = Cardinality(Numbers) /\ \A u \in Threads : thread[u].call.at # "giveBack"
        /\ \A u \in Threads : thread[u].call.at # "idle" \/ thread[u].todo # <<>> \/ thread[u].index # NoIndex
             => setup.program[u] # <<>>
    BY DEF Placement, EveryIndex
  <2>2. \A u \in Threads : thread'[u].index = thread[u].index
    BY <1>5, <1>6
  <2>3. Numbers' = Numbers
    BY <2>2 DEF Numbers
  <2>4. \A u \in Threads : thread'[u].call.at # "giveBack"
    BY <1>4, <1>5, <1>6, <2>1
  <2>5. setup.program[t] # <<>>
    BY <1>2, <2>1
  <2>6. \A u \in Threads : thread'[u].call.at # "idle" \/ thread'[u].todo # <<>> \/ thread'[u].index # NoIndex
          => setup.program[u] # <<>>
    BY <1>6, <2>1, <2>5
  <2> QED
    BY <1>7, <2>1, <2>3, <2>4, <2>6 DEF EveryIndex
<1> QED
  BY <1>8, <1>9 DEF Placement

\* A thread asks for an index; for a queue there is one.
LEMMA MovesNumbered ==
  ASSUME EnoughIndices, LockFreeInv, Placement, NEW t \in Threads, TakeIndex(t) PROVE Placement'
<1> DEFINE x == IF counter < setup.max_threads THEN counter ELSE thread[t].index
           a == IF counter < setup.max_threads THEN thread[t].call.at ELSE "giveBack"
           d == [thread[t].call EXCEPT !.at = a]
           y == [thread[t] EXCEPT !.index = x, !.call = d]
<1>1. PICK L : thread \in [Threads -> ThreadRecs(setup)] /\ Entire(L)
  BY DEF LockFreeInv
<1>2. /\ setup \in Setups /\ Indices(setup, counter, Views) /\ KindOK(setup, Views[t])
      /\ Views[t].at = thread[t].call.at /\ thread[t].call \in CallRecs(setup) /\ thread[t] \in ThreadRecs(setup)
  BY <1>1, Known, ViewFields DEF Local
<1>3. /\ thread[t].index = NoIndex /\ thread[t].call.at \in {"leave", "guard", "enqGuard", "deqGuard"}
      /\ counter' = counter + 1 /\ UNCHANGED <<setup, entry, active_hazard_pointer, heap>>
      /\ thread' = [thread EXCEPT ![t].index = x, ![t].call.at = a]
  BY DEF TakeIndex, NeedsEntry, At
<1>4. thread' = [thread EXCEPT ![t] = y]
  <2> HIDE DEF x, a
  <2> QED
    BY <1>1, <1>3
<1>5. d.at = a /\ d.mine = thread[t].call.mine /\ d.top = thread[t].call.top
  <2> HIDE DEF a
  <2> QED
    BY <1>2 DEF CallRecs
<1> HIDE DEF d
<1>6. y.index = x /\ y.call = d /\ y.todo = thread[t].todo
  <2> HIDE DEF x
  <2> QED
    BY <1>2 DEF ThreadRecs
<1> HIDE DEF y
<1>7. \A u \in Threads : thread'[u] = IF u = t THEN y ELSE thread[u]
  BY <1>1, <1>4
<1>8. setup' = setup /\ entry' = entry /\ pool' = pool /\ node' = node /\ head' = head
  BY <1>3 DEF heap
<1>9. counter \in Nat /\ setup.max_threads \in Nat
  BY <1>2, Sizes DEF Indices
<1>10. setup.kind = "queue" => counter < setup.max_threads
  <2> SUFFICES ASSUME setup.kind = "queue" PROVE counter < setup.max_threads
    OBVIOUS
  <2> DEFINE Callers == {u \in Threads : setup.program[u] # <<>>}
             More  == Numbers \cup {t}
  <2>1. counter = Cardinality(Numbers)
        /\ \A u \in Threads : thread[u].call.at # "idle" \/ thread[u].todo # <<>> \/ thread[u].index # NoIndex
             => setup.program[u] # <<>>
    BY DEF Placement, EveryIndex
  <2>2. More \subseteq Callers
    BY <1>3, <2>1 DEF Numbers
  <2>3. IsFiniteSet(Callers) /\ IsFiniteSet(Numbers) /\ t \notin Numbers
    <3>1. Callers \in SUBSET Threads /\ Numbers \in SUBSET Threads
      BY DEF Numbers
    <3> HIDE DEF Callers
    <3> QED
      BY <1>3, <3>1, ThreadsAssumption, FS_Subset DEF Numbers
  <2>4. Cardinality(Callers) <= setup.max_threads
    BY <1>2 DEF EnoughIndices
  <2> HIDE DEF Callers
  <2>5. Cardinality(More) = Cardinality(Numbers) + 1
    BY <2>3, FS_AddElement
  <2>6. Cardinality(More) <= Cardinality(Callers) /\ Cardinality(Callers) \in Nat
    BY <2>2, <2>3, FS_Subset, FS_CardinalityType
  <2> HIDE DEF More
  <2> QED
    BY <1>9, <2>1, <2>4, <2>5, <2>6
<1>11. AllPlaced'
  <2>1. \A n : Stored(n) => Stored(n)'
    BY <1>8 DEF Stored, Linkeds
  <2>2. \A n : Holds(thread[t].call, n) => Holds(d, n)
    <3>1. CASE setup.kind = "queue"
      <4>1. d.at = thread[t].call.at
        BY <1>5, <1>10, <3>1
      <4> QED
        BY <1>5, <4>1 DEF Holds
    <3>2. CASE setup.kind # "queue"
      <4>1. thread[t].call.at \in {"leave", "guard"}
        BY <1>2, <1>3, <3>2 DEF KindOK, EnqPoints, DeqPoints
      <4> QED
        BY <4>1 DEF Holds, Adding, Taking
    <3> QED
      BY <3>1, <3>2
  <2>3. \A u \in Threads, n \in Nds(setup) : Holds(thread[u].call, n) => Holds(thread'[u].call, n)
    BY <1>6, <1>7, <2>2
  <2>4. \A n \in Nds(setup) : Stored(n) \/ \E u \in Threads : Holds(thread[u].call, n)
    BY DEF Placement, AllPlaced
  <2> QED
    BY <1>8, <2>1, <2>3, <2>4 DEF AllPlaced
<1>12. EveryIndex'
  <2> SUFFICES ASSUME setup.kind = "queue" PROVE EveryIndex'
    BY <1>8 DEF EveryIndex
  <2>1. /\ counter = Cardinality(Numbers) /\ \A u \in Threads : thread[u].call.at # "giveBack"
        /\ \A u \in Threads : thread[u].call.at # "idle" \/ thread[u].todo # <<>> \/ thread[u].index # NoIndex
             => setup.program[u] # <<>>
    BY DEF Placement, EveryIndex
  <2>2. x = counter /\ a = thread[t].call.at /\ x # NoIndex
    BY <1>9, <1>10 DEF NoIndex
  <2> HIDE DEF x, a
  <2>3. Numbers' = Numbers \cup {t} /\ t \notin Numbers /\ Numbers \in SUBSET Threads
    BY <1>3, <1>6, <1>7, <2>2 DEF Numbers
  <2>4. Cardinality(Numbers \cup {t}) = Cardinality(Numbers) + 1
    BY <2>3, ThreadsAssumption, FS_Subset, FS_AddElement
  <2>5. \A u \in Threads : thread'[u].call.at = thread[u].call.at
    BY <1>5, <1>6, <1>7, <2>2
  <2>6. setup.program[t] # <<>>
    BY <1>3, <2>1
  <2>7. \A u \in Threads : thread'[u].call.at # "idle" \/ thread'[u].todo # <<>> \/ thread'[u].index # NoIndex
          => setup.program[u] # <<>>
    BY <1>7, <2>1, <2>6
  <2> QED
    BY <1>3, <1>8, <2>1, <2>3, <2>4, <2>5, <2>7 DEF EveryIndex
<1> QED
  BY <1>11, <1>12 DEF Placement

\* A thread without an index gives back its count; of a queue there is none.
LEMMA MovesBack == ASSUME LockFreeInv, Placement, NEW t \in Threads, GiveBack(t) PROVE Placement'
<1> DEFINE c == [Local(t) EXCEPT !.at = "return", !.result = "exception"]
<1>1. /\ Becomes(t, c) /\ Local(t).at = "giveBack" /\ UNCHANGED <<setup, entry, active_hazard_pointer, heap>>
  BY DEF GiveBack, Ends, At, Local
<1>2. setup' = setup /\ entry' = entry /\ pool' = pool /\ node' = node /\ head' = head
  BY <1>1 DEF heap
<1>3. Shape(c) /\ thread \in [Threads -> ThreadRecs(setup)]
  <2>1. Local(t) \in CallRecs(setup)
    BY DEF LockFreeInv, ThreadRecs, Local
  <2> QED
    BY <2>1 DEF Shape, CallRecs, LockFreeInv
<1> HIDE DEF c
<1>4. Turns(t, c)
  BY <1>1, <1>3, BecomesTurns
<1>5. \A n : ~Holds(thread[t].call, n)
  BY <1>1 DEF Holds, Adding, Taking, Local
<1>6. \A n : Stored(n) => Stored(n)'
  BY <1>2 DEF Stored, Linkeds
<1>7. AllPlaced'
  BY <1>2, <1>4, <1>5, <1>6, Placing DEF Placement
<1>8. EveryIndex'
  BY <1>1, <1>2 DEF Placement, EveryIndex, Local
<1> QED
  BY <1>7, <1>8 DEF Placement

\* Every step of the lock-free containers.
LEMMA MovesStep ==
  ASSUME EnoughIndices, LockFreeInv, LockFreeInv', Placement, NEW t \in Threads, LockFreeStep(t)
  PROVE  Placement'
<1>1. CASE HazardStep(t)
  BY <1>1, MovesBegun, MovesNumbered, MovesBack, MovesRetired, MovesFreed, UnmovedScan DEF HazardStep
<1>2. CASE Allocate(t)
  <2>1. CASE AllocateFails(t)
    <3>1. UNCHANGED <<setup, guarding, pool, node, head>>
      BY <2>1 DEF AllocateFails, heap
    <3>2. \/ At(t, "push") /\ Becomes(t, [Local(t) EXCEPT !.at = "return", !.result = "full"])
          \/ At(t, "enq") /\ Becomes(t, [Local(t) EXCEPT !.at = "return", !.result = "full"])
      BY <1>2, <2>1 DEF Allocate, AllocateFails, Ends
    <3> QED
      BY <3>1, <3>2, UnmovedFail
  <2>2. CASE \/ At(t, "push") /\ AllocateNode(t, "pushTop")
             \/ At(t, "enq") /\ AllocateNode(t, "enqTail")
    BY <2>2, MovesAllocated
  <2> QED
    BY <1>2, <2>1, <2>2 DEF Allocate
<1>3. CASE PushTop(t)
  BY <1>3, MovesPushTop
<1>4. CASE PushCas(t)
  <2>1. CASE head = Local(t).top
    <3>1. /\ At(t, "pushCas") /\ head' = Local(t).mine /\ Ends(t, "done")
          /\ UNCHANGED <<setup, guarding, pool, node, tail>>
      BY <1>4, <2>1 DEF PushCas
    <3> QED
      BY <2>1, <3>1, MovesPushed
  <2>2. CASE head # Local(t).top
    <3>1. /\ At(t, "pushCas") /\ Becomes(t, [Local(t) EXCEPT !.at = "pushTop"])
          /\ UNCHANGED <<setup, guarding, pool, node, head>>
      BY <1>4, <2>2 DEF PushCas, Goes
    <3> QED
      BY <3>1, UnmovedFail
  <2> QED
    BY <2>1, <2>2
<1>5. CASE PopTop(t) \/ PopGuard(t) \/ PopCheck(t) \/ PopNext(t) \/ PopUnguard(t)
  BY <1>5, UnmovedPop
<1>6. CASE PopCas(t)
  <2>1. CASE head = Local(t).top
    <3>1. /\ At(t, "popCas") /\ head' = Local(t).next /\ UNCHANGED <<setup, guarding, pool, node, tail>>
          /\ Becomes(t, [Local(t) EXCEPT !.at = "popTake", !.result = node[Local(t).top].element])
      BY <1>6, <2>1 DEF PopCas
    <3> QED
      BY <2>1, <3>1, MovesPopDeq
  <2>2. CASE head # Local(t).top
    <3>1. /\ At(t, "popCas") /\ Becomes(t, [Local(t) EXCEPT !.at = "popAgain"])
          /\ UNCHANGED <<setup, guarding, pool, node, head>>
      BY <1>6, <2>2 DEF PopCas, Goes
    <3> QED
      BY <3>1, UnmovedFail
  <2> QED
    BY <2>1, <2>2
<1>7. CASE EnqTail(t) \/ EnqGuard(t) \/ EnqCheck(t) \/ EnqNext(t) \/ EnqAgain(t) \/ EnqSwing(t) \/ EnqDone(t)
  BY <1>7, UnmovedEnq
<1>8. CASE EnqCas(t)
  <2>1. CASE node[Local(t).last].next = NULL
    <3>1. /\ At(t, "enqCas") /\ node' = [node EXCEPT ![Local(t).last].next = Local(t).mine]
          /\ Becomes(t, [Local(t) EXCEPT !.at = "enqDone", !.result = "done"])
          /\ UNCHANGED <<setup, guarding, pool, head, tail>>
      BY <1>8, <2>1 DEF EnqCas
    <3> QED
      BY <2>1, <3>1, MovesEnqueued
  <2>2. CASE node[Local(t).last].next # NULL
    <3>1. /\ At(t, "enqCas") /\ Becomes(t, [Local(t) EXCEPT !.at = "enqTail"])
          /\ UNCHANGED <<setup, guarding, pool, node, head>>
      BY <1>8, <2>2 DEF EnqCas, Goes
    <3> QED
      BY <3>1, UnmovedFail
  <2> QED
    BY <2>1, <2>2
<1>9. CASE \/ DeqHead(t) \/ DeqGuard(t) \/ DeqCheck(t) \/ DeqTail(t) \/ DeqNext(t)
           \/ DeqGuardNext(t) \/ DeqAgain(t) \/ DeqSwing(t) \/ DeqElement(t)
  BY <1>9, UnmovedDeq
<1>10. CASE DeqCas(t)
  <2>1. CASE head = Local(t).top
    <3>1. /\ At(t, "deqCas") /\ head' = Local(t).next /\ UNCHANGED <<setup, guarding, pool, node, tail>>
          /\ Becomes(t, [Local(t) EXCEPT !.at = "retire", !.result = Local(t).value, !.value = Nothing])
      BY <1>10, <2>1 DEF DeqCas
    <3> QED
      BY <2>1, <3>1, MovesPopDeq
  <2>2. CASE head # Local(t).top
    <3>1. /\ At(t, "deqCas") /\ Becomes(t, [Local(t) EXCEPT !.at = "deq", !.value = Nothing])
          /\ UNCHANGED <<setup, guarding, pool, node, head>>
      BY <1>10, <2>2 DEF DeqCas
    <3> QED
      BY <3>1, UnmovedFail
  <2> QED
    BY <2>1, <2>2
<1> QED
  BY <1>1, <1>2, <1>3, <1>4, <1>5, <1>6, <1>7, <1>8, <1>9, <1>10 DEF LockFreeStep

\* Nothing moves while the other containers are used.
LEMMA MovesElse == ASSUME Placement, UNCHANGED hvars PROVE Placement'
<1>1. /\ setup' = setup /\ counter' = counter /\ entry' = entry /\ pool' = pool /\ node' = node /\ head' = head
      /\ thread' = thread
  BY DEF hvars, guarding, heap
<1>2. AllPlaced'
  <2>1. \A n : Stored(n) => Stored(n)'
    BY <1>1 DEF Stored, Linkeds
  <2> QED
    BY <1>1, <2>1 DEF Placement, AllPlaced
<1>3. EveryIndex'
  BY <1>1 DEF Placement, EveryIndex, Numbers
<1> QED
  BY <1>2, <1>3 DEF Placement

\* At first all nodes are in the pool, but for the first one of a queue.
LEMMA PlacedFirst == ASSUME HazardInit PROVE Placement
<1>1. PICK L : Entire(L)
  BY BeginsInv DEF LockFreeInv
<1>2. Linked(setup, node, head, L) /\ Linkeds = Range(L) /\ NULL \notin Nds(setup)
  BY <1>1, ListKnown
<1>3. head # NULL => head \in Linkeds
  BY <1>2, FirstNodes
<1>4. pool = Nds(setup) \ {head}
  BY DEF HazardInit, Nodes, Nds
<1>5. AllPlaced
  BY <1>2, <1>3, <1>4 DEF AllPlaced, Stored
<1>6. \A t \in Threads : /\ thread[t].index = NoIndex /\ thread[t].todo = setup.program[t]
                         /\ thread[t].call.at = "idle"
  BY DEF HazardInit, Idle
<1>7. Numbers = {} /\ counter = 0
  BY <1>6 DEF Numbers, HazardInit
<1>8. EveryIndex
  BY <1>6, <1>7, FS_EmptySet DEF EveryIndex
<1> QED
  BY <1>5, <1>8 DEF Placement

\* Every node is somewhere, in every behaviour.
LEMMA PlacementInvariant == ASSUME EnoughIndices PROVE Spec => []Placement
<1>1. Init => Placement
  BY PlacedFirst DEF Init
<1>2. LockFreeInv /\ LockFreeInv' /\ Placement /\ [Next]_vars => Placement'
  <2> SUFFICES ASSUME LockFreeInv, LockFreeInv', Placement, [Next]_vars PROVE Placement'
    OBVIOUS
  <2>1. CASE \E t \in Threads : LockFreeStep(t)
    BY <2>1, MovesStep
  <2>2. CASE UNCHANGED hvars
    BY <2>2, MovesElse
  <2>3. [Next]_vars => (\E t \in Threads : LockFreeStep(t)) \/ UNCHANGED hvars
    BY DEF Next, vars
  <2> QED
    BY <2>1, <2>2, <2>3
<1> QED
  BY <1>1, <1>2, LockFreeInvariant, PTL DEF Spec

\* The nodes that a call holds are those that NodesAccounted gives to its thread.
LEMMA HeldMine ==
  ASSUME LockFreeInv, NEW t \in Threads, NEW n \in Nds(setup), Holds(Local(t), n)
  PROVE  n \in Mine(t)
<1>1. PICK L : thread \in [Threads -> ThreadRecs(setup)] /\ Entire(L)
  BY DEF LockFreeInv
<1>2. KindOK(setup, Views[t]) /\ Views[t].at = Local(t).at /\ Views[t].result = Local(t).result
      /\ NULL \notin Nds(setup)
  BY <1>1, Known, ViewFields
<1>3. CASE Local(t).at \in Adding /\ Local(t).mine = n
  <2>1. Local(t).result = Nothing
    BY <1>2, <1>3 DEF KindOK, Adding, StackPoints, EnqPoints
  <2> QED
    BY <1>2, <1>3, <2>1 DEF Mine
<1>4. CASE Local(t).at \in Taking /\ Local(t).top = n
  BY <1>2, <1>4 DEF Mine, Taking, At, Local
<1> QED
  BY <1>3, <1>4 DEF Holds

\* No node is lost, each is in one place, and no retired list overflows (NodesAccounted), if
\* there are as many indices as threads that use a queue.  A stack needs no such assumption: a
\* TryPop that gets no index has not taken anything yet.
THEOREM LockFreeNodes == EnoughIndices => (Spec => []NodesAccounted)
<1> SUFFICES ASSUME EnoughIndices PROVE Spec => []NodesAccounted
  OBVIOUS
<1>1. LockFreeInv /\ Placement => NodesAccounted
  <2> SUFFICES ASSUME LockFreeInv, Placement PROVE NodesAccounted
    OBVIOUS
  <2>1. PICK L : thread \in [Threads -> ThreadRecs(setup)] /\ Entire(L)
    BY DEF LockFreeInv
  <2>2. /\ Linked(setup, node, head, L) /\ Linkeds = Range(L) /\ NULL \notin Nds(setup)
    BY <2>1, ListKnown
  <2>3. InUse = Linkeds
    BY ChainSame DEF InUse, Linkeds
  <2>4. /\ OnePlace(setup, entry, pool, L, Views) /\ pool \in SUBSET Nds(setup)
        /\ entry \in [Ents(setup) -> EntryRecs(setup)]
    BY <2>1 DEF Entire, Parts, Orderly, Shapes, HeapOK
  <2>5. Nodes = Nds(setup) /\ Entries = Ents(setup)
    BY DEF Nodes, Nds, Entries, Ents
  <2>6. \A n : n \in Retired <=> \E i \in Ents(setup) : Rtd(entry, i, n)
    BY <2>5 DEF Retired, Rtd, Range
  <2>7. \A i \in Ents(setup) : \A n : Rtd(entry, i, n) => n \in Nds(setup)
    <3> SUFFICES ASSUME NEW i \in Ents(setup) PROVE \A k \in DOMAIN entry[i].retired : entry[i].retired[k] \in Nds(setup)
      BY DEF Rtd
    <3>1. entry[i].retired \in Seq(Nds(setup))
      BY <2>4 DEF EntryRecs
    <3> QED
      BY <3>1
  <2>8. Range(L) \subseteq Nds(setup)
    BY <2>2 DEF Linked, Range
  <2>9. \A t \in Threads : Mine(t) \subseteq Nds(setup)
    <3> SUFFICES ASSUME NEW t \in Threads PROVE Mine(t) \subseteq Nds(setup)
      OBVIOUS
    <3>1. Local(t).mine \in N0(setup) /\ Local(t).top \in N0(setup)
      BY <2>1 DEF Local, ThreadRecs, CallRecs
    <3> QED
      BY <3>1 DEF Mine, N0
  <2>10. pool \cup InUse \cup Retired \cup UNION {Mine(t) : t \in Threads} \subseteq Nds(setup)
    BY <2>2, <2>3, <2>4, <2>6, <2>7, <2>8, <2>9
  <2>11. ASSUME NEW n \in Nds(setup)
         PROVE  n \in pool \cup InUse \cup Retired \cup UNION {Mine(t) : t \in Threads}
    <3>1. Stored(n) \/ \E t \in Threads : Holds(Local(t), n)
      BY DEF Placement, AllPlaced, Local
    <3>2. CASE Stored(n)
      BY <2>3, <2>6, <3>2 DEF Stored
    <3>3. CASE \E t \in Threads : Holds(Local(t), n)
      <4>1. PICK t \in Threads : n \in Mine(t)
        BY <3>3, HeldMine
      <4> QED
        BY <4>1
    <3> QED
      BY <3>1, <3>2, <3>3
  <2>12. pool \cap (InUse \cup Retired) = {} /\ InUse \cap Retired = {}
    BY <2>2, <2>3, <2>4, <2>6, <2>7 DEF OnePlace
  <2>13. \A i, j \in Entries : \A k \in DOMAIN entry[i].retired, l \in DOMAIN entry[j].retired :
           entry[i].retired[k] = entry[j].retired[l] => i = j /\ k = l
    BY <2>4, <2>5 DEF OnePlace
  <2> QED
    BY <2>5, <2>10, <2>11, <2>12, <2>13 DEF NodesAccounted
<1> QED
  BY <1>1, LockFreeInvariant, PlacementInvariant, PTL

-----------------------------------------------------------------------------
(* Every call takes effect at once                                         *)

\* The points of a call that has taken effect.
Past == {"popTake", "retire", "return", "enqDone", "help"} \cup HelpPoints

\* What a call c says of its operation: no call, a value to put, the value of the new node and
\* of the node to be taken, an empty queue that was seen, a result.
Says(c, nd) ==
  /\ c.at = "idle" => c.op = "idle" /\ c.value = Nothing /\ c.result = Nothing /\ c.saw = FALSE
  /\ c.at # "idle" => c.op # "idle"
  /\ c.op = "put" => c.value \in Values
  /\ c.at \in Adding => nd[c.mine].element = c.value
  /\ c.at = "deqCas" => nd[c.next].element = c.value
  /\ c.at \in {"deqGuardNext", "deqAgain"} /\ c.next = NULL => c.saw = TRUE
  /\ c.at \in Past => c.op = "leave" \/ c.result # Nothing

\* What holds of the calls and of the contents besides the invariant of the nodes.
Linear == (\A t \in Threads : Says(Local(t), node)) /\ (\A k \in DOMAIN Contents : Contents[k] \in Values)

\* What LinearContainer sees of a call.
Shown(c) ==
  IF c.op = "leave" THEN [op |-> "idle", value |-> Nothing, result |-> Nothing, saw |-> FALSE]
  ELSE [op |-> c.op, value |-> IF c.op = "put" THEN c.value ELSE Nothing,
        result |-> c.result, saw |-> c.saw]

\* A call that has noted that the container is empty.
Noted(c) == [c EXCEPT !.saw = TRUE]

\* A record with the fields that calls have.
Whole(c) == \A f \in {"at", "op", "value", "result", "saw", "mine", "next"} : f \in DOMAIN c

\* The calls are such records.
LEMMA WholeCalls == ASSUME NEW s, NEW c \in CallRecs(s) PROVE Whole(c)
  BY DEF Whole, CallRecs

\* What is shown of the threads.
LEMMA CallsShown == /\ \A t \in Threads : Calls[t] = Shown(thread[t].call)
                    /\ \A t \in Threads : Calls'[t] = Shown(thread'[t].call)
  BY DEF Calls, CallOf, Shown, Local

\* What is shown of a call that has noted the empty container.
LEMMA ShownNoted ==
  ASSUME NEW c, Whole(c), c.op = "get"
  PROVE  /\ Shown(Noted(c)) = [Shown(c) EXCEPT !.saw = TRUE] /\ Shown(c).op = "get"
         /\ Noted(c).op = c.op
<1>1. Noted(c).op = c.op /\ Noted(c).result = c.result /\ Noted(c).saw = TRUE
  BY DEF Noted, Whole
<1>2. Shown(Noted(c)) = [op |-> c.op, value |-> Nothing, result |-> c.result, saw |-> TRUE]
  BY <1>1 DEF Shown
<1>3. \A b : [Shown(c) EXCEPT !.saw = b] = [op |-> c.op, value |-> Nothing, result |-> c.result, saw |-> b]
  BY DEF Shown
<1>4. [Shown(c) EXCEPT !.saw = TRUE] = [op |-> c.op, value |-> Nothing, result |-> c.result, saw |-> TRUE]
  BY <1>3
<1>5. Shown(c).op = "get"
  BY DEF Shown
<1> QED
  BY <1>1, <1>2, <1>4, <1>5

\* A step of a call is a step of the abstract call.
LEMMA BecomesShown ==
  ASSUME thread \in [Threads -> ThreadRecs(setup)], NEW t \in Threads, NEW c, Becomes(t, c), Whole(c)
  PROVE  /\ C!Becomes(t, Shown(c))
         /\ \A u \in Threads : u # t => thread'[u].call \in {thread[u].call, Noted(thread[u].call)}
                                        /\ (thread[u].call.op # "get" => thread'[u].call = thread[u].call)
         /\ thread'[t].call = IF thread[t].call.op = "get" /\ Contents = <<>> /\ c.op = "get"
                              THEN Noted(c) ELSE c
<1>1. \A u \in Threads : thread[u] \in ThreadRecs(setup) /\ thread[u].call \in CallRecs(setup)
  BY DEF ThreadRecs
<1> DEFINE saw(u) == thread[u].call.op = "get" /\ Contents = <<>>
           r(u)   == IF u = t THEN c ELSE thread[u].call
           d(u)   == IF saw(u) /\ r(u).op = "get" THEN Noted(r(u)) ELSE r(u)
<1>2. \A u \in Threads : thread'[u] = [thread[u] EXCEPT !.call = d(u)]
  BY ZenonT(30) DEF Becomes, Noted
<1>3. \A u \in Threads : Whole(r(u)) /\ Whole(thread[u].call)
  BY <1>1, WholeCalls
<1>4. \A u \in Threads : thread'[u].call = d(u)
  <2> HIDE DEF d
  <2>1. \A x \in ThreadRecs(setup) : \A e : [x EXCEPT !.call = e].call = e
    BY DEF ThreadRecs
  <2> TAKE u \in Threads
  <2>2. thread[u] \in ThreadRecs(setup) /\ thread'[u] = [thread[u] EXCEPT !.call = d(u)]
    BY <1>1, <1>2
  <2> QED
    BY <2>1, <2>2
<1>5. ASSUME NEW u \in Threads
      PROVE  \/ Calls'[u] = (IF u = t THEN Shown(c) ELSE Calls[u])
             \/ /\ Calls[u].op = "get" /\ (IF u = t THEN Shown(c) ELSE Calls[u]).op = "get" /\ Contents = <<>>
                /\ Calls'[u] = [(IF u = t THEN Shown(c) ELSE Calls[u]) EXCEPT !.saw = TRUE]
  <2>1. Shown(r(u)) = IF u = t THEN Shown(c) ELSE Calls[u]
    BY CallsShown
  <2>2. Calls'[u] = Shown(d(u)) /\ Calls[u] = Shown(thread[u].call)
    BY <1>4, CallsShown
  <2>3. Whole(r(u)) /\ Whole(thread[u].call)
    BY <1>3
  <2> HIDE DEF r
  <2>4. CASE saw(u) /\ r(u).op = "get"
    <3>1. Shown(d(u)) = [Shown(r(u)) EXCEPT !.saw = TRUE] /\ Shown(r(u)).op = "get"
          /\ Shown(thread[u].call).op = "get"
      BY <2>3, <2>4, ShownNoted
    <3> QED
      BY <2>1, <2>2, <2>4, <3>1
  <2>5. CASE ~(saw(u) /\ r(u).op = "get")
    BY <2>1, <2>2, <2>5
  <2> QED
    BY <2>4, <2>5
<1>6. C!Becomes(t, Shown(c))
  BY <1>5 DEF C!Becomes
<1> QED
  BY <1>4, <1>6

\* Noting the empty container is nothing that a call says of the rest.
LEMMA SaysNoted ==
  ASSUME NEW c, Whole(c), NEW nd, Says(c, nd), c.op = "get"
  PROVE  Says(Noted(c), nd)
<1> DEFINE d == Noted(c)
<1>1. /\ d.at = c.at /\ d.op = c.op /\ d.value = c.value /\ d.result = c.result /\ d.mine = c.mine
      /\ d.next = c.next /\ d.saw = TRUE
  BY DEF Noted, Whole
<1> HIDE DEF d
<1> QED
  BY <1>1 DEF Says, d

\* A node that is kept by a guard is not in the pool.
LEMMA SafeKept ==
  ASSUME NEW L, Entire(L), NEW t \in Threads, NEW pos, NEW n, Safe(setup, entry, L, Views, t, pos, n)
  PROVE  n \in Nds(setup) /\ n \notin pool
<1>1. OnePlace(setup, entry, pool, L, Views)
  BY Known
<1>2. n \in Nds(setup) /\ Live(setup, entry, L, Views, n)
  BY DEF Safe
<1>3. \A u \in Threads : Views[u].at \in Taking /\ Views[u].top = n => Holds(Views[u], n)
  BY DEF Holds
<1> QED
  BY <1>1, <1>2, <1>3 DEF Live, OnePlace

\* The nodes of which a call says something are not in the pool.
LEMMA SaidNodes ==
  ASSUME LockFreeInv, NEW t \in Threads
  PROVE  /\ Local(t) \in CallRecs(setup)
         /\ Local(t).at \in Adding => Local(t).mine \in Nds(setup) \ pool
         /\ Local(t).at = "deqCas" => Local(t).next \in Nds(setup) \ pool
<1>1. PICK L : thread \in [Threads -> ThreadRecs(setup)] /\ Entire(L)
  BY DEF LockFreeInv
<1>2. /\ Local(t) \in CallRecs(setup) /\ Views[t].at = Local(t).at /\ Views[t].mine = Local(t).mine
      /\ Views[t].next = Local(t).next
  BY <1>1, ViewFields
<1>3. /\ OnePlace(setup, entry, pool, L, Views) /\ PushOK(setup, node, Views[t])
      /\ DeqOK(setup, entry, L, node, head, tail, Views, t)
  BY <1>1, Known
<1>4. Local(t).at \in Adding => Local(t).mine \in Nds(setup) \ pool
  <2> SUFFICES ASSUME Views[t].at \in Adding PROVE Views[t].mine \in Nds(setup) \ pool
    BY <1>2
  <2>1. Views[t].mine \in Nds(setup) /\ Holds(Views[t], Views[t].mine)
    BY <1>3 DEF PushOK, Holds
  <2> QED
    BY <1>3, <2>1 DEF OnePlace
<1>5. Local(t).at = "deqCas" => Local(t).next \in Nds(setup) \ pool
  <2> SUFFICES ASSUME Views[t].at = "deqCas" PROVE Views[t].next \in Nds(setup) \ pool
    BY <1>2
  <2>1. Safe(setup, entry, L, Views, t, 1, Views[t].next)
    BY <1>3 DEF DeqOK
  <2> QED
    BY <1>1, <2>1, SafeKept
<1> QED
  BY <1>2, <1>4, <1>5

\* What the other calls say stays true if the values of the nodes in use stay.
LEMMA OthersSay ==
  ASSUME LockFreeInv, NEW t \in Threads, NEW c, Becomes(t, c), Whole(c), Linear,
         \A n \in Nds(setup) \ pool : node'[n].element = node[n].element,
         Says(thread'[t].call, node')
  PROVE  \A u \in Threads : Says(Local(u)', node')
<1> SUFFICES ASSUME NEW u \in Threads, u # t PROVE Says(Local(u)', node')
  BY DEF Local
<1> DEFINE x == Local(u)
<1>1. Says(x, node) /\ Whole(x)
  BY SaidNodes, WholeCalls DEF Linear
<1>2. /\ x.at \in Adding => x.mine \in Nds(setup) \ pool
      /\ x.at = "deqCas" => x.next \in Nds(setup) \ pool
  BY SaidNodes
<1>3. Local(u)' \in {x, Noted(x)} /\ (x.op # "get" => Local(u)' = x)
  <2>1. thread \in [Threads -> ThreadRecs(setup)]
    BY DEF LockFreeInv
  <2> QED
    BY <2>1, BecomesShown DEF Local
<1> HIDE DEF x
<1>4. Says(x, node')
  BY <1>1, <1>2 DEF Says
<1>5. x.op = "get" => Says(Noted(x), node')
  BY <1>1, <1>4, SaysNoted
<1> QED
  BY <1>3, <1>4, <1>5

\* A step of a call after which the container has the same values.
LEMMA SameContents ==
  ASSUME LockFreeInv, NEW t \in Threads, NEW c, Becomes(t, c), Whole(c), Linear,
         \A n \in Nds(setup) \ pool : node'[n].element = node[n].element,
         Contents' = Contents, Says(c, node')
  PROVE  Linear'
<1>1. thread \in [Threads -> ThreadRecs(setup)]
  BY DEF LockFreeInv
<1>2. thread'[t].call \in {c, Noted(c)} /\ (c.op # "get" => thread'[t].call = c)
  BY <1>1, BecomesShown
<1>3. c.op = "get" => Says(Noted(c), node')
  BY SaysNoted
<1>4. Says(thread'[t].call, node')
  BY <1>2, <1>3
<1>5. \A u \in Threads : Says(Local(u)', node')
  BY <1>4, OthersSay
<1> QED
  BY <1>5 DEF Linear

-----------------------------------------------------------------------------
(* The values in the container                                             *)

\* Contents, as a function of the nodes.
ContentsOf(s, nd, h) ==
  LET ns == ChainOf(s, nd, IF s.kind = "stack" THEN h ELSE nd[h].next)
  IN  [k \in DOMAIN ns |-> nd[ns[k]].element]

\* The dummy of a queue.
Skip(s) == IF s.kind = "stack" THEN 0 ELSE 1

\* The values of the nodes of a list, without the dummy.
Elements(s, nd, L) == [k \in 1..(Len(L) - Skip(s)) |-> nd[L[k + Skip(s)]].element]

\* Contents is that function of the nodes, before and after a step.
LEMMA ContentsSame == /\ Contents = ContentsOf(setup, node, head)
                      /\ Contents' = ContentsOf(setup', node', head')
<1>1. Contents = ContentsOf(setup, node, head)
  BY ChainSame DEF Contents, ContentsOf
<1>2. \A n : Chain(n)' = ChainOf(setup', node', n)
  BY DEF Chain, ChainOf, Nodes, Nds
<1>3. Contents' = ContentsOf(setup', node', head')
  BY <1>2 DEF Contents, ContentsOf
<1> QED
  BY <1>1, <1>3

\* The length and the places of these values.
LEMMA ElementsType ==
  ASSUME NEW s, NEW nd \in [Nds(s) -> NodeRecs(s)], NEW L \in Seq(Nds(s)), Skip(s) <= Len(L)
  PROVE  /\ Skip(s) \in Nat /\ Len(L) \in Nat /\ Elements(s, nd, L) \in Seq(Values \cup {Nothing})
         /\ Len(Elements(s, nd, L)) = Len(L) - Skip(s)
         /\ \A k \in 1..(Len(L) - Skip(s)) : /\ k + Skip(s) \in 1..Len(L)
                                            /\ Elements(s, nd, L)[k] = nd[L[k + Skip(s)]].element
<1>1. Skip(s) \in {0, 1} /\ Len(L) \in Nat
  BY DEF Skip
<1>2. \A k \in 1..(Len(L) - Skip(s)) : k + Skip(s) \in 1..Len(L)
  BY <1>1
<1>3. \A k \in 1..Len(L) : nd[L[k]].element \in Values \cup {Nothing}
  BY DEF NodeRecs
<1>4. Len(L) - Skip(s) \in Nat
  BY <1>1
<1>5. \A k \in 1..(Len(L) - Skip(s)) : nd[L[k + Skip(s)]].element \in Values \cup {Nothing}
  BY <1>2, <1>3
<1> DEFINE n == Len(L) - Skip(s)
           f(k) == nd[L[k + Skip(s)]].element
<1>6. Elements(s, nd, L) = [k \in 1..n |-> f(k)]
  BY DEF Elements
<1>7. n \in Nat /\ \A k \in 1..n : f(k) \in Values \cup {Nothing}
  BY <1>4, <1>5
<1> HIDE DEF n, f
<1>8. /\ Elements(s, nd, L) \in Seq(Values \cup {Nothing}) /\ Len(Elements(s, nd, L)) = n
      /\ \A k \in 1..n : Elements(s, nd, L)[k] = f(k)
  BY <1>6, <1>7
<1> QED
  BY <1>1, <1>2, <1>8 DEF n, f

\* The values of the list from head on.
LEMMA ElementsOf ==
  ASSUME NEW s \in Setups, NEW nd \in [Nds(s) -> NodeRecs(s)], NEW h, NEW L, Linked(s, nd, h, L),
         NULL \notin Nds(s), Skip(s) <= Len(L)
  PROVE  ContentsOf(s, nd, h) = Elements(s, nd, L)
<1>1. L \in Seq(Nds(s)) /\ Len(L) \in Nat /\ DOMAIN L = 1..Len(L)
  BY DEF Linked
<1>2. CASE s.kind = "stack"
  <2>1. ChainOf(s, nd, h) = L
    BY ChainIs
  <2>2. Elements(s, nd, L) = [k \in 1..Len(L) |-> nd[L[k]].element]
    <3>1. Skip(s) = 0 /\ Len(L) - 0 = Len(L) /\ \A k \in 1..Len(L) : k + 0 = k
      BY <1>1, <1>2 DEF Skip
    <3> QED
      BY <3>1 DEF Elements
  <2> QED
    BY <1>1, <1>2, <2>1, <2>2 DEF ContentsOf
<1>3. CASE s.kind # "stack"
  <2>0. Skip(s) = 1
    BY <1>3 DEF Skip
  <2>a. Len(L) # 0 /\ 1 \in 1..Len(L)
    BY <1>1, <2>0
  <2>b. h = L[1]
    BY <2>a DEF Linked
  <2>c. L[1] \in Nds(s)
    BY <1>1, <2>a
  <2>1. Len(L) # 0 /\ h = L[1] /\ h \in Nds(s)
    BY <2>a, <2>b, <2>c
  <2>2. Linked(s, nd, nd[h].next, Tail(L))
    BY <2>1, LinkedTail
  <2>3. ChainOf(s, nd, nd[h].next) = Tail(L)
    BY <2>2, ChainIs
  <2>4. DOMAIN Tail(L) = 1..(Len(L) - 1) /\ \A k \in 1..(Len(L) - 1) : Tail(L)[k] = L[k + 1]
    BY <1>1, <2>1
  <2> QED
    BY <1>3, <2>0, <2>3, <2>4 DEF ContentsOf, Elements
<1> QED
  BY <1>2, <1>3

\* A list whose nodes keep their values.
LEMMA ElementsSame ==
  ASSUME NEW s, NEW nd \in [Nds(s) -> NodeRecs(s)], NEW nd2, NEW L \in Seq(Nds(s)), Skip(s) <= Len(L),
         \A n \in Range(L) : nd2[n].element = nd[n].element
  PROVE  Elements(s, nd2, L) = Elements(s, nd, L)
<1>1. Len(L) \in Nat /\ \A k \in 1..Len(L) : L[k] \in Range(L)
  BY DEF Range
<1>2. \A k \in 1..(Len(L) - Skip(s)) : k + Skip(s) \in 1..Len(L)
  BY ElementsType
<1>3. \A k \in 1..(Len(L) - Skip(s)) : nd2[L[k + Skip(s)]].element = nd[L[k + Skip(s)]].element
  BY <1>1, <1>2
<1> QED
  BY <1>3 DEF Elements

\* A node in front of the list of a stack.
LEMMA ElementsPush ==
  ASSUME NEW s, s.kind = "stack", NEW nd \in [Nds(s) -> NodeRecs(s)], NEW L \in Seq(Nds(s)), NEW m \in Nds(s)
  PROVE  Elements(s, nd, <<m>> \o L) = <<nd[m].element>> \o Elements(s, nd, L)
<1> DEFINE K == <<m>> \o L
           T == Values \cup {Nothing}
           x == nd[m].element
           e == Elements(s, nd, L)
           A == Elements(s, nd, K)
<1>1. Len(L) \in Nat /\ K \in Seq(Nds(s)) /\ Len(K) = Len(L) + 1 /\ K[1] = m
      /\ \A k \in 1..Len(L) : K[k + 1] = L[k]
  OBVIOUS
<1>2. Skip(s) = 0 /\ x \in T
  BY DEF Skip, NodeRecs
<1>3. e \in Seq(T) /\ Len(e) = Len(L) /\ \A k \in 1..Len(L) : e[k] = nd[L[k]].element
  <2>1. \A k \in 1..Len(L) : k + 0 = k
    OBVIOUS
  <2> QED
    BY <1>1, <1>2, <2>1, ElementsType
<1>4. A \in Seq(T) /\ Len(A) = Len(K) /\ \A k \in 1..Len(K) : A[k] = nd[K[k]].element
  <2>1. \A k \in 1..Len(K) : k + 0 = k
    BY <1>1
  <2> HIDE DEF K
  <2> QED
    BY <1>1, <1>2, <2>1, ElementsType
<1> DEFINE B == <<x>> \o e
<1> HIDE DEF K, e, A, x
<1>5. /\ B \in Seq(T) /\ Len(B) = Len(L) + 1 /\ B[1] = x /\ \A k \in 1..Len(L) : B[k + 1] = e[k]
  BY <1>1, <1>2, <1>3
<1> HIDE DEF B, T
<1>6. ASSUME NEW k \in 1..Len(A) PROVE A[k] = B[k]
  <2>1. CASE k = 1
    BY <1>1, <1>4, <1>5, <2>1 DEF x
  <2>2. CASE k # 1
    <3>1. k - 1 \in 1..Len(L) /\ (k - 1) + 1 = k
      BY <1>1, <1>4, <2>2
    <3>2. B[k] = e[k - 1] /\ K[k] = L[k - 1]
      BY <1>1, <1>5, <3>1
    <3> QED
      BY <1>3, <1>4, <3>1, <3>2
  <2> QED
    BY <2>1, <2>2
<1>7. Len(A) = Len(B)
  BY <1>1, <1>4, <1>5
<1>8. A = B
  BY <1>4, <1>5, <1>6, <1>7, SeqEqual
<1> QED
  BY <1>8 DEF A, B, K, x, e

\* A node at the end of the list.
LEMMA ElementsAppend ==
  ASSUME NEW s, NEW nd \in [Nds(s) -> NodeRecs(s)], NEW L \in Seq(Nds(s)), NEW m \in Nds(s), Skip(s) <= Len(L)
  PROVE  Elements(s, nd, Append(L, m)) = Append(Elements(s, nd, L), nd[m].element)
<1> DEFINE K == Append(L, m)
           T == Values \cup {Nothing}
           x == nd[m].element
           e == Elements(s, nd, L)
           A == Elements(s, nd, K)
           d == Skip(s)
<1>1. Len(L) \in Nat /\ K \in Seq(Nds(s)) /\ Len(K) = Len(L) + 1 /\ K[Len(L) + 1] = m
      /\ \A k \in 1..Len(L) : K[k] = L[k]
  OBVIOUS
<1>2. x \in T /\ d \in Nat /\ d <= Len(K)
  BY <1>1 DEF NodeRecs, Skip
<1>3. /\ e \in Seq(T) /\ Len(e) = Len(L) - d
      /\ \A k \in 1..(Len(L) - d) : k + d \in 1..Len(L) /\ e[k] = nd[L[k + d]].element
  BY ElementsType
<1>4. /\ A \in Seq(T) /\ Len(A) = Len(K) - d
      /\ \A k \in 1..(Len(K) - d) : A[k] = nd[K[k + d]].element
  <2> HIDE DEF K
  <2> QED
    BY <1>1, <1>2, ElementsType
<1> DEFINE B == Append(e, x)
<1> HIDE DEF K, e, A, x, d
<1>5. /\ B \in Seq(T) /\ Len(B) = Len(e) + 1 /\ B[Len(e) + 1] = x /\ \A k \in 1..Len(e) : B[k] = e[k]
  BY <1>2, <1>3
<1> HIDE DEF B, T
<1>6. ASSUME NEW k \in 1..Len(A) PROVE A[k] = B[k]
  <2>0. Len(A) = Len(L) + 1 - d /\ Len(e) = Len(L) - d
    BY <1>1, <1>2, <1>3, <1>4
  <2>1. CASE k = Len(e) + 1
    <3>1. k + d = Len(L) + 1 /\ k \in 1..(Len(K) - d)
      BY <1>1, <1>2, <2>0, <2>1
    <3> QED
      BY <1>1, <1>4, <1>5, <2>1, <3>1 DEF x
  <2>2. CASE k # Len(e) + 1
    <3>1. k \in 1..(Len(L) - d) /\ k \in 1..Len(e) /\ k \in 1..(Len(K) - d)
      BY <1>1, <1>2, <2>0, <2>2
    <3>2. K[k + d] = L[k + d]
      BY <1>1, <1>3, <3>1
    <3> QED
      BY <1>3, <1>4, <1>5, <3>1, <3>2
  <2> QED
    BY <2>1, <2>2
<1>7. Len(A) = Len(B)
  BY <1>1, <1>2, <1>3, <1>4, <1>5
<1>8. A = B
  BY <1>4, <1>5, <1>6, <1>7, SeqEqual
<1> QED
  BY <1>8 DEF A, B, K, x, e

\* The first node leaves the list.
LEMMA ElementsTail ==
  ASSUME NEW s, NEW nd \in [Nds(s) -> NodeRecs(s)], NEW L \in Seq(Nds(s)), Skip(s) + 1 <= Len(L)
  PROVE  /\ Elements(s, nd, Tail(L)) = Tail(Elements(s, nd, L))
         /\ Elements(s, nd, L) # <<>> /\ Head(Elements(s, nd, L)) = nd[L[1 + Skip(s)]].element
<1> DEFINE K == Tail(L)
           T == Values \cup {Nothing}
           e == Elements(s, nd, L)
           A == Elements(s, nd, K)
           d == Skip(s)
<1>0. d \in {0, 1} /\ Len(L) \in Nat
  BY DEF Skip
<1>1. L # <<>> /\ K \in Seq(Nds(s)) /\ Len(K) = Len(L) - 1
      /\ \A k \in 1..(Len(L) - 1) : K[k] = L[k + 1]
  BY <1>0
<1>2. d <= Len(K) /\ d <= Len(L)
  BY <1>0, <1>1
<1>3. /\ e \in Seq(T) /\ Len(e) = Len(L) - d
      /\ \A k \in 1..(Len(L) - d) : k + d \in 1..Len(L) /\ e[k] = nd[L[k + d]].element
  BY <1>2, ElementsType
<1>4. /\ A \in Seq(T) /\ Len(A) = Len(K) - d
      /\ \A k \in 1..(Len(K) - d) : A[k] = nd[K[k + d]].element
  <2> HIDE DEF K
  <2> QED
    BY <1>1, <1>2, ElementsType
<1> DEFINE B == Tail(e)
<1> HIDE DEF K, e, A, d, T
<1>5. Len(e) >= 1 /\ e # <<>> /\ 1 \in 1..(Len(L) - d)
  BY <1>0, <1>1, <1>2, <1>3 DEF d
<1>6. /\ B \in Seq(T) /\ Len(B) = Len(e) - 1 /\ \A k \in 1..(Len(e) - 1) : B[k] = e[k + 1]
  BY <1>3, <1>5
<1>7. Head(e) = e[1]
  BY <1>3, <1>5
<1> HIDE DEF B
<1>8. ASSUME NEW k \in 1..Len(A) PROVE A[k] = B[k]
  <2>1. /\ k \in 1..(Len(K) - d) /\ k + 1 \in 1..(Len(L) - d) /\ k \in 1..(Len(e) - 1)
        /\ k + d \in 1..(Len(L) - 1) /\ (k + d) + 1 = (k + 1) + d
    BY <1>0, <1>1, <1>3, <1>4
  <2>2. K[k + d] = L[(k + 1) + d]
    BY <1>1, <2>1
  <2> QED
    BY <1>3, <1>4, <1>6, <2>1, <2>2
<1>9. Len(A) = Len(B)
  BY <1>0, <1>1, <1>3, <1>4, <1>6
<1>10. A = B
  BY <1>4, <1>6, <1>8, <1>9, SeqEqual
<1> QED
  BY <1>3, <1>5, <1>7, <1>10 DEF A, B, K, e, d

\* The values of the container are those of the list of the invariant.
LEMMA ContentsKnown ==
  ASSUME NEW L, Entire(L)
  PROVE  /\ setup \in Setups /\ NULL \notin Nds(setup) /\ node \in [Nds(setup) -> NodeRecs(setup)]
         /\ Linked(setup, node, head, L) /\ L \in Seq(Nds(setup)) /\ Linkeds = Range(L)
         /\ Skip(setup) \in {0, 1} /\ Skip(setup) <= Len(L) /\ Contents = Elements(setup, node, L)
<1>1. /\ setup \in Setups /\ NULL \notin Nds(setup) /\ node \in [Nds(setup) -> NodeRecs(setup)]
      /\ Linked(setup, node, head, L) /\ Linkeds = Range(L)
  BY ListKnown
<1>2. L \in Seq(Nds(setup)) /\ Len(L) \in Nat
  BY <1>1 DEF Linked
<1>3. Skip(setup) <= Len(L) /\ Skip(setup) \in {0, 1}
  <2>1. QueueOK(setup, entry, L, node, tail) /\ setup.kind \in {"stack", "queue"}
    BY <1>1, Sizes DEF Entire, Parts
  <2>2. CASE setup.kind = "stack"
    BY <1>2, <2>2 DEF Skip
  <2>3. CASE setup.kind = "queue"
    <3>1. tail \in Range(L)
      BY <2>1, <2>3 DEF QueueOK
    <3>2. PICK k \in 1..Len(L) : L[k] = tail
      BY <1>2, <3>1 DEF Range
    <3> QED
      BY <1>2, <2>3, <3>2 DEF Skip
  <2> QED
    BY <2>1, <2>2, <2>3
<1>4. Contents = Elements(setup, node, L)
  BY <1>1, <1>3, ElementsOf, ContentsSame
<1> QED
  BY <1>1, <1>2, <1>3, <1>4

\* The values after a step.
LEMMA ContentsNext ==
  ASSUME LockFreeInv', setup' = setup, setup \in Setups, NULL \notin Nds(setup), NEW L,
         Linked(setup, node', head', L), Skip(setup) <= Len(L)
  PROVE  Contents' = Elements(setup, node', L)
<1>1. node' \in [Nds(setup) -> NodeRecs(setup)]
  BY NodesNext
<1> QED
  BY <1>1, ElementsOf, ContentsSame

\* The nodes are as before.
LEMMA ContentsKept == ASSUME UNCHANGED <<setup, node, head>> PROVE Contents' = Contents
  BY ContentsSame

\* A node that is not in the container is changed.
LEMMA ContentsApart ==
  ASSUME LockFreeInv, LockFreeInv', setup' = setup, head' = head, NEW m, m \notin Linkeds,
         \A n \in Nds(setup) : n # m => node'[n] = node[n]
  PROVE  Contents' = Contents
<1>1. PICK L : Entire(L)
  BY DEF LockFreeInv
<1>2. /\ setup \in Setups /\ NULL \notin Nds(setup) /\ Linked(setup, node, head, L) /\ Linkeds = Range(L)
      /\ Skip(setup) <= Len(L) /\ Contents = Elements(setup, node, L) /\ L \in Seq(Nds(setup))
      /\ node \in [Nds(setup) -> NodeRecs(setup)]
  BY <1>1, ContentsKnown
<1>3. \A k \in 1..Len(L) : L[k] \in Nds(setup) /\ L[k] \in Range(L)
  BY <1>2 DEF Range
<1>4. \A n \in Range(L) : node'[n] = node[n]
  BY <1>2, <1>3 DEF Range
<1>5. Linked(setup, node', head', L)
  BY <1>2, <1>3, <1>4 DEF Linked
<1>6. Contents' = Elements(setup, node', L)
  BY <1>2, <1>5, ContentsNext
<1>7. Elements(setup, node', L) = Elements(setup, node, L)
  BY <1>2, <1>4, ElementsSame
<1> QED
  BY <1>2, <1>6, <1>7

-----------------------------------------------------------------------------
(* The steps that LinearContainer does not see                             *)

\* The nodes in use keep their values.
SameValues == \A n \in Nds(setup) \ pool : node'[n].element = node[n].element

\* A call goes on, and nothing is to be seen of it.
Continues(x, c) ==
  /\ Whole(c) /\ x.at # "idle" /\ c.at # "idle"
  /\ c.op = x.op /\ c.result = x.result /\ c.saw = x.saw /\ (c.op = "put" => c.value = x.value)
  /\ c.at \in Adding => x.at \in Adding /\ c.mine = x.mine /\ c.value = x.value
  /\ c.at # "deqCas"
  /\ c.at \in {"deqGuardNext", "deqAgain"} => x.at \in {"deqGuardNext", "deqAgain"} /\ c.next = x.next
  /\ c.at \in Past => x.at \in Past

\* What the call says, and what is shown of it.
LEMMA ContinuesSays ==
  ASSUME NEW x, NEW c, NEW nd, Says(x, nd), Continues(x, c)
  PROVE  Says(c, nd) /\ Shown(c) = Shown(x)
<1>1. Says(c, nd)
  BY DEF Says, Continues
<1>2. Shown(c) = Shown(x)
  BY DEF Shown, Continues
<1> QED
  BY <1>1, <1>2

\* What a call says is true after a step that keeps the values.
LEMMA SaysAfter ==
  ASSUME LockFreeInv, Linear, NEW t \in Threads, SameValues
  PROVE  Says(Local(t), node') /\ Says(Local(t), node)
<1>1. Says(Local(t), node)
  BY DEF Linear
<1>2. /\ Local(t).at \in Adding => Local(t).mine \in Nds(setup) \ pool
      /\ Local(t).at = "deqCas" => Local(t).next \in Nds(setup) \ pool
  BY SaidNodes
<1> QED
  BY <1>1, <1>2 DEF Says, SameValues

\* A step that is not seen.
LEMMA Unseen ==
  ASSUME LockFreeInv, Linear, NEW t \in Threads, NEW c, Becomes(t, c), Whole(c), setup' = setup,
         Contents' = Contents, SameValues, Says(c, node'), Shown(c) = Shown(Local(t))
  PROVE  Linear' /\ C!Next
<1>1. thread \in [Threads -> ThreadRecs(setup)]
  BY DEF LockFreeInv
<1>2. Linear'
  BY SameContents DEF SameValues
<1>3. C!Becomes(t, Calls[t])
  <2>1. C!Becomes(t, Shown(c)) /\ Shown(c) = Calls[t]
    BY <1>1, BecomesShown, CallsShown DEF Local
  <2> QED
    BY <2>1
<1>4. C!Notice(t)
  BY <1>3 DEF C!Notice
<1> QED
  BY <1>2, <1>4 DEF C!Next

\* A call goes on, and the container has the same values.
LEMMA Continuing ==
  ASSUME LockFreeInv, Linear, NEW t \in Threads, NEW c, Becomes(t, c), setup' = setup,
         Contents' = Contents, SameValues, Continues(Local(t), c)
  PROVE  Linear' /\ C!Next
<1>1. Says(c, node') /\ Shown(c) = Shown(Local(t)) /\ Whole(c)
  BY SaysAfter, ContinuesSays DEF Continues
<1> QED
  BY <1>1, Unseen

\* A call goes on, and the nodes are the same.
LEMMA ContinuingSame ==
  ASSUME LockFreeInv, Linear, NEW t \in Threads, NEW c, Becomes(t, c), UNCHANGED <<setup, node, head>>,
         Continues(Local(t), c)
  PROVE  Linear' /\ C!Next
<1>1. Contents' = Contents /\ SameValues
  BY ContentsKept DEF SameValues
<1> QED
  BY <1>1, Continuing

\* The steps of TryPush and TryPop that are not seen.
LEMMA UnseenPop ==
  ASSUME LockFreeInv, Linear, NEW t \in Threads,
         \/ PushCas(t) /\ head # Local(t).top
         \/ PopTop(t) /\ head # NULL
         \/ PopGuard(t)
         \/ PopCheck(t)
         \/ PopNext(t)
         \/ PopCas(t) /\ head # Local(t).top
         \/ Guard(t, "popAgain", 0, NULL, [Local(t) EXCEPT !.at = "pop"])
         \/ Guard(t, "popTake", 0, NULL, [Local(t) EXCEPT !.at = "retire"])
  PROVE  Linear' /\ C!Next
<1>0. Local(t) \in CallRecs(setup)
  BY DEF LockFreeInv, ThreadRecs, Local
<1>1. CASE PushCas(t) /\ head # Local(t).top
  <2> DEFINE c == [Local(t) EXCEPT !.at = "pushTop"]
  <2>1. Becomes(t, c) /\ UNCHANGED <<setup, node, head>> /\ Local(t).at = "pushCas"
    BY <1>1 DEF PushCas, Goes, At, Local, heap
  <2>2. Continues(Local(t), c)
    BY <1>0, <2>1 DEF Continues, Whole, Adding, Past, HelpPoints, ScanPoints, CallRecs
  <2> HIDE DEF c
  <2> QED
    BY <2>1, <2>2, ContinuingSame
<1>2. CASE PopTop(t) /\ head # NULL
  <2> DEFINE c == [Local(t) EXCEPT !.at = "guard", !.top = head]
  <2>1. Becomes(t, c) /\ UNCHANGED <<setup, node, head>> /\ Local(t).at = "pop"
    BY <1>2 DEF PopTop, Reads, At, Local, heap
  <2>2. Continues(Local(t), c)
    BY <1>0, <2>1 DEF Continues, Whole, Adding, Past, HelpPoints, ScanPoints, CallRecs
  <2> HIDE DEF c
  <2> QED
    BY <2>1, <2>2, ContinuingSame
<1>3. CASE PopGuard(t)
  <2> DEFINE c == [Local(t) EXCEPT !.at = "popCheck"]
  <2>1. Becomes(t, c) /\ UNCHANGED <<setup, node, head>> /\ Local(t).at = "guard"
    BY <1>3 DEF PopGuard, Guard, At, Local, heap
  <2>2. Continues(Local(t), c)
    BY <1>0, <2>1 DEF Continues, Whole, Adding, Past, HelpPoints, ScanPoints, CallRecs
  <2> HIDE DEF c
  <2> QED
    BY <2>1, <2>2, ContinuingSame
<1>4. CASE PopCheck(t)
  <2> DEFINE c == [Local(t) EXCEPT !.at = IF head = Local(t).top THEN "popNext" ELSE "pop"]
  <2>1. Becomes(t, c) /\ UNCHANGED <<setup, node, head>> /\ Local(t).at = "popCheck"
    BY <1>4 DEF PopCheck, Reads, At, Local, heap
  <2>2. Continues(Local(t), c)
    BY <1>0, <2>1 DEF Continues, Whole, Adding, Past, HelpPoints, ScanPoints, CallRecs
  <2> HIDE DEF c
  <2> QED
    BY <2>1, <2>2, ContinuingSame
<1>5. CASE PopNext(t)
  <2> DEFINE c == [Local(t) EXCEPT !.at = "popCas", !.next = node[Local(t).top].next]
  <2>1. Becomes(t, c) /\ UNCHANGED <<setup, node, head>> /\ Local(t).at = "popNext"
    BY <1>5 DEF PopNext, Reads, At, Local, heap
  <2>2. Continues(Local(t), c)
    BY <1>0, <2>1 DEF Continues, Whole, Adding, Past, HelpPoints, ScanPoints, CallRecs
  <2> HIDE DEF c
  <2> QED
    BY <2>1, <2>2, ContinuingSame
<1>6. CASE PopCas(t) /\ head # Local(t).top
  <2> DEFINE c == [Local(t) EXCEPT !.at = "popAgain"]
  <2>1. Becomes(t, c) /\ UNCHANGED <<setup, node, head>> /\ Local(t).at = "popCas"
    BY <1>6 DEF PopCas, Goes, At, Local, heap
  <2>2. Continues(Local(t), c)
    BY <1>0, <2>1 DEF Continues, Whole, Adding, Past, HelpPoints, ScanPoints, CallRecs
  <2> HIDE DEF c
  <2> QED
    BY <2>1, <2>2, ContinuingSame
<1>7. CASE Guard(t, "popAgain", 0, NULL, [Local(t) EXCEPT !.at = "pop"])
  <2> DEFINE c == [Local(t) EXCEPT !.at = "pop"]
  <2>1. Becomes(t, c) /\ UNCHANGED <<setup, node, head>> /\ Local(t).at = "popAgain"
    BY <1>7 DEF Guard, At, Local, heap
  <2>2. Continues(Local(t), c)
    BY <1>0, <2>1 DEF Continues, Whole, Adding, Past, HelpPoints, ScanPoints, CallRecs
  <2> HIDE DEF c
  <2> QED
    BY <2>1, <2>2, ContinuingSame
<1>8. CASE Guard(t, "popTake", 0, NULL, [Local(t) EXCEPT !.at = "retire"])
  <2> DEFINE c == [Local(t) EXCEPT !.at = "retire"]
  <2>1. Becomes(t, c) /\ UNCHANGED <<setup, node, head>> /\ Local(t).at = "popTake"
    BY <1>8 DEF Guard, At, Local, heap
  <2>2. Continues(Local(t), c)
    BY <1>0, <2>1 DEF Continues, Whole, Adding, Past, HelpPoints, ScanPoints, CallRecs
  <2> HIDE DEF c
  <2> QED
    BY <2>1, <2>2, ContinuingSame
<1> QED
  BY <1>1, <1>2, <1>3, <1>4, <1>5, <1>6, <1>7, <1>8

\* The steps of TryEnqueue that are not seen.
LEMMA UnseenEnq ==
  ASSUME LockFreeInv, Linear, NEW t \in Threads,
         \/ EnqTail(t)
         \/ EnqGuard(t)
         \/ EnqCheck(t)
         \/ EnqNext(t)
         \/ EnqAgain(t)
         \/ EnqSwing(t)
         \/ EnqCas(t) /\ node[Local(t).last].next # NULL
         \/ EnqDone(t)
  PROVE  Linear' /\ C!Next
<1>0. Local(t) \in CallRecs(setup)
  BY DEF LockFreeInv, ThreadRecs, Local
<1>1. CASE EnqTail(t)
  <2> DEFINE c == [Local(t) EXCEPT !.at = "enqGuard", !.last = tail]
  <2>1. Becomes(t, c) /\ UNCHANGED <<setup, node, head>> /\ Local(t).at = "enqTail"
    BY <1>1 DEF EnqTail, Reads, At, Local, heap
  <2>2. Continues(Local(t), c)
    BY <1>0, <2>1 DEF Continues, Whole, Adding, Past, HelpPoints, ScanPoints, CallRecs
  <2> HIDE DEF c
  <2> QED
    BY <2>1, <2>2, ContinuingSame
<1>2. CASE EnqGuard(t)
  <2> DEFINE c == [Local(t) EXCEPT !.at = "enqCheck"]
  <2>1. Becomes(t, c) /\ UNCHANGED <<setup, node, head>> /\ Local(t).at = "enqGuard"
    BY <1>2 DEF EnqGuard, Guard, At, Local, heap
  <2>2. Continues(Local(t), c)
    BY <1>0, <2>1 DEF Continues, Whole, Adding, Past, HelpPoints, ScanPoints, CallRecs
  <2> HIDE DEF c
  <2> QED
    BY <2>1, <2>2, ContinuingSame
<1>3. CASE EnqCheck(t)
  <2> DEFINE c == [Local(t) EXCEPT !.at = IF tail = Local(t).last THEN "enqNext" ELSE "enqTail"]
  <2>1. Becomes(t, c) /\ UNCHANGED <<setup, node, head>> /\ Local(t).at = "enqCheck"
    BY <1>3 DEF EnqCheck, Reads, At, Local, heap
  <2>2. Continues(Local(t), c)
    BY <1>0, <2>1 DEF Continues, Whole, Adding, Past, HelpPoints, ScanPoints, CallRecs
  <2> HIDE DEF c
  <2> QED
    BY <2>1, <2>2, ContinuingSame
<1>4. CASE EnqNext(t)
  <2> DEFINE c == [Local(t) EXCEPT !.at = "enqAgain", !.next = node[Local(t).last].next]
  <2>1. Becomes(t, c) /\ UNCHANGED <<setup, node, head>> /\ Local(t).at = "enqNext"
    BY <1>4 DEF EnqNext, Reads, At, Local, heap
  <2>2. Continues(Local(t), c)
    BY <1>0, <2>1 DEF Continues, Whole, Adding, Past, HelpPoints, ScanPoints, CallRecs
  <2> HIDE DEF c
  <2> QED
    BY <2>1, <2>2, ContinuingSame
<1>5. CASE EnqAgain(t)
  <2>1. PICK a \in {"enqTail", "enqCas", "enqSwing"} :
          Becomes(t, [Local(t) EXCEPT !.at = a]) /\ UNCHANGED <<setup, node, head>> /\ Local(t).at = "enqAgain"
    BY <1>5 DEF EnqAgain, Reads, At, Local, heap
  <2> DEFINE c == [Local(t) EXCEPT !.at = a]
  <2>2. Continues(Local(t), c)
    BY <1>0, <2>1 DEF Continues, Whole, Adding, Past, HelpPoints, ScanPoints, CallRecs
  <2> HIDE DEF c
  <2> QED
    BY <2>1, <2>2, ContinuingSame DEF c
<1>6. CASE EnqSwing(t)
  <2> DEFINE c == [Local(t) EXCEPT !.at = "enqTail"]
  <2>1. Becomes(t, c) /\ UNCHANGED <<setup, node, head>> /\ Local(t).at = "enqSwing"
    BY <1>6 DEF EnqSwing, SwingTail, At, Local, heap
  <2>2. Continues(Local(t), c)
    BY <1>0, <2>1 DEF Continues, Whole, Adding, Past, HelpPoints, ScanPoints, CallRecs
  <2> HIDE DEF c
  <2> QED
    BY <2>1, <2>2, ContinuingSame
<1>7. CASE EnqCas(t) /\ node[Local(t).last].next # NULL
  <2> DEFINE c == [Local(t) EXCEPT !.at = "enqTail"]
  <2>1. Becomes(t, c) /\ UNCHANGED <<setup, node, head>> /\ Local(t).at = "enqCas"
    BY <1>7 DEF EnqCas, Goes, At, Local, heap
  <2>2. Continues(Local(t), c)
    BY <1>0, <2>1 DEF Continues, Whole, Adding, Past, HelpPoints, ScanPoints, CallRecs
  <2> HIDE DEF c
  <2> QED
    BY <2>1, <2>2, ContinuingSame
<1>8. CASE EnqDone(t)
  <2> DEFINE c == [Local(t) EXCEPT !.at = "return"]
  <2>1. Becomes(t, c) /\ UNCHANGED <<setup, node, head>> /\ Local(t).at = "enqDone"
    BY <1>8 DEF EnqDone, SwingTail, At, Local, heap
  <2>2. Continues(Local(t), c)
    BY <1>0, <2>1 DEF Continues, Whole, Adding, Past, HelpPoints, ScanPoints, CallRecs
  <2> HIDE DEF c
  <2> QED
    BY <2>1, <2>2, ContinuingSame
<1> QED
  BY <1>1, <1>2, <1>3, <1>4, <1>5, <1>6, <1>7, <1>8

\* The steps of TryDequeue that are not seen.
LEMMA UnseenDeq ==
  ASSUME LockFreeInv, Linear, NEW t \in Threads,
         \/ DeqHead(t)
         \/ DeqGuard(t)
         \/ DeqCheck(t)
         \/ DeqTail(t)
         \/ DeqGuardNext(t)
         \/ DeqAgain(t) /\ head # Local(t).top
         \/ DeqAgain(t) /\ head = Local(t).top /\ Local(t).next # NULL
         \/ DeqSwing(t)
         \/ DeqCas(t) /\ head # Local(t).top
  PROVE  Linear' /\ C!Next
<1>0. Local(t) \in CallRecs(setup)
  BY DEF LockFreeInv, ThreadRecs, Local
<1>k. Local(t).at \in {"deq", "deqCas"} => Local(t).op = "get"
  <2>1. PICK L : thread \in [Threads -> ThreadRecs(setup)] /\ Entire(L)
    BY DEF LockFreeInv
  <2>2. KindOK(setup, Views[t]) /\ Views[t].at = Local(t).at /\ Views[t].op = Local(t).op
    BY <2>1, Known, ViewFields
  <2> QED
    BY <2>2 DEF KindOK, DeqPoints
<1>1. CASE DeqHead(t)
  <2> DEFINE c == [Local(t) EXCEPT !.at = "deqGuard", !.top = head]
  <2>1. Becomes(t, c) /\ UNCHANGED <<setup, node, head>> /\ Local(t).at = "deq"
    BY <1>1 DEF DeqHead, Reads, At, Local, heap
  <2>2. Continues(Local(t), c)
    BY <1>0, <2>1 DEF Continues, Whole, Adding, Past, HelpPoints, ScanPoints, CallRecs
  <2> HIDE DEF c
  <2> QED
    BY <2>1, <2>2, ContinuingSame
<1>2. CASE DeqGuard(t)
  <2> DEFINE c == [Local(t) EXCEPT !.at = "deqCheck"]
  <2>1. Becomes(t, c) /\ UNCHANGED <<setup, node, head>> /\ Local(t).at = "deqGuard"
    BY <1>2 DEF DeqGuard, Guard, At, Local, heap
  <2>2. Continues(Local(t), c)
    BY <1>0, <2>1 DEF Continues, Whole, Adding, Past, HelpPoints, ScanPoints, CallRecs
  <2> HIDE DEF c
  <2> QED
    BY <2>1, <2>2, ContinuingSame
<1>3. CASE DeqCheck(t)
  <2> DEFINE c == [Local(t) EXCEPT !.at = IF head = Local(t).top THEN "deqTail" ELSE "deq"]
  <2>1. Becomes(t, c) /\ UNCHANGED <<setup, node, head>> /\ Local(t).at = "deqCheck"
    BY <1>3 DEF DeqCheck, Reads, At, Local, heap
  <2>2. Continues(Local(t), c)
    BY <1>0, <2>1 DEF Continues, Whole, Adding, Past, HelpPoints, ScanPoints, CallRecs
  <2> HIDE DEF c
  <2> QED
    BY <2>1, <2>2, ContinuingSame
<1>4. CASE DeqTail(t)
  <2> DEFINE c == [Local(t) EXCEPT !.at = "deqNext", !.last = tail]
  <2>1. Becomes(t, c) /\ UNCHANGED <<setup, node, head>> /\ Local(t).at = "deqTail"
    BY <1>4 DEF DeqTail, Reads, At, Local, heap
  <2>2. Continues(Local(t), c)
    BY <1>0, <2>1 DEF Continues, Whole, Adding, Past, HelpPoints, ScanPoints, CallRecs
  <2> HIDE DEF c
  <2> QED
    BY <2>1, <2>2, ContinuingSame
<1>5. CASE DeqGuardNext(t)
  <2> DEFINE c == [Local(t) EXCEPT !.at = "deqAgain"]
  <2>1. Becomes(t, c) /\ UNCHANGED <<setup, node, head>> /\ Local(t).at = "deqGuardNext"
    BY <1>5 DEF DeqGuardNext, Guard, At, Local, heap
  <2>2. Continues(Local(t), c)
    BY <1>0, <2>1 DEF Continues, Whole, Adding, Past, HelpPoints, ScanPoints, CallRecs
  <2> HIDE DEF c
  <2> QED
    BY <2>1, <2>2, ContinuingSame
<1>6. CASE DeqAgain(t) /\ head # Local(t).top
  <2> DEFINE c == [Local(t) EXCEPT !.at = "deq"]
  <2>1. Becomes(t, c) /\ UNCHANGED <<setup, node, head>> /\ Local(t).at = "deqAgain"
    BY <1>6 DEF DeqAgain, Reads, At, Local, heap
  <2>2. Continues(Local(t), c)
    BY <1>0, <2>1 DEF Continues, Whole, Adding, Past, HelpPoints, ScanPoints, CallRecs
  <2> HIDE DEF c
  <2> QED
    BY <2>1, <2>2, ContinuingSame
<1>7. CASE DeqAgain(t) /\ head = Local(t).top /\ Local(t).next # NULL
  <2> DEFINE c == [Local(t) EXCEPT !.at = IF Local(t).top = Local(t).last THEN "deqSwing" ELSE "deqElement"]
  <2>1. Becomes(t, c) /\ UNCHANGED <<setup, node, head>> /\ Local(t).at = "deqAgain"
    BY <1>7 DEF DeqAgain, Reads, At, Local, heap
  <2>2. Continues(Local(t), c)
    BY <1>0, <2>1 DEF Continues, Whole, Adding, Past, HelpPoints, ScanPoints, CallRecs
  <2> HIDE DEF c
  <2> QED
    BY <2>1, <2>2, ContinuingSame
<1>8. CASE DeqSwing(t)
  <2> DEFINE c == [Local(t) EXCEPT !.at = "deq"]
  <2>1. Becomes(t, c) /\ UNCHANGED <<setup, node, head>> /\ Local(t).at = "deqSwing"
    BY <1>8 DEF DeqSwing, SwingTail, At, Local, heap
  <2>2. Continues(Local(t), c)
    BY <1>0, <2>1 DEF Continues, Whole, Adding, Past, HelpPoints, ScanPoints, CallRecs
  <2> HIDE DEF c
  <2> QED
    BY <2>1, <2>2, ContinuingSame
<1>9. CASE DeqCas(t) /\ head # Local(t).top
  <2> DEFINE c == [Local(t) EXCEPT !.at = "deq", !.value = Nothing]
  <2>1. Becomes(t, c) /\ UNCHANGED <<setup, node, head>> /\ Local(t).at = "deqCas"
    BY <1>9 DEF DeqCas, At, Local, heap
  <2>2. Continues(Local(t), c)
    BY <1>0, <1>k, <2>1 DEF Continues, Whole, Adding, Past, HelpPoints, ScanPoints, CallRecs
  <2> HIDE DEF c
  <2> QED
    BY <2>1, <2>2, ContinuingSame
<1> QED
  BY <1>1, <1>2, <1>3, <1>4, <1>5, <1>6, <1>7, <1>8, <1>9

\* The steps of hazard pointers are not seen.
LEMMA UnseenScan ==
  ASSUME LockFreeInv, Linear, NEW t \in Threads,
         \/ Retire(t)
         \/ ScanGuard(t)
         \/ ScanFrees(t)
         \/ HelpScan(t)
         \/ Helped(t)
  PROVE  Linear' /\ C!Next
<1>0. Local(t) \in CallRecs(setup)
  BY DEF LockFreeInv, ThreadRecs, Local
<1>1. CASE Retire(t)
  <2> DEFINE i == MyEntry(t)
             more == IF Len(entry[i].retired) < RetiredListMaxSize(setup)
                     THEN Append(entry[i].retired, Local(t).top) ELSE entry[i].retired
             c == IF Exceeded(Len(more)) THEN Scanning(Local(t), i, 0) ELSE [Local(t) EXCEPT !.at = "return"]
  <2>1. Becomes(t, c) /\ UNCHANGED <<setup, node, head>> /\ Local(t).at = "retire"
    BY <1>1 DEF Retire, At, Local, heap
  <2> HIDE DEF i, more
  <2>2. Continues(Local(t), c)
    BY <1>0, <2>1 DEF Continues, Whole, Adding, Past, HelpPoints, ScanPoints, CallRecs, Scanning
  <2> HIDE DEF c
  <2> QED
    BY <2>1, <2>2, ContinuingSame DEF c
<1>2. CASE ScanGuard(t)
  <2>1. PICK h, a : /\ Becomes(t, [Local(t) EXCEPT !.k = @ + 1, !.hazards = h, !.at = a])
                    /\ a \in {"scan", "free"} /\ UNCHANGED <<setup, guarding, heap>> /\ Local(t).at = "scan"
    BY <1>2, ZenonT(40) DEF ScanGuard, At, Local
  <2> DEFINE c == [Local(t) EXCEPT !.k = @ + 1, !.hazards = h, !.at = a]
  <2>2. Continues(Local(t), c)
    BY <1>0, <2>1 DEF Continues, Whole, Adding, Past, HelpPoints, ScanPoints, CallRecs
  <2> HIDE DEF c
  <2>3. UNCHANGED <<setup, node, head>> /\ Becomes(t, c)
    BY <2>1 DEF heap, c
  <2> QED
    BY <2>2, <2>3, ContinuingSame
<1>3. CASE ScanFrees(t)
  <2> DEFINE c == [Local(t) EXCEPT !.at = IF Local(t).help = 0 THEN "help" ELSE "helped"]
  <2>1. Becomes(t, c) /\ UNCHANGED <<setup, node, head>> /\ Local(t).at = "free"
    BY <1>3 DEF ScanFrees, Goes, At, Local, heap
  <2>2. Continues(Local(t), c)
    BY <1>0, <2>1 DEF Continues, Whole, Adding, Past, HelpPoints, ScanPoints, CallRecs
  <2> HIDE DEF c
  <2> QED
    BY <2>1, <2>2, ContinuingSame
<1>4. CASE HelpScan(t)
  <2> DEFINE i == Local(t).help
  <2>0. Local(t).at = "help" /\ UNCHANGED <<setup, node, head>>
    BY <1>4 DEF HelpScan, At, Local, heap
  <2>1. PICK c : /\ Becomes(t, c)
                 /\ \/ c = Scanning(Local(t), i, i + 1)
                    \/ c = [Local(t) EXCEPT !.at = "helped", !.scan = i, !.help = i + 1]
                    \/ c = [Local(t) EXCEPT !.help = i + 1] \/ c = [Local(t) EXCEPT !.at = "return"]
    <3>1. \/ Becomes(t, IF entry[i].retired # <<>> THEN Scanning(Local(t), i, i + 1)
                        ELSE [Local(t) EXCEPT !.at = "helped", !.scan = i, !.help = i + 1])
          \/ Becomes(t, [Local(t) EXCEPT !.help = i + 1]) \/ Becomes(t, [Local(t) EXCEPT !.at = "return"])
      BY <1>4 DEF HelpScan, Goes
    <3> DEFINE d == [Local(t) EXCEPT !.at = "helped", !.scan = i, !.help = i + 1]
               e == Scanning(Local(t), i, i + 1)
               f == [Local(t) EXCEPT !.help = i + 1]
               g == [Local(t) EXCEPT !.at = "return"]
    <3>2. \/ Becomes(t, IF entry[i].retired # <<>> THEN e ELSE d) \/ Becomes(t, f) \/ Becomes(t, g)
      BY <3>1
    <3> HIDE DEF d, e, f, g
    <3>3. \E c : Becomes(t, c) /\ (c = e \/ c = d \/ c = f \/ c = g)
      BY <3>2
    <3> QED
      BY <3>3 DEF d, e, f, g
  <2>2. Continues(Local(t), c)
    <3>1. CASE c = Scanning(Local(t), i, i + 1)
      BY <1>0, <2>0, <3>1 DEF Continues, Whole, Adding, Past, HelpPoints, ScanPoints, CallRecs, Scanning
    <3>2. CASE c = [Local(t) EXCEPT !.at = "helped", !.scan = i, !.help = i + 1]
      BY <1>0, <2>0, <3>2 DEF Continues, Whole, Adding, Past, HelpPoints, ScanPoints, CallRecs
    <3>3. CASE c = [Local(t) EXCEPT !.help = i + 1]
      BY <1>0, <2>0, <3>3 DEF Continues, Whole, Adding, Past, HelpPoints, ScanPoints, CallRecs
    <3>4. CASE c = [Local(t) EXCEPT !.at = "return"]
      BY <1>0, <2>0, <3>4 DEF Continues, Whole, Adding, Past, HelpPoints, ScanPoints, CallRecs
    <3> QED
      BY <2>1, <3>1, <3>2, <3>3, <3>4
  <2> QED
    BY <2>0, <2>1, <2>2, ContinuingSame
<1>5. CASE Helped(t)
  <2> DEFINE c == [Local(t) EXCEPT !.at = "help"]
  <2>1. Becomes(t, c) /\ UNCHANGED <<setup, node, head>> /\ Local(t).at = "helped"
    BY <1>5 DEF Helped, Goes, At, Local, heap
  <2>2. Continues(Local(t), c)
    BY <1>0, <2>1 DEF Continues, Whole, Adding, Past, HelpPoints, ScanPoints, CallRecs
  <2> HIDE DEF c
  <2> QED
    BY <2>1, <2>2, ContinuingSame
<1> QED
  BY <1>1, <1>2, <1>3, <1>4, <1>5

-----------------------------------------------------------------------------
(* The steps by which a call takes effect                                  *)

\* A call is at the point of a view, in the same operation and with the same result.
SameKind(v, c) == c.at = v.at /\ c.op = v.op /\ c.result = v.result

\* Which operation is at which point.
LEMMA Kinds == ASSUME LockFreeInv, NEW t \in Threads PROVE KindOK(setup, Views[t]) /\ SameKind(Views[t], Local(t)) /\ Local(t) \in CallRecs(setup)
<1>1. PICK L : thread \in [Threads -> ThreadRecs(setup)] /\ Entire(L)
  BY DEF LockFreeInv
<1>2. /\ KindOK(setup, Views[t]) /\ Views[t].at = Local(t).at /\ Views[t].op = Local(t).op
      /\ Views[t].result = Local(t).result /\ Local(t) \in CallRecs(setup)
  BY <1>1, Known, ViewFields
<1> QED
  BY <1>2 DEF KindOK, SameKind

\* A call gets its result.
Finishes(x, c) ==
  /\ Whole(c) /\ x.at # "idle" /\ c.at \in Past
  /\ c.op = x.op /\ x.op \in {"put", "get"} /\ (c.op = "put" => c.value = x.value)
  /\ c.saw = x.saw /\ x.result = Nothing /\ c.result # Nothing

\* What is shown of it.
LEMMA FinishesShown ==
  ASSUME NEW x, NEW c, Finishes(x, c)
  PROVE  /\ Shown(c) = [Shown(x) EXCEPT !.result = c.result]
         /\ Shown(x).op = x.op /\ Shown(x).result = Nothing /\ Shown(x).saw = x.saw
         /\ Shown(x).value = IF x.op = "put" THEN x.value ELSE Nothing
<1>1. Shown(x) = [op |-> x.op, value |-> IF x.op = "put" THEN x.value ELSE Nothing,
                  result |-> x.result, saw |-> x.saw]
  BY DEF Shown, Finishes
<1>2. Shown(c) = [op |-> x.op, value |-> IF x.op = "put" THEN x.value ELSE Nothing,
                  result |-> c.result, saw |-> x.saw]
  BY DEF Shown, Finishes
<1>3. /\ Shown(x).op = x.op /\ Shown(x).result = Nothing /\ Shown(x).saw = x.saw
      /\ Shown(x).value = IF x.op = "put" THEN x.value ELSE Nothing
  BY <1>1 DEF Finishes
<1>4. [Shown(x) EXCEPT !.result = c.result]
        = [op |-> x.op, value |-> IF x.op = "put" THEN x.value ELSE Nothing, result |-> c.result, saw |-> x.saw]
  BY <1>1
<1> QED
  BY <1>2, <1>3, <1>4

\* The step of a call that gets its result.
LEMMA Finishing ==
  ASSUME LockFreeInv, Linear, NEW t \in Threads, NEW c, Becomes(t, c), SameValues, Finishes(Local(t), c),
         \A k \in DOMAIN Contents' : Contents'[k] \in Values
  PROVE  /\ Linear' /\ C!Ends(t, c.result) /\ C!Open(t, Local(t).op) /\ Calls[t].saw = Local(t).saw
         /\ Calls[t].value = IF Local(t).op = "put" THEN Local(t).value ELSE Nothing
<1> DEFINE x == Local(t)
<1>1. thread \in [Threads -> ThreadRecs(setup)] /\ Says(x, node)
  BY DEF LockFreeInv, Linear
<1>2. Says(c, node') /\ Whole(c)
  BY <1>1 DEF Says, Finishes, Past, Adding, HelpPoints, ScanPoints
<1>3. C!Becomes(t, Shown(c)) /\ thread'[t].call \in {c, Noted(c)} /\ (c.op # "get" => thread'[t].call = c)
  BY <1>1, <1>2, BecomesShown
<1>4. Says(thread'[t].call, node')
  BY <1>2, <1>3, SaysNoted
<1>5. Linear'
  BY <1>2, <1>4, OthersSay DEF Linear, SameValues
<1>6. Calls[t] = Shown(x)
  BY CallsShown DEF Local
<1> HIDE DEF x
<1>7. /\ Shown(c) = [Shown(x) EXCEPT !.result = c.result]
      /\ Shown(x).op = x.op /\ Shown(x).result = Nothing /\ Shown(x).saw = x.saw
      /\ Shown(x).value = IF x.op = "put" THEN x.value ELSE Nothing
  BY FinishesShown DEF x
<1>8. C!Ends(t, c.result)
  BY <1>3, <1>6, <1>7 DEF C!Ends
<1>9. C!Open(t, x.op)
  BY <1>6, <1>7 DEF C!Open
<1> QED
  BY <1>5, <1>6, <1>7, <1>8, <1>9 DEF x

\* TryPop that finds no node, and TryDequeue that has found none behind the dummy.
LEMMA FindsNothing ==
  ASSUME LockFreeInv, Linear, NEW t \in Threads,
         \/ PopTop(t) /\ head = NULL
         \/ DeqAgain(t) /\ head = Local(t).top /\ Local(t).next = NULL
  PROVE  Linear' /\ C!Next
<1> DEFINE c == [Local(t) EXCEPT !.at = "return", !.result = "empty"]
<1>0. KindOK(setup, Views[t]) /\ SameKind(Views[t], Local(t)) /\ Local(t) \in CallRecs(setup) /\ Says(Local(t), node)
  BY Kinds DEF Linear
<1>1. Becomes(t, c) /\ UNCHANGED <<setup, node, head>> /\ Local(t).at \in {"pop", "deqAgain"}
  BY DEF PopTop, DeqAgain, Reads, At, Local, heap
<1>2. Local(t).op = "get" /\ Local(t).result = Nothing
  BY <1>0, <1>1 DEF KindOK, SameKind, StackPoints, DeqPoints
<1>3. Finishes(Local(t), c) /\ c.result = "empty"
  BY <1>0, <1>1, <1>2, SetupsAssumption DEF Finishes, Whole, Past, CallRecs
<1> HIDE DEF c
<1>4. Contents' = Contents /\ SameValues
  BY <1>1, ContentsKept DEF SameValues
<1>5. \A k \in DOMAIN Contents' : Contents'[k] \in Values
  BY <1>4 DEF Linear
<1>6. Linear' /\ C!Ends(t, "empty") /\ C!Open(t, "get") /\ Calls[t].saw = Local(t).saw
  BY <1>1, <1>2, <1>3, <1>4, <1>5, Finishing
<1>7. Calls[t].saw \/ Contents = <<>>
  <2>1. CASE DeqAgain(t) /\ head = Local(t).top /\ Local(t).next = NULL
    <3>1. Local(t).at = "deqAgain"
      BY <2>1 DEF DeqAgain, At, Local
    <3> QED
      BY <1>0, <1>6, <2>1, <3>1 DEF Says
  <2>2. CASE PopTop(t) /\ head = NULL
    <3>1. PICK L : Entire(L)
      BY DEF LockFreeInv
    <3>2. /\ setup \in Setups /\ Linked(setup, node, head, L) /\ Contents = Elements(setup, node, L)
          /\ L \in Seq(Nds(setup)) /\ NULL \notin Nds(setup)
      BY <3>1, ContentsKnown
    <3>3. Len(L) = 0
      <4>1. Len(L) # 0 => L[1] \in Nds(setup) /\ head = L[1]
        BY <3>2 DEF Linked
      <4> QED
        BY <2>2, <3>2, <4>1
    <3>4. setup.kind = "stack"
      <4>1. Local(t).at = "pop"
        BY <2>2 DEF PopTop, At, Local
      <4> QED
        BY <1>0, <4>1 DEF KindOK, SameKind, StackPoints
    <3>5. Contents = [k \in 1..0 |-> node[L[k + Skip(setup)]].element]
      BY <3>2, <3>3, <3>4 DEF Elements, Skip
    <3> QED
      BY <3>5
  <2> QED
    BY <2>1, <2>2
<1>8. C!GetFails(t)
  BY <1>4, <1>6, <1>7 DEF C!GetFails
<1> QED
  BY <1>1, <1>6, <1>8 DEF C!Next

\* A call that gets no index.
LEMMA FindsNoIndex == ASSUME LockFreeInv, Linear, NEW t \in Threads, GiveBack(t) PROVE Linear' /\ C!Next
<1> DEFINE c == [Local(t) EXCEPT !.at = "return", !.result = "exception"]
<1>0. KindOK(setup, Views[t]) /\ SameKind(Views[t], Local(t)) /\ Local(t) \in CallRecs(setup) /\ Says(Local(t), node)
  BY Kinds DEF Linear
<1>1. Becomes(t, c) /\ UNCHANGED <<setup, node, head>> /\ Local(t).at = "giveBack"
  BY DEF GiveBack, Ends, At, Local, heap
<1>2. Local(t).op \in {"put", "get", "leave"} /\ Local(t).result = Nothing
  BY <1>0, <1>1 DEF KindOK, SameKind, Says, CallRecs
<1>3. /\ Whole(c) /\ c.result = "exception" /\ c.op = Local(t).op /\ c.value = Local(t).value /\ c.saw = Local(t).saw
      /\ c.at = "return"
  BY <1>0 DEF Whole, CallRecs
<1> HIDE DEF c
<1>4. Contents' = Contents /\ SameValues
  BY <1>1, ContentsKept DEF SameValues
<1>5. \A k \in DOMAIN Contents' : Contents'[k] \in Values
  BY <1>4 DEF Linear
<1>6. CASE Local(t).op = "leave"
  <2>1. Says(c, node') /\ Shown(c) = Shown(Local(t))
    BY <1>3, <1>6 DEF Says, Shown, Past, Adding, HelpPoints, ScanPoints
  <2> QED
    BY <1>1, <1>3, <1>4, <2>1, Unseen
<1>7. CASE Local(t).op \in {"put", "get"}
  <2>1. Finishes(Local(t), c)
    BY <1>1, <1>2, <1>3, <1>7, SetupsAssumption DEF Finishes, Past
  <2>2. Linear' /\ C!Ends(t, "exception") /\ C!Open(t, Local(t).op)
    BY <1>1, <1>3, <1>4, <1>5, <2>1, Finishing
  <2>3. C!Throws(t)
    BY <1>4, <1>7, <2>2 DEF C!Throws
  <2> QED
    BY <1>1, <2>2, <2>3 DEF C!Next
<1> QED
  BY <1>2, <1>6, <1>7

\* What is shown of a step that leaves the other calls alone.
LEMMA OneCall ==
  ASSUME NEW t \in Threads, NEW r, thread' = [thread EXCEPT ![t] = r], thread \in [Threads -> ThreadRecs(setup)]
  PROVE  C!Becomes(t, Shown(r.call)) /\ \A u \in Threads : u # t => thread'[u] = thread[u] /\ thread'[t] = r
<1>1. thread'[t] = r /\ \A u \in Threads : u # t => thread'[u] = thread[u]
  OBVIOUS
<1>2. \A u \in Threads : Calls'[u] = IF u = t THEN Shown(r.call) ELSE Calls[u]
  BY <1>1, CallsShown
<1> QED
  BY <1>1, <1>2 DEF C!Becomes

\* A call record with an operation and a value.
LEMMA CallWith ==
  ASSUME NEW x, NEW b, x = [op |-> "idle", value |-> Nothing, result |-> Nothing, saw |-> b], NEW v, NEW w
  PROVE  [x EXCEPT !.op = v, !.value = w] = [op |-> v, value |-> w, result |-> Nothing, saw |-> b]
<1> DEFINE y == [x EXCEPT !.op = v]
<1>1. y = [op |-> v, value |-> Nothing, result |-> Nothing, saw |-> b]
  OBVIOUS
<1>2. [x EXCEPT !.op = v, !.value = w] = [y EXCEPT !.value = w]
  OBVIOUS
<1> HIDE DEF y
<1>3. [y EXCEPT !.value = w] = [op |-> v, value |-> w, result |-> Nothing, saw |-> b]
  BY <1>1
<1> QED
  BY <1>2, <1>3

\* A thread begins the next call of its program.
LEMMA SeesBegin == ASSUME LockFreeInv, Linear, NEW t \in Threads, Begin(t) PROVE Linear' /\ C!Next
<1> DEFINE o == Head(thread[t].todo)
           c == [Idle EXCEPT !.at = Entry(o.op), !.op = o.op, !.value = o.value]
           r == [[thread[t] EXCEPT !.todo = Tail(thread[t].todo)] EXCEPT !.call = c]
<1>1. /\ thread[t].call.at = "idle" /\ thread[t].todo # <<>> /\ UNCHANGED <<setup, node, head>>
      /\ thread' = [thread EXCEPT ![t].todo = Tail(@), ![t].call = c]
  BY DEF Begin, At, Local, heap
<1>2. thread \in [Threads -> ThreadRecs(setup)] /\ thread[t] \in ThreadRecs(setup)
  BY DEF LockFreeInv
<1>3. o \in Ops
  BY <1>1, <1>2 DEF ThreadRecs
<1>4. thread' = [thread EXCEPT ![t] = r]
  BY <1>1, <1>2
<1>5. r.call = c
  BY <1>2 DEF ThreadRecs
<1>6. /\ c.op = o.op /\ c.value = o.value /\ c.result = Nothing /\ c.saw = FALSE /\ c.at = Entry(o.op)
  BY DEF Idle
<1>7. o.op \in {"put", "get", "leave"} /\ (o.op = "put" => o.value \in Values) /\ (o.op # "put" => o.value = Nothing)
  BY <1>3 DEF Ops
<1>8. Entry(o.op) \in {"leave", "push", "enq", "pop", "deq"}
  BY <1>7 DEF Entry
<1> HIDE DEF c, r, o
<1>9. Says(c, node)
  BY <1>6, <1>7, <1>8 DEF Says, Adding, Past, HelpPoints, ScanPoints
<1>10. C!Becomes(t, Shown(c)) /\ \A u \in Threads : u # t => thread'[u] = thread[u] /\ thread'[t].call = c
  BY <1>2, <1>4, <1>5, OneCall
<1>11. thread'[t].call = c
  BY <1>2, <1>4, <1>5
<1>12. Contents' = Contents
  BY <1>1, ContentsKept
<1>13. Linear'
  BY <1>1, <1>9, <1>10, <1>11, <1>12 DEF Linear, Local
<1>14. Calls[t] = [op |-> "idle", value |-> Nothing, result |-> Nothing, saw |-> FALSE]
  <2>1. Calls[t] = Shown(Local(t)) /\ Says(Local(t), node)
    BY CallsShown DEF Local, Linear
  <2>2. /\ Local(t).op = "idle" /\ Local(t).value = Nothing /\ Local(t).result = Nothing /\ Local(t).saw = FALSE
    BY <1>1, <2>1 DEF Says, Local
  <2> QED
    BY <2>1, <2>2 DEF Shown
<1>15. CASE o.op = "leave"
  <2>1. Shown(c) = Calls[t]
    BY <1>6, <1>14, <1>15 DEF Shown
  <2>2. C!Notice(t)
    BY <1>10, <1>12, <2>1 DEF C!Notice
  <2> QED
    BY <1>1, <1>13, <2>2 DEF C!Next
<1>16. CASE o.op \in {"put", "get"}
  <2>1. Shown(c) = [op |-> o.op, value |-> o.value, result |-> Nothing, saw |-> FALSE]
    BY <1>6, <1>7, <1>16 DEF Shown
  <2>2. Shown(c) = [C!Idle EXCEPT !.op = o.op, !.value = o.value] /\ Calls[t] = C!Idle
    <3>1. Calls[t] = C!Idle
      BY <1>14 DEF C!Idle
    <3>2. C!Idle = [op |-> "idle", value |-> Nothing, result |-> Nothing, saw |-> FALSE]
      BY DEF C!Idle
    <3>4. [C!Idle EXCEPT !.op = o.op, !.value = o.value]
            = [op |-> o.op, value |-> o.value, result |-> Nothing, saw |-> FALSE]
      BY <3>2, CallWith
    <3> QED
      BY <2>1, <3>1, <3>4
  <2>3. o.value \in Values \cup {Nothing}
    BY <1>7
  <2>4. C!Becomes(t, [C!Idle EXCEPT !.op = o.op, !.value = o.value])
    BY <1>10, <2>2
  <2>5. C!Begin(t)
    BY <1>12, <1>16, <2>2, <2>3, <2>4 DEF C!Begin
  <2> QED
    BY <1>1, <1>13, <2>5 DEF C!Next
<1> QED
  BY <1>7, <1>15, <1>16

\* A thread gets its index, or learns that there is none.
LEMMA UnseenIndex == ASSUME LockFreeInv, Linear, NEW t \in Threads, TakeIndex(t) PROVE Linear' /\ C!Next
<1> DEFINE i == IF counter < setup.max_threads THEN counter ELSE thread[t].index
           a == IF counter < setup.max_threads THEN thread[t].call.at ELSE "giveBack"
           c == [Local(t) EXCEPT !.at = a]
           r == [[thread[t] EXCEPT !.index = i] EXCEPT !.call = c]
<1>0. /\ thread \in [Threads -> ThreadRecs(setup)] /\ thread[t] \in ThreadRecs(setup)
      /\ Local(t) \in CallRecs(setup) /\ Says(Local(t), node)
  BY Kinds DEF LockFreeInv, Linear
<1>1. /\ UNCHANGED <<setup, node, head>> /\ Local(t).at \in {"leave", "guard", "enqGuard", "deqGuard"}
      /\ thread' = [thread EXCEPT ![t].index = i, ![t].call.at = a]
  BY DEF TakeIndex, NeedsEntry, At, Local, heap
<1>2. thread' = [thread EXCEPT ![t] = r]
  BY <1>0, <1>1 DEF ThreadRecs, Local
<1>3. r.call = c
  BY <1>0 DEF ThreadRecs
<1>4. /\ c.at \in {Local(t).at, "giveBack"} /\ c.op = Local(t).op /\ c.value = Local(t).value /\ c.result = Local(t).result
      /\ c.saw = Local(t).saw /\ c.mine = Local(t).mine /\ c.next = Local(t).next
  BY <1>0 DEF CallRecs, Local
<1> HIDE DEF c, r, i, a
<1>5. Says(c, node) /\ Shown(c) = Shown(Local(t))
  BY <1>0, <1>1, <1>4 DEF Says, Shown, Adding, Past, HelpPoints, ScanPoints
<1>6. C!Becomes(t, Shown(c)) /\ \A u \in Threads : u # t => thread'[u] = thread[u]
  BY <1>0, <1>2, <1>3, OneCall
<1>7. thread'[t].call = c
  BY <1>0, <1>2, <1>3
<1>8. Contents' = Contents
  BY <1>1, ContentsKept
<1>9. Linear'
  BY <1>1, <1>5, <1>6, <1>7, <1>8 DEF Linear, Local
<1>10. Calls[t] = Shown(c)
  BY <1>5, CallsShown DEF Local
<1>11. C!Notice(t)
  BY <1>6, <1>8, <1>10 DEF C!Notice
<1> QED
  BY <1>1, <1>9, <1>11 DEF C!Next

\* A call returns.
LEMMA SeesReturn == ASSUME LockFreeInv, Linear, NEW t \in Threads, Return(t) PROVE Linear' /\ C!Next
<1>0. Says(Local(t), node) /\ thread \in [Threads -> ThreadRecs(setup)]
  BY DEF LockFreeInv, Linear
<1>1. Becomes(t, Idle) /\ UNCHANGED <<setup, node, head>> /\ Local(t).at = "return"
  BY DEF Return, At, Local, heap
<1>2. /\ Whole(Idle) /\ Says(Idle, node') /\ Idle.op = "idle"
      /\ Shown(Idle) = [op |-> "idle", value |-> Nothing, result |-> Nothing, saw |-> FALSE]
  BY DEF Idle, Whole, Says, Shown, Adding, Past, HelpPoints, ScanPoints
<1>3. Contents' = Contents /\ SameValues
  BY <1>1, ContentsKept DEF SameValues
<1>4. Linear' /\ C!Becomes(t, Shown(Idle))
  BY <1>0, <1>1, <1>2, <1>3, SameContents, BecomesShown DEF SameValues
<1>5. CASE Local(t).op = "leave"
  <2>1. Shown(Local(t)) = Shown(Idle)
    BY <1>2, <1>5 DEF Shown
  <2> QED
    BY <1>1, <1>2, <1>3, <2>1, Unseen
<1>6. CASE Local(t).op # "leave"
  <2>1. Calls[t].result # Nothing
    <3>1. Local(t).result # Nothing
      BY <1>0, <1>1, <1>6 DEF Says, Past
    <3>2. Calls[t] = Shown(Local(t))
      BY CallsShown DEF Local
    <3> QED
      BY <1>6, <3>1, <3>2 DEF Shown
  <2>2. C!Becomes(t, C!Idle)
    BY <1>2, <1>4 DEF C!Idle
  <2>3. C!Return(t)
    BY <1>3, <2>1, <2>2 DEF C!Return
  <2> QED
    BY <1>1, <1>4, <2>3 DEF C!Next
<1> QED
  BY <1>5, <1>6

\* A thread leaves.
LEMMA UnseenLeave ==
  ASSUME LockFreeInv, Linear, NEW t \in Threads, Leave(t) \/ LeaveRead(t) \/ LeaveWrite(t)
  PROVE  Linear' /\ C!Next
<1>0. KindOK(setup, Views[t]) /\ SameKind(Views[t], Local(t)) /\ Local(t) \in CallRecs(setup)
  BY Kinds
<1>1. PICK c : /\ Becomes(t, c)
               /\ \/ c = [Local(t) EXCEPT !.at = "leaveRead"]
                  \/ c = [Local(t) EXCEPT !.at = "leaveWrite", !.count = active_hazard_pointer]
                  \/ c = [Local(t) EXCEPT !.at = "return", !.result = "done"]
               /\ UNCHANGED <<setup, node, head>> /\ Local(t).at \in {"leave", "leaveRead", "leaveWrite"}
  <2>1. CASE Leave(t)
    BY <2>1 DEF Leave, Goes, Ends, At, Local, heap
  <2>2. CASE LeaveRead(t)
    BY <2>2 DEF LeaveRead, At, Local, heap
  <2>3. CASE LeaveWrite(t)
    BY <2>3 DEF LeaveWrite, Ends, At, Local, heap
  <2> QED
    BY <2>1, <2>2, <2>3
<1>2. Local(t).op = "leave"
  BY <1>0, <1>1 DEF KindOK, SameKind
<1>3. Whole(c) /\ c.at \in {"leaveRead", "leaveWrite", "return"} /\ c.op = "leave"
  BY <1>0, <1>1, <1>2 DEF Whole, CallRecs
<1>4. Says(c, node') /\ Shown(c) = Shown(Local(t))
  BY <1>2, <1>3 DEF Says, Shown, Adding, Past, HelpPoints, ScanPoints
<1>5. Contents' = Contents /\ SameValues
  BY <1>1, ContentsKept DEF SameValues
<1> QED
  BY <1>1, <1>3, <1>4, <1>5, Unseen

\* A node is allocated and gets the value.
LEMMA UnseenAllocate ==
  ASSUME LockFreeInv, LockFreeInv', Linear, NEW t \in Threads, NEW to,
         (At(t, "push") /\ to = "pushTop") \/ (At(t, "enq") /\ to = "enqTail"), AllocateNode(t, to)
  PROVE  Linear' /\ C!Next
<1>1. PICK m \in pool : /\ pool' = pool \ {m}
                        /\ node' = [node EXCEPT ![m] = [next |-> NULL, element |-> Local(t).value]]
                        /\ Becomes(t, [Local(t) EXCEPT !.at = to, !.mine = m])
                        /\ UNCHANGED <<setup, guarding, head, tail>>
  BY DEF AllocateNode
<1>2. PICK L : Entire(L)
  BY DEF LockFreeInv
<1>3. Linkeds = Range(L) /\ node \in [Nds(setup) -> NodeRecs(setup)] /\ pool \in SUBSET Nds(setup)
      /\ OnePlace(setup, entry, pool, L, Views)
  BY <1>2, Known, ListKnown
<1>4. m \notin Linkeds /\ m \in Nds(setup)
  BY <1>1, <1>3 DEF OnePlace
<1>5. (\A n \in Nds(setup) : n # m => node'[n] = node[n]) /\ node'[m].element = Local(t).value
  BY <1>1, <1>3, <1>4
<1>6. SameValues
  BY <1>1, <1>5 DEF SameValues
<1>7. Contents' = Contents
  BY <1>1, <1>4, <1>5, ContentsApart
<1> DEFINE c == [Local(t) EXCEPT !.at = to, !.mine = m]
<1>8. KindOK(setup, Views[t]) /\ SameKind(Views[t], Local(t)) /\ Local(t) \in CallRecs(setup) /\ Local(t).at \in {"push", "enq"}
      /\ to \in {"pushTop", "enqTail"} /\ Says(Local(t), node)
  BY Kinds DEF At, Local, Linear
<1>9. /\ Whole(c) /\ c.at = to /\ c.mine = m /\ c.op = Local(t).op /\ c.value = Local(t).value
      /\ c.result = Local(t).result /\ c.saw = Local(t).saw
  BY <1>8 DEF Whole, CallRecs
<1>10. Becomes(t, c) /\ setup' = setup
  BY <1>1
<1> HIDE DEF c
<1>11. Says(c, node')
  BY <1>5, <1>8, <1>9 DEF Says, Adding, Past, HelpPoints, ScanPoints
<1>12. Shown(c) = Shown(Local(t))
  BY <1>9 DEF Shown
<1> QED
  BY <1>6, <1>7, <1>9, <1>10, <1>11, <1>12, Unseen

\* The new node is linked to the top.
LEMMA UnseenPushTop ==
  ASSUME LockFreeInv, LockFreeInv', Linear, NEW t \in Threads, PushTop(t)
  PROVE  Linear' /\ C!Next
<1> DEFINE m == Local(t).mine
           c == [Local(t) EXCEPT !.at = "pushCas", !.top = head]
<1>1. node' = [node EXCEPT ![m].next = head] /\ Becomes(t, c) /\ Local(t).at = "pushTop"
      /\ setup' = setup /\ head' = head
  BY DEF PushTop, At, Local
<1>2. PICK L : Entire(L)
  BY DEF LockFreeInv
<1>3. Local(t) \in CallRecs(setup) /\ m \in Nds(setup)
  BY <1>1, SaidNodes DEF Adding
<1>4. node \in [Nds(setup) -> NodeRecs(setup)]
  BY <1>2, ListKnown
<1>5. Holds(Local(t), m)
  BY <1>1 DEF Holds, Adding
<1>6. Continues(Local(t), c)
  BY <1>1, <1>3 DEF Continues, Whole, Adding, Past, HelpPoints, ScanPoints, CallRecs
<1> HIDE DEF m, c
<1>7. m \notin Linkeds
  BY <1>3, <1>5, HeldApart
<1>8. \A n \in Nds(setup) : n # m => node'[n] = node[n]
  BY <1>1, <1>4
<1>9. node'[m].element = node[m].element
  <2>1. node[m] \in NodeRecs(setup) /\ node'[m] = [node[m] EXCEPT !.next = head]
    BY <1>1, <1>3, <1>4
  <2>2. \A x \in NodeRecs(setup) : \A y : [x EXCEPT !.next = y].element = x.element
    BY DEF NodeRecs
  <2> QED
    BY <2>1, <2>2
<1>10. SameValues
  BY <1>8, <1>9 DEF SameValues
<1>11. Contents' = Contents
  BY <1>1, <1>7, <1>8, ContentsApart
<1> QED
  BY <1>1, <1>6, <1>10, <1>11, Continuing

\* The first node of a list and its successor.
LEMMA FirstOf ==
  ASSUME NEW s, NEW nd, NEW h, NEW L, Linked(s, nd, h, L), Len(L) # 0
  PROVE  /\ h = L[1] /\ h \in Nds(s) /\ Len(L) \in Nat
         /\ Len(L) = 1 => nd[h].next = NULL
         /\ Len(L) # 1 => 2 <= Len(L) /\ nd[h].next = L[2] /\ L[2] \in Nds(s)
<1>1. L \in Seq(Nds(s)) /\ Len(L) \in Nat
  BY DEF Linked
<1>2. 1 \in 1..Len(L) /\ (Len(L) # 1 => 2 \in 1..Len(L)) /\ 1 + 1 = 2
  <2>1. \A n \in Nat : n # 0 => 1 \in 1..n /\ (n # 1 => 2 \in 1..n)
    OBVIOUS
  <2>2. 1 + 1 = 2
    OBVIOUS
  <2> QED
    BY <1>1, <2>1, <2>2
<1>3. h = L[1]
  BY Zenon DEF Linked
<1>4. L[1] \in Nds(s) /\ (Len(L) # 1 => L[2] \in Nds(s))
  BY <1>1, <1>2
<1>5. nd[L[1]].next = IF 1 = Len(L) THEN NULL ELSE L[1 + 1]
  BY <1>2 DEF Linked
<1> QED
  BY <1>1, <1>2, <1>3, <1>4, <1>5

\* The element of the first value is read.
LEMMA UnseenElement == ASSUME LockFreeInv, Linear, NEW t \in Threads, DeqElement(t) PROVE Linear' /\ C!Next
<1> DEFINE c == [Local(t) EXCEPT !.at = "deqCas", !.value = node[Local(t).next].element]
<1>0. KindOK(setup, Views[t]) /\ SameKind(Views[t], Local(t)) /\ Local(t) \in CallRecs(setup)
  BY Kinds
<1>1. Becomes(t, c) /\ UNCHANGED <<setup, node, head>> /\ Local(t).at = "deqElement"
  BY DEF DeqElement, Reads, At, Local, heap
<1>2. Local(t).op = "get"
  BY <1>0, <1>1 DEF KindOK, SameKind, DeqPoints
<1>3. /\ Whole(c) /\ c.at = "deqCas" /\ c.op = "get" /\ c.value = node[c.next].element /\ c.saw = Local(t).saw
      /\ c.result = Local(t).result
  BY <1>0, <1>2 DEF Whole, CallRecs
<1> HIDE DEF c
<1>4. Says(c, node') /\ Shown(c) = Shown(Local(t))
  BY <1>1, <1>2, <1>3 DEF Says, Shown, Adding, Past, HelpPoints, ScanPoints
<1>5. Contents' = Contents /\ SameValues
  BY <1>1, ContentsKept DEF SameValues
<1> QED
  BY <1>1, <1>3, <1>4, <1>5, Unseen

\* The successor of the dummy is read; if there is none the queue is empty.
LEMMA UnseenNext == ASSUME LockFreeInv, Linear, NEW t \in Threads, DeqNext(t) PROVE Linear' /\ C!Next
<1> DEFINE c == [Local(t) EXCEPT !.at = "deqGuardNext", !.next = node[Local(t).top].next]
<1>0. KindOK(setup, Views[t]) /\ SameKind(Views[t], Local(t)) /\ Local(t) \in CallRecs(setup) /\ thread \in [Threads -> ThreadRecs(setup)]
  BY Kinds DEF LockFreeInv
<1>1. Becomes(t, c) /\ UNCHANGED <<setup, node, head>> /\ Local(t).at = "deqNext"
  BY DEF DeqNext, Reads, At, Local, heap
<1>2. Local(t).op = "get" /\ setup.kind = "queue"
  BY <1>0, <1>1 DEF KindOK, SameKind, DeqPoints
<1>3. /\ Whole(c) /\ c.at = "deqGuardNext" /\ c.op = "get" /\ c.next = node[Local(t).top].next
      /\ c.saw = Local(t).saw /\ c.result = Local(t).result
  BY <1>0, <1>2 DEF Whole, CallRecs
<1> HIDE DEF c
<1>4. c.next = NULL => Contents = <<>>
  <2> SUFFICES ASSUME node[Local(t).top].next = NULL PROVE Contents = <<>>
    BY <1>3
  <2> DEFINE x == Local(t).top
  <2>1. PICK L : Entire(L)
    BY DEF LockFreeInv
  <2>2. /\ setup \in Setups /\ Linked(setup, node, head, L) /\ Contents = Elements(setup, node, L)
        /\ L \in Seq(Nds(setup)) /\ NULL \notin Nds(setup)
    BY <2>1, ContentsKnown
  <2>3. /\ DeqOK(setup, entry, L, node, head, tail, Views, t) /\ QueueOK(setup, entry, L, node, tail)
        /\ Views[t].at = "deqNext" /\ Views[t].top = x
    BY <1>0, <1>1, <2>1, Known, ViewFields
  <2>4. x \in Nds(setup) /\ Live(setup, entry, L, Views, x) /\ (x \in Range(L) => x = head)
    BY <2>3 DEF DeqOK, DeqPoints, Safe
  <2>5. x \in Range(L)
    <3>1. \A i \in Ents(setup) : ~Rtd(entry, i, x)
      BY <1>2, <2>3, <2>4 DEF QueueOK
    <3>2. ASSUME NEW u \in Threads, Views[u].at \in Taking, Views[u].top = x PROVE FALSE
      <4>1. PopOK(setup, entry, L, node, Views, u)
        BY <2>1, Known
      <4> QED
        BY <1>2, <3>2, <4>1 DEF PopOK
    <3> QED
      BY <2>4, <3>1, <3>2 DEF Live
  <2> HIDE DEF x
  <2>6. Len(L) = 1
    <3>1. Len(L) \in Nat /\ Len(L) # 0
      BY <2>2, <2>5 DEF Range
    <3>2. head = L[1] /\ (Len(L) # 1 => node[head].next \in Nds(setup))
      BY <2>2, <3>1, FirstOf
    <3> QED
      BY <2>2, <2>4, <2>5, <3>1, <3>2 DEF x
  <2>7. Skip(setup) = 1
    BY <1>2 DEF Skip
  <2>8. Contents = [k \in 1..0 |-> node[L[k + 1]].element]
    BY <2>2, <2>6, <2>7 DEF Elements
  <2> QED
    BY <2>8
<1>5. Contents' = Contents /\ SameValues
  BY <1>1, ContentsKept DEF SameValues
<1>6. C!Becomes(t, Shown(c)) /\ thread'[t].call = IF Contents = <<>> THEN Noted(c) ELSE c
  BY <1>0, <1>1, <1>2, <1>3, BecomesShown DEF Local
<1>7. Says(thread'[t].call, node')
  <2>1. /\ Noted(c).at = c.at /\ Noted(c).op = c.op /\ Noted(c).next = c.next /\ Noted(c).saw = TRUE
    BY <1>3 DEF Noted, Whole
  <2> DEFINE d == thread'[t].call
  <2>2. d.at = "deqGuardNext" /\ d.op = "get" /\ (d.next = NULL => d.saw = TRUE)
    BY <1>3, <1>4, <1>6, <2>1
  <2> HIDE DEF d
  <2>3. Says(d, node')
    BY <2>2 DEF Says, Adding, Past, HelpPoints, ScanPoints
  <2> QED
    BY <2>3 DEF d
<1>8. Linear'
  BY <1>1, <1>3, <1>5, <1>7, OthersSay DEF Linear, SameValues
<1>9. Calls[t] = Shown(c)
  <2>1. Shown(c) = Shown(Local(t))
    BY <1>2, <1>3 DEF Shown
  <2> QED
    BY <2>1, CallsShown DEF Local
<1>10. C!Notice(t)
  BY <1>5, <1>6, <1>9 DEF C!Notice
<1> QED
  BY <1>1, <1>8, <1>10 DEF C!Next

\* The container has values only.
LEMMA ValuesOnly == ASSUME Linear, NEW L, Entire(L) PROVE Contents \in Seq(Values)
<1>1. /\ L \in Seq(Nds(setup)) /\ Contents = Elements(setup, node, L) /\ node \in [Nds(setup) -> NodeRecs(setup)]
      /\ Skip(setup) <= Len(L)
  BY ContentsKnown
<1>2. Contents \in Seq(Values \cup {Nothing})
  BY <1>1, ElementsType
<1>3. \A k \in 1..Len(Contents) : Contents[k] \in Values
  BY <1>2 DEF Linear
<1> QED
  BY <1>2, <1>3

\* TryPush puts its node on top.
LEMMA SeesPush ==
  ASSUME LockFreeInv, LockFreeInv', Linear, NEW t \in Threads, PushCas(t), head = Local(t).top
  PROVE  Linear' /\ C!Next
<1> DEFINE m == Local(t).mine
           c == [Local(t) EXCEPT !.at = "return", !.result = "done"]
           v == Local(t).value
<1>0. KindOK(setup, Views[t]) /\ SameKind(Views[t], Local(t)) /\ Local(t) \in CallRecs(setup) /\ Says(Local(t), node)
  BY Kinds DEF Linear
<1>1. Becomes(t, c) /\ Local(t).at = "pushCas" /\ setup' = setup /\ node' = node /\ head' = m
  BY DEF PushCas, Ends, At, Local
<1>2. Local(t).op = "put" /\ Local(t).result = Nothing /\ setup.kind = "stack"
  BY <1>0, <1>1 DEF KindOK, SameKind, StackPoints
<1>3. Finishes(Local(t), c) /\ c.result = "done"
  BY <1>0, <1>1, <1>2, SetupsAssumption DEF Finishes, Whole, Past, CallRecs
<1>4. PICK L : thread \in [Threads -> ThreadRecs(setup)] /\ Entire(L)
  BY DEF LockFreeInv
<1>5. /\ setup \in Setups /\ NULL \notin Nds(setup) /\ Linked(setup, node, head, L) /\ Linkeds = Range(L)
      /\ L \in Seq(Nds(setup)) /\ Contents = Elements(setup, node, L) /\ node \in [Nds(setup) -> NodeRecs(setup)]
  BY <1>4, ContentsKnown
<1>6. m \in Nds(setup) /\ node[m].next = head
  <2>1. PushOK(setup, node, Views[t]) /\ Views[t].at = Local(t).at /\ Views[t].mine = m /\ Views[t].top = head
    BY <1>4, Known, ViewFields
  <2> QED
    BY <1>1, <2>1 DEF PushOK, Adding
<1>7. Holds(Local(t), m) /\ node[m].element = v /\ v \in Values
  BY <1>0, <1>1, <1>2 DEF Holds, Adding, Says
<1> HIDE DEF m, c, v
<1>8. m \notin Linkeds
  BY <1>6, <1>7, HeldApart
<1> DEFINE K == <<m>> \o L
<1>9. Linked(setup, node', head', K) /\ Skip(setup) <= Len(K)
  <2>1. Linked(setup, node, m, K)
    BY <1>5, <1>6, <1>8, LinkedPush
  <2>2. Skip(setup) = 0 /\ Len(K) \in Nat
    BY <1>2, <1>5, <1>6 DEF Skip
  <2> HIDE DEF K
  <2> QED
    BY <1>1, <2>1, <2>2
<1>10. Contents' = Elements(setup, node', K)
  <2> HIDE DEF K
  <2> QED
    BY <1>1, <1>5, <1>9, ContentsNext
<1>11. Contents' = <<v>> \o Contents
  BY <1>1, <1>2, <1>5, <1>6, <1>7, <1>10, ElementsPush
<1>12. \A k \in DOMAIN Contents' : Contents'[k] \in Values
  <2>1. Contents \in Seq(Values)
    BY <1>4, ValuesOnly
  <2> QED
    BY <1>7, <1>11, <2>1
<1>13. SameValues
  BY <1>1 DEF SameValues
<1>14. /\ Linear' /\ C!Ends(t, "done") /\ C!Open(t, "put") /\ Calls[t].value = v
  BY <1>1, <1>2, <1>3, <1>12, <1>13, Finishing DEF v
<1>15. C!Put(t)
  BY <1>2, <1>11, <1>14 DEF C!Put
<1> QED
  BY <1>1, <1>14, <1>15 DEF C!Next

\* TryEnqueue links its node behind the last one.
LEMMA SeesEnqueue ==
  ASSUME LockFreeInv, LockFreeInv', Linear, NEW t \in Threads, EnqCas(t), node[Local(t).last].next = NULL
  PROVE  Linear' /\ C!Next
<1> DEFINE m == Local(t).mine
           z == Local(t).last
           c == [Local(t) EXCEPT !.at = "enqDone", !.result = "done"]
           v == Local(t).value
<1>0. KindOK(setup, Views[t]) /\ SameKind(Views[t], Local(t)) /\ Local(t) \in CallRecs(setup) /\ Says(Local(t), node)
  BY Kinds DEF Linear
<1>1. /\ Becomes(t, c) /\ Local(t).at = "enqCas" /\ setup' = setup /\ head' = head
      /\ node' = [node EXCEPT ![z].next = m] /\ node[z].next = NULL
  BY DEF EnqCas, At, Local
<1>2. Local(t).op = "put" /\ Local(t).result = Nothing /\ setup.kind = "queue"
  BY <1>0, <1>1 DEF KindOK, SameKind, EnqPoints
<1>3. Finishes(Local(t), c) /\ c.result = "done"
  BY <1>0, <1>1, <1>2, SetupsAssumption DEF Finishes, Whole, Past, CallRecs
<1>4. PICK L : thread \in [Threads -> ThreadRecs(setup)] /\ Entire(L)
  BY DEF LockFreeInv
<1>5. /\ setup \in Setups /\ NULL \notin Nds(setup) /\ Linked(setup, node, head, L) /\ Linkeds = Range(L)
      /\ L \in Seq(Nds(setup)) /\ Contents = Elements(setup, node, L) /\ node \in [Nds(setup) -> NodeRecs(setup)]
      /\ Skip(setup) <= Len(L) /\ Skip(setup) \in {0, 1}
  BY <1>4, ContentsKnown
<1>6. /\ PushOK(setup, node, Views[t]) /\ EnqOK(setup, entry, L, node, Views, t)
      /\ QueueOK(setup, entry, L, node, tail)
      /\ Views[t].at = "enqCas" /\ Views[t].mine = m /\ Views[t].last = z
  BY <1>1, <1>4, Known, ViewFields
<1>7. m \in Nds(setup) /\ node[m].next = NULL
  BY <1>6 DEF PushOK, Adding, EnqPoints
<1>8. z \in Nds(setup) /\ Live(setup, entry, L, Views, z)
  BY <1>6 DEF EnqOK, Safe
<1>9. z \in Range(L)
  <2>1. \A i \in Ents(setup) : ~Rtd(entry, i, z)
    BY <1>1, <1>2, <1>6, <1>8 DEF QueueOK
  <2>2. ASSUME NEW u \in Threads, Views[u].at \in Taking, Views[u].top = z PROVE FALSE
    <3>1. PopOK(setup, entry, L, node, Views, u)
      BY <1>4, Known
    <3> QED
      BY <1>1, <1>2, <1>8, <2>2, <3>1 DEF PopOK
  <2> QED
    BY <1>8, <2>1, <2>2 DEF Live
<1>10. Holds(Local(t), m) /\ node[m].element = v /\ v \in Values
  BY <1>0, <1>1, <1>2 DEF Holds, Adding, Says
<1> HIDE DEF m, z, c, v
<1>11. m \notin Linkeds
  BY <1>7, <1>10, HeldApart
<1>12. \A n \in Nds(setup) : node'[n].element = node[n].element
  <2>1. node' = [node EXCEPT ![z] = [node[z] EXCEPT !.next = m]]
    BY <1>1
  <2>2. \A x \in NodeRecs(setup) : [x EXCEPT !.next = m].element = x.element
    BY DEF NodeRecs
  <2>3. node[z] \in NodeRecs(setup) /\ node'[z] = [node[z] EXCEPT !.next = m]
        /\ \A n \in Nds(setup) : n # z => node'[n] = node[n]
    BY <1>5, <1>8, <2>1
  <2> QED
    BY <2>2, <2>3
<1>13. Relinked(setup, node, node', z, m)
  <2>1. node' = [node EXCEPT ![z] = [node[z] EXCEPT !.next = m]]
    BY <1>1
  <2>2. \A x \in NodeRecs(setup) : [x EXCEPT !.next = m].next = m
    BY DEF NodeRecs
  <2>3. node[z] \in NodeRecs(setup) /\ node'[z] = [node[z] EXCEPT !.next = m]
        /\ \A n \in Nds(setup) : n # z => node'[n] = node[n]
    BY <1>5, <1>8, <2>1
  <2>4. node'[z].next = m
    BY <2>2, <2>3
  <2> QED
    BY <1>1, <2>3, <2>4 DEF Relinked
<1> DEFINE K == Append(L, m)
<1>14. Linked(setup, node', head', K) /\ Skip(setup) <= Len(K)
  <2>1. Linked(setup, node', head, K)
    BY <1>5, <1>7, <1>9, <1>11, <1>13, LinkedAppend
  <2>2. Len(K) = Len(L) + 1 /\ Len(L) \in Nat
    BY <1>5, <1>7
  <2> HIDE DEF K
  <2> QED
    BY <1>1, <1>5, <2>1, <2>2
<1>15. Contents' = Elements(setup, node', K)
  <2> HIDE DEF K
  <2> QED
    BY <1>1, <1>5, <1>14, ContentsNext
<1>16. Elements(setup, node', K) = Append(Elements(setup, node', L), node'[m].element)
  <2>1. node' \in [Nds(setup) -> NodeRecs(setup)]
    BY <1>1, NodesNext
  <2>2. \A nd \in [Nds(setup) -> NodeRecs(setup)] :
          Elements(setup, nd, Append(L, m)) = Append(Elements(setup, nd, L), nd[m].element)
    <3>1. L \in Seq(Nds(setup)) /\ m \in Nds(setup) /\ Skip(setup) <= Len(L)
      BY <1>5, <1>7
    <3> QED
      BY <3>1, ElementsAppend, Zenon
  <2> QED
    BY <2>1, <2>2
<1>17. Elements(setup, node', L) = Elements(setup, node, L)
  <2>1. \A n \in Range(L) : n \in Nds(setup)
    BY <1>5 DEF Range
  <2> QED
    BY <1>5, <1>12, <2>1, ElementsSame
<1>18. Contents' = Append(Contents, v)
  BY <1>5, <1>7, <1>10, <1>12, <1>15, <1>16, <1>17
<1>19. \A k \in DOMAIN Contents' : Contents'[k] \in Values
  <2>1. Contents \in Seq(Values)
    BY <1>4, ValuesOnly
  <2> QED
    BY <1>10, <1>18, <2>1
<1>20. SameValues
  BY <1>12 DEF SameValues
<1>21. /\ Linear' /\ C!Ends(t, "done") /\ C!Open(t, "put") /\ Calls[t].value = v
  BY <1>1, <1>2, <1>3, <1>19, <1>20, Finishing DEF v
<1>22. C!Put(t)
  BY <1>2, <1>18, <1>21 DEF C!Put
<1> QED
  BY <1>1, <1>21, <1>22 DEF C!Next

\* TryPop and TryDequeue take the first node, and return the first value.
LEMMA SeesTake ==
  ASSUME LockFreeInv, LockFreeInv', Linear, NEW t \in Threads, PopCas(t) \/ DeqCas(t), head = Local(t).top
  PROVE  Linear' /\ C!Next
<1>0. KindOK(setup, Views[t]) /\ SameKind(Views[t], Local(t)) /\ Local(t) \in CallRecs(setup) /\ Says(Local(t), node)
  BY Kinds DEF Linear
<1>1. PICK L : thread \in [Threads -> ThreadRecs(setup)] /\ Entire(L)
  BY DEF LockFreeInv
<1>2. /\ setup \in Setups /\ NULL \notin Nds(setup) /\ Linked(setup, node, head, L) /\ Linkeds = Range(L)
      /\ L \in Seq(Nds(setup)) /\ Contents = Elements(setup, node, L) /\ node \in [Nds(setup) -> NodeRecs(setup)]
      /\ Skip(setup) <= Len(L) /\ Skip(setup) \in {0, 1}
  BY <1>1, ContentsKnown
<1>3. /\ PopOK(setup, entry, L, node, Views, t) /\ DeqOK(setup, entry, L, node, head, tail, Views, t)
      /\ Views[t].at = Local(t).at /\ Views[t].top = head /\ Views[t].next = Local(t).next
  BY <1>1, Known, ViewFields
<1>4. /\ setup' = setup /\ node' = node /\ head' = Local(t).next /\ Local(t).at \in {"popCas", "deqCas"}
      /\ Local(t).at = "popCas" => Becomes(t, [Local(t) EXCEPT !.at = "popTake", !.result = node[Local(t).top].element])
      /\ Local(t).at = "deqCas" => Becomes(t, [Local(t) EXCEPT !.at = "retire", !.result = Local(t).value, !.value = Nothing])
  BY DEF PopCas, DeqCas, At, Local
<1>5. head \in Nds(setup) /\ node[head].next = head'
  <2>1. CASE Views[t].at = "popCas"
    BY <1>3, <1>4, <2>1 DEF PopOK, Safe
  <2>2. CASE Views[t].at = "deqCas"
    BY <1>3, <1>4, <2>2 DEF DeqOK, DeqPoints, Safe
  <2> QED
    BY <1>3, <1>4, <2>1, <2>2
<1>6. Local(t).op = "get" /\ Local(t).result = Nothing
  BY <1>0, <1>4 DEF KindOK, SameKind, StackPoints, DeqPoints
<1>7. Len(L) # 0
  BY <1>2, <1>5 DEF Linked
<1>8. Skip(setup) + 1 <= Len(L) /\ node[L[1 + Skip(setup)]].element =
        IF Local(t).at = "popCas" THEN node[Local(t).top].element ELSE Local(t).value
  <2>1. /\ head = L[1] /\ Len(L) \in Nat /\ (Len(L) = 1 => node[head].next = NULL)
        /\ Len(L) # 1 => 2 <= Len(L) /\ node[head].next = L[2]
    BY <1>2, <1>7, FirstOf
  <2>2. CASE Local(t).at = "popCas"
    <3>1. Skip(setup) = 0
      BY <1>0, <2>2 DEF KindOK, SameKind, StackPoints, Skip
    <3> QED
      BY <1>7, <2>1, <2>2, <3>1
  <2>3. CASE Local(t).at = "deqCas"
    <3>1. Skip(setup) = 1
      BY <1>0, <2>3 DEF KindOK, SameKind, DeqPoints, Skip
    <3>2. Local(t).next \in Nds(setup) /\ node[Local(t).next].element = Local(t).value
      BY <1>0, <2>3, SaidNodes DEF Says
    <3>3. Len(L) # 1
      BY <1>2, <1>4, <1>5, <2>1, <3>2
    <3> QED
      BY <1>4, <1>5, <2>1, <2>3, <3>1, <3>2, <3>3
  <2> QED
    BY <1>4, <2>2, <2>3
<1> DEFINE K == Tail(L)
<1>9. Linked(setup, node', head', K) /\ Skip(setup) <= Len(K)
  <2>1. Linked(setup, node, node[head].next, K)
    BY <1>2, <1>5, LinkedTail
  <2>2. Len(K) = Len(L) - 1 /\ Len(L) \in Nat
    BY <1>2, <1>7
  <2> HIDE DEF K
  <2> QED
    BY <1>2, <1>4, <1>5, <1>8, <2>1, <2>2
<1>10. Contents' = Elements(setup, node', K)
  <2> HIDE DEF K
  <2> QED
    BY <1>2, <1>4, <1>9, ContentsNext
<1> DEFINE w == Head(Contents)
<1>11. Contents' = Tail(Contents) /\ Contents # <<>> /\ w = node[L[1 + Skip(setup)]].element
  BY <1>2, <1>4, <1>8, <1>10, ElementsTail
<1>12. w \in Values /\ \A k \in DOMAIN Contents' : Contents'[k] \in Values
  <2>1. Contents \in Seq(Values)
    BY <1>1, ValuesOnly
  <2>2. Tail(Contents) \in Seq(Values) /\ w \in Values
    BY <1>11, <2>1
  <2> QED
    BY <1>11, <2>2
<1>13. SameValues /\ w # Nothing
  BY <1>4, <1>12, SetupsAssumption DEF SameValues
<1>14. PICK c : Becomes(t, c) /\ Finishes(Local(t), c) /\ c.result = w
  <2>1. CASE Local(t).at = "popCas"
    <3> DEFINE c == [Local(t) EXCEPT !.at = "popTake", !.result = node[Local(t).top].element]
    <3>1. c.result = w
      BY <1>0, <1>8, <1>11, <2>1 DEF CallRecs
    <3>2. Finishes(Local(t), c)
      BY <1>0, <1>6, <1>13, <2>1, <3>1 DEF Finishes, Whole, Past, CallRecs
    <3> QED
      BY <1>4, <2>1, <3>1, <3>2
  <2>2. CASE Local(t).at = "deqCas"
    <3> DEFINE c == [Local(t) EXCEPT !.at = "retire", !.result = Local(t).value, !.value = Nothing]
    <3>1. c.result = w
      BY <1>0, <1>8, <1>11, <2>2 DEF CallRecs
    <3>2. Finishes(Local(t), c)
      BY <1>0, <1>6, <1>13, <2>2, <3>1 DEF Finishes, Whole, Past, CallRecs
    <3> QED
      BY <1>4, <2>2, <3>1, <3>2
  <2> QED
    BY <1>4, <2>1, <2>2
<1>15. Linear' /\ C!Ends(t, w) /\ C!Open(t, "get")
  BY <1>6, <1>12, <1>13, <1>14, Finishing
<1>16. C!Get(t)
  BY <1>11, <1>15 DEF C!Get
<1> QED
  BY <1>4, <1>15, <1>16 DEF C!Next

-----------------------------------------------------------------------------
(* A put fails only for lack of room                                       *)

\* A set that a function covers is not larger than what the function is taken of.
LEMMA CoverBound ==
  ASSUME NEW X, IsFiniteSet(X), NEW f, NEW T, \A y \in T : \E x \in X : f[x] = y
  PROVE  /\ IsFiniteSet(T) /\ Cardinality(T) <= Cardinality(X)
         /\ Cardinality(T) \in Nat /\ Cardinality(X) \in Nat
<1> DEFINE R == {x \in X : f[x] \in T}
           g == [x \in R |-> f[x]]
<1>1. IsFiniteSet(R) /\ Cardinality(R) <= Cardinality(X)
  BY FS_Subset
<1>2. g \in Surjection(R, T)
  <2>1. g \in [R -> T]
    OBVIOUS
  <2>2. \A y \in T : \E x \in R : g[x] = y
    OBVIOUS
  <2> QED
    BY <2>1, <2>2 DEF Surjection
<1>3. IsFiniteSet(T) /\ Cardinality(T) <= Cardinality(R)
  BY <1>1, <1>2, FS_Surjection
<1>4. Cardinality(T) \in Nat /\ Cardinality(R) \in Nat /\ Cardinality(X) \in Nat
  BY <1>1, <1>3, FS_CardinalityType
<1> HIDE DEF R
<1> QED
  BY <1>1, <1>3, <1>4

\* The nodes that are retired or were taken out to be retired, and the ones of puts under way.
GoneNodes  == {n \in Nds(setup) : \/ \E i \in Ents(setup) : Rtd(entry, i, n)
                                  \/ \E u \in Threads : Views[u].at \in Taking /\ Views[u].top = n}
PutNodes  == {n \in Nds(setup) : \E u \in Threads : Views[u].at \in Adding /\ Views[u].mine = n}

\* A thread that is about to retire a node has room for it in its list.
LEMMA RoomToRetire ==
  ASSUME NEW L, Entire(L), NEW u \in Threads, Views[u].at \in Taking
  PROVE  /\ Views[u].index \in Ents(setup)
         /\ Len(entry[Views[u].index].retired) < RetiredListMaxSize(setup)
<1>1. /\ Indices(setup, counter, Views) /\ Scanned(setup, counter, entry, Views)
      /\ Room(setup, entry, Views, active_hazard_pointer)
  BY Known
<1> DEFINE i == Views[u].index
<1>2. i \in Ents(setup) /\ i # NoIndex
  BY <1>1 DEF Indices, Taking, Indexed
<1>3. ~Finished(Views[u]) /\ Views[u].at \notin ScanPoints
  BY DEF Finished, Taking, ScanPoints
<1>4. ASSUME NEW v \in Threads, Views[v].at \in ScanPoints, Views[v].scan = i PROVE FALSE
  <2>1. Views[v].at \in HelpPoints
    BY <1>4 DEF HelpPoints
  <2>2. CASE Views[v].help = 0
    <3>1. Views[v].index = i
      BY <1>1, <1>4, <2>1, <2>2 DEF Scanned
    <3>2. u = v
      BY <1>1, <1>2, <3>1 DEF Indices
    <3> QED
      BY <1>3, <1>4, <3>2
  <2>3. CASE Views[v].help # 0
    BY <1>1, <1>3, <1>4, <2>1, <2>3 DEF Scanned
  <2> QED
    BY <2>2, <2>3
<1> QED
  BY <1>1, <1>2, <1>4 DEF Room

\* The lists and the threads that fill them have room for no more nodes than that.
LEMMA GoneBound ==
  ASSUME NEW L, Entire(L)
  PROVE  /\ IsFiniteSet(GoneNodes) /\ Cardinality(GoneNodes) \in Nat
         /\ Cardinality(GoneNodes) <= RetiredListMaxSize(setup) * setup.max_threads
<1> DEFINE M == RetiredListMaxSize(setup)
           X == Ents(setup) \X (1..M)
           who(i) == CHOOSE u \in Threads : Views[u].at \in Taking /\ Views[u].index = i
           f == [x \in X |-> IF x[2] <= Len(entry[x[1]].retired) THEN entry[x[1]].retired[x[2]]
                             ELSE Views[who(x[1])].top]
<1>1. /\ setup \in Setups /\ entry \in [Ents(setup) -> EntryRecs(setup)]
      /\ OnePlace(setup, entry, pool, L, Views) /\ Indices(setup, counter, Views)
      /\ Room(setup, entry, Views, active_hazard_pointer)
  BY DEF Entire, Parts, Shapes, Orderly
<1>2. M \in Nat \ {0} /\ setup.max_threads \in Nat \ {0}
  BY <1>1, Sizes
<1>3. IsFiniteSet(X) /\ Cardinality(X) = M * setup.max_threads
  <2>1. IsFiniteSet(Ents(setup)) /\ Cardinality(Ents(setup)) = setup.max_threads
    <3>1. \A b \in Int : IsFiniteSet(0..b) /\ Cardinality(0..b) = IF 0 > b THEN 0 ELSE b - 0 + 1
      BY FS_Interval
    <3>2. setup.max_threads - 1 \in Int /\ ~(0 > setup.max_threads - 1)
          /\ setup.max_threads - 1 - 0 + 1 = setup.max_threads
      BY <1>2
    <3> QED
      BY <3>1, <3>2 DEF Ents
  <2>2. IsFiniteSet(1..M) /\ Cardinality(1..M) = M
    BY <1>2, FS_Interval
  <2>3. IsFiniteSet(X) /\ Cardinality(X) = setup.max_threads * M
    BY <2>1, <2>2, FS_Product
  <2>4. \A a, b \in Nat : a * b = b * a
    OBVIOUS
  <2> HIDE DEF M
  <2> QED
    BY <1>2, <2>3, <2>4
<1> HIDE DEF M
<1>4. ASSUME NEW n \in GoneNodes PROVE \E x \in X : f[x] = n
  <2>1. CASE \E i \in Ents(setup) : Rtd(entry, i, n)
    <3>0. PICK i \in Ents(setup) : Rtd(entry, i, n)
      BY <2>1
    <3>1. PICK k \in DOMAIN entry[i].retired : entry[i].retired[k] = n
      BY <3>0 DEF Rtd
    <3>2. entry[i].retired \in Seq(Nds(setup)) /\ Len(entry[i].retired) <= M
      BY <1>1, <3>1 DEF EntryRecs, Room, M
    <3>3. k \in 1..M /\ k <= Len(entry[i].retired)
      BY <1>2, <3>1, <3>2
    <3>4. <<i, k>> \in X /\ f[<<i, k>>] = n
      BY <3>1, <3>3
    <3> QED
      BY <3>4
  <2>2. CASE \E u \in Threads : Views[u].at \in Taking /\ Views[u].top = n
    <3>1. PICK u \in Threads : Views[u].at \in Taking /\ Views[u].top = n
      BY <2>2
    <3> DEFINE i == Views[u].index
    <3>2. i \in Ents(setup) /\ Len(entry[i].retired) < M
      BY <3>1, RoomToRetire DEF M
    <3>3. i # NoIndex
      BY <1>1, <3>1 DEF Indices, Taking, Indexed
    <3>4. who(i) \in Threads /\ Views[who(i)].index = i
      <4>1. \E w \in Threads : Views[w].at \in Taking /\ Views[w].index = i
        BY <3>1
      <4> HIDE DEF i
      <4> QED
        BY <4>1
    <3>5. who(i) = u
      BY <1>1, <3>3, <3>4 DEF Indices
    <3> HIDE DEF who, i
    <3>6. entry[i].retired \in Seq(Nds(setup)) /\ Len(entry[i].retired) \in Nat
      BY <1>1, <3>2 DEF EntryRecs
    <3>7. <<i, M>> \in X /\ ~(M <= Len(entry[i].retired))
      BY <1>2, <3>2, <3>6
    <3>8. f[<<i, M>>] = n
      BY <3>1, <3>5, <3>7
    <3> QED
      BY <3>7, <3>8
  <2> QED
    BY <2>1, <2>2 DEF GoneNodes
<1> HIDE DEF X, f
<1>5. IsFiniteSet(GoneNodes) /\ Cardinality(GoneNodes) <= Cardinality(X) /\ Cardinality(GoneNodes) \in Nat
  BY <1>3, <1>4, CoverBound
<1> QED
  BY <1>3, <1>5 DEF M

\* The nodes of the puts under way are not more than these.
LEMMA AddedBound ==
  ASSUME NEW L, Entire(L), NEW t \in Threads, Views[t].at \notin Adding
  PROVE  /\ IsFiniteSet(PutNodes) /\ Cardinality(PutNodes) \in Nat
         /\ Cardinality({u \in Threads \ {t} : Views[u].op = "put"}) \in Nat
         /\ Cardinality(PutNodes) <= Cardinality({u \in Threads \ {t} : Views[u].op = "put"})
<1> DEFINE X == {u \in Threads \ {t} : Views[u].op = "put"}
           f == [u \in X |-> Views[u].mine]
<1>1. IsFiniteSet(X)
  BY ThreadsAssumption, FS_Subset
<1>2. ASSUME NEW n \in PutNodes PROVE \E u \in X : f[u] = n
  <2>1. PICK u \in Threads : Views[u].at \in Adding /\ Views[u].mine = n
    BY DEF PutNodes
  <2>2. KindOK(setup, Views[u])
    BY Known
  <2>3. Views[u].op = "put"
    BY <2>1, <2>2 DEF KindOK, SameKind, Adding, EnqPoints
  <2> QED
    BY <2>1, <2>3
<1> HIDE DEF f
<1>3. \A n \in PutNodes : \E u \in X : f[u] = n
  BY <1>2
<1> HIDE DEF X
<1>4. /\ IsFiniteSet(PutNodes) /\ Cardinality(PutNodes) \in Nat /\ Cardinality(X) \in Nat
      /\ Cardinality(PutNodes) <= Cardinality(X)
  BY <1>1, <1>3, CoverBound
<1> QED
  BY <1>4 DEF X

\* A list has not more nodes than places.
LEMMA LengthBound ==
  ASSUME NEW D, NEW L \in Seq(D)
  PROVE  /\ IsFiniteSet(Range(L)) /\ Cardinality(Range(L)) \in Nat /\ Len(L) \in Nat
         /\ Cardinality(Range(L)) <= Len(L)
<1>1. Len(L) \in Nat /\ IsFiniteSet(1..Len(L)) /\ Cardinality(1..Len(L)) = Len(L)
  <2>1. Len(L) \in Nat
    OBVIOUS
  <2>2. \A b \in Nat : IsFiniteSet(1..b) /\ Cardinality(1..b) = b
    BY FS_Interval
  <2> QED
    BY <2>1, <2>2
<1>2. \A y \in Range(L) : \E x \in 1..Len(L) : L[x] = y
  BY DEF Range
<1> QED
  BY <1>1, <1>2, CoverBound

\* With an empty pool the values and the other puts use up the capacity.
LEMMA NoRoom ==
  ASSUME LockFreeInv, Placement, NEW t \in Threads, Local(t).at \in {"push", "enq"}, pool = {}
  PROVE  Len(Contents) + Cardinality({u \in Threads \ {t} : Views[u].op = "put"}) >= setup.capacity
<1>1. PICK L : thread \in [Threads -> ThreadRecs(setup)] /\ Entire(L)
  BY DEF LockFreeInv
<1>2. /\ setup \in Setups /\ node \in [Nds(setup) -> NodeRecs(setup)] /\ L \in Seq(Nds(setup)) /\ Linkeds = Range(L)
      /\ Skip(setup) <= Len(L) /\ Contents = Elements(setup, node, L)
  BY <1>1, ContentsKnown
<1>3. Len(Contents) = Len(L) - Skip(setup) /\ Len(L) \in Nat /\ Skip(setup) \in Nat
  BY <1>2, ElementsType
<1> DEFINE puts == Cardinality({u \in Threads \ {t} : Views[u].op = "put"})
           M == RetiredListMaxSize(setup) * setup.max_threads
<1>4. IsFiniteSet(GoneNodes) /\ Cardinality(GoneNodes) \in Nat /\ Cardinality(GoneNodes) <= M
  BY <1>1, GoneBound
<1>5. IsFiniteSet(PutNodes) /\ Cardinality(PutNodes) \in Nat /\ puts \in Nat /\ Cardinality(PutNodes) <= puts
  <2>1. Views[t].at \notin Adding
    BY <1>1, ViewFields DEF Adding
  <2> QED
    BY <1>1, <2>1, AddedBound
<1>6. IsFiniteSet(Range(L)) /\ Cardinality(Range(L)) \in Nat /\ Cardinality(Range(L)) <= Len(L)
  BY <1>2, LengthBound
<1>7. Nds(setup) \subseteq (Range(L) \cup GoneNodes) \cup PutNodes
  <2> SUFFICES ASSUME NEW n \in Nds(setup), n \notin Range(L), n \notin PutNodes PROVE n \in GoneNodes
    OBVIOUS
  <2>1. \/ \E i \in Ents(setup) : Rtd(entry, i, n)
        \/ \E u \in Threads : Holds(thread[u].call, n)
    BY <1>2 DEF Placement, AllPlaced, Stored
  <2>2. ASSUME NEW u \in Threads, Holds(thread[u].call, n) PROVE Views[u].at \in Taking /\ Views[u].top = n
    <3>1. Views[u].at = thread[u].call.at /\ Views[u].mine = thread[u].call.mine /\ Views[u].top = thread[u].call.top
      BY <1>1, ViewFields DEF Local
    <3> QED
      BY <2>2, <3>1 DEF Holds, PutNodes
  <2> QED
    BY <2>1, <2>2 DEF GoneNodes
<1> DEFINE A == Range(L)
           B == GoneNodes
           D == PutNodes
<1>8. Cardinality(Nds(setup)) <= Cardinality(A) + Cardinality(B) + Cardinality(D)
  <2> HIDE DEF A, B, D
  <2>1. IsFiniteSet(A) /\ IsFiniteSet(B) /\ IsFiniteSet(D)
    BY <1>4, <1>5, <1>6 DEF A, B, D
  <2>2. /\ IsFiniteSet(A \cup B) /\ Cardinality(A \cup B) = Cardinality(A) + Cardinality(B) - Cardinality(A \cap B)
    BY <2>1, FS_Union
  <2>3. /\ IsFiniteSet((A \cup B) \cup D)
        /\ Cardinality((A \cup B) \cup D) = Cardinality(A \cup B) + Cardinality(D) - Cardinality((A \cup B) \cap D)
    BY <2>1, <2>2, FS_Union
  <2>4. IsFiniteSet(A \cap B) /\ IsFiniteSet((A \cup B) \cap D)
    BY <2>1, <2>2, FS_Subset
  <2>5. /\ Cardinality(A) \in Nat /\ Cardinality(B) \in Nat /\ Cardinality(D) \in Nat
        /\ Cardinality(A \cap B) \in Nat /\ Cardinality((A \cup B) \cap D) \in Nat /\ Cardinality(A \cup B) \in Nat
    BY <2>1, <2>2, <2>4, FS_CardinalityType
  <2>6. IsFiniteSet(Nds(setup)) /\ Cardinality(Nds(setup)) <= Cardinality((A \cup B) \cup D)
    BY <1>7, <2>3, FS_Subset DEF A, B, D
  <2>7. Cardinality(Nds(setup)) \in Nat
    BY <2>6, FS_CardinalityType
  <2> QED
    BY <2>2, <2>3, <2>5, <2>6, <2>7
<1>9. /\ Cardinality(Nds(setup)) = M + setup.capacity + Skip(setup)
      /\ M \in Nat /\ setup.capacity \in Nat
  <2>1. /\ setup.max_threads \in Nat /\ setup.capacity \in Nat /\ RetiredListMaxSize(setup) \in Nat
        /\ PoolSize(setup) \in Nat \ {0}
    BY <1>2, Sizes
  <2>2. M \in Nat
    BY <2>1
  <2>3. Cardinality(Nds(setup)) = PoolSize(setup)
    BY <2>1, FS_Interval DEF Nds
  <2>4. PoolSize(setup) = M + setup.capacity + Skip(setup)
    BY DEF PoolSize, Skip
  <2> QED
    BY <2>1, <2>2, <2>3, <2>4
<1> HIDE DEF puts, M
<1>10. M + setup.capacity + Skip(setup) <= Len(L) + M + puts
  BY <1>3, <1>4, <1>5, <1>6, <1>8, <1>9
<1> QED
  BY <1>3, <1>5, <1>9, <1>10 DEF puts

\* TryPush and TryEnqueue find the pool empty.
LEMMA FindsNoRoom ==
  ASSUME LockFreeInv, Placement, Linear, NEW t \in Threads, Allocate(t), AllocateFails(t)
  PROVE  Linear' /\ C!Next
<1> DEFINE c == [Local(t) EXCEPT !.at = "return", !.result = "full"]
<1>0. KindOK(setup, Views[t]) /\ SameKind(Views[t], Local(t)) /\ Local(t) \in CallRecs(setup) /\ Says(Local(t), node)
  BY Kinds DEF Linear
<1>1. /\ Becomes(t, c) /\ Local(t).at \in {"push", "enq"} /\ setup' = setup /\ head' = head /\ node' = node
      /\ pool = {}
  BY DEF Allocate, AllocateFails, Ends, At, Local, heap
<1>2. Local(t).op = "put" /\ Local(t).result = Nothing
  BY <1>0, <1>1 DEF KindOK, SameKind, EnqPoints, StackPoints
<1>3. Finishes(Local(t), c) /\ c.result = "full"
  BY <1>0, <1>1, <1>2, SetupsAssumption DEF Finishes, Whole, Past, CallRecs
<1>4. Contents' = Contents /\ SameValues
  BY <1>1, ContentsKept DEF SameValues
<1>5. /\ Linear' /\ C!Ends(t, "full") /\ C!Open(t, "put")
  <2>1. \A k \in DOMAIN Contents' : Contents'[k] \in Values
    BY <1>4 DEF Linear
  <2> HIDE DEF c
  <2> QED
    BY <1>1, <1>2, <1>3, <1>4, <2>1, Finishing
<1>6. \A u \in Threads : Calls[u].op = "put" <=> Views[u].op = "put"
  <2> TAKE u \in Threads
  <2>1. Views[u].op = thread[u].call.op
    BY ViewFields DEF LockFreeInv, Local
  <2>2. Calls[u] = Shown(thread[u].call)
    BY CallsShown
  <2> QED
    BY <2>1, <2>2 DEF Shown
<1>7. Len(Contents) + Cardinality({u \in Threads \ {t} : Calls[u].op = "put"}) >= setup.capacity
  <2>1. {u \in Threads \ {t} : Calls[u].op = "put"} = {u \in Threads \ {t} : Views[u].op = "put"}
    BY <1>6
  <2> QED
    BY <1>1, <2>1, NoRoom
<1>8. C!PutFails(t)
  <2>1. \A X : C!Cardinality(X) = Cardinality(X)
    BY DEF C!Cardinality, Cardinality
  <2>2. Len(Contents) + C!Cardinality({u \in Threads \ {t} : Calls[u].op = "put"}) >= setup.capacity
    BY <1>7, <2>1
  <2>3. \A a, b : [lifo |-> a, capacity |-> b].capacity = b
    OBVIOUS
  <2> QED
    BY <1>4, <1>5, <2>2, <2>3 DEF C!PutFails
<1> QED
  BY <1>1, <1>5, <1>8 DEF C!Next

-----------------------------------------------------------------------------
(* The lock-free containers implement LinearContainer                      *)

\* Every step of the lock-free containers is a step of the abstract container.
LEMMA LinearStep ==
  ASSUME LockFreeInv, LockFreeInv', Placement, Linear, NEW t \in Threads, LockFreeStep(t)
  PROVE  Linear' /\ C!Next
<1>1. CASE HazardStep(t)
  <2>1. CASE Begin(t)
    BY <2>1, SeesBegin
  <2>2. CASE Return(t)
    BY <2>2, SeesReturn
  <2>3. CASE TakeIndex(t)
    BY <2>3, UnseenIndex
  <2>4. CASE GiveBack(t)
    BY <2>4, FindsNoIndex
  <2>5. CASE Retire(t) \/ ScanGuard(t) \/ ScanFrees(t) \/ HelpScan(t) \/ Helped(t)
    BY <2>5, UnseenScan
  <2>6. CASE Leave(t) \/ LeaveRead(t) \/ LeaveWrite(t)
    BY <2>6, UnseenLeave
  <2> QED
    BY <1>1, <2>1, <2>2, <2>3, <2>4, <2>5, <2>6 DEF HazardStep
<1>2. CASE Allocate(t)
  <2>1. CASE AllocateFails(t)
    BY <1>2, <2>1, FindsNoRoom
  <2>2. CASE At(t, "push") /\ AllocateNode(t, "pushTop")
    BY <2>2, UnseenAllocate
  <2>3. CASE At(t, "enq") /\ AllocateNode(t, "enqTail")
    BY <2>3, UnseenAllocate
  <2> QED
    BY <1>2, <2>1, <2>2, <2>3 DEF Allocate
<1>3. CASE PushTop(t)
  BY <1>3, UnseenPushTop
<1>4. CASE PushCas(t)
  BY <1>4, UnseenPop, SeesPush
<1>5. CASE PopTop(t)
  BY <1>5, UnseenPop, FindsNothing
<1>6. CASE PopGuard(t) \/ PopCheck(t) \/ PopNext(t) \/ PopUnguard(t)
  BY <1>6, UnseenPop DEF PopUnguard
<1>7. CASE PopCas(t)
  BY <1>7, UnseenPop, SeesTake
<1>8. CASE EnqTail(t) \/ EnqGuard(t) \/ EnqCheck(t) \/ EnqNext(t) \/ EnqAgain(t) \/ EnqSwing(t) \/ EnqDone(t)
  BY <1>8, UnseenEnq
<1>9. CASE EnqCas(t)
  BY <1>9, UnseenEnq, SeesEnqueue
<1>10. CASE \/ DeqHead(t) \/ DeqGuard(t) \/ DeqCheck(t) \/ DeqTail(t) \/ DeqGuardNext(t) \/ DeqSwing(t)
  BY <1>10, UnseenDeq
<1>11. CASE DeqNext(t)
  BY <1>11, UnseenNext
<1>12. CASE DeqAgain(t)
  BY <1>12, UnseenDeq, FindsNothing
<1>13. CASE DeqElement(t)
  BY <1>13, UnseenElement
<1>14. CASE DeqCas(t)
  BY <1>14, UnseenDeq, SeesTake
<1> QED
  BY <1>1, <1>2, <1>3, <1>4, <1>5, <1>6, <1>7, <1>8, <1>9, <1>10, <1>11, <1>12, <1>13, <1>14 DEF LockFreeStep

\* Nothing is seen while the other containers are used.
LEMMA LinearElse == ASSUME Linear, UNCHANGED hvars PROVE Linear' /\ UNCHANGED C!vars
<1>1. setup' = setup /\ node' = node /\ head' = head /\ thread' = thread
  BY DEF hvars, guarding, heap
<1>2. Contents' = Contents
  BY <1>1, ContentsKept
<1>3. Calls' = Calls
  BY <1>1 DEF Calls, CallOf, Local
<1>4. Linear'
  BY <1>1, <1>2 DEF Linear, Local
<1> QED
  BY <1>1, <1>2, <1>3, <1>4 DEF C!vars

\* At first the container is empty, and no thread calls it.
LEMMA LinearFirst == ASSUME HazardInit PROVE Linear /\ C!Init
<1>1. PICK L : Entire(L)
  BY BeginsInv DEF LockFreeInv
<1>2. /\ setup \in Setups /\ NULL \notin Nds(setup) /\ Linked(setup, node, head, L) /\ L \in Seq(Nds(setup))
      /\ Skip(setup) <= Len(L) /\ Contents = Elements(setup, node, L) /\ Skip(setup) \in {0, 1}
      /\ node \in [Nds(setup) -> NodeRecs(setup)]
  BY <1>1, ContentsKnown
<1>3. Len(L) = Skip(setup)
  <2>1. Len(L) \in Nat /\ \A k \in 1..Len(L) : L[k] \in Nds(setup)
    BY <1>2
  <2>2. \A n \in Nds(setup) : node[n].next = NULL
    BY DEF HazardInit, Nodes, Nds
  <2>3. Len(L) <= 1
    <3> SUFFICES ASSUME Len(L) >= 2 PROVE FALSE
      BY <2>1
    <3>1. 1 \in 1..Len(L) /\ 2 \in 1..Len(L) /\ Len(L) # 1
      BY <2>1
    <3>2. node[L[1]].next = L[1 + 1] /\ L[2] \in Nds(setup) /\ L[1] \in Nds(setup)
      BY <1>2, <2>1, <3>1 DEF Linked
    <3>3. node[L[1]].next = L[2]
      BY <3>2
    <3> QED
      BY <1>2, <2>2, <3>2, <3>3
  <2>4. CASE setup.kind = "stack"
    <3>1. head = NULL
      BY <2>4 DEF HazardInit
    <3>2. Len(L) = 0
      <4> SUFFICES ASSUME Len(L) # 0 PROVE FALSE
        OBVIOUS
      <4>1. 1 \in 1..Len(L) /\ head = L[1]
        BY <1>2, <2>1 DEF Linked
      <4> QED
        BY <1>2, <2>1, <3>1, <4>1
    <3> QED
      BY <2>4, <3>2 DEF Skip
  <2>5. CASE setup.kind # "stack"
    <3>1. Skip(setup) = 1
      BY <2>5 DEF Skip
    <3> QED
      BY <1>2, <2>1, <2>3, <3>1
  <2> QED
    BY <2>4, <2>5
<1>4. Contents = <<>>
  <2>1. Contents \in Seq(Values \cup {Nothing}) /\ Len(Contents) = Len(L) - Skip(setup)
    BY <1>2, ElementsType
  <2>2. Len(Contents) = 0
    BY <1>2, <1>3, <2>1
  <2> QED
    BY <2>1, <2>2
<1>5. \A t \in Threads : Local(t) = Idle
  BY DEF HazardInit, Local
<1>6. Says(Idle, node)
  BY DEF Says, Idle, Adding, Past, HelpPoints, ScanPoints
<1>7. Linear
  BY <1>4, <1>5, <1>6 DEF Linear
<1>8. \A t \in Threads : Calls[t] = C!Idle
  <2> TAKE t \in Threads
  <2>1. Calls[t] = Shown(Idle)
    BY <1>5, CallsShown DEF Local
  <2>2. Idle.op = "idle" /\ Idle.value = Nothing /\ Idle.result = Nothing /\ Idle.saw = FALSE
    BY DEF Idle
  <2>3. Shown(Idle) = [op |-> Idle.op, value |-> Nothing, result |-> Idle.result, saw |-> Idle.saw]
    BY <2>2 DEF Shown
  <2> QED
    BY <2>1, <2>2, <2>3 DEF C!Idle
<1>9. Calls = [t \in Threads |-> C!Idle]
  BY <1>8 DEF Calls
<1> QED
  BY <1>4, <1>7, <1>9 DEF C!Init

\* LockFreeStack and LockFreeMPMCQueue implement LinearContainer for every set of threads, every
\* capacity and every program: each call of TryPush, TryPop, TryEnqueue and TryDequeue takes
\* effect at once between its begin and its return, no get says "empty" of a container that was
\* never empty during the call, and no put says "full" unless the values and the other puts
\* under way use up the capacity.
THEOREM LockFreeLinearizable == EnoughIndices => (Spec => C!Spec)
<1> SUFFICES ASSUME EnoughIndices PROVE Spec => C!Spec
  OBVIOUS
<1>1. Init => Linear /\ C!Init
  BY LinearFirst DEF Init
<1>2. LockFreeInv /\ LockFreeInv' /\ Placement /\ Linear /\ [Next]_vars => Linear' /\ [C!Next]_(C!vars)
  <2> SUFFICES ASSUME LockFreeInv, LockFreeInv', Placement, Linear, [Next]_vars
               PROVE  Linear' /\ [C!Next]_(C!vars)
    OBVIOUS
  <2>1. CASE \E t \in Threads : LockFreeStep(t)
    BY <2>1, LinearStep
  <2>2. CASE UNCHANGED hvars
    BY <2>2, LinearElse
  <2>3. [Next]_vars => (\E t \in Threads : LockFreeStep(t)) \/ UNCHANGED hvars
    BY DEF Next, vars
  <2> QED
    BY <2>1, <2>2, <2>3
<1> QED
  BY <1>1, <1>2, LockFreeInvariant, PlacementInvariant, PTL DEF Spec, C!Spec

\* The lock-free stack and queue and the wait-free queue keep the promise of
\* LinearContainer, side by side and with every interleaving of their threads.
THEOREM ContainersLinearizable == EnoughIndices => (Spec => ImplementsContainer)
  BY LockFreeLinearizable, WaitFreeLinearizable DEF ImplementsContainer
=============================================================================
