-------------------------- MODULE ValuePoolProofs ---------------------------
(***************************************************************************)
(* Proofs about the value pools of Containers, for every number of values, *)
(* every set of threads and every program of theirs.  The counters of the  *)
(* LockFreeTreeValuePool say what is available below, and an allocation    *)
(* that has decremented the root finds a value.  And the proof that the    *)
(* wait-free queue keeps the promise of LinearContainer.                   *)
(***************************************************************************)
EXTENDS Containers, FiniteSetTheorems, SequenceTheorems, WellFoundedInduction, TLAPS

-----------------------------------------------------------------------------
(* Induction and recursion on the naturals, for sets and functions.        *)

\* A set of naturals with zero and with the successor of each is all of them.
LEMMA SetInduction ==
  ASSUME NEW Q \in SUBSET Nat, 0 \in Q, \A n \in Q : n + 1 \in Q
  PROVE  Q = Nat
<1> DEFINE rest == Nat \ Q
<1>1. SUFFICES ASSUME rest # {} PROVE FALSE
  OBVIOUS
<1>2. PICK n \in rest : \A m \in rest : ~ (<<m, n>> \in OpToRel(<, Nat))
  BY <1>1, WFMin, NatLessThanWellFounded
<1>3. \A m \in rest : ~ (m < n)
  BY <1>2 DEF OpToRel
<1>4. n # 0 /\ n - 1 \in Nat
  OBVIOUS
<1>5. n - 1 \in Q
  BY <1>3, <1>4
<1> QED
  BY <1>4, <1>5

\* A function on the naturals that starts with a and goes on with step.
Iterates(g, a, step, Dom) ==
  /\ g \in [Nat -> Dom] /\ g[0] = a
  /\ \A k \in Nat : g[k + 1] = step[g[k]]

\* There is one.
LEMMA IterationExists ==
  ASSUME NEW Dom, NEW a \in Dom, NEW step \in [Dom -> Dom]
  PROVE  \E g : Iterates(g, a, step, Dom)
<1> DEFINE F(n, f) == /\ f \in [0..n -> Dom] /\ f[0] = a
                      /\ \A k \in 0..(n - 1) : f[k + 1] = step[f[k]]
           Q == {n \in Nat : \E f : F(n, f)}
<1>1. 0 \in Q
  <2>1. F(0, [k \in 0..0 |-> a])
    OBVIOUS
  <2> QED
    BY <2>1
<1>2. ASSUME NEW n \in Q PROVE n + 1 \in Q
  <2>1. PICK f : F(n, f)
    OBVIOUS
  <2> DEFINE f2 == [k \in 0..(n + 1) |-> IF k <= n THEN f[k] ELSE step[f[n]]]
  <2>2. f2 \in [0..(n + 1) -> Dom] /\ f2[0] = a
    BY <2>1
  <2>3. ASSUME NEW k \in 0..n PROVE f2[k + 1] = step[f2[k]]
    <3>1. CASE k = n
      BY <2>1, <3>1
    <3>2. CASE k < n
      BY <2>1, <3>2
    <3> QED
      BY <3>1, <3>2
  <2>4. F(n + 1, f2)
    <3>1. (n + 1) - 1 = n
      OBVIOUS
    <3> HIDE DEF f2
    <3> QED
      BY <2>2, <2>3, <3>1
  <2>5. n + 1 \in Nat
    OBVIOUS
  <2> HIDE DEF F
  <2> QED
    BY <2>4, <2>5
<1>3. Q = Nat
  BY <1>1, <1>2, SetInduction
\* Two of them agree on what they have in common.
<1>4. ASSUME NEW n \in Nat, NEW m \in Nat, NEW f, NEW f2, F(n, f), F(m, f2), n <= m
      PROVE  \A k \in 0..n : f[k] = f2[k]
  <2> DEFINE E == {k \in Nat : k <= n => f[k] = f2[k]}
  <2>1. 0 \in E
    BY <1>4
  <2>2. ASSUME NEW k \in E PROVE k + 1 \in E
    BY <1>4
  <2>3. E = Nat
    <3> HIDE DEF E
    <3> QED
      BY <2>1, <2>2, SetInduction DEF E
  <2> QED
    BY <2>3
<1> DEFINE pick == [n \in Nat |-> CHOOSE f : F(n, f)]
           g == [n \in Nat |-> pick[n][n]]
<1>5. \A n \in Nat : F(n, pick[n])
  <2> HIDE DEF F
  <2> QED
    BY <1>3
<1>6. g \in [Nat -> Dom] /\ g[0] = a
  <2>1. ASSUME NEW n \in Nat PROVE pick[n][n] \in Dom
    <3>1. F(n, pick[n])
      BY <1>5
    <3> HIDE DEF pick
    <3> QED
      BY <3>1
  <2>2. pick[0][0] = a
    <3>1. F(0, pick[0])
      BY <1>5
    <3> HIDE DEF pick
    <3> QED
      BY <3>1
  <2> HIDE DEF pick
  <2> QED
    BY <2>1, <2>2
<1>7. ASSUME NEW k \in Nat PROVE g[k + 1] = step[g[k]]
  <2>1. F(k, pick[k]) /\ F(k + 1, pick[k + 1])
    <3> HIDE DEF F, pick
    <3> QED
      BY <1>5
  <2>2. pick[k + 1][k] = pick[k][k]
    <3> HIDE DEF F, pick
    <3>1. k \in 0..k /\ k <= k + 1 /\ k + 1 \in Nat
      OBVIOUS
    <3> QED
      BY <1>4, <2>1, <3>1
  <2>3. pick[k + 1][k + 1] = step[pick[k + 1][k]]
    <3> HIDE DEF pick
    <3> QED
      BY <2>1
  <2>4. k + 1 \in Nat /\ g[k] = pick[k][k] /\ g[k + 1] = pick[k + 1][k + 1]
    <3> HIDE DEF pick
    <3> QED
      OBVIOUS
  <2> HIDE DEF pick, g
  <2> QED
    BY <2>2, <2>3, <2>4
<1> QED
  <2> HIDE DEF g
  <2> QED
    BY <1>6, <1>7 DEF Iterates

\* The cardinality that the pool's module counts with.
LEMMA SameCardinality == \A X : P!Cardinality(X) = Cardinality(X)
BY DEF P!Cardinality, Cardinality

-----------------------------------------------------------------------------
(* The size of the tree, a power of two.                                   *)

\* The doubling of GetSmallestPowerByTwoValue.
LEMMA DoubledDef ==
  /\ P!Doubled \in [Nat -> Nat]
  /\ P!Doubled[0] = 1
  /\ \A k \in Nat : P!Doubled[k + 1] = 2 * P!Doubled[k]
<1> DEFINE twice == [x \in Nat |-> 2 * x]
           R(g) == g = [k \in Nat |-> IF k = 0 THEN 1 ELSE 2 * g[k - 1]]
<1>1. twice \in [Nat -> Nat] /\ 1 \in Nat
  OBVIOUS
<1>2. PICK g : Iterates(g, 1, twice, Nat)
  <2> HIDE DEF twice
  <2> QED
    BY <1>1, IterationExists
<1>3. R(g)
  <2>1. ASSUME NEW k \in Nat PROVE g[k] = IF k = 0 THEN 1 ELSE 2 * g[k - 1]
    <3>1. CASE k = 0
      BY <1>2, <3>1 DEF Iterates
    <3>2. CASE k # 0
      <4>1. k - 1 \in Nat /\ (k - 1) + 1 = k
        BY <3>2
      <4>2. g[(k - 1) + 1] = twice[g[k - 1]] /\ g[k - 1] \in Nat
        BY <1>2, <4>1 DEF Iterates
      <4> QED
        BY <3>2, <4>1, <4>2
    <3> QED
      BY <3>1, <3>2
  <2>2. g = [k \in Nat |-> g[k]]
    BY <1>2 DEF Iterates
  <2> QED
    BY <2>1, <2>2
<1>4. R(P!Doubled)
  <2>1. P!Doubled = CHOOSE f : R(f)
    BY DEF P!Doubled
  <2> HIDE DEF R
  <2> QED
    BY <1>3, <2>1
<1>5. P!Doubled[0] = 1
  BY <1>4
<1>6. \A k \in Nat : P!Doubled[k + 1] = 2 * P!Doubled[k]
  <2> TAKE k \in Nat
  <2>1. k + 1 \in Nat /\ k + 1 # 0 /\ (k + 1) - 1 = k
    OBVIOUS
  <2> QED
    BY <1>4, <2>1
<1>7. \A k \in Nat : P!Doubled[k] \in Nat
  <2> DEFINE Q == {k \in Nat : P!Doubled[k] \in Nat}
  <2>1. 0 \in Q
    BY <1>5
  <2>2. \A k \in Q : k + 1 \in Q
    BY <1>6
  <2>3. Q = Nat
    BY <2>1, <2>2, SetInduction
  <2> QED
    BY <2>3
<1> QED
  BY <1>4, <1>5, <1>6, <1>7

\* Doubling outgrows the number of doublings.
LEMMA DoubledGrows == \A k \in Nat : P!Doubled[k] > k
<1> DEFINE Q == {k \in Nat : P!Doubled[k] > k}
<1>1. 0 \in Q
  BY DoubledDef
<1>2. \A k \in Q : k + 1 \in Q
  BY DoubledDef
<1>3. Q = Nat
  BY <1>1, <1>2, SetInduction
<1> QED
  BY <1>3

\* The number of doublings that give the size.
LEMMA SizeIsDoubled ==
  ASSUME psetup \in PoolSetups
  PROVE  /\ psetup.real_size \in Nat \ {0}
         /\ \E d \in Nat : P!size = P!Doubled[d]
         /\ P!size \in Nat \ {0} /\ psetup.real_size <= P!size
<1> DEFINE n == psetup.real_size
           Enough == {k \in Nat : P!Doubled[k] >= n}
<1>1. n \in Nat \ {0}
  BY PoolAssumption
<1>2. n \in Enough
  BY <1>1, DoubledDef, DoubledGrows
<1>3. PICK k \in Enough : \A m \in Enough : ~ (<<m, k>> \in OpToRel(<, Nat))
  <2>1. Enough \subseteq Nat /\ Enough # {}
    BY <1>2
  <2> QED
    BY <2>1, WFMin, NatLessThanWellFounded
<1>4. \A m \in Enough : ~ (m < k)
  BY <1>3 DEF OpToRel
<1>5. /\ k \in 0..n /\ P!Doubled[k] >= n
      /\ \A j \in 0..(k - 1) : P!Doubled[j] < n
  <2>1. k <= n
    BY <1>1, <1>2, <1>4
  <2>2. \A j \in 0..(k - 1) : P!Doubled[j] < n
    BY <1>1, <1>4, DoubledDef
  <2> QED
    BY <1>1, <2>1, <2>2
<1> DEFINE d == P!Doublings(n)
<1>6. d \in 0..n /\ P!Doubled[d] >= n
  <2> HIDE DEF n
  <2> QED
    BY <1>5 DEF P!Doublings
<1>7. P!size = P!Doubled[d] /\ d \in Nat
  BY <1>1, <1>6 DEF P!size, P!Size
<1>8. P!Doubled[d] \in Nat
  BY <1>7, DoubledDef
<1> HIDE DEF d
<1> QED
  BY <1>1, <1>6, <1>7, <1>8

-----------------------------------------------------------------------------
(* The cells and who holds their values.                                   *)

PoolCells == P!Cells

Programs == Seq({"allocate", "free"})
Points   == [at : {"idle", "array", "tree", "assert", "climb"}, node : Int]
Users    == [todo : Programs, held : Seq(PoolCells), call : Points]

\* A value that a thread holds is not in its cell, a value that is not in its
\* cell is with a thread, and none is held twice.
Ownership ==
  /\ \A t \in Threads : \A k \in 1..Len(user[t].held) : ~ cell[user[t].held[k]]
  /\ \A i \in PoolCells : ~ cell[i] =>
       \E t \in Threads : \E k \in 1..Len(user[t].held) : user[t].held[k] = i
  /\ \A t, u \in Threads :
       \A k \in 1..Len(user[t].held) : \A l \in 1..Len(user[u].held) :
         user[t].held[k] = user[u].held[l] => t = u /\ k = l

\* The inductive invariant of the cells and of who holds their values.
CellInv == /\ psetup \in PoolSetups /\ cell \in [PoolCells -> BOOLEAN]
           /\ user \in [Threads -> Users]
           /\ Ownership

-----------------------------------------------------------------------------
(* What a step does to the cells and to the indices that are held.         *)

HeldElsewhere(t) == \A u \in Threads \ {t} : user'[u] = user[u]

LeavesCells(t) == cell' = cell /\ user'[t].held = user[t].held

TakesOne(t) ==
  \E i \in PoolCells :
    /\ cell[i] /\ cell' = [cell EXCEPT ![i] = FALSE]
    /\ user'[t].held = Append(user[t].held, i)

GivesOne(t) ==
  /\ user[t].held # <<>>
  /\ cell' = [cell EXCEPT ![Head(user[t].held)] = TRUE]
  /\ user'[t].held = Tail(user[t].held)

\* Every step of a pool takes one value out of its cell, puts one back, or
\* leaves the values where they are.
LEMMA PoolEffect ==
  ASSUME CellInv, NEW t \in Threads, P!PoolStep(t)
  PROVE  /\ psetup' = psetup /\ user' \in [Threads -> Users] /\ HeldElsewhere(t)
         /\ LeavesCells(t) \/ TakesOne(t) \/ GivesOne(t)
<1>0. user \in [Threads -> Users]
  BY DEF CellInv
<1>a. P!Resting \in Points
  BY DEF P!Resting, Points
<1>b. \A k \in {"array", "tree", "assert", "climb"}, n \in Int :
        [at |-> k, node |-> n] \in Points
  BY DEF Points
<1> USE <1>0 DEF Users, HeldElsewhere
<1>1. CASE P!AllocateCall(t)
  <2>1. psetup.kind \in {"array", "tree"}
    BY PoolAssumption DEF CellInv
  <2>2. Tail(user[t].todo) \in Programs
    BY <1>1 DEF P!AllocateCall, Programs
  <2> QED
    <3> DEFINE point == [at |-> psetup.kind, node |-> 0]
    <3>1. point \in Points
      BY <1>b, <2>1
    <3>2. /\ user' = [user EXCEPT ![t].todo = Tail(@), ![t].call = point]
          /\ psetup' = psetup /\ cell' = cell
      BY <1>1 DEF P!AllocateCall
    <3> HIDE DEF point
    <3> QED
      BY <2>2, <3>1, <3>2 DEF LeavesCells
<1>2. ASSUME NEW i \in PoolCells, cell[i], P!Takes(t, i)
      PROVE  /\ psetup' = psetup /\ user' \in [Threads -> Users]
             /\ HeldElsewhere(t) /\ TakesOne(t)
  <2>1. Append(user[t].held, i) \in Seq(PoolCells)
    OBVIOUS
  <2> QED
    BY <1>2, <1>a, <2>1 DEF P!Takes, TakesOne
<1>3. ASSUME NEW where \in {"array", "tree", "assert", "climb"}, NEW n \in Int,
             P!Moves(t, where, n), UNCHANGED <<psetup, cell>>
      PROVE  /\ psetup' = psetup /\ user' \in [Threads -> Users]
             /\ HeldElsewhere(t) /\ LeavesCells(t)
  BY <1>3, <1>b DEF P!Moves, LeavesCells
<1>4. ASSUME user' = [user EXCEPT ![t].call = P!Resting],
             UNCHANGED <<psetup, cell>>
      PROVE  /\ psetup' = psetup /\ user' \in [Threads -> Users]
             /\ HeldElsewhere(t) /\ LeavesCells(t)
  BY <1>4, <1>a DEF LeavesCells
<1>5. P!Node(t) \in Int
  BY DEF P!Node, Points
<1>6. CASE P!ArrayCell(t)
  BY <1>2, <1>3, <1>5, <1>6 DEF P!ArrayCell, PoolCells
<1>7. CASE P!AllocateNothing(t)
  BY <1>4, <1>7 DEF P!AllocateNothing
<1>8. CASE P!TreeLeaf(t)
  BY <1>2, <1>3, <1>4, <1>5, <1>8 DEF P!TreeLeaf, P!NotHere, PoolCells
<1>9. CASE P!TreeInner(t)
  BY <1>3, <1>5, <1>9 DEF P!TreeInner, P!NotHere, P!LeftChild
<1>10. CASE P!FreeCall(t)
  <2>1. Tail(user[t].todo) \in Programs /\ Tail(user[t].held) \in Seq(PoolCells)
    BY <1>10 DEF P!FreeCall, Programs
  <2>2. psetup.real_size \in Nat
    BY PoolAssumption DEF CellInv
  <2>3. P!PoolIndexToNodeIndex(Head(user[t].held)) \in Int
    BY <1>10, <2>2, SizeIsDoubled DEF CellInv, P!FreeCall, P!PoolIndexToNodeIndex, PoolCells, P!Cells
  <2> QED
    BY <1>10, <1>a, <1>b, <2>1, <2>3 DEF P!FreeCall, GivesOne
<1>11. CASE P!FreeNothing(t)
  <2>1. Tail(user[t].todo) \in Programs
    BY <1>11 DEF P!FreeNothing, Programs
  <2> QED
    BY <1>11, <2>1 DEF P!FreeNothing, LeavesCells
<1>12. CASE P!Climb(t)
  <2>1. P!GetParentNode(P!Node(t)) \in Int
    BY <1>5 DEF P!GetParentNode
  <2> QED
    BY <1>3, <1>4, <1>12, <2>1 DEF P!Climb
<1> QED
  BY <1>1, <1>6, <1>7, <1>8, <1>9, <1>10, <1>11, <1>12 DEF P!PoolStep

\* At the start all the values are in their cells.
LEMMA InitCellInv == Init => CellInv
<1> SUFFICES ASSUME Init PROVE CellInv
  OBVIOUS
<1>1. psetup \in PoolSetups /\ cell \in [PoolCells -> BOOLEAN] /\ \A i \in PoolCells : cell[i]
  BY DEF Init, P!PoolInit, PoolCells
<1>2. \A t \in Threads : psetup.program[t] \in Programs
  BY <1>1, PoolAssumption DEF Programs
<1>3. /\ user \in [Threads -> Users]
      /\ \A t \in Threads : user[t].held = <<>>
  BY <1>2 DEF Init, P!PoolInit, Users, Points, P!Resting
<1> QED
  BY <1>1, <1>3 DEF CellInv, Ownership

\* A value goes from its cell to one thread and back.
LEMMA StepCellInv ==
  ASSUME CellInv, NEW t \in Threads, P!PoolStep(t)
  PROVE  CellInv'
<1>1. /\ psetup' = psetup /\ user' \in [Threads -> Users] /\ HeldElsewhere(t)
      /\ LeavesCells(t) \/ TakesOne(t) \/ GivesOne(t)
  BY PoolEffect
<1>2. PoolCells' = PoolCells /\ (user \in [Threads -> Users])'
  BY <1>1 DEF PoolCells, P!Cells, Users
<1>3. \A u \in Threads : user[u].held \in Seq(PoolCells) /\ user'[u].held \in Seq(PoolCells)
  BY <1>1 DEF CellInv, Users
<1>4. cell \in [PoolCells -> BOOLEAN]
  BY DEF CellInv
<1>5. CASE LeavesCells(t)
  <2>1. \A u \in Threads : user'[u].held = user[u].held
    BY <1>1, <1>5 DEF LeavesCells, HeldElsewhere
  <2> QED
    <3>1. cell' = cell
      BY <1>5 DEF LeavesCells
    <3>2. Ownership'
      BY <1>2, <2>1, <3>1 DEF CellInv, Ownership
    <3> QED
      BY <1>1, <1>2, <1>4, <3>1, <3>2 DEF CellInv
<1>6. CASE TakesOne(t)
  <2>1. PICK i \in PoolCells : /\ cell[i] /\ cell' = [cell EXCEPT ![i] = FALSE]
                               /\ user'[t].held = Append(user[t].held, i)
    BY <1>6 DEF TakesOne
  <2>2. /\ Len(user'[t].held) = Len(user[t].held) + 1
        /\ user'[t].held[Len(user[t].held) + 1] = i
        /\ \A k \in 1..Len(user[t].held) : user'[t].held[k] = user[t].held[k]
    BY <1>3, <2>1
  <2>3. \A u \in Threads \ {t} : user'[u].held = user[u].held
    BY <1>1 DEF HeldElsewhere
  <2>4. \A u \in Threads : \A k \in 1..Len(user[u].held) :
          user[u].held[k] # i /\ user'[u].held[k] = user[u].held[k] /\ k \in 1..Len(user'[u].held)
    BY SMTT(40), <2>1, <2>2, <2>3, <1>3 DEF CellInv, Ownership
  <2>5. \A u \in Threads : \A k \in 1..Len(user'[u].held) :
          \/ k \in 1..Len(user[u].held)
          \/ u = t /\ k = Len(user[t].held) + 1
    BY <2>2, <2>3, <1>3
  <2>6. Len(user[t].held) + 1 \in 1..Len(user'[t].held)
    BY <2>2, <1>3
  <2>7. cell' \in [PoolCells -> BOOLEAN] /\ ~cell'[i]
        /\ \A j \in PoolCells : j # i => cell'[j] = cell[j]
    BY <1>4, <2>1
  <2>8. \A u \in Threads : \A k \in 1..Len(user'[u].held) : ~ cell'[user'[u].held[k]]
    BY <2>2, <2>4, <2>5, <2>7, <1>3 DEF CellInv, Ownership
  <2>9. \A j \in PoolCells : ~ cell'[j] =>
          \E u \in Threads : \E k \in 1..Len(user'[u].held) : user'[u].held[k] = j
    <3> TAKE j \in PoolCells
    <3>1. CASE j = i
      BY <2>2, <2>6, <3>1
    <3>2. CASE j # i /\ ~cell'[j]
      BY <2>4, <2>7, <3>2 DEF CellInv, Ownership
    <3> QED
      BY <3>1, <3>2
  <2>10. \A u, v \in Threads :
           \A k \in 1..Len(user'[u].held) : \A l \in 1..Len(user'[v].held) :
             user'[u].held[k] = user'[v].held[l] => u = v /\ k = l
    <3> TAKE u, v \in Threads
    <3> TAKE k \in 1..Len(user'[u].held)
    <3> TAKE l \in 1..Len(user'[v].held)
    <3>1. CASE k \in 1..Len(user[u].held) /\ l \in 1..Len(user[v].held)
      BY <3>1, <2>4 DEF CellInv, Ownership
    <3>2. CASE k \in 1..Len(user[u].held) /\ ~(l \in 1..Len(user[v].held))
      <4>1. v = t /\ l = Len(user[t].held) + 1
        BY <3>2, <2>5
      <4>2. user'[v].held[l] = i
        BY <2>2, <4>1
      <4>3. user'[u].held[k] # i
        BY <3>2, <2>4
      <4> QED
        BY <4>2, <4>3
    <3>3. CASE ~(k \in 1..Len(user[u].held)) /\ l \in 1..Len(user[v].held)
      <4>1. u = t /\ k = Len(user[t].held) + 1
        BY <3>3, <2>5
      <4>2. user'[u].held[k] = i
        BY <2>2, <4>1
      <4>3. user'[v].held[l] # i
        BY <3>3, <2>4
      <4> QED
        BY <4>2, <4>3
    <3>4. CASE ~(k \in 1..Len(user[u].held)) /\ ~(l \in 1..Len(user[v].held))
      BY <3>4, <2>5
    <3> QED
      BY <3>1, <3>2, <3>3, <3>4
  <2> QED
    BY <1>1, <1>2, <2>7, <2>8, <2>9, <2>10 DEF CellInv, Ownership
<1>7. CASE GivesOne(t)
  <2> DEFINE i == Head(user[t].held)
  <2>1. /\ user[t].held # <<>>
        /\ cell' = [cell EXCEPT ![i] = TRUE]
        /\ user'[t].held = Tail(user[t].held)
    BY <1>7 DEF GivesOne
  <2>2. /\ i \in PoolCells /\ i = user[t].held[1] /\ 1 \in 1..Len(user[t].held)
        /\ Len(user'[t].held) = Len(user[t].held) - 1
        /\ \A k \in 1..Len(user'[t].held) :
             k + 1 \in 1..Len(user[t].held) /\ user'[t].held[k] = user[t].held[k + 1]
    BY <1>3, <2>1
  <2> HIDE DEF i
  <2>3. \A u \in Threads \ {t} : user'[u].held = user[u].held
    BY <1>1 DEF HeldElsewhere
  <2>4. cell' \in [PoolCells -> BOOLEAN] /\ cell'[i]
        /\ \A j \in PoolCells : j # i => cell'[j] = cell[j]
    BY <1>4, <2>1, <2>2
  <2>5. \A u \in Threads : \A k \in 1..Len(user[u].held) :
          user[u].held[k] = i => u = t /\ k = 1
    BY <2>2 DEF CellInv, Ownership
  <2>6. \A u \in Threads : \A k \in 1..Len(user'[u].held) :
          /\ user'[u].held[k] # i
          /\ \E l \in 1..Len(user[u].held) : user[u].held[l] = user'[u].held[k]
    <3> TAKE u \in Threads
    <3> TAKE k \in 1..Len(user'[u].held)
    <3>1. CASE u # t
      BY <2>3, <2>5, <3>1
    <3>2. CASE u = t
      <4>1. k + 1 \in 1..Len(user[t].held) /\ user'[t].held[k] = user[t].held[k + 1]
        BY <2>2, <3>2
      <4>2. k + 1 # 1
        OBVIOUS
      <4> QED
        BY <2>5, <3>2, <4>1, <4>2
    <3> QED
      BY <3>1, <3>2
  <2>7. \A u \in Threads : \A k \in 1..Len(user'[u].held) : ~ cell'[user'[u].held[k]]
    <3> TAKE u \in Threads
    <3> TAKE k \in 1..Len(user'[u].held)
    <3>1. user'[u].held[k] \in PoolCells /\ user'[u].held[k] # i
      BY <1>3, <2>6
    <3>2. ~ cell[user'[u].held[k]]
      BY SMTT(40), <2>6 DEF CellInv, Ownership
    <3> QED
      BY <2>4, <3>1, <3>2
  <2>8. \A j \in PoolCells : ~ cell'[j] =>
          \E u \in Threads : \E k \in 1..Len(user'[u].held) : user'[u].held[k] = j
    <3> SUFFICES ASSUME NEW j \in PoolCells, ~ cell'[j]
                 PROVE  \E u \in Threads : \E k \in 1..Len(user'[u].held) : user'[u].held[k] = j
      OBVIOUS
    <3>1. j # i /\ ~ cell[j]
      BY <2>4
    <3>a. PICK u \in Threads : \E k \in 1..Len(user[u].held) : user[u].held[k] = j
      BY <3>1 DEF CellInv, Ownership
    <3>2. PICK k \in 1..Len(user[u].held) : user[u].held[k] = j
      BY <3>a
    <3>3. CASE u # t
      BY <2>3, <3>2, <3>3
    <3>4. CASE u = t
      <4>1. k # 1
        BY <2>2, <3>1, <3>2, <3>4
      <4>2. k - 1 \in 1..Len(user'[t].held) /\ (k - 1) + 1 = k
        BY <1>3, <2>2, <3>2, <3>4, <4>1
      <4>3. user'[t].held[k - 1] = j
        BY <2>2, <3>2, <3>4, <4>2
      <4> QED
        BY <4>2, <4>3
    <3> QED
      BY <3>3, <3>4
  <2>9. \A u, v \in Threads :
           \A k \in 1..Len(user'[u].held) : \A l \in 1..Len(user'[v].held) :
             user'[u].held[k] = user'[v].held[l] => u = v /\ k = l
    <3> TAKE u, v \in Threads
    <3> TAKE k \in 1..Len(user'[u].held)
    <3> TAKE l \in 1..Len(user'[v].held)
    <3> DEFINE old(w, m) == IF w = t THEN m + 1 ELSE m
    <3>1. /\ old(u, k) \in 1..Len(user[u].held) /\ user[u].held[old(u, k)] = user'[u].held[k]
          /\ old(v, l) \in 1..Len(user[v].held) /\ user[v].held[old(v, l)] = user'[v].held[l]
      BY <2>2, <2>3
    <3>2. user'[u].held[k] = user'[v].held[l] => u = v /\ old(u, k) = old(v, l)
      <4> HIDE DEF old
      <4> QED
        BY <3>1 DEF CellInv, Ownership
    <3> QED
      BY <3>2
  <2> QED
    BY <1>1, <1>2, <2>4, <2>7, <2>8, <2>9 DEF CellInv, Ownership
<1> QED
  BY <1>1, <1>5, <1>6, <1>7

\* The invariant of the cells holds in every reachable state, whatever the
\* other containers do.
THEOREM SpecCellInv == Spec => []CellInv
<1>1. CellInv /\ [Next]_vars => CellInv'
  <2> SUFFICES ASSUME CellInv, [Next]_vars PROVE CellInv'
    OBVIOUS
  <2>1. CASE UNCHANGED pvars
    BY <2>1 DEF pvars, CellInv, Ownership, PoolCells, P!Cells, Users
  <2>2. ASSUME NEW t \in Threads, P!PoolStep(t) PROVE CellInv'
    BY <2>2, StepCellInv
  <2> QED
    BY <2>1, <2>2 DEF Next, vars
<1> QED
  BY <1>1, InitCellInv, PTL DEF Spec

\* No two allocations get the same value and none is lost: a value is in its
\* cell or with exactly one thread (Allocate and Free of both pools).
THEOREM SharedOutHolds == Spec => []SharedOut
<1>1. CellInv => SharedOut
  <2> SUFFICES ASSUME CellInv PROVE SharedOut
    OBVIOUS
  <2> SUFFICES ASSUME NEW i \in PoolCells
               PROVE  LET holders == {t \in Threads : \E k \in DOMAIN user[t].held : user[t].held[k] = i}
                      IN  Cardinality(holders) = IF cell[i] THEN 0 ELSE 1
    BY SameCardinality, Zenon DEF SharedOut, P!SharedOut, PoolCells
  <2> DEFINE holders == {t \in Threads : \E k \in DOMAIN user[t].held : user[t].held[k] = i}
  <2>0. \A t \in Threads : DOMAIN user[t].held = 1..Len(user[t].held)
    BY DEF CellInv, Users
  <2>1. CASE cell[i]
    <3>1. holders = {}
      BY <2>0, <2>1 DEF CellInv, Ownership
    <3> QED
      BY <2>1, <3>1, FS_EmptySet
  <2>2. CASE ~cell[i]
    <3>1. PICK t \in Threads : \E k \in 1..Len(user[t].held) : user[t].held[k] = i
      BY <2>2 DEF CellInv, Ownership
    <3>2. holders = {t}
      BY SMTT(40), <2>0, <3>1 DEF CellInv, Ownership
    <3> QED
      BY <2>2, <3>2, FS_Singleton
  <2>3. cell[i] \in BOOLEAN
    BY DEF CellInv
  <2> QED
    BY <2>1, <2>2, <2>3
<1> QED
  BY <1>1, SpecCellInv, PTL

-----------------------------------------------------------------------------
(* The way up from a node.                                                 *)

\* The parent of a node is smaller, -1 above the root.
LEMMA ParentFacts ==
  /\ \A m \in Int : P!GetParentNode(m) \in Int
  /\ \A m \in Int : m >= -1 => P!GetParentNode(m) >= -1 /\ P!GetParentNode(m) <= m
  /\ \A m \in Nat : P!GetParentNode(m) < m
  /\ P!GetParentNode(-1) = -1 /\ P!GetParentNode(0) = -1
  /\ \A m, n \in Int : m <= n => P!GetParentNode(m) <= P!GetParentNode(n)
  /\ \A m, n \in Nat : P!GetParentNode(m) = n <=> m = 2 * n + 1 \/ m = 2 * n + 2
<1>1. ASSUME NEW m \in Int
      PROVE  /\ P!GetParentNode(m) \in Int
             /\ 2 * P!GetParentNode(m) <= m - 1 /\ m - 1 < 2 * P!GetParentNode(m) + 2
  BY DEF P!GetParentNode
<1>2. \A m \in Int : m >= -1 => P!GetParentNode(m) >= -1 /\ P!GetParentNode(m) <= m
  BY <1>1
<1>3. \A m \in Nat : P!GetParentNode(m) < m
  BY <1>1
<1>4. P!GetParentNode(-1) = -1 /\ P!GetParentNode(0) = -1
  <2>1. -1 \in Int /\ 0 \in Int
    OBVIOUS
  <2> QED
    BY <1>1, <2>1
<1>5. \A m, n \in Int : m <= n => P!GetParentNode(m) <= P!GetParentNode(n)
  <2> SUFFICES ASSUME NEW m \in Int, NEW n \in Int, m <= n
               PROVE  P!GetParentNode(m) <= P!GetParentNode(n)
    OBVIOUS
  <2> QED
    BY <1>1
<1>6. \A m, n \in Nat : P!GetParentNode(m) = n <=> m = 2 * n + 1 \/ m = 2 * n + 2
  <2> TAKE m, n \in Nat
  <2> DEFINE p == P!GetParentNode(m)
  <2>1. p \in Int /\ 2 * p <= m - 1 /\ m - 1 < 2 * p + 2
    BY <1>1
  <2>2. p = n <=> m = 2 * n + 1 \/ m = 2 * n + 2
    <3> HIDE DEF p
    <3>1. ASSUME p = n PROVE m = 2 * n + 1 \/ m = 2 * n + 2
      BY <2>1, <3>1
    <3>2. ASSUME m = 2 * n + 1 \/ m = 2 * n + 2 PROVE p = n
      BY <2>1, <3>2
    <3> QED
      BY <3>1, <3>2
  <2> QED
    BY <2>2
<1> QED
  BY <1>1, <1>2, <1>3, <1>4, <1>5, <1>6

\* The nodes on the way up, one parent after the other.
LEMMA UpDef ==
  ASSUME NEW m \in Int
  PROVE  /\ P!Up(m) \in [Nat -> Int]
         /\ P!Up(m)[0] = m
         /\ \A k \in Nat : P!Up(m)[k + 1] = P!GetParentNode(P!Up(m)[k])
<1> DEFINE parent == [x \in Int |-> P!GetParentNode(x)]
           R(g) == g = [k \in Nat |-> IF k = 0 THEN m ELSE P!GetParentNode(g[k - 1])]
<1>1. parent \in [Int -> Int]
  BY ParentFacts
<1>2. PICK g : Iterates(g, m, parent, Int)
  <2> HIDE DEF parent
  <2> QED
    BY <1>1, IterationExists
<1>3. R(g)
  <2>1. ASSUME NEW k \in Nat PROVE g[k] = IF k = 0 THEN m ELSE P!GetParentNode(g[k - 1])
    <3>1. CASE k = 0
      BY <1>2, <3>1 DEF Iterates
    <3>2. CASE k # 0
      <4>1. k - 1 \in Nat /\ (k - 1) + 1 = k
        BY <3>2
      <4>2. g[(k - 1) + 1] = parent[g[k - 1]] /\ g[k - 1] \in Int
        BY <1>2, <4>1 DEF Iterates
      <4> QED
        BY <3>2, <4>1, <4>2
    <3> QED
      BY <3>1, <3>2
  <2>2. g = [k \in Nat |-> g[k]]
    BY <1>2 DEF Iterates
  <2> QED
    BY <2>1, <2>2
<1>4. R(P!Up(m))
  <2>1. P!Up(m) = CHOOSE f : R(f)
    BY DEF P!Up
  <2> HIDE DEF R
  <2> QED
    BY <1>3, <2>1
<1> DEFINE up == P!Up(m)
<1>5. up[0] = m
  BY <1>4
<1>6. \A k \in Nat : up[k + 1] = P!GetParentNode(up[k])
  <2> TAKE k \in Nat
  <2>1. k + 1 \in Nat /\ k + 1 # 0 /\ (k + 1) - 1 = k
    OBVIOUS
  <2> HIDE DEF up
  <2> QED
    BY <1>4, <2>1 DEF up
<1>7. \A k \in Nat : up[k] \in Int
  <2> DEFINE Q == {k \in Nat : up[k] \in Int}
  <2>1. 0 \in Q
    BY <1>5
  <2>2. \A k \in Q : k + 1 \in Q
    BY <1>6, ParentFacts
  <2>3. Q = Nat
    <3> HIDE DEF Q
    <3> QED
      BY <2>1, <2>2, SetInduction DEF Q
  <2> QED
    BY <2>3
<1>8. up = [k \in Nat |-> up[k]]
  <2>1. \A f : R(f) => f = [k \in Nat |-> f[k]]
    OBVIOUS
  <2> HIDE DEF R, up
  <2> QED
    BY <1>4, <2>1 DEF up
<1> HIDE DEF up
<1> QED
  BY <1>5, <1>6, <1>7, <1>8 DEF up

\* The first step up can be done first.
LEMMA UpShift ==
  ASSUME NEW m \in Int, NEW k \in Nat
  PROVE  P!Up(m)[k + 1] = P!Up(P!GetParentNode(m))[k]
<1> DEFINE up  == P!Up(m)
           upp == P!Up(P!GetParentNode(m))
           Q == {j \in Nat : up[j + 1] = upp[j]}
<1>1. P!GetParentNode(m) \in Int
  BY ParentFacts
<1>2. /\ upp[0] = P!GetParentNode(m) /\ up[0] = m
      /\ \A j \in Nat : upp[j + 1] = P!GetParentNode(upp[j])
      /\ \A j \in Nat : up[j + 1] = P!GetParentNode(up[j])
  BY <1>1, UpDef
<1> HIDE DEF up, upp
<1>3. 0 \in Q
  BY <1>2
<1>4. ASSUME NEW j \in Q PROVE j + 1 \in Q
  <2>1. up[(j + 1) + 1] = P!GetParentNode(up[j + 1])
    BY <1>2
  <2> QED
    BY <1>2, <2>1
<1>5. Q = Nat
  <2> HIDE DEF Q
  <2> QED
    BY <1>3, <1>4, SetInduction DEF Q
<1> QED
  BY <1>5 DEF up, upp

\* From the node j levels up, k levels more.
LEMMA UpAdd ==
  ASSUME NEW m \in Int, NEW j \in Nat, NEW k \in Nat
  PROVE  P!Up(P!Up(m)[j])[k] = P!Up(m)[j + k]
<1> DEFINE up  == P!Up(m)
           upj == P!Up(up[j])
           Q == {i \in Nat : upj[i] = up[j + i]}
<1>1. up[j] \in Int
  BY UpDef
<1>2. /\ upj[0] = up[j]
      /\ \A i \in Nat : upj[i + 1] = P!GetParentNode(upj[i])
      /\ \A i \in Nat : up[i + 1] = P!GetParentNode(up[i])
  BY <1>1, UpDef
<1> HIDE DEF up, upj
<1>3. 0 \in Q
  BY <1>2
<1>4. ASSUME NEW i \in Q PROVE i + 1 \in Q
  <2>1. up[(j + i) + 1] = P!GetParentNode(up[j + i]) /\ j + (i + 1) = (j + i) + 1
    BY <1>2
  <2> QED
    BY <1>2, <2>1
<1>5. Q = Nat
  <2> HIDE DEF Q
  <2> QED
    BY <1>3, <1>4, SetInduction DEF Q
<1> QED
  BY <1>5 DEF up, upj

\* Every level up makes the node smaller, until there is none.
LEMMA UpBound ==
  ASSUME NEW m \in Nat, NEW k \in Nat
  PROVE  /\ P!Up(m)[k] \in Int /\ P!Up(m)[k] >= -1
         /\ P!Up(m)[k] >= 0 => P!Up(m)[k] <= m - k
<1> DEFINE up == P!Up(m)
           Q == {i \in Nat : up[i] >= -1 /\ (up[i] >= 0 => up[i] <= m - i)}
<1>1. /\ up \in [Nat -> Int] /\ up[0] = m
      /\ \A i \in Nat : up[i + 1] = P!GetParentNode(up[i])
  BY UpDef
<1> HIDE DEF up
<1>2. 0 \in Q
  BY <1>1
<1>3. ASSUME NEW i \in Q PROVE i + 1 \in Q
  <2>1. up[i] \in Int /\ up[i + 1] = P!GetParentNode(up[i])
    BY <1>1
  <2>2. CASE up[i] = -1
    BY <2>1, <2>2, ParentFacts
  <2>3. CASE up[i] >= 0
    <3>1. up[i] \in Nat /\ up[i] <= m - i
      BY <2>1, <2>3
    <3>2. up[i + 1] \in Int /\ up[i + 1] >= -1 /\ up[i + 1] < up[i]
      BY <2>1, <3>1, ParentFacts
    <3> QED
      BY <3>1, <3>2
  <2> QED
    BY <2>1, <2>2, <2>3
<1>4. Q = Nat
  <2> HIDE DEF Q
  <2> QED
    BY <1>2, <1>3, SetInduction DEF Q
<1> QED
  BY <1>1, <1>4 DEF up

\* Any number of levels will do for an ancestor.
LEMMA AboveIff ==
  ASSUME NEW n \in Nat, NEW m \in Nat
  PROVE  P!Above(n, m) <=> \E k \in Nat : P!Up(m)[k + 1] = n
<1> DEFINE up == P!Up(m)
<1>1. P!Above(n, m) <=> \E k \in 1..m : up[k] = n
  BY DEF P!Above
<1>2. \A k \in Nat : up[k] = n => n <= m - k
  BY UpBound
<1> HIDE DEF up
<1>3. ASSUME NEW k \in 1..m, up[k] = n PROVE \E j \in Nat : up[j + 1] = n
  <2>1. k - 1 \in Nat /\ (k - 1) + 1 = k
    OBVIOUS
  <2> QED
    BY <1>3, <2>1
<1>4. ASSUME NEW j \in Nat, up[j + 1] = n PROVE \E k \in 1..m : up[k] = n
  <2>1. j + 1 \in 1..m
    BY <1>2, <1>4
  <2> QED
    BY <1>4, <2>1
<1> QED
  BY <1>1, <1>3, <1>4 DEF up

\* The ancestors of a node are its parent and those of its parent.
LEMMA AboveParent ==
  ASSUME NEW n \in Nat, NEW m \in Nat
  PROVE  /\ ~ P!Above(n, 0)
         /\ m # 0 => /\ P!GetParentNode(m) \in Nat
                     /\ P!Above(n, m) <=> n = P!GetParentNode(m) \/ P!Above(n, P!GetParentNode(m))
<1>1. ~ P!Above(n, 0)
  <2>1. ASSUME NEW k \in 1..0 PROVE FALSE
    OBVIOUS
  <2> QED
    BY <2>1 DEF P!Above
<1>2. SUFFICES ASSUME m # 0
               PROVE  /\ P!GetParentNode(m) \in Nat
                      /\ P!Above(n, m) <=> n = P!GetParentNode(m) \/ P!Above(n, P!GetParentNode(m))
  BY <1>1
<1> DEFINE p == P!GetParentNode(m)
<1>3. p \in Nat
  BY <1>2 DEF P!GetParentNode
<1>4. \A k \in Nat : P!Up(m)[k + 1] = P!Up(p)[k]
  BY UpShift
<1>5. P!Up(p)[0] = p
  <2>1. p \in Int
    BY <1>3
  <2> HIDE DEF p
  <2> QED
    BY <2>1, UpDef
<1>6. /\ P!Above(n, m) <=> \E k \in Nat : P!Up(m)[k + 1] = n
      /\ P!Above(n, p) <=> \E k \in Nat : P!Up(p)[k + 1] = n
  BY <1>3, AboveIff
<1> HIDE DEF p
<1>7. ASSUME P!Above(n, m) PROVE n = p \/ P!Above(n, p)
  <2>1. PICK k \in Nat : P!Up(p)[k] = n
    BY <1>4, <1>6, <1>7
  <2>2. CASE k = 0
    BY <1>5, <2>1, <2>2
  <2>3. CASE k # 0
    <3>1. k - 1 \in Nat /\ (k - 1) + 1 = k
      BY <2>3
    <3> QED
      BY <1>6, <2>1, <3>1
  <2> QED
    BY <2>2, <2>3
<1>8. ASSUME n = p PROVE P!Above(n, m)
  <2>1. 0 \in Nat /\ P!Up(m)[0 + 1] = n
    BY <1>4, <1>5, <1>8
  <2> QED
    BY <1>6, <2>1
<1>9. ASSUME P!Above(n, p) PROVE P!Above(n, m)
  <2>1. PICK k \in Nat : P!Up(p)[k + 1] = n
    BY <1>6, <1>9
  <2>2. k + 1 \in Nat /\ P!Up(m)[(k + 1) + 1] = n
    BY <1>4, <2>1
  <2> QED
    BY <1>6, <2>2
<1> QED
  BY <1>3, <1>7, <1>8, <1>9 DEF p

\* A node is below another if it is one of its children or below one of them.
LEMMA AboveChildren ==
  ASSUME NEW n \in Nat, NEW m \in Nat
  PROVE  P!Above(n, m) <=> \/ m = 2 * n + 1 \/ P!Above(2 * n + 1, m)
                           \/ m = 2 * n + 2 \/ P!Above(2 * n + 2, m)
<1> DEFINE up == P!Up(m)
<1>1. /\ up \in [Nat -> Int] /\ up[0] = m
      /\ \A k \in Nat : up[k + 1] = P!GetParentNode(up[k])
      /\ \A k \in Nat : up[k] >= -1
  <2>1. \A k \in Nat : up[k] >= -1
    BY UpBound
  <2> QED
    BY <2>1, UpDef
<1>2. \A c \in Nat : P!Above(c, m) <=> \E k \in Nat : up[k + 1] = c
  BY AboveIff
<1> HIDE DEF up
<1>3. ASSUME P!Above(n, m)
      PROVE  \E c \in {2 * n + 1, 2 * n + 2} : m = c \/ P!Above(c, m)
  <2>1. PICK k \in Nat : up[k + 1] = n
    BY <1>2, <1>3
  <2>2. up[k] \in Int /\ up[k] >= -1 /\ P!GetParentNode(up[k]) = n
    BY <1>1, <2>1
  <2>3. up[k] \in Nat
    BY <2>2, ParentFacts
  <2>4. up[k] \in {2 * n + 1, 2 * n + 2}
    BY <2>2, <2>3, ParentFacts
  <2>5. CASE k = 0
    BY <1>1, <2>4, <2>5
  <2>6. CASE k # 0
    <3>1. k - 1 \in Nat /\ (k - 1) + 1 = k
      BY <2>6
    <3>2. P!Above(up[k], m)
      BY <1>2, <2>3, <3>1
    <3> QED
      BY <2>4, <3>2
  <2> QED
    BY <2>5, <2>6
<1>4. ASSUME NEW c \in {2 * n + 1, 2 * n + 2}, m = c \/ P!Above(c, m)
      PROVE  P!Above(n, m)
  <2>1. c \in Nat /\ P!GetParentNode(c) = n
    BY ParentFacts
  <2>2. PICK k \in Nat : up[k] = c
    <3>1. CASE m = c
      BY <1>1, <3>1
    <3>2. CASE P!Above(c, m)
      <4>1. PICK k \in Nat : up[k + 1] = c
        BY <1>2, <2>1, <3>2
      <4>2. k + 1 \in Nat
        OBVIOUS
      <4> QED
        BY <4>1, <4>2
    <3> QED
      BY <1>4, <3>1, <3>2
  <2>3. up[k + 1] = n
    BY <1>1, <2>1, <2>2
  <2> QED
    BY <1>2, <2>3
<1> QED
  BY <1>3, <1>4

\* A node is more than twice its ancestors.
LEMMA AboveLess ==
  ASSUME NEW n \in Nat, NEW m \in Nat, P!Above(n, m)
  PROVE  m >= 2 * n + 1
<1>1. ASSUME NEW c \in Nat, P!Above(c, m) PROVE c < m
  <2>1. PICK k \in Nat : P!Up(m)[k + 1] = c
    BY <1>1, AboveIff
  <2>2. k + 1 \in Nat
    OBVIOUS
  <2>3. c <= m - (k + 1)
    BY <2>1, <2>2, UpBound
  <2> QED
    BY <2>3
<1>2. 2 * n + 1 \in Nat /\ 2 * n + 2 \in Nat
  OBVIOUS
<1> QED
  BY <1>1, <1>2, AboveChildren

\* Nothing is below both children of a node.
LEMMA ApartBelow ==
  ASSUME NEW n \in Nat, NEW m \in Nat,
         m = 2 * n + 1 \/ P!Above(2 * n + 1, m),
         m = 2 * n + 2 \/ P!Above(2 * n + 2, m)
  PROVE  FALSE
<1> DEFINE l == 2 * n + 1
           r == 2 * n + 2
           up == P!Up(m)
<1>1. l \in Nat /\ r \in Nat /\ n < l /\ l < r /\ P!GetParentNode(r) = n
  BY ParentFacts
<1>2. ASSUME NEW c \in Nat, m = c \/ P!Above(c, m) PROVE \E k \in Nat : up[k] = c
  <2>1. CASE m = c
    BY <2>1, UpDef
  <2>2. CASE P!Above(c, m)
    <3>1. PICK k \in Nat : up[k + 1] = c
      BY <2>2, AboveIff
    <3>2. k + 1 \in Nat
      OBVIOUS
    <3> QED
      BY <3>1, <3>2
  <2> QED
    BY <1>2, <2>1, <2>2
<1>3. PICK j \in Nat : up[j] = l
  BY <1>1, <1>2
<1>4. PICK k \in Nat : up[k] = r
  BY <1>1, <1>2
<1>5. CASE j <= k
  <2>1. k - j \in Nat /\ j + (k - j) = k
    BY <1>5
  <2>2. P!Up(l)[k - j] = r
    <3>1. P!Up(up[j])[k - j] = up[j + (k - j)]
      BY <2>1, UpAdd
    <3> HIDE DEF l, r
    <3> QED
      BY <1>3, <1>4, <2>1, <3>1
  <2>3. r <= l - (k - j)
    BY <1>1, <2>1, <2>2, UpBound
  <2> HIDE DEF l, r
  <2> QED
    BY <1>1, <2>1, <2>3
<1>6. CASE k < j
  <2>1. (j - k) - 1 \in Nat /\ j - k \in Nat /\ k + (j - k) = j /\ ((j - k) - 1) + 1 = j - k
    BY <1>6
  <2>2. P!Up(r)[j - k] = l
    <3>1. P!Up(up[k])[j - k] = up[k + (j - k)]
      BY <2>1, UpAdd
    <3> HIDE DEF l, r
    <3> QED
      BY <1>3, <1>4, <2>1, <3>1
  <2>3. P!Up(n)[(j - k) - 1] = l
    BY <1>1, <2>1, <2>2, UpShift
  <2>4. l <= n - ((j - k) - 1)
    BY <1>1, <2>1, <2>3, UpBound
  <2> HIDE DEF l, r
  <2> QED
    BY <1>1, <2>1, <2>4
<1> QED
  BY <1>5, <1>6

-----------------------------------------------------------------------------
(* The nodes that have a cell below them.                                  *)

LeafOf(i) == P!PoolIndexToNodeIndex(i)

\* A cell is at the node or below it.
HasCell(m) == \E i \in PoolCells : \E k \in Nat : P!Up(LeafOf(i))[k] = m

\* The leaves of the cells come after the inner nodes.
LEMMA LeafFacts ==
  ASSUME psetup \in PoolSetups
  PROVE  /\ P!size \in Nat \ {0} /\ psetup.real_size \in Nat \ {0}
         /\ \A i \in PoolCells : /\ i \in Nat /\ LeafOf(i) \in Nat
                                 /\ LeafOf(i) = i + (P!size - 1)
                                 /\ P!size - 1 <= LeafOf(i) /\ LeafOf(i) <= 2 * P!size - 2
         /\ \A i \in PoolCells : \A j \in 0..i : j \in PoolCells
         /\ P!Inner = 0..(P!size - 2)
         /\ \A m \in Nat : m \in P!Inner <=> m < P!size - 1
BY SizeIsDoubled DEF LeafOf, P!PoolIndexToNodeIndex, PoolCells, P!Cells, P!Inner

\* A node with a cell at it or below it is in the tree; it is the leaf of the
\* cell or an inner node above it.
LEMMA HasCellFacts ==
  ASSUME psetup \in PoolSetups, NEW m \in Nat
  PROVE  /\ HasCell(m) <=> \E i \in PoolCells : m = LeafOf(i) \/ P!Above(m, LeafOf(i))
         /\ HasCell(m) => m <= 2 * P!size - 2
         /\ HasCell(m) /\ m \in P!Inner => \E i \in PoolCells : P!Above(m, LeafOf(i))
         /\ HasCell(m) /\ m \notin P!Inner => \E i \in PoolCells : m = LeafOf(i)
<1>0. \A i \in PoolCells : LeafOf(i) \in Nat /\ LeafOf(i) \in Int
  BY LeafFacts
<1>1. ASSUME NEW i \in PoolCells, NEW k \in Nat, P!Up(LeafOf(i))[k] = m
      PROVE  m = LeafOf(i) \/ P!Above(m, LeafOf(i))
  <2>1. CASE k = 0
    BY <1>0, <1>1, <2>1, UpDef
  <2>2. CASE k # 0
    <3>1. k - 1 \in Nat /\ (k - 1) + 1 = k
      BY <2>2
    <3> QED
      BY <1>0, <1>1, <3>1, AboveIff
  <2> QED
    BY <2>1, <2>2
<1>2. ASSUME NEW i \in PoolCells, m = LeafOf(i) \/ P!Above(m, LeafOf(i))
      PROVE  \E k \in Nat : P!Up(LeafOf(i))[k] = m
  <2>1. CASE m = LeafOf(i)
    BY <1>0, <2>1, UpDef
  <2>2. CASE P!Above(m, LeafOf(i))
    <3>1. PICK k \in Nat : P!Up(LeafOf(i))[k + 1] = m
      BY <1>0, <2>2, AboveIff
    <3>2. k + 1 \in Nat
      OBVIOUS
    <3> QED
      BY <3>1, <3>2
  <2> QED
    BY <1>2, <2>1, <2>2
<1>3. HasCell(m) <=> \E i \in PoolCells : m = LeafOf(i) \/ P!Above(m, LeafOf(i))
  BY <1>1, <1>2 DEF HasCell
<1>4. ASSUME NEW i \in PoolCells, m = LeafOf(i) \/ P!Above(m, LeafOf(i))
      PROVE  /\ m <= 2 * P!size - 2
             /\ m \in P!Inner => P!Above(m, LeafOf(i))
             /\ m \notin P!Inner => m = LeafOf(i)
  <2>1. P!Above(m, LeafOf(i)) => 2 * m + 1 <= LeafOf(i)
    BY <1>0, AboveLess
  <2>2. /\ LeafOf(i) \in Nat /\ P!size \in Nat /\ P!size - 1 <= LeafOf(i)
        /\ LeafOf(i) <= 2 * P!size - 2 /\ (m \in P!Inner <=> m < P!size - 1)
    BY LeafFacts
  <2> QED
    BY <1>4, <2>1, <2>2
<1> QED
  BY <1>3, <1>4

\* Who has a cell below passes it on to the parent.
LEMMA HasCellUp ==
  ASSUME psetup \in PoolSetups, NEW m \in Nat, m # 0, HasCell(m)
  PROVE  HasCell(P!GetParentNode(m))
<1>1. PICK i \in PoolCells : \E k \in Nat : P!Up(LeafOf(i))[k] = m
  BY DEF HasCell
<1>2. PICK k \in Nat : P!Up(LeafOf(i))[k] = m
  BY <1>1
<1>3. LeafOf(i) \in Int /\ k + 1 \in Nat
  BY LeafFacts
<1>4. P!Up(LeafOf(i))[k + 1] = P!GetParentNode(m)
  BY <1>2, <1>3, UpDef
<1> QED
  BY <1>3, <1>4 DEF HasCell

\* The order of nodes is that of their ancestors, level by level, and no node
\* of a level between two ancestors is without a descendant between the two.
LEMMA LevelOrder ==
  ASSUME NEW a \in Nat, NEW b \in Nat, a <= b, NEW k \in Nat
  PROVE  /\ P!Up(a)[k] <= P!Up(b)[k]
         /\ \A q \in P!Up(a)[k]..P!Up(b)[k] : \E c \in a..b : P!Up(c)[k] = q
<1> DEFINE lo == P!Up(a)
           hi == P!Up(b)
           Q == {i \in Nat : /\ lo[i] <= hi[i]
                             /\ \A q \in lo[i]..hi[i] : \E c \in a..b : P!Up(c)[i] = q}
<1>1. /\ lo \in [Nat -> Int] /\ hi \in [Nat -> Int] /\ lo[0] = a /\ hi[0] = b
      /\ \A i \in Nat : lo[i + 1] = P!GetParentNode(lo[i]) /\ hi[i + 1] = P!GetParentNode(hi[i])
  BY UpDef
<1>2. \A c \in a..b : /\ c \in Int /\ P!Up(c)[0] = c
                      /\ \A i \in Nat : P!Up(c)[i + 1] = P!GetParentNode(P!Up(c)[i])
  BY UpDef
<1> HIDE DEF lo, hi
<1>3. 0 \in Q
  BY <1>1, <1>2
<1>4. ASSUME NEW i \in Q PROVE i + 1 \in Q
  <2>1. /\ lo[i] \in Int /\ hi[i] \in Int /\ lo[i] <= hi[i]
        /\ lo[i + 1] \in Int /\ hi[i + 1] \in Int
        /\ lo[i + 1] = P!GetParentNode(lo[i]) /\ hi[i + 1] = P!GetParentNode(hi[i])
    BY <1>1
  <2>2. lo[i + 1] <= hi[i + 1]
    BY <2>1, ParentFacts
  <2>3. ASSUME NEW q \in lo[i + 1]..hi[i + 1]
        PROVE  \E c \in a..b : P!Up(c)[i + 1] = q
    <3>1. PICK x \in lo[i]..hi[i] : P!GetParentNode(x) = q
      <4>1. CASE q = lo[i + 1]
        BY <2>1, <4>1
      <4>2. CASE q # lo[i + 1]
        <5>1. /\ q \in Int /\ lo[i + 1] < q /\ q <= hi[i + 1]
          BY <2>1, <4>2
        <5>2. 2 * q + 1 \in lo[i]..hi[i] /\ P!GetParentNode(2 * q + 1) = q
          BY <2>1, <5>1 DEF P!GetParentNode
        <5> QED
          BY <5>2
      <4> QED
        BY <4>1, <4>2
    <3>2. PICK c \in a..b : P!Up(c)[i] = x
      OBVIOUS
    <3>3. P!Up(c)[i + 1] = q
      BY <1>2, <3>1, <3>2
    <3> QED
      BY <3>3
  <2> QED
    BY <2>2, <2>3
<1>5. Q = Nat
  <2> HIDE DEF Q
  <2> QED
    BY <1>3, <1>4, SetInduction DEF Q
<1> QED
  BY <1>5 DEF lo, hi

\* A level starts with a left child or with the root.
LEMMA LevelStart ==
  ASSUME NEW d \in Nat, NEW k \in Nat
  PROVE  LET first == P!Up(P!Doubled[d] - 1)[k]
         IN  first = -1 \/ \E e \in Nat : first = P!Doubled[e] - 1
<1> DEFINE up == P!Up(P!Doubled[d] - 1)
           Q == {i \in Nat : up[i] = -1 \/ \E e \in Nat : up[i] = P!Doubled[e] - 1}
<1>0. P!Doubled[d] - 1 \in Int
  BY DoubledDef
<1>1. /\ up[0] = P!Doubled[d] - 1
      /\ \A i \in Nat : up[i + 1] = P!GetParentNode(up[i])
  BY <1>0, UpDef
<1> HIDE DEF up
<1>2. 0 \in Q
  BY <1>1
<1>3. ASSUME NEW i \in Q PROVE i + 1 \in Q
  <2>1. CASE up[i] = -1
    BY <1>1, <2>1, ParentFacts
  <2>2. ASSUME NEW e \in Nat, up[i] = P!Doubled[e] - 1 PROVE i + 1 \in Q
    <3>1. CASE e = 0
      <4>1. up[i] = 0
        BY <2>2, <3>1, DoubledDef
      <4>2. up[i + 1] = -1
        BY <1>1, <4>1, ParentFacts
      <4> QED
        BY <4>2
    <3>2. CASE e # 0
      <4>1. e - 1 \in Nat /\ (e - 1) + 1 = e
        BY <3>2
      <4>2. P!Doubled[e] = 2 * P!Doubled[e - 1] /\ P!Doubled[e - 1] \in Nat
        BY <4>1, DoubledDef
      <4>3. P!GetParentNode(P!Doubled[e] - 1) = P!Doubled[e - 1] - 1
        BY <4>2 DEF P!GetParentNode
      <4> QED
        BY <1>1, <2>2, <4>1, <4>3
    <3> QED
      BY <3>1, <3>2
  <2> QED
    BY <2>1, <2>2
<1>4. Q = Nat
  <2> HIDE DEF Q
  <2> QED
    BY <1>2, <1>3, SetInduction DEF Q
<1> QED
  BY <1>4 DEF up

\* The cells are the first leaves: an inner node with a cell below has one
\* below its left child, where an allocation looks first.
LEMMA HasCellLeft ==
  ASSUME psetup \in PoolSetups, NEW n \in P!Inner, HasCell(n)
  PROVE  HasCell(2 * n + 1)
<1>0. n \in Nat /\ 2 * n + 1 \in Nat /\ 2 * n + 2 \in Nat
  BY LeafFacts
<1>1. PICK i \in PoolCells : P!Above(n, LeafOf(i))
  BY <1>0, HasCellFacts
<1> DEFINE leaf == LeafOf(i)
           L == 2 * n + 1
           R == 2 * n + 2
<1>2. leaf \in Nat /\ leaf = i + (P!size - 1) /\ i \in Nat /\ P!size \in Nat \ {0}
      /\ P!size - 1 \in Nat /\ P!size - 1 <= leaf
  BY LeafFacts
<1>3. CASE leaf = L \/ P!Above(L, leaf)
  BY <1>0, <1>3, HasCellFacts
<1>4. CASE leaf = R \/ P!Above(R, leaf)
  <2>1. PICK k \in Nat : P!Up(leaf)[k] = R
    <3>1. CASE leaf = R
      <4>1. leaf \in Int
        BY <1>2
      <4>2. P!Up(leaf)[0] = leaf
        BY <4>1, UpDef
      <4> QED
        BY <3>1, <4>2
    <3>2. CASE P!Above(R, leaf)
      <4>1. PICK k \in Nat : P!Up(leaf)[k + 1] = R
        BY <1>0, <1>2, <3>2, AboveIff
      <4>2. k + 1 \in Nat
        OBVIOUS
      <4> QED
        BY <4>1, <4>2
    <3> QED
      BY <1>4, <3>1, <3>2
  <2> DEFINE first == P!Up(P!size - 1)[k]
  <2>2. first \in Int /\ first <= R
    BY <1>2, <2>1, LevelOrder, UpBound
  <2>3. first = -1 \/ \E e \in Nat : first = P!Doubled[e] - 1
    <3>1. PICK d \in Nat : P!size = P!Doubled[d]
      BY SizeIsDoubled
    <3>2. LET f == P!Up(P!Doubled[d] - 1)[k]
          IN  f = -1 \/ \E e \in Nat : f = P!Doubled[e] - 1
      BY LevelStart
    <3> QED
      BY <3>1, <3>2
  <2>4. first # R
    <3> HIDE DEF first
    <3>1. ASSUME NEW e \in Nat, first = P!Doubled[e] - 1 PROVE first # R
      <4>1. CASE e = 0
        BY <1>0, <3>1, <4>1, DoubledDef
      <4>2. CASE e # 0
        <5>1. e - 1 \in Nat /\ (e - 1) + 1 = e
          BY <4>2
        <5>2. P!Doubled[e] = 2 * P!Doubled[e - 1] /\ P!Doubled[e - 1] \in Nat
          BY <5>1, DoubledDef
        <5> QED
          BY <1>0, <3>1, <5>2
      <4> QED
        BY <4>1, <4>2
    <3> QED
      BY <1>0, <2>3, <3>1
  <2>5. L \in first..R
    <3> HIDE DEF first
    <3> QED
      BY <1>0, <2>2, <2>4
  <2>6. PICK c \in (P!size - 1)..leaf : P!Up(c)[k] = L
    BY <1>2, <2>1, <2>5, LevelOrder
  <2>7. c - (P!size - 1) \in PoolCells /\ LeafOf(c - (P!size - 1)) = c
    <3>1. c - (P!size - 1) \in 0..i /\ (c - (P!size - 1)) + (P!size - 1) = c
      BY <1>2
    <3>2. c - (P!size - 1) \in PoolCells
      BY <3>1, LeafFacts
    <3> QED
      BY <3>1, <3>2, LeafFacts
  <2> QED
    BY <2>6, <2>7 DEF HasCell
<1> QED
  BY <1>0, <1>1, <1>2, <1>3, <1>4, AboveChildren

\* Every node but the root is below the root, which therefore has a cell.
LEMMA RootAbove ==
  /\ \A m \in Nat \ {0} : P!Above(0, m)
  /\ psetup \in PoolSetups => HasCell(0)
<1> DEFINE Q == {k \in Nat : \A m \in 1..k : P!Above(0, m)}
<1>1. 0 \in Q
  OBVIOUS
<1>2. ASSUME NEW k \in Q PROVE k + 1 \in Q
  <2> DEFINE p == P!GetParentNode(k + 1)
  <2>1. k + 1 \in Nat /\ k + 1 # 0 /\ 0 \in Nat
    OBVIOUS
  <2>2. p \in Nat /\ p < k + 1 /\ (P!Above(0, k + 1) <=> 0 = p \/ P!Above(0, p))
    BY <2>1, AboveParent, ParentFacts
  <2>3. p # 0 => p \in 1..k
    <3> HIDE DEF p
    <3> QED
      BY <2>2
  <2>4. P!Above(0, k + 1)
    BY <2>2, <2>3
  <2> QED
    BY <2>4
<1>3. Q = Nat
  <2> HIDE DEF Q
  <2> QED
    BY <1>1, <1>2, SetInduction DEF Q
<1>4. ASSUME NEW m \in Nat \ {0} PROVE P!Above(0, m)
  <2>1. m \in Q /\ m \in 1..m
    BY <1>3
  <2> QED
    BY <2>1
<1>5. ASSUME psetup \in PoolSetups PROVE HasCell(0)
  <2>1. 0 \in PoolCells
    BY <1>5, SizeIsDoubled DEF PoolCells, P!Cells
  <2>2. LeafOf(0) \in Nat
    BY <1>5, <2>1, LeafFacts
  <2>3. 0 = LeafOf(0) \/ P!Above(0, LeafOf(0))
    BY <1>4, <2>2
  <2>4. \A m \in Nat : HasCell(m) <=> \E i \in PoolCells : m = LeafOf(i) \/ P!Above(m, LeafOf(i))
    BY <1>5, HasCellFacts
  <2> QED
    BY <2>1, <2>3, <2>4
<1> QED
  BY <1>4, <1>5

-----------------------------------------------------------------------------
(* The inductive invariant of the tree.                                    *)

\* The threads that look for a value, or climb after giving one back, below n.
Passing(u, n, where) ==
  {t \in Threads : u[t].call.at = where /\ P!Above(n, u[t].call.node)}

\* The threads that look for a value at the node m.
Looking(u, m) == {t \in Threads : u[t].call.at = "tree" /\ u[t].call.node = m}

\* The values in cells below n.
Available(c, n) == {i \in PoolCells : c[i] /\ P!Above(n, LeafOf(i))}

\* What a node promises: its counter, or the value in its cell.
Worth(tr, c, m) ==
  IF m \in P!Inner THEN tr[m] ELSE IF c[P!NodeIndexToPoolIndex(m)] THEN 1 ELSE 0

\* Threads are only at nodes with a cell.
Places(u) ==
  \A t \in Threads :
    /\ u[t].call.at \in {"idle", "tree", "climb"}
    /\ u[t].call.at # "idle" => u[t].call.node \in Nat /\ HasCell(u[t].call.node)
    /\ u[t].call.at = "climb" => u[t].call.node # 0

\* A counter is initialised when a cell is below, and is never negative then.
Counters(tr) ==
  /\ tr \in [P!Inner -> Int]
  /\ \A n \in P!Inner : IF HasCell(n) THEN tr[n] >= 0 ELSE tr[n] = -1

Counts(tr, c, u) ==
  \A n \in P!Inner : HasCell(n) =>
    tr[n] + Cardinality(Passing(u, n, "tree")) + Cardinality(Passing(u, n, "climb"))
      = Cardinality(Available(c, n))

\* A right child has something for each thread that looks there.
Covered(tr, c, u) ==
  \A n \in P!Inner : HasCell(2 * n + 2) =>
    Cardinality(Looking(u, 2 * n + 2)) <= Worth(tr, c, 2 * n + 2)

TreeParts(tr, c, u) == Places(u) /\ Counters(tr) /\ Counts(tr, c, u) /\ Covered(tr, c, u)

TreeInv == IF psetup.kind = "tree" THEN TreeParts(tree, cell, user)
           ELSE \A t \in Threads : user[t].call.at \in {"idle", "array"}

-----------------------------------------------------------------------------
(* Counting                                                                *)

One(b) == IF b THEN 1 ELSE 0

\* Two finite sets that differ in one element at most.
LEMMA CountOne ==
  ASSUME NEW A, NEW B, NEW x, IsFiniteSet(A), A \ {x} = B \ {x}
  PROVE  /\ IsFiniteSet(B) /\ Cardinality(A) \in Nat /\ Cardinality(B) \in Nat
         /\ Cardinality(B) + One(x \in A) = Cardinality(A) + One(x \in B)
<1> DEFINE D == A \ {x}
<1>1. IsFiniteSet(D) /\ Cardinality(D) \in Nat /\ Cardinality(A) \in Nat
  BY FS_RemoveElement, FS_CardinalityType
<1>2. Cardinality(A) = Cardinality(D) + One(x \in A)
  <2>1. CASE x \in A
    <3>1. Cardinality(D) = Cardinality(A) - 1
      BY <2>1, FS_RemoveElement
    <3> HIDE DEF D
    <3> QED
      BY <1>1, <2>1, <3>1 DEF One
  <2>2. CASE x \notin A
    <3>1. D = A
      BY <2>2
    <3> HIDE DEF D
    <3> QED
      BY <1>1, <2>2, <3>1 DEF One
  <2> QED
    BY <2>1, <2>2
<1>3. IsFiniteSet(B) /\ Cardinality(B) = Cardinality(D) + One(x \in B)
  <2>1. CASE x \in B
    <3>1. B = D \cup {x} /\ x \notin D
      BY <2>1
    <3>2. Cardinality(D \cup {x}) = Cardinality(D) + 1 /\ IsFiniteSet(D \cup {x})
      <4> HIDE DEF D
      <4> QED
        BY <1>1, <3>1, FS_AddElement
    <3> HIDE DEF D
    <3> QED
      BY <2>1, <3>1, <3>2 DEF One
  <2>2. CASE x \notin B
    <3>1. B = D
      BY <2>2
    <3> HIDE DEF D
    <3> QED
      BY <1>1, <2>2, <3>1 DEF One
  <2> QED
    BY <2>1, <2>2
<1> HIDE DEF D
<1> QED
  BY <1>1, <1>2, <1>3 DEF One

\* Two finite sets with nothing in common.
LEMMA CountBoth ==
  ASSUME NEW A, NEW B, IsFiniteSet(A), IsFiniteSet(B), A \cap B = {}
  PROVE  /\ IsFiniteSet(A \cup B)
         /\ Cardinality(A) \in Nat /\ Cardinality(B) \in Nat
         /\ Cardinality(A \cup B) = Cardinality(A) + Cardinality(B)
<1>1. /\ IsFiniteSet(A \cup B)
      /\ Cardinality(A \cup B) = Cardinality(A) + Cardinality(B) - Cardinality(A \cap B)
  BY FS_Union
<1>2. Cardinality(A) \in Nat /\ Cardinality(B) \in Nat /\ Cardinality(A \cap B) = 0
  BY FS_CardinalityType, FS_EmptySet
<1> QED
  BY <1>1, <1>2

\* All the sets that are counted are finite.
LEMMA AllFinite ==
  ASSUME psetup \in PoolSetups
  PROVE  /\ \A A \in SUBSET Threads : IsFiniteSet(A) /\ Cardinality(A) \in Nat
         /\ \A A \in SUBSET PoolCells : IsFiniteSet(A) /\ Cardinality(A) \in Nat
<1>1. IsFiniteSet(PoolCells)
  <2>1. 0 \in Int /\ psetup.real_size - 1 \in Int
    BY SizeIsDoubled
  <2> QED
    BY <2>1, FS_Interval DEF PoolCells, P!Cells
<1> QED
  BY <1>1, ThreadsAssumption, FS_Subset, FS_CardinalityType

\* t is below n, doing what where says; t looks at m.
Below(u, t, n, where) == One(u[t].call.at = where /\ P!Above(n, u[t].call.node))
LooksAt(u, t, m)      == One(u[t].call.at = "tree" /\ u[t].call.node = m)

\* When one thread moves, the threads below a node and at a node change by it.
LEMMA Recount ==
  ASSUME psetup \in PoolSetups, NEW t \in Threads, HeldElsewhere(t), NEW n, NEW where
  PROVE  /\ Cardinality(Passing(user, n, where)) \in Nat
         /\ Cardinality(Passing(user', n, where)) \in Nat
         /\ Cardinality(Looking(user, n)) \in Nat
         /\ Cardinality(Looking(user', n)) \in Nat
         /\ Cardinality(Passing(user', n, where)) + Below(user, t, n, where)
              = Cardinality(Passing(user, n, where)) + Below(user', t, n, where)
         /\ Cardinality(Looking(user', n)) + LooksAt(user, t, n)
              = Cardinality(Looking(user, n)) + LooksAt(user', t, n)
<1> DEFINE A == Passing(user, n, where)
           B == Passing(user', n, where)
           C1 == Looking(user, n)
           C2 == Looking(user', n)
<1>1. IsFiniteSet(A) /\ IsFiniteSet(C1)
  BY AllFinite DEF Passing, Looking
<1>2. A \ {t} = B \ {t} /\ C1 \ {t} = C2 \ {t}
  BY DEF HeldElsewhere, Passing, Looking
<1>3. /\ t \in A <=> user[t].call.at = where /\ P!Above(n, user[t].call.node)
      /\ t \in B <=> user'[t].call.at = where /\ P!Above(n, user'[t].call.node)
      /\ t \in C1 <=> user[t].call.at = "tree" /\ user[t].call.node = n
      /\ t \in C2 <=> user'[t].call.at = "tree" /\ user'[t].call.node = n
  BY DEF Passing, Looking
<1>4. /\ One(t \in A) = Below(user, t, n, where) /\ One(t \in B) = Below(user', t, n, where)
      /\ One(t \in C1) = LooksAt(user, t, n) /\ One(t \in C2) = LooksAt(user', t, n)
  <2> HIDE DEF A, B, C1, C2
  <2> QED
    BY <1>3 DEF One, Below, LooksAt
<1> HIDE DEF A, B, C1, C2
<1>5. /\ Cardinality(A) \in Nat /\ Cardinality(B) \in Nat
      /\ Cardinality(B) + One(t \in A) = Cardinality(A) + One(t \in B)
  BY <1>1, <1>2, CountOne
<1>6. /\ Cardinality(C1) \in Nat /\ Cardinality(C2) \in Nat
      /\ Cardinality(C2) + One(t \in C1) = Cardinality(C1) + One(t \in C2)
  BY <1>1, <1>2, CountOne
<1> QED
  BY <1>4, <1>5, <1>6 DEF A, B, C1, C2

\* When one cell changes, what is available changes by it.
LEMMA RecountCells ==
  ASSUME CellInv, NEW i \in PoolCells, \A j \in PoolCells \ {i} : cell'[j] = cell[j], NEW n
  PROVE  /\ Cardinality(Available(cell, n)) \in Nat
         /\ Cardinality(Available(cell', n)) \in Nat
         /\ Cardinality(Available(cell', n)) + One(cell[i] /\ P!Above(n, LeafOf(i)))
              = Cardinality(Available(cell, n)) + One(cell'[i] /\ P!Above(n, LeafOf(i)))
<1> DEFINE A == Available(cell, n)
           B == Available(cell', n)
<1>1. IsFiniteSet(A)
  BY AllFinite DEF Available, CellInv
<1>2. A \ {i} = B \ {i}
  BY DEF Available
<1>3. /\ i \in A <=> cell[i] /\ P!Above(n, LeafOf(i))
      /\ i \in B <=> cell'[i] /\ P!Above(n, LeafOf(i))
  BY DEF Available
<1> HIDE DEF A, B
<1>4. /\ One(i \in A) = One(cell[i] /\ P!Above(n, LeafOf(i)))
      /\ One(i \in B) = One(cell'[i] /\ P!Above(n, LeafOf(i)))
  BY <1>3 DEF One
<1>5. /\ Cardinality(A) \in Nat /\ Cardinality(B) \in Nat
      /\ Cardinality(B) + One(i \in A) = Cardinality(A) + One(i \in B)
  BY <1>1, <1>2, CountOne
<1> QED
  BY <1>4, <1>5 DEF A, B

\* The values in cells at m or below.
AtOrBelow(m) == {i \in PoolCells : cell[i] /\ (m = LeafOf(i) \/ P!Above(m, LeafOf(i)))}

\* What a node, inner or leaf, promises, and the threads below it, make up what
\* is available there.
LEMMA LevelCount ==
  ASSUME CellInv, TreeParts(tree, cell, user), NEW m \in Nat, HasCell(m)
  PROVE  /\ Worth(tree, cell, m) \in Nat
         /\ Worth(tree, cell, m) + Cardinality(Passing(user, m, "tree"))
              + Cardinality(Passing(user, m, "climb")) = Cardinality(AtOrBelow(m))
<1>0. psetup \in PoolSetups /\ cell \in [PoolCells -> BOOLEAN]
  BY DEF CellInv
<1>1. CASE m \in P!Inner
  <2>1. \A i \in PoolCells : m # LeafOf(i)
    BY <1>0, <1>1, LeafFacts
  <2>2. AtOrBelow(m) = Available(cell, m)
    BY <2>1 DEF AtOrBelow, Available
  <2>3. Worth(tree, cell, m) = tree[m] /\ tree[m] \in Nat
    BY <1>1 DEF Worth, TreeParts, Counters
  <2> QED
    BY <1>1, <2>2, <2>3 DEF TreeParts, Counts
<1>2. CASE m \notin P!Inner
  <2>1. PICK i \in PoolCells : m = LeafOf(i)
    BY <1>0, <1>2, HasCellFacts
  <2>2. P!NodeIndexToPoolIndex(m) = i
    BY <1>0, <2>1, LeafFacts DEF P!NodeIndexToPoolIndex
  <2>3. P!size - 1 <= m /\ P!size \in Nat
    BY <1>0, <2>1, LeafFacts
  <2>4. \A x \in Nat : HasCell(x) => ~ P!Above(m, x)
    <3> SUFFICES ASSUME NEW x \in Nat, HasCell(x), P!Above(m, x) PROVE FALSE
      OBVIOUS
    <3>1. x <= 2 * P!size - 2
      BY <1>0, HasCellFacts
    <3>2. x >= 2 * m + 1
      BY AboveLess
    <3> QED
      BY <2>3, <3>1, <3>2
  <2>5. Passing(user, m, "tree") = {} /\ Passing(user, m, "climb") = {}
    BY <2>4 DEF Passing, TreeParts, Places
  <2>6. \A j \in PoolCells : (m = LeafOf(j) <=> j = i) /\ ~ P!Above(m, LeafOf(j))
    <3> TAKE j \in PoolCells
    <3>1. m = LeafOf(j) <=> j = i
      BY SMTT(40), <1>0, <2>1, LeafFacts
    <3>2. LeafOf(j) \in Nat /\ HasCell(LeafOf(j))
      BY <1>0, LeafFacts, HasCellFacts
    <3> QED
      BY <2>4, <3>1, <3>2
  <2>7. AtOrBelow(m) = IF cell[i] THEN {i} ELSE {}
    <3>1. CASE cell[i]
      BY <2>6, <3>1 DEF AtOrBelow
    <3>2. CASE ~cell[i]
      BY <2>6, <3>2 DEF AtOrBelow
    <3> QED
      BY <3>1, <3>2
  <2>8. Worth(tree, cell, m) = IF cell[i] THEN 1 ELSE 0
    BY <1>2, <2>2 DEF Worth
  <2>9. Cardinality({i}) = 1 /\ Cardinality({}) = 0
    BY FS_Singleton, FS_EmptySet
  <2>10. Cardinality(AtOrBelow(m)) = IF cell[i] THEN 1 ELSE 0
    BY <2>7, <2>9
  <2>11. Cardinality(Passing(user, m, "tree")) = 0 /\ Cardinality(Passing(user, m, "climb")) = 0
    BY <2>5, <2>9
  <2> QED
    BY <2>8, <2>10, <2>11
<1> QED
  BY <1>1, <1>2

\* The children of a node promise as much as the node does and as the threads
\* need that look at them.
LEMMA Balance ==
  ASSUME CellInv, TreeParts(tree, cell, user), NEW n \in P!Inner, HasCell(n)
  PROVE  LET L == 2 * n + 1
             R == 2 * n + 2
         IN  /\ Cardinality(Looking(user, L)) \in Nat /\ Cardinality(Looking(user, R)) \in Nat
             /\ tree[n] + Cardinality(Looking(user, L)) + Cardinality(Looking(user, R))
                  <= Worth(tree, cell, L) + (IF HasCell(R) THEN Worth(tree, cell, R) ELSE 0)
<1> DEFINE L == 2 * n + 1
           R == 2 * n + 2
           T(m) == Passing(user, m, "tree")
           K(m) == Passing(user, m, "climb")
           G(m) == Looking(user, m)
<1>0. psetup \in PoolSetups /\ n \in Nat /\ L \in Nat /\ R \in Nat /\ L # R
  BY LeafFacts DEF CellInv
<1>1. \A t \in Threads : user[t].call.at \in {"tree", "climb"} => user[t].call.node \in Nat
  BY DEF TreeParts, Places
<1>2. \A m \in Nat : P!Above(n, m) <=> \/ m = L \/ P!Above(L, m)
                                       \/ m = R \/ P!Above(R, m)
  BY <1>0, AboveChildren
<1>3. \A m \in Nat : ~ ((m = L \/ P!Above(L, m)) /\ (m = R \/ P!Above(R, m)))
  BY <1>0, ApartBelow
<1>4. \A m \in Nat, c \in {L, R} : ~ P!Above(c, c)
  BY <1>0, AboveLess
<1> HIDE DEF L, R
<1>5. /\ T(L) \cup T(R) \cup G(L) \cup G(R) \subseteq T(n)
      /\ T(L) \cap T(R) = {} /\ (T(L) \cup T(R)) \cap G(L) = {}
      /\ (T(L) \cup T(R) \cup G(L)) \cap G(R) = {}
  <2>1. T(L) \cup T(R) \cup G(L) \cup G(R) \subseteq T(n)
    BY <1>1, <1>2 DEF Passing, Looking
  <2>2. T(L) \cap T(R) = {}
    BY <1>1, <1>3 DEF Passing, Looking
  <2>3. (T(L) \cup T(R)) \cap G(L) = {}
    BY <1>0, <1>1, <1>3, <1>4 DEF Passing, Looking
  <2>4. (T(L) \cup T(R) \cup G(L)) \cap G(R) = {}
    BY <1>0, <1>1, <1>3, <1>4 DEF Passing, Looking
  <2> QED
    BY <2>1, <2>2, <2>3, <2>4
<1>6. K(L) \cup K(R) \subseteq K(n) /\ K(L) \cap K(R) = {}
  BY <1>1, <1>2, <1>3 DEF Passing
<1>7. Available(cell, n) \subseteq AtOrBelow(L) \cup AtOrBelow(R)
  <2>1. \A i \in PoolCells : LeafOf(i) \in Nat
    BY <1>0, LeafFacts
  <2> QED
    BY <1>2, <2>1 DEF Available, AtOrBelow
<1>8. /\ \A m : IsFiniteSet(T(m)) /\ IsFiniteSet(K(m)) /\ IsFiniteSet(G(m))
      /\ \A m : IsFiniteSet(AtOrBelow(m)) /\ Cardinality(AtOrBelow(m)) \in Nat
      /\ \A m : /\ Cardinality(T(m)) \in Nat /\ Cardinality(K(m)) \in Nat
                /\ Cardinality(G(m)) \in Nat
  BY <1>0, AllFinite DEF Passing, Looking, AtOrBelow
<1> HIDE DEF T, K, G
<1>9. Cardinality(T(L)) + Cardinality(T(R)) + Cardinality(G(L)) + Cardinality(G(R))
        <= Cardinality(T(n))
  <2>1. /\ IsFiniteSet(T(L) \cup T(R))
        /\ Cardinality(T(L) \cup T(R)) = Cardinality(T(L)) + Cardinality(T(R))
    BY <1>5, <1>8, CountBoth
  <2>2. /\ IsFiniteSet(T(L) \cup T(R) \cup G(L))
        /\ Cardinality(T(L) \cup T(R) \cup G(L))
             = Cardinality(T(L) \cup T(R)) + Cardinality(G(L))
    BY <1>5, <1>8, <2>1, CountBoth
  <2>3. /\ Cardinality(T(L) \cup T(R) \cup G(L) \cup G(R))
             = Cardinality(T(L) \cup T(R) \cup G(L)) + Cardinality(G(R))
    BY <1>5, <1>8, <2>2, CountBoth
  <2>4. Cardinality(T(L) \cup T(R) \cup G(L) \cup G(R)) <= Cardinality(T(n))
    BY <1>5, <1>8, FS_Subset
  <2> QED
    BY <1>8, <2>1, <2>2, <2>3, <2>4
<1>10. Cardinality(K(L)) + Cardinality(K(R)) <= Cardinality(K(n))
  <2>1. Cardinality(K(L) \cup K(R)) = Cardinality(K(L)) + Cardinality(K(R))
    BY <1>6, <1>8, CountBoth
  <2>2. Cardinality(K(L) \cup K(R)) <= Cardinality(K(n))
    BY <1>6, <1>8, FS_Subset
  <2> QED
    BY <2>1, <2>2
<1>11. Cardinality(Available(cell, n)) <= Cardinality(AtOrBelow(L)) + Cardinality(AtOrBelow(R))
  <2> DEFINE U == AtOrBelow(L) \cup AtOrBelow(R)
             I == AtOrBelow(L) \cap AtOrBelow(R)
  <2>1. /\ IsFiniteSet(U)
        /\ Cardinality(U) = Cardinality(AtOrBelow(L)) + Cardinality(AtOrBelow(R)) - Cardinality(I)
    BY <1>8, FS_Union
  <2>2. Cardinality(I) \in Nat
    BY <1>8, FS_Intersection, FS_CardinalityType
  <2>3. /\ Cardinality(Available(cell, n)) \in Nat
        /\ Cardinality(Available(cell, n)) <= Cardinality(U)
    BY <1>7, <2>1, FS_Subset, FS_CardinalityType
  <2> HIDE DEF U, I
  <2> QED
    BY <1>8, <2>1, <2>2, <2>3
<1>12. tree[n] \in Nat /\ tree[n] + Cardinality(T(n)) + Cardinality(K(n)) = Cardinality(Available(cell, n))
  BY DEF TreeParts, Counters, Counts, T, K
<1>13. /\ Worth(tree, cell, L) \in Nat
       /\ Worth(tree, cell, L) + Cardinality(T(L)) + Cardinality(K(L)) = Cardinality(AtOrBelow(L))
  <2>1. HasCell(L)
    BY <1>0, HasCellLeft DEF L
  <2> QED
    BY <1>0, <2>1, LevelCount DEF T, K
<1>14. CASE HasCell(R)
  <2>1. /\ Worth(tree, cell, R) \in Nat
        /\ Worth(tree, cell, R) + Cardinality(T(R)) + Cardinality(K(R)) = Cardinality(AtOrBelow(R))
    BY <1>0, <1>14, LevelCount DEF T, K
  <2>2. tree[n] + Cardinality(G(L)) + Cardinality(G(R)) <= Worth(tree, cell, L) + Worth(tree, cell, R)
    BY <1>8, <1>9, <1>10, <1>11, <1>12, <1>13, <2>1
  <2> QED
    BY <1>8, <1>14, <2>2 DEF L, R, G
<1>15. CASE ~ HasCell(R)
  <2>1. AtOrBelow(R) = {}
    <3>1. \A i \in PoolCells : ~ (R = LeafOf(i) \/ P!Above(R, LeafOf(i)))
      BY <1>0, <1>15, HasCellFacts
    <3> QED
      BY <3>1 DEF AtOrBelow
  <2>2. Cardinality(AtOrBelow(R)) = 0
    BY <2>1, FS_EmptySet
  <2>3. tree[n] + Cardinality(G(L)) + Cardinality(G(R)) <= Worth(tree, cell, L) + 0
    BY <1>8, <1>9, <1>10, <1>11, <1>12, <1>13, <2>2
  <2> QED
    BY <1>8, <1>15, <2>3 DEF L, R, G
<1> QED
  BY <1>14, <1>15 DEF L, R

-----------------------------------------------------------------------------
(* What a step does to the tree.                                           *)

At0(t)   == user[t].call.at
Node0(t) == user[t].call.node
At1(t)   == user'[t].call.at
Node1(t) == user'[t].call.node

\* A call begins at the root or ends there, or nothing is called.
Quiet(t) ==
  /\ tree' = tree /\ cell' = cell
  /\ At0(t) = "idle" \/ (At0(t) = "tree" /\ Node0(t) = 0)
  /\ At1(t) = "idle" \/ (At1(t) = "tree" /\ Node1(t) = 0)

\* The value at a leaf is taken.
Taken(t) ==
  \E i \in PoolCells :
    /\ tree' = tree /\ cell[i] /\ cell' = [cell EXCEPT ![i] = FALSE]
    /\ At0(t) = "tree" /\ Node0(t) = LeafOf(i) /\ At1(t) = "idle"

\* There is nothing at a node below the root: on to the right child, or to the
\* assertion.
TurnedDown(t) ==
  /\ tree' = tree /\ cell' = cell
  /\ At0(t) = "tree" /\ Node0(t) # 0 /\ Worth(tree, cell, Node0(t)) = 0
  /\ Node1(t) = Node0(t) + 1
  /\ At1(t) = IF Node0(t) % 2 = 1 THEN "tree" ELSE "assert"

\* A counter is decremented.
Descends(t) ==
  /\ At0(t) = "tree" /\ Node0(t) \in P!Inner /\ tree[Node0(t)] > 0
  /\ tree' = [tree EXCEPT ![Node0(t)] = @ - 1] /\ cell' = cell
  /\ At1(t) = "tree" /\ Node1(t) = 2 * Node0(t) + 1

\* A value is put back.
PutBack(t) ==
  \E i \in PoolCells :
    /\ tree' = tree /\ ~cell[i] /\ cell' = [cell EXCEPT ![i] = TRUE]
    /\ At0(t) = "idle"
    /\ IF LeafOf(i) = 0 THEN At1(t) = "idle"
       ELSE At1(t) = "climb" /\ Node1(t) = LeafOf(i)

\* A counter is incremented.
Climbs(t) ==
  LET p == P!GetParentNode(Node0(t)) IN
    /\ At0(t) = "climb" /\ cell' = cell /\ tree' = [tree EXCEPT ![p] = @ + 1]
    /\ IF p = 0 THEN At1(t) = "idle" ELSE At1(t) = "climb" /\ Node1(t) = p

\* Every step of a tree pool is one of these.
LEMMA TreeEffect ==
  ASSUME CellInv, psetup.kind = "tree", TreeParts(tree, cell, user),
         NEW t \in Threads, P!PoolStep(t)
  PROVE  \/ Quiet(t) \/ Taken(t) \/ TurnedDown(t) \/ Descends(t)
         \/ PutBack(t) \/ Climbs(t)
<1>0. /\ user \in [Threads -> Users] /\ psetup \in PoolSetups
      /\ cell \in [PoolCells -> BOOLEAN]
  BY DEF CellInv
<1>1. /\ At0(t) \in {"idle", "tree", "climb"}
      /\ At0(t) # "idle" => /\ Node0(t) \in Nat /\ HasCell(Node0(t))
                            /\ Node0(t) <= 2 * P!size - 2
                            /\ (Node0(t) \in P!Inner <=> ~ P!IsLeaf(Node0(t)))
                            /\ P!IsLeaf(Node0(t)) => \E i \in PoolCells : Node0(t) = LeafOf(i)
  <2>1. /\ At0(t) \in {"idle", "tree", "climb"}
        /\ At0(t) # "idle" => Node0(t) \in Nat /\ HasCell(Node0(t))
    BY DEF TreeParts, Places, At0, Node0
  <2>2. SUFFICES ASSUME At0(t) # "idle"
                 PROVE  /\ Node0(t) <= 2 * P!size - 2
                        /\ (Node0(t) \in P!Inner <=> ~ P!IsLeaf(Node0(t)))
                        /\ P!IsLeaf(Node0(t)) => \E i \in PoolCells : Node0(t) = LeafOf(i)
    BY <2>1
  <2>3. Node0(t) <= 2 * P!size - 2
    BY <1>0, <2>1, <2>2, HasCellFacts
  <2>4. P!size \in Nat \ {0} /\ (Node0(t) \in P!Inner <=> Node0(t) < P!size - 1)
    BY <1>0, <2>1, <2>2, LeafFacts
  <2>5. Node0(t) \in P!Inner <=> ~ P!IsLeaf(Node0(t))
    BY <2>1, <2>2, <2>3, <2>4 DEF P!IsLeaf
  <2>6. Node0(t) \notin P!Inner => \E i \in PoolCells : Node0(t) = LeafOf(i)
    BY <1>0, <2>1, <2>2, HasCellFacts
  <2> QED
    BY <2>3, <2>5, <2>6
<1>a. user[t] \in Users /\ user[t].call \in Points
  BY <1>0 DEF Users
<1>b. ASSUME user' = [user EXCEPT ![t].call = P!Resting]
      PROVE  At1(t) = "idle"
  BY <1>0, <1>a, <1>b DEF Users, P!Resting, At1
<1>c. ASSUME NEW where, NEW n, P!Moves(t, where, n)
      PROVE  At1(t) = where /\ Node1(t) = n
  BY <1>0, <1>a, <1>c DEF Users, P!Moves, At1, Node1
<1>2. CASE P!AllocateCall(t)
  <2>1. At0(t) = "idle" /\ tree' = tree /\ cell' = cell
    BY <1>2 DEF P!AllocateCall, P!UserAt, At0
  <2>2. At1(t) = "tree" /\ Node1(t) = 0
    BY <1>0, <1>2, <1>a DEF P!AllocateCall, At1, Node1, Users
  <2> QED
    BY <2>1, <2>2 DEF Quiet
<1>3. CASE P!ArrayCell(t)
  BY <1>1, <1>3 DEF P!ArrayCell, P!UserAt, At0
<1>4. CASE P!AllocateNothing(t)
  <2>1. At0(t) = "tree" /\ Node0(t) = 0 /\ tree' = tree /\ cell' = cell
    BY <1>1, <1>4 DEF P!AllocateNothing, P!UserAt, P!Node, At0, Node0
  <2>2. At1(t) = "idle"
    BY <1>4, <1>b DEF P!AllocateNothing
  <2> QED
    BY <2>1, <2>2 DEF Quiet
<1>5. ASSUME P!NotHere(t), At0(t) = "tree", Node0(t) # 0, Worth(tree, cell, Node0(t)) = 0
      PROVE  TurnedDown(t)
  <2>1. /\ P!Moves(t, IF Node0(t) % 2 = 1 THEN "tree" ELSE "assert", Node0(t) + 1)
        /\ tree' = tree /\ cell' = cell
    BY <1>5 DEF P!NotHere, P!Node, Node0
  <2> QED
    BY <1>5, <1>c, <2>1 DEF TurnedDown
<1>6. CASE P!TreeLeaf(t)
  <2>1. At0(t) = "tree" /\ P!IsLeaf(Node0(t))
    BY <1>6 DEF P!TreeLeaf, P!UserAt, P!Node, At0, Node0
  <2>2. PICK i \in PoolCells : Node0(t) = LeafOf(i)
    BY <1>1, <2>1
  <2>3. P!NodeIndexToPoolIndex(Node0(t)) = i
    BY <1>0, <2>2, LeafFacts DEF P!NodeIndexToPoolIndex
  <2>4. \/ cell[i] /\ P!Takes(t, i)
        \/ ~cell[i] /\ Node0(t) # 0 /\ P!NotHere(t)
        \/ /\ ~cell[i] /\ Node0(t) = 0
           /\ user' = [user EXCEPT ![t].call = P!Resting] /\ tree' = tree /\ cell' = cell
    BY <1>6, <2>3 DEF P!TreeLeaf, P!Node, Node0
  <2>5. CASE cell[i] /\ P!Takes(t, i)
    <3>1. At1(t) = "idle"
      BY <1>0, <1>a, <2>5 DEF P!Takes, Users, P!Resting, At1
    <3>2. tree' = tree /\ cell' = [cell EXCEPT ![i] = FALSE]
      BY <2>5 DEF P!Takes
    <3> QED
      BY <2>1, <2>2, <2>5, <3>1, <3>2 DEF Taken
  <2>6. CASE ~cell[i] /\ Node0(t) # 0 /\ P!NotHere(t)
    <3>1. Worth(tree, cell, Node0(t)) = 0
      BY <1>1, <2>1, <2>3, <2>6 DEF Worth
    <3> QED
      BY <1>5, <2>1, <2>6, <3>1
  <2>7. CASE /\ ~cell[i] /\ Node0(t) = 0
             /\ user' = [user EXCEPT ![t].call = P!Resting] /\ tree' = tree /\ cell' = cell
    BY <1>b, <2>1, <2>7 DEF Quiet
  <2> QED
    BY <2>4, <2>5, <2>6, <2>7
<1>7. CASE P!TreeInner(t)
  <2>1. At0(t) = "tree" /\ ~ P!IsLeaf(Node0(t))
    BY <1>7 DEF P!TreeInner, P!UserAt, P!Node, At0, Node0
  <2>2. Node0(t) \in P!Inner
    BY <1>1, <2>1
  <2>3. \/ /\ tree[Node0(t)] > 0 /\ tree' = [tree EXCEPT ![Node0(t)] = @ - 1]
           /\ P!Moves(t, "tree", 2 * Node0(t) + 1) /\ cell' = cell
        \/ tree[Node0(t)] = 0 /\ Node0(t) # 0 /\ P!NotHere(t)
    BY <1>7 DEF P!TreeInner, P!Node, Node0, P!LeftChild
  <2>4. CASE tree[Node0(t)] = 0 /\ Node0(t) # 0 /\ P!NotHere(t)
    BY <1>5, <2>1, <2>2, <2>4 DEF Worth
  <2>5. CASE /\ tree[Node0(t)] > 0 /\ tree' = [tree EXCEPT ![Node0(t)] = @ - 1]
             /\ P!Moves(t, "tree", 2 * Node0(t) + 1) /\ cell' = cell
    BY <1>c, <2>1, <2>2, <2>5 DEF Descends
  <2> QED
    BY <2>3, <2>4, <2>5
<1>8. CASE P!FreeCall(t)
  <2> DEFINE i == Head(user[t].held)
  <2>1. user[t].held # <<>> /\ user[t].held \in Seq(PoolCells)
    BY <1>8, <1>a DEF P!FreeCall, Users
  <2>2. i \in PoolCells /\ i = user[t].held[1] /\ 1 \in 1..Len(user[t].held)
    BY <2>1
  <2>3. ~cell[i]
    BY <2>2 DEF CellInv, Ownership
  <2>4. At0(t) = "idle" /\ tree' = tree /\ cell' = [cell EXCEPT ![i] = TRUE]
    BY <1>8 DEF P!FreeCall, P!UserAt, At0
  <2>5. user'[t].call = IF LeafOf(i) # 0 THEN [at |-> "climb", node |-> LeafOf(i)] ELSE P!Resting
    BY <1>0, <1>a, <1>8 DEF P!FreeCall, LeafOf, Users
  <2>6. IF LeafOf(i) = 0 THEN At1(t) = "idle" ELSE At1(t) = "climb" /\ Node1(t) = LeafOf(i)
    BY <2>5 DEF At1, Node1, P!Resting
  <2> HIDE DEF i
  <2> QED
    BY <2>2, <2>3, <2>4, <2>6 DEF PutBack
<1>9. CASE P!FreeNothing(t)
  <2>1. At0(t) = "idle" /\ tree' = tree /\ cell' = cell
    BY <1>9 DEF P!FreeNothing, P!UserAt, At0
  <2>2. At1(t) = "idle"
    BY <1>0, <1>9, <1>a, <2>1 DEF P!FreeNothing, At1, At0, Users
  <2> QED
    BY <2>1, <2>2 DEF Quiet
<1>10. CASE P!Climb(t)
  <2> DEFINE p == P!GetParentNode(Node0(t))
  <2>1. At0(t) = "climb" /\ cell' = cell /\ tree' = [tree EXCEPT ![p] = @ + 1]
    BY <1>10 DEF P!Climb, P!UserAt, P!Node, At0, Node0
  <2>2. IF p = 0 THEN user' = [user EXCEPT ![t].call = P!Resting] ELSE P!Moves(t, "climb", p)
    BY <1>10 DEF P!Climb, P!Node, Node0
  <2>3. IF p = 0 THEN At1(t) = "idle" ELSE At1(t) = "climb" /\ Node1(t) = p
    BY <1>b, <1>c, <2>2
  <2> QED
    BY <2>1, <2>3 DEF Climbs
<1> QED
  BY <1>2, <1>3, <1>4, <1>6, <1>7, <1>8, <1>9, <1>10 DEF P!PoolStep

\* A thread that moves to a node with a cell leaves the others where they are.
LEMMA StepPlaces ==
  ASSUME Places(user), NEW t \in Threads, HeldElsewhere(t),
         At1(t) \in {"idle", "tree", "climb"},
         At1(t) # "idle" => Node1(t) \in Nat /\ HasCell(Node1(t)),
         At1(t) = "climb" => Node1(t) # 0
  PROVE  Places(user')
BY DEF Places, HeldElsewhere, At1, Node1

\* The part of the thread in the counts.
LEMMA BelowIs ==
  ASSUME NEW t \in Threads, NEW n, NEW where
  PROVE  /\ Below(user, t, n, where) = One(At0(t) = where /\ P!Above(n, Node0(t)))
         /\ Below(user', t, n, where) = One(At1(t) = where /\ P!Above(n, Node1(t)))
         /\ LooksAt(user, t, n) = One(At0(t) = "tree" /\ Node0(t) = n)
         /\ LooksAt(user', t, n) = One(At1(t) = "tree" /\ Node1(t) = n)
BY DEF Below, LooksAt, At0, At1, Node0, Node1

\* A right child is an inner node or the leaf of a cell.
LEMMA RightChild ==
  ASSUME psetup \in PoolSetups, NEW n \in P!Inner, HasCell(2 * n + 2)
  PROVE  /\ 2 * n + 2 \in Nat /\ n \in Nat
         /\ 2 * n + 2 \notin P!Inner =>
              \E i \in PoolCells : /\ 2 * n + 2 = LeafOf(i)
                                   /\ P!NodeIndexToPoolIndex(2 * n + 2) = i
<1>1. 2 * n + 2 \in Nat /\ n \in Nat
  BY LeafFacts
<1>2. ASSUME 2 * n + 2 \notin P!Inner
      PROVE  \E i \in PoolCells : 2 * n + 2 = LeafOf(i)
  BY <1>1, <1>2, HasCellFacts
<1>3. \A i \in PoolCells : P!NodeIndexToPoolIndex(LeafOf(i)) = i
  BY LeafFacts DEF P!NodeIndexToPoolIndex
<1> QED
  BY <1>1, <1>2, <1>3

\* A call that begins or ends at the root changes no count.
LEMMA StepQuiet ==
  ASSUME CellInv, TreeParts(tree, cell, user), NEW t \in Threads, HeldElsewhere(t), Quiet(t)
  PROVE  TreeParts(tree', cell', user')
<1>0. psetup \in PoolSetups /\ tree' = tree /\ cell' = cell
  BY DEF CellInv, Quiet
<1>1. Places(user')
  BY <1>0, RootAbove, StepPlaces DEF Quiet, TreeParts
<1>2. Counters(tree')
  BY <1>0 DEF TreeParts
<1>3. ASSUME NEW n \in P!Inner, HasCell(n)
      PROVE  tree'[n] + Cardinality(Passing(user', n, "tree"))
               + Cardinality(Passing(user', n, "climb")) = Cardinality(Available(cell', n))
  <2>1. n \in Nat /\ ~ P!Above(n, 0)
    BY <1>0, LeafFacts, AboveParent
  <2>2. \A where \in {"tree", "climb"} : Below(user, t, n, where) = 0 /\ Below(user', t, n, where) = 0
    BY <2>1, BelowIs DEF Quiet, One
  <2>3. \A where \in {"tree", "climb"} :
          Cardinality(Passing(user', n, where)) = Cardinality(Passing(user, n, where))
    BY <1>0, <2>2, Recount
  <2> QED
    BY <1>0, <1>3, <2>3 DEF TreeParts, Counts
<1>4. ASSUME NEW n \in P!Inner, HasCell(2 * n + 2)
      PROVE  Cardinality(Looking(user', 2 * n + 2)) <= Worth(tree', cell', 2 * n + 2)
  <2> DEFINE r == 2 * n + 2
  <2>1. r # 0
    BY <1>0, LeafFacts
  <2>2. LooksAt(user, t, r) = 0 /\ LooksAt(user', t, r) = 0
    <3> HIDE DEF r
    <3> QED
      BY <2>1, BelowIs DEF Quiet, One
  <2>3. Cardinality(Looking(user', r)) = Cardinality(Looking(user, r))
    BY <1>0, <2>2, Recount
  <2> QED
    BY <1>0, <1>4, <2>3 DEF TreeParts, Covered
<1> QED
  BY <1>1, <1>2, <1>3, <1>4 DEF TreeParts, Counts, Covered

\* A value that is taken is no longer available, and its taker no longer below.
LEMMA StepTaken ==
  ASSUME CellInv, TreeParts(tree, cell, user), NEW t \in Threads, HeldElsewhere(t), Taken(t)
  PROVE  TreeParts(tree', cell', user')
<1>0. psetup \in PoolSetups /\ cell \in [PoolCells -> BOOLEAN] /\ tree' = tree
  BY DEF CellInv, Taken
<1>a. PICK i \in PoolCells : /\ cell[i] /\ cell' = [cell EXCEPT ![i] = FALSE]
                             /\ At0(t) = "tree" /\ Node0(t) = LeafOf(i) /\ At1(t) = "idle"
  BY DEF Taken
<1>1. Places(user')
  BY <1>a, StepPlaces DEF TreeParts
<1>2. Counters(tree')
  BY <1>0 DEF TreeParts
<1>3. ASSUME NEW n \in P!Inner, HasCell(n)
      PROVE  tree'[n] + Cardinality(Passing(user', n, "tree"))
               + Cardinality(Passing(user', n, "climb")) = Cardinality(Available(cell', n))
  <2> DEFINE b == One(P!Above(n, LeafOf(i)))
  <2>1. /\ Below(user, t, n, "tree") = b /\ Below(user', t, n, "tree") = 0
        /\ Below(user, t, n, "climb") = 0 /\ Below(user', t, n, "climb") = 0
    BY <1>a, BelowIs DEF One
  <2>2. /\ Cardinality(Passing(user', n, "tree")) + b = Cardinality(Passing(user, n, "tree"))
        /\ Cardinality(Passing(user', n, "climb")) = Cardinality(Passing(user, n, "climb"))
        /\ Cardinality(Passing(user, n, "tree")) \in Nat /\ Cardinality(Passing(user', n, "tree")) \in Nat
        /\ Cardinality(Passing(user, n, "climb")) \in Nat
    BY <1>0, <2>1, Recount
  <2>3. /\ Cardinality(Available(cell', n)) + b = Cardinality(Available(cell, n))
        /\ Cardinality(Available(cell, n)) \in Nat /\ Cardinality(Available(cell', n)) \in Nat
    <3>1. ~cell'[i] /\ \A j \in PoolCells \ {i} : cell'[j] = cell[j]
      BY <1>0, <1>a
    <3>2. One(cell[i] /\ P!Above(n, LeafOf(i))) = b /\ One(cell'[i] /\ P!Above(n, LeafOf(i))) = 0
      BY <1>a, <3>1 DEF One
    <3> QED
      BY <3>1, <3>2, RecountCells
  <2>4. tree[n] \in Int /\ tree[n] + Cardinality(Passing(user, n, "tree"))
                  + Cardinality(Passing(user, n, "climb")) = Cardinality(Available(cell, n))
    BY <1>3 DEF TreeParts, Counters, Counts
  <2>5. b \in Int
    BY DEF One
  <2> HIDE DEF b
  <2> QED
    BY <1>0, <2>2, <2>3, <2>4, <2>5
<1>4. ASSUME NEW n \in P!Inner, HasCell(2 * n + 2)
      PROVE  Cardinality(Looking(user', 2 * n + 2)) <= Worth(tree', cell', 2 * n + 2)
  <2> DEFINE r == 2 * n + 2
  <2>1. /\ r \in Nat
        /\ r \notin P!Inner => \E j \in PoolCells : r = LeafOf(j) /\ P!NodeIndexToPoolIndex(r) = j
    BY <1>0, <1>4, RightChild
  <2>2. Cardinality(Looking(user, r)) <= Worth(tree, cell, r)
    BY <1>4 DEF TreeParts, Covered
  <2> HIDE DEF r
  <2>3. LooksAt(user, t, r) = One(LeafOf(i) = r) /\ LooksAt(user', t, r) = 0
    BY <1>a, BelowIs DEF One
  <2>4. /\ Cardinality(Looking(user', r)) + One(LeafOf(i) = r) = Cardinality(Looking(user, r))
        /\ Cardinality(Looking(user', r)) \in Nat /\ Cardinality(Looking(user, r)) \in Nat
    BY <1>0, <2>3, Recount
  <2>5. \A j \in PoolCells : LeafOf(j) = LeafOf(i) <=> j = i
    BY SMTT(40), <1>0, LeafFacts
  <2>6. CASE r \in P!Inner
    <3>1. Worth(tree', cell', r) = Worth(tree, cell, r) /\ Worth(tree, cell, r) \in Int
      BY <1>0, <2>6 DEF Worth, TreeParts, Counters
    <3> QED
      BY <2>2, <2>4, <3>1 DEF One, r
  <2>7. CASE r \notin P!Inner
    <3>1. PICK j \in PoolCells : r = LeafOf(j) /\ P!NodeIndexToPoolIndex(r) = j
      BY <2>1, <2>7
    <3>2. /\ Worth(tree, cell, r) = IF cell[j] THEN 1 ELSE 0
          /\ Worth(tree', cell', r) = IF cell'[j] THEN 1 ELSE 0
      BY <2>7, <3>1 DEF Worth
    <3>3. CASE j = i
      BY <1>0, <1>a, <2>2, <2>4, <3>1, <3>2, <3>3 DEF One, r
    <3>4. CASE j # i
      <4>1. LeafOf(i) # r /\ cell'[j] = cell[j]
        BY <1>0, <1>a, <2>5, <3>1, <3>4
      <4> QED
        BY <2>2, <2>4, <3>2, <4>1 DEF One, r
    <3> QED
      BY <3>3, <3>4
  <2> QED
    BY <2>6, <2>7
<1> QED
  BY <1>1, <1>2, <1>3, <1>4 DEF TreeParts, Counts, Covered

\* A thread that finds nothing at a left child goes to the right child, which
\* has something for it; at a right child it finds something.
LEMMA StepTurnedDown ==
  ASSUME CellInv, TreeParts(tree, cell, user), NEW t \in Threads, HeldElsewhere(t),
         TurnedDown(t)
  PROVE  TreeParts(tree', cell', user')
<1> DEFINE m == Node0(t)
           p == P!GetParentNode(m)
<1>0. psetup \in PoolSetups /\ tree' = tree /\ cell' = cell
  BY DEF CellInv, TurnedDown
<1>1. At0(t) = "tree" /\ m \in Nat /\ m # 0 /\ HasCell(m) /\ m <= 2 * P!size - 2
  <2>1. At0(t) = "tree" /\ m \in Nat /\ m # 0 /\ HasCell(m)
    BY DEF TurnedDown, TreeParts, Places, At0, Node0
  <2> QED
    BY <1>0, <2>1, HasCellFacts
<1>2. p \in Nat /\ HasCell(p) /\ (m = 2 * p + 1 \/ m = 2 * p + 2)
  <2>1. p \in Nat
    BY <1>1, AboveParent
  <2>2. HasCell(p)
    BY <1>0, <1>1, HasCellUp
  <2>3. m = 2 * p + 1 \/ m = 2 * p + 2
    BY <1>1, <2>1, ParentFacts
  <2> QED
    BY <2>1, <2>2, <2>3
<1>3. p \in P!Inner
  <2>1. P!size \in Nat \ {0} /\ (p \in P!Inner <=> p < P!size - 1)
    BY <1>0, <1>2, LeafFacts
  <2> HIDE DEF p, m
  <2> QED
    BY <1>1, <1>2, <2>1
<1>4. t \in Looking(user, m) /\ Worth(tree, cell, m) = 0
  BY <1>1 DEF Looking, TurnedDown, At0, Node0
<1>5. Cardinality(Looking(user, m)) \in Nat /\ Cardinality(Looking(user, m)) >= 1
  <2> DEFINE A == Looking(user, m)
  <2>1. IsFiniteSet(A) /\ Cardinality(A) \in Nat
    BY <1>0, AllFinite DEF Looking
  <2>2. Cardinality({t}) = 1 /\ {t} \subseteq A
    BY <1>4, FS_Singleton
  <2> HIDE DEF A
  <2>3. Cardinality({t}) <= Cardinality(A)
    BY <2>1, <2>2, FS_Subset
  <2> QED
    BY <2>1, <2>2, <2>3 DEF A
<1> HIDE DEF m, p
<1>6. m # 2 * p + 2
  <2> SUFFICES ASSUME m = 2 * p + 2 PROVE FALSE
    OBVIOUS
  <2>1. HasCell(2 * p + 2)
    BY <1>1
  <2>2. Cardinality(Looking(user, 2 * p + 2)) <= Worth(tree, cell, 2 * p + 2)
    BY <1>3, <2>1 DEF TreeParts, Covered
  <2>3. Cardinality(Looking(user, m)) <= 0
    BY <1>4, <2>2
  <2> QED
    BY <1>5, <2>3
<1>7. m = 2 * p + 1 /\ m % 2 = 1
  BY <1>2, <1>6
<1>8. At1(t) = "tree" /\ Node1(t) = 2 * p + 2
  <2>1. Node1(t) = m + 1 /\ At1(t) = "tree"
    BY <1>7 DEF TurnedDown, m
  <2> QED
    BY <1>2, <1>7, <2>1
<1>9. /\ HasCell(2 * p + 2) /\ Worth(tree, cell, 2 * p + 2) \in Int
      /\ Cardinality(Looking(user, 2 * p + 2)) + 1 <= Worth(tree, cell, 2 * p + 2)
  <2>1. /\ Cardinality(Looking(user, 2 * p + 1)) \in Nat /\ Cardinality(Looking(user, 2 * p + 2)) \in Nat
        /\ tree[p] + Cardinality(Looking(user, 2 * p + 1)) + Cardinality(Looking(user, 2 * p + 2))
             <= Worth(tree, cell, 2 * p + 1)
                  + (IF HasCell(2 * p + 2) THEN Worth(tree, cell, 2 * p + 2) ELSE 0)
    BY <1>2, <1>3, Balance
  <2>2. tree[p] \in Int /\ tree[p] >= 0
    BY <1>2, <1>3 DEF TreeParts, Counters
  <2>3. 2 * p + 2 \in Nat
    BY <1>2
  <2>4. HasCell(2 * p + 2) => Worth(tree, cell, 2 * p + 2) \in Nat
    BY <2>3, LevelCount
  <2>5. HasCell(2 * p + 2)
    BY <1>4, <1>5, <1>7, <2>1, <2>2
  <2> QED
    BY <1>4, <1>5, <1>7, <2>1, <2>2, <2>4, <2>5
<1>10. Places(user')
  <2>1. 2 * p + 2 \in Nat
    BY <1>2
  <2> QED
    BY <1>8, <1>9, <2>1, StepPlaces DEF TreeParts
<1>11. Counters(tree')
  BY <1>0 DEF TreeParts
<1>12. ASSUME NEW n \in P!Inner, HasCell(n)
       PROVE  tree'[n] + Cardinality(Passing(user', n, "tree"))
                + Cardinality(Passing(user', n, "climb")) = Cardinality(Available(cell', n))
  <2>1. P!Above(n, 2 * p + 1) <=> P!Above(n, 2 * p + 2)
    <3>1. n \in Nat /\ 2 * p + 1 \in Nat \ {0} /\ 2 * p + 2 \in Nat \ {0}
      BY <1>0, <1>2, LeafFacts
    <3>2. P!GetParentNode(2 * p + 1) = p /\ P!GetParentNode(2 * p + 2) = p
      BY <1>2, <3>1, ParentFacts
    <3> QED
      BY <3>1, <3>2, AboveParent
  <2>2. /\ Below(user, t, n, "tree") = Below(user', t, n, "tree")
        /\ Below(user, t, n, "climb") = 0 /\ Below(user', t, n, "climb") = 0
    BY <1>1, <1>7, <1>8, <2>1, BelowIs DEF One, m
  <2>3. Below(user, t, n, "tree") \in Int
    BY DEF Below, One
  <2>4. \A where \in {"tree", "climb"} :
          Cardinality(Passing(user', n, where)) = Cardinality(Passing(user, n, where))
    BY <1>0, <2>2, <2>3, Recount
  <2> QED
    BY <1>0, <1>12, <2>4 DEF TreeParts, Counts
<1>13. ASSUME NEW n \in P!Inner, HasCell(2 * n + 2)
       PROVE  Cardinality(Looking(user', 2 * n + 2)) <= Worth(tree', cell', 2 * n + 2)
  <2> DEFINE r == 2 * n + 2
  <2>1. n \in Nat
    BY <1>0, LeafFacts
  <2>2. LooksAt(user, t, r) = 0 /\ LooksAt(user', t, r) = One(n = p)
    <3>1. m # r /\ (2 * p + 2 = r <=> n = p)
      BY <1>2, <1>7, <2>1
    <3> HIDE DEF r
    <3> QED
      BY <1>8, <3>1, BelowIs DEF One, m
  <2>3. /\ Cardinality(Looking(user', r)) = Cardinality(Looking(user, r)) + One(n = p)
        /\ Cardinality(Looking(user, r)) \in Nat
    BY <1>0, <2>2, Recount DEF One
  <2>4. CASE n = p
    BY <1>0, <1>9, <2>3, <2>4 DEF One
  <2>5. CASE n # p
    <3>1. Cardinality(Looking(user', r)) = Cardinality(Looking(user, r))
      BY <2>3, <2>5 DEF One
    <3> QED
      BY <1>0, <1>13, <3>1 DEF TreeParts, Covered
  <2> QED
    BY <2>4, <2>5
<1> QED
  BY <1>10, <1>11, <1>12, <1>13 DEF TreeParts, Counts, Covered

\* A thread that decrements a counter is below it from then on.
LEMMA StepDescends ==
  ASSUME CellInv, TreeParts(tree, cell, user), NEW t \in Threads, HeldElsewhere(t),
         Descends(t)
  PROVE  TreeParts(tree', cell', user')
<1> DEFINE m == Node0(t)
<1>0. psetup \in PoolSetups /\ cell' = cell /\ tree \in [P!Inner -> Int]
  BY DEF CellInv, Descends, TreeParts, Counters
<1>1. /\ At0(t) = "tree" /\ m \in Nat /\ m \in P!Inner /\ HasCell(m) /\ tree[m] > 0
      /\ tree' = [tree EXCEPT ![m] = @ - 1]
      /\ At1(t) = "tree" /\ Node1(t) = 2 * m + 1
  <2>1. At0(t) = "tree" /\ m \in Nat /\ HasCell(m)
    BY DEF Descends, TreeParts, Places, At0, Node0
  <2> QED
    BY <2>1 DEF Descends
<1>2. /\ 2 * m + 1 \in Nat \ {0} /\ HasCell(2 * m + 1)
      /\ P!GetParentNode(2 * m + 1) = m
  <2>1. 2 * m + 1 \in Nat \ {0}
    BY <1>1
  <2>2. HasCell(2 * m + 1)
    BY <1>0, <1>1, HasCellLeft
  <2> QED
    BY <1>1, <2>1, <2>2, ParentFacts
<1>a. m = Node0(t)
  OBVIOUS
<1> HIDE DEF m
<1>3. Places(user')
  BY <1>1, <1>2, StepPlaces DEF TreeParts
<1>4. /\ tree' \in [P!Inner -> Int] /\ tree'[m] = tree[m] - 1
      /\ \A n \in P!Inner : n # m => tree'[n] = tree[n]
  BY <1>0, <1>1
<1>5. Counters(tree')
  <2>1. ASSUME NEW n \in P!Inner PROVE IF HasCell(n) THEN tree'[n] >= 0 ELSE tree'[n] = -1
    <3>1. IF HasCell(n) THEN tree[n] >= 0 ELSE tree[n] = -1
      BY DEF TreeParts, Counters
    <3>2. CASE n = m
      BY <1>0, <1>1, <1>4, <3>2
    <3>3. CASE n # m
      BY <1>4, <3>1, <3>3
    <3> QED
      BY <3>2, <3>3
  <2> QED
    BY <1>4, <2>1 DEF Counters
<1>6. ASSUME NEW n \in P!Inner, HasCell(n)
      PROVE  tree'[n] + Cardinality(Passing(user', n, "tree"))
               + Cardinality(Passing(user', n, "climb")) = Cardinality(Available(cell', n))
  <2>a. n \in Nat
    BY <1>0, LeafFacts
  <2>b. ~ P!Above(m, m)
    <3>1. P!Above(m, m) => m >= 2 * m + 1
      BY <1>1, AboveLess
    <3> QED
      BY <1>1, <3>1
  <2>0. n \in Nat /\ ~ P!Above(m, m)
    BY <2>a, <2>b
  <2>1. P!Above(n, 2 * m + 1) <=> n = m \/ P!Above(n, m)
    BY <1>2, <2>0, AboveParent
  <2>2. /\ Below(user, t, n, "climb") = 0 /\ Below(user', t, n, "climb") = 0
        /\ Below(user, t, n, "tree") = One(P!Above(n, m))
        /\ Below(user', t, n, "tree") = One(P!Above(n, 2 * m + 1))
    BY <1>1, <1>a, BelowIs DEF One
  <2>3. One(P!Above(n, 2 * m + 1)) = One(P!Above(n, m)) + One(n = m) /\ One(P!Above(n, m)) \in Int
    BY <2>0, <2>1 DEF One
  <2>4. tree'[n] = tree[n] - One(n = m) /\ tree[n] \in Int /\ One(n = m) \in Int
    BY <1>0, <1>4 DEF One
  <2>5. /\ Cardinality(Passing(user', n, "tree")) = Cardinality(Passing(user, n, "tree")) + One(n = m)
        /\ Cardinality(Passing(user', n, "climb")) = Cardinality(Passing(user, n, "climb"))
        /\ Cardinality(Passing(user, n, "tree")) \in Nat
        /\ Cardinality(Passing(user, n, "climb")) \in Nat
    BY <1>0, <2>2, <2>3, <2>4, Recount
  <2> QED
    BY <1>0, <1>6, <2>4, <2>5 DEF TreeParts, Counts
<1>7. ASSUME NEW n \in P!Inner, HasCell(2 * n + 2)
      PROVE  Cardinality(Looking(user', 2 * n + 2)) <= Worth(tree', cell', 2 * n + 2)
  <2> DEFINE r == 2 * n + 2
  <2>0. n \in Nat
    BY <1>0, LeafFacts
  <2>1. r # 2 * m + 1
    BY <1>1, <2>0
  <2>2. LooksAt(user, t, r) = One(m = r) /\ LooksAt(user', t, r) = 0
    <3> HIDE DEF r
    <3> QED
      BY <1>1, <1>a, <2>1, BelowIs DEF One
  <2>3. Cardinality(Looking(user, r)) <= Worth(tree, cell, r)
    BY <1>7 DEF TreeParts, Covered
  <2>4. /\ Cardinality(Looking(user', r)) + One(m = r) = Cardinality(Looking(user, r))
        /\ Cardinality(Looking(user, r)) \in Nat /\ Cardinality(Looking(user', r)) \in Nat
    BY <1>0, <2>2, Recount DEF One
  <2> HIDE DEF r
  <2>5. CASE m = r
    <3>1. Worth(tree', cell', r) = tree[m] - 1 /\ Worth(tree, cell, r) = tree[m]
      BY <1>1, <1>4, <2>5 DEF Worth
    <3> QED
      BY <1>0, <1>1, <2>3, <2>4, <2>5, <3>1 DEF One, r
  <2>6. CASE m # r
    <3>1. Worth(tree', cell', r) = Worth(tree, cell, r)
      BY <1>0, <1>4, <2>6 DEF Worth
    <3> QED
      BY <2>3, <2>4, <2>6, <3>1 DEF One, r
  <2> QED
    BY <2>5, <2>6
<1> QED
  BY <1>3, <1>5, <1>6, <1>7 DEF TreeParts, Counts, Covered

\* A value that is put back is available, and its return is still to climb.
LEMMA StepPutBack ==
  ASSUME CellInv, TreeParts(tree, cell, user), NEW t \in Threads, HeldElsewhere(t),
         PutBack(t)
  PROVE  TreeParts(tree', cell', user')
<1>0. psetup \in PoolSetups /\ cell \in [PoolCells -> BOOLEAN] /\ tree' = tree
  BY DEF CellInv, PutBack
<1>a. PICK i \in PoolCells :
        /\ ~cell[i] /\ cell' = [cell EXCEPT ![i] = TRUE] /\ At0(t) = "idle"
        /\ IF LeafOf(i) = 0 THEN At1(t) = "idle"
           ELSE At1(t) = "climb" /\ Node1(t) = LeafOf(i)
  BY DEF PutBack
<1>b. LeafOf(i) \in Nat /\ HasCell(LeafOf(i))
  BY <1>0, LeafFacts, HasCellFacts
<1>c. cell'[i] /\ \A j \in PoolCells \ {i} : cell'[j] = cell[j]
  BY <1>0, <1>a
<1>1. Places(user')
  BY <1>a, <1>b, StepPlaces DEF TreeParts
<1>2. Counters(tree')
  BY <1>0 DEF TreeParts
<1>3. ASSUME NEW n \in P!Inner, HasCell(n)
      PROVE  tree'[n] + Cardinality(Passing(user', n, "tree"))
               + Cardinality(Passing(user', n, "climb")) = Cardinality(Available(cell', n))
  <2> DEFINE b == One(P!Above(n, LeafOf(i)))
  <2>0. n \in Nat /\ ~ P!Above(n, 0)
    BY <1>0, LeafFacts, AboveParent
  <2>1. /\ Below(user, t, n, "tree") = 0 /\ Below(user', t, n, "tree") = 0
        /\ Below(user, t, n, "climb") = 0 /\ Below(user', t, n, "climb") = b
    BY <1>a, <2>0, BelowIs DEF One
  <2>2. /\ Cardinality(Passing(user', n, "climb")) = Cardinality(Passing(user, n, "climb")) + b
        /\ Cardinality(Passing(user', n, "tree")) = Cardinality(Passing(user, n, "tree"))
        /\ Cardinality(Passing(user, n, "tree")) \in Nat
        /\ Cardinality(Passing(user, n, "climb")) \in Nat
    BY <1>0, <2>1, Recount
  <2>3. /\ Cardinality(Available(cell', n)) = Cardinality(Available(cell, n)) + b
        /\ Cardinality(Available(cell, n)) \in Nat /\ Cardinality(Available(cell', n)) \in Nat
    <3>2. One(cell[i] /\ P!Above(n, LeafOf(i))) = 0 /\ One(cell'[i] /\ P!Above(n, LeafOf(i))) = b
      BY <1>a, <1>c DEF One
    <3> QED
      BY <1>c, <3>2, RecountCells
  <2>4. tree[n] \in Int /\ tree[n] + Cardinality(Passing(user, n, "tree"))
                  + Cardinality(Passing(user, n, "climb")) = Cardinality(Available(cell, n))
    BY <1>3 DEF TreeParts, Counters, Counts
  <2>5. b \in Int
    BY DEF One
  <2> HIDE DEF b
  <2> QED
    BY <1>0, <2>2, <2>3, <2>4, <2>5
<1>4. ASSUME NEW n \in P!Inner, HasCell(2 * n + 2)
      PROVE  Cardinality(Looking(user', 2 * n + 2)) <= Worth(tree', cell', 2 * n + 2)
  <2> DEFINE r == 2 * n + 2
  <2>1. /\ r \in Nat
        /\ r \notin P!Inner => \E j \in PoolCells : r = LeafOf(j) /\ P!NodeIndexToPoolIndex(r) = j
    BY <1>0, <1>4, RightChild
  <2>2. Cardinality(Looking(user, r)) <= Worth(tree, cell, r)
    BY <1>4 DEF TreeParts, Covered
  <2> HIDE DEF r
  <2>3. LooksAt(user, t, r) = 0 /\ LooksAt(user', t, r) = 0
    BY <1>a, BelowIs DEF One
  <2>4. /\ Cardinality(Looking(user', r)) = Cardinality(Looking(user, r))
        /\ Cardinality(Looking(user, r)) \in Nat
    BY <1>0, <2>3, Recount
  <2>5. /\ Worth(tree, cell, r) \in Int /\ Worth(tree', cell', r) \in Int
        /\ Worth(tree, cell, r) <= Worth(tree', cell', r)
    <3>1. CASE r \in P!Inner
      BY <1>0, <3>1 DEF Worth, TreeParts, Counters
    <3>2. CASE r \notin P!Inner
      <4>1. PICK j \in PoolCells : P!NodeIndexToPoolIndex(r) = j
        BY <2>1, <3>2
      <4>2. cell[j] => cell'[j]
        BY <1>c, <4>1
      <4>3. /\ Worth(tree, cell, r) = IF cell[j] THEN 1 ELSE 0
            /\ Worth(tree', cell', r) = IF cell'[j] THEN 1 ELSE 0
        BY <3>2, <4>1 DEF Worth
      <4> QED
        BY <4>2, <4>3
    <3> QED
      BY <3>1, <3>2
  <2> QED
    BY <2>2, <2>4, <2>5 DEF r
<1> QED
  BY <1>1, <1>2, <1>3, <1>4 DEF TreeParts, Counts, Covered

\* A return that has incremented a counter is no longer below it.
LEMMA StepClimbs ==
  ASSUME CellInv, TreeParts(tree, cell, user), NEW t \in Threads, HeldElsewhere(t),
         Climbs(t)
  PROVE  TreeParts(tree', cell', user')
<1> DEFINE m == Node0(t)
           p == P!GetParentNode(m)
<1>0. psetup \in PoolSetups /\ cell' = cell /\ tree \in [P!Inner -> Int]
  BY DEF CellInv, Climbs, TreeParts, Counters
<1>1. At0(t) = "climb" /\ m \in Nat /\ m # 0 /\ HasCell(m) /\ m <= 2 * P!size - 2
  <2>1. At0(t) = "climb" /\ m \in Nat /\ m # 0 /\ HasCell(m)
    BY DEF Climbs, TreeParts, Places, At0, Node0
  <2> QED
    BY <1>0, <2>1, HasCellFacts
<1>2. p \in Nat /\ HasCell(p) /\ (m = 2 * p + 1 \/ m = 2 * p + 2)
  <2>1. p \in Nat
    BY <1>1, AboveParent
  <2>2. HasCell(p)
    BY <1>0, <1>1, HasCellUp
  <2>3. m = 2 * p + 1 \/ m = 2 * p + 2
    BY <1>1, <2>1, ParentFacts
  <2> QED
    BY <2>1, <2>2, <2>3
<1>3. p \in P!Inner
  <2>1. P!size \in Nat \ {0} /\ (p \in P!Inner <=> p < P!size - 1)
    BY <1>0, <1>2, LeafFacts
  <2> HIDE DEF p, m
  <2> QED
    BY <1>1, <1>2, <2>1
<1>4. /\ tree' = [tree EXCEPT ![p] = @ + 1]
      /\ IF p = 0 THEN At1(t) = "idle" ELSE At1(t) = "climb" /\ Node1(t) = p
  BY DEF Climbs
<1>a. m = Node0(t) /\ \A n \in Nat : P!Above(n, m) <=> n = p \/ P!Above(n, p)
  BY <1>1, AboveParent
<1> HIDE DEF m, p
<1>5. Places(user')
  BY <1>2, <1>4, StepPlaces DEF TreeParts
<1>6. /\ tree' \in [P!Inner -> Int] /\ tree'[p] = tree[p] + 1
      /\ \A n \in P!Inner : n # p => tree'[n] = tree[n]
  BY <1>0, <1>3, <1>4
<1>7. Counters(tree')
  <2>1. ASSUME NEW n \in P!Inner PROVE IF HasCell(n) THEN tree'[n] >= 0 ELSE tree'[n] = -1
    <3>1. IF HasCell(n) THEN tree[n] >= 0 ELSE tree[n] = -1
      BY DEF TreeParts, Counters
    <3>2. CASE n = p
      BY <1>0, <1>2, <1>3, <1>6, <3>1, <3>2
    <3>3. CASE n # p
      BY <1>6, <3>1, <3>3
    <3> QED
      BY <3>2, <3>3
  <2> QED
    BY <1>6, <2>1 DEF Counters
<1>8. ASSUME NEW n \in P!Inner, HasCell(n)
      PROVE  tree'[n] + Cardinality(Passing(user', n, "tree"))
               + Cardinality(Passing(user', n, "climb")) = Cardinality(Available(cell', n))
  <2>0. n \in Nat /\ ~ P!Above(p, p) /\ ~ P!Above(n, 0)
    BY <1>0, <1>2, LeafFacts, AboveLess, AboveParent
  <2>1. P!Above(n, m) <=> n = p \/ P!Above(n, p)
    BY <1>a, <2>0
  <2>2. /\ Below(user, t, n, "tree") = 0 /\ Below(user', t, n, "tree") = 0
        /\ Below(user, t, n, "climb") = One(P!Above(n, m))
        /\ Below(user', t, n, "climb") = One(P!Above(n, p))
    BY <1>1, <1>4, <1>a, <2>0, BelowIs DEF One
  <2>3. One(P!Above(n, m)) = One(P!Above(n, p)) + One(n = p) /\ One(P!Above(n, p)) \in Int
    BY <2>0, <2>1 DEF One
  <2>4. tree'[n] = tree[n] + One(n = p) /\ tree[n] \in Int /\ One(n = p) \in Int
    BY <1>0, <1>6 DEF One
  <2>5. /\ Cardinality(Passing(user', n, "climb")) + One(n = p) = Cardinality(Passing(user, n, "climb"))
        /\ Cardinality(Passing(user', n, "tree")) = Cardinality(Passing(user, n, "tree"))
        /\ Cardinality(Passing(user', n, "climb")) \in Nat
        /\ Cardinality(Passing(user, n, "tree")) \in Nat
        /\ Cardinality(Passing(user, n, "climb")) \in Nat
    BY <1>0, <2>2, <2>3, <2>4, Recount
  <2> QED
    BY <1>0, <1>8, <2>4, <2>5 DEF TreeParts, Counts
<1>9. ASSUME NEW n \in P!Inner, HasCell(2 * n + 2)
      PROVE  Cardinality(Looking(user', 2 * n + 2)) <= Worth(tree', cell', 2 * n + 2)
  <2> DEFINE r == 2 * n + 2
  <2>2. Cardinality(Looking(user, r)) <= Worth(tree, cell, r)
    BY <1>9 DEF TreeParts, Covered
  <2> HIDE DEF r
  <2>3. LooksAt(user, t, r) = 0 /\ LooksAt(user', t, r) = 0
    BY <1>1, <1>4, BelowIs DEF One
  <2>4. /\ Cardinality(Looking(user', r)) = Cardinality(Looking(user, r))
        /\ Cardinality(Looking(user, r)) \in Nat
    BY <1>0, <2>3, Recount
  <2>5. /\ Worth(tree, cell, r) \in Int /\ Worth(tree', cell', r) \in Int
        /\ Worth(tree, cell, r) <= Worth(tree', cell', r)
    <3>1. CASE r \in P!Inner
      BY <1>0, <1>6, <3>1 DEF Worth
    <3>2. CASE r \notin P!Inner
      BY <1>0, <3>2 DEF Worth
    <3> QED
      BY <3>1, <3>2
  <2> QED
    BY <2>2, <2>4, <2>5 DEF r
<1> QED
  BY <1>5, <1>7, <1>8, <1>9 DEF TreeParts, Counts, Covered

-----------------------------------------------------------------------------
(* The invariant holds.                                                    *)

\* Fill counts the cells below each inner node.
LEMMA InitTreeInv == Init => TreeInv
<1> SUFFICES ASSUME Init PROVE TreeInv
  OBVIOUS
<1>0. CellInv
  BY InitCellInv
<1>1. /\ psetup \in PoolSetups /\ cell = [i \in PoolCells |-> TRUE]
      /\ tree = [n \in P!Inner |-> IF P!FillCount(n) = 0 THEN -1 ELSE P!FillCount(n)]
      /\ \A t \in Threads : user[t].call.at = "idle"
  BY DEF Init, P!PoolInit, PoolCells, P!Resting
<1>2. CASE psetup.kind # "tree"
  BY <1>1, <1>2 DEF TreeInv
<1>3. CASE psetup.kind = "tree"
  <2>1. Places(user)
    BY <1>1 DEF Places
  <2>2. ASSUME NEW n \in P!Inner
        PROVE  /\ P!FillCount(n) = Cardinality(Available(cell, n))
               /\ P!FillCount(n) \in Nat
               /\ HasCell(n) <=> P!FillCount(n) # 0
    <3> DEFINE A == Available(cell, n)
    <3>1. A = {i \in P!Cells : P!Above(n, P!PoolIndexToNodeIndex(i))}
      BY <1>1 DEF Available, PoolCells, LeafOf
    <3>2. P!FillCount(n) = Cardinality(A)
      BY <3>1, SameCardinality DEF P!FillCount
    <3>3. IsFiniteSet(A) /\ Cardinality(A) \in Nat
      BY <1>1, AllFinite DEF Available
    <3>4. Cardinality(A) = 0 <=> A = {}
      <4> HIDE DEF A
      <4> QED
        BY <3>3, FS_EmptySet
    <3>5. HasCell(n) <=> A # {}
      <4>1. n \in Nat
        BY <1>1, LeafFacts
      <4>2. HasCell(n) <=> \E i \in PoolCells : P!Above(n, LeafOf(i))
        BY <1>1, <4>1, HasCellFacts
      <4> QED
        BY <1>1, <4>2 DEF Available
    <3> HIDE DEF A
    <3> QED
      BY <3>2, <3>3, <3>4, <3>5 DEF A
  <2>3. Counters(tree)
    <3>1. tree \in [P!Inner -> Int]
      BY <1>1, <2>2
    <3>2. ASSUME NEW n \in P!Inner PROVE IF HasCell(n) THEN tree[n] >= 0 ELSE tree[n] = -1
      <4>1. tree[n] = IF P!FillCount(n) = 0 THEN -1 ELSE P!FillCount(n)
        BY <1>1
      <4> QED
        BY <2>2, <4>1
    <3> QED
      BY <3>1, <3>2 DEF Counters
  <2>4. Counts(tree, cell, user)
    <3> SUFFICES ASSUME NEW n \in P!Inner, HasCell(n)
                 PROVE  tree[n] + Cardinality(Passing(user, n, "tree"))
                          + Cardinality(Passing(user, n, "climb")) = Cardinality(Available(cell, n))
      BY DEF Counts
    <3>1. Passing(user, n, "tree") = {} /\ Passing(user, n, "climb") = {}
      BY <1>1 DEF Passing
    <3>2. Cardinality({}) = 0
      BY FS_EmptySet
    <3>3. tree[n] = Cardinality(Available(cell, n)) /\ tree[n] \in Nat
      <4>1. tree[n] = P!FillCount(n)
        BY <1>1, <2>2
      <4> QED
        BY <2>2, <4>1
    <3> QED
      BY <3>1, <3>2, <3>3
  <2>5. Covered(tree, cell, user)
    <3> SUFFICES ASSUME NEW n \in P!Inner, HasCell(2 * n + 2)
                 PROVE  Cardinality(Looking(user, 2 * n + 2)) <= Worth(tree, cell, 2 * n + 2)
      BY DEF Covered
    <3> DEFINE r == 2 * n + 2
    <3>1. Looking(user, r) = {}
      BY <1>1 DEF Looking
    <3>2. Cardinality({}) = 0
      BY FS_EmptySet
    <3>3. Worth(tree, cell, r) \in Int /\ Worth(tree, cell, r) >= 0
      <4> HIDE DEF r
      <4>1. CASE r \in P!Inner
        BY <2>3, <4>1 DEF Counters, Worth, r
      <4>2. CASE r \notin P!Inner
        BY <4>2 DEF Worth
      <4> QED
        BY <4>1, <4>2
    <3> HIDE DEF r
    <3> QED
      BY <3>1, <3>2, <3>3 DEF r
  <2> QED
    BY <1>3, <2>1, <2>3, <2>4, <2>5 DEF TreeInv, TreeParts
<1> QED
  BY <1>2, <1>3

\* The parts of the invariant, in the next state of a pool that is the same.
LEMMA TreePartsNext ==
  ASSUME psetup' = psetup, TreeParts(tree', cell', user')
  PROVE  TreeParts(tree, cell, user)'
<1>1. P!size' = P!size /\ PoolCells' = PoolCells /\ P!Inner' = P!Inner
  BY DEF P!size, PoolCells, P!Cells, P!Inner
<1>2. \A i : LeafOf(i)' = LeafOf(i)
  BY <1>1 DEF LeafOf, P!PoolIndexToNodeIndex
<1>3. \A m : HasCell(m)' <=> HasCell(m)
  BY <1>1, <1>2 DEF HasCell
<1>4. \A n : Available(cell, n)' = Available(cell', n)
  BY <1>1, <1>2 DEF Available
<1>5. \A m : Worth(tree, cell, m)' = Worth(tree', cell', m)
  BY <1>1 DEF Worth, P!NodeIndexToPoolIndex
<1>6. /\ \A n, where : Passing(user, n, where)' = Passing(user', n, where)
      /\ \A m : Looking(user, m)' = Looking(user', m)
  BY DEF Passing, Looking
<1>7. Places(user)'
  BY <1>3 DEF TreeParts, Places
<1>8. Counters(tree)'
  BY <1>1, <1>3 DEF TreeParts, Counters
<1>9. Counts(tree, cell, user)'
  BY <1>1, <1>3, <1>4, <1>6 DEF TreeParts, Counts
<1>10. Covered(tree, cell, user)'
  BY <1>1, <1>3, <1>5, <1>6 DEF TreeParts, Covered
<1> QED
  BY <1>7, <1>8, <1>9, <1>10 DEF TreeParts

\* Every step of a pool keeps the invariant.
LEMMA StepTreeInv ==
  ASSUME CellInv, TreeInv, NEW t \in Threads, P!PoolStep(t)
  PROVE  TreeInv'
<1>1. psetup' = psetup /\ HeldElsewhere(t)
  BY PoolEffect
<1>2. CASE psetup.kind = "tree"
  <2>1. TreeParts(tree, cell, user)
    BY <1>2 DEF TreeInv
  <2>2. \/ Quiet(t) \/ Taken(t) \/ TurnedDown(t) \/ Descends(t)
        \/ PutBack(t) \/ Climbs(t)
    BY <1>2, <2>1, TreeEffect
  <2>3. TreeParts(tree', cell', user')
    BY <1>1, <2>1, <2>2, StepQuiet, StepTaken, StepTurnedDown, StepDescends,
       StepPutBack, StepClimbs
  <2>4. TreeParts(tree, cell, user)'
    BY <1>1, <2>3, TreePartsNext
  <2> QED
    BY <1>1, <1>2, <2>4 DEF TreeInv
<1>3. CASE psetup.kind # "tree"
  <2>0. user \in [Threads -> Users] /\ user[t].call \in Points
    BY DEF CellInv, Users
  <2>1. psetup.kind = "array"
    BY <1>3, PoolAssumption DEF CellInv
  <2>2. user[t].call.at \in {"idle", "array"}
    BY <1>3 DEF TreeInv
  <2>3. user'[t].call.at \in {"idle", "array"}
    <3>1. CASE P!AllocateCall(t)
      BY <2>0, <2>1, <3>1 DEF P!AllocateCall, Users
    <3>2. CASE P!ArrayCell(t)
      BY <2>0, <3>2 DEF P!ArrayCell, P!Takes, P!Moves, P!Resting, Users
    <3>3. CASE P!AllocateNothing(t)
      BY <2>0, <3>3 DEF P!AllocateNothing, P!Resting, Users
    <3>4. CASE P!TreeLeaf(t) \/ P!TreeInner(t) \/ P!Climb(t)
      BY <2>2, <3>4 DEF P!TreeLeaf, P!TreeInner, P!Climb, P!UserAt
    <3>5. CASE P!FreeCall(t)
      BY <1>3, <2>0, <3>5 DEF P!FreeCall, P!Resting, Users
    <3>6. CASE P!FreeNothing(t)
      BY <2>0, <2>2, <3>6 DEF P!FreeNothing, Users
    <3> QED
      BY <3>1, <3>2, <3>3, <3>4, <3>5, <3>6 DEF P!PoolStep
  <2> QED
    BY <1>1, <1>3, <2>3 DEF TreeInv, HeldElsewhere
<1> QED
  BY <1>2, <1>3

\* The invariant of the tree holds in every reachable state.
THEOREM SpecTreeInv == Spec => [](CellInv /\ TreeInv)
<1>1. CellInv /\ TreeInv /\ [Next]_vars => TreeInv'
  <2> SUFFICES ASSUME CellInv, TreeInv, [Next]_vars PROVE TreeInv'
    OBVIOUS
  <2>1. CASE UNCHANGED pvars
    <3>1. psetup' = psetup /\ tree' = tree /\ cell' = cell /\ user' = user
      BY <2>1 DEF pvars
    <3>2. CASE psetup.kind = "tree"
      <4>1. TreeParts(tree', cell', user')
        BY <3>1, <3>2 DEF TreeInv
      <4>2. TreeParts(tree, cell, user)'
        BY <3>1, <4>1, TreePartsNext
      <4> QED
        BY <3>1, <3>2, <4>2 DEF TreeInv
    <3>3. CASE psetup.kind # "tree"
      BY <3>1, <3>3 DEF TreeInv
    <3> QED
      BY <3>2, <3>3
  <2>2. ASSUME NEW t \in Threads, P!PoolStep(t) PROVE TreeInv'
    BY <2>2, StepTreeInv
  <2> QED
    BY <2>1, <2>2 DEF Next, vars
<1> QED
  BY <1>1, InitTreeInv, SpecCellInv, PTL DEF Spec

\* The counters of the tree, the allocations below them and the values whose
\* return has not climbed there account for what is available (allocate_rec,
\* Free and Fill of the LockFreeTreeValuePool).
THEOREM TreeCountsHolds == Spec => []TreeCounts
<1>1. CellInv /\ TreeInv => TreeCounts
  <2> SUFFICES ASSUME CellInv, TreeInv, psetup.kind = "tree",
                      NEW n \in P!Inner, tree[n] # -1
               PROVE  tree[n] + P!Cardinality({t \in Threads : P!UserAt(t, "tree") /\ P!Above(n, P!Node(t))})
                        + P!Cardinality({t \in Threads : P!UserAt(t, "climb") /\ P!Above(n, P!Node(t))})
                        = P!Cardinality({i \in P!Cells : cell[i] /\ P!Above(n, P!PoolIndexToNodeIndex(i))})
    BY Zenon DEF TreeCounts, P!TreeCounts
  <2>1. TreeParts(tree, cell, user)
    BY DEF TreeInv
  <2>2. HasCell(n)
    BY <2>1 DEF TreeParts, Counters
  <2>3. tree[n] + Cardinality(Passing(user, n, "tree")) + Cardinality(Passing(user, n, "climb"))
          = Cardinality(Available(cell, n))
    BY <2>1, <2>2 DEF TreeParts, Counts
  <2>4. /\ Passing(user, n, "tree") = {t \in Threads : P!UserAt(t, "tree") /\ P!Above(n, P!Node(t))}
        /\ Passing(user, n, "climb") = {t \in Threads : P!UserAt(t, "climb") /\ P!Above(n, P!Node(t))}
        /\ Available(cell, n) = {i \in P!Cells : cell[i] /\ P!Above(n, P!PoolIndexToNodeIndex(i))}
    BY DEF Passing, Available, P!UserAt, P!Node, PoolCells, LeafOf
  <2> QED
    BY <2>3, <2>4, SameCardinality
<1> QED
  BY <1>1, SpecTreeInv, PTL

\* An allocation that has decremented the root finds a value: the assertion in
\* allocate_rec never fails, and no cell or counter is used that does not
\* exist, for every number of values, of threads and of their calls.
THEOREM PromiseKeptHolds == Spec => []PromiseKept
<1>1. CellInv /\ TreeInv => PromiseKept
  <2> SUFFICES ASSUME CellInv, TreeInv, NEW t \in Threads
               PROVE  /\ ~ P!UserAt(t, "assert")
                      /\ P!UserAt(t, "tree") =>
                           IF P!IsLeaf(P!Node(t)) THEN P!NodeIndexToPoolIndex(P!Node(t)) \in P!Cells
                           ELSE tree[P!Node(t)] # -1
    BY DEF PromiseKept, P!PromiseKept
  <2>1. ~ P!UserAt(t, "assert")
    BY DEF TreeInv, TreeParts, Places, P!UserAt
  <2>2. ASSUME P!UserAt(t, "tree")
        PROVE  IF P!IsLeaf(P!Node(t)) THEN P!NodeIndexToPoolIndex(P!Node(t)) \in P!Cells
               ELSE tree[P!Node(t)] # -1
    <3> DEFINE m == P!Node(t)
    <3>0. psetup \in PoolSetups
      BY DEF CellInv
    <3>1. TreeParts(tree, cell, user)
      BY <2>2 DEF TreeInv, P!UserAt
    <3>2. m \in Nat /\ HasCell(m)
      BY <2>2, <3>1 DEF TreeParts, Places, P!UserAt, P!Node
    <3> HIDE DEF m
    <3>3. m <= 2 * P!size - 2 /\ P!size \in Nat \ {0} /\ (m \in P!Inner <=> m < P!size - 1)
      BY <3>0, <3>2, HasCellFacts, LeafFacts
    <3>4. CASE m \in P!Inner
      <4>1. ~ P!IsLeaf(m)
        BY <3>2, <3>3, <3>4 DEF P!IsLeaf
      <4>2. tree[m] \in Int /\ tree[m] >= 0
        BY <3>1, <3>2, <3>4 DEF TreeParts, Counters
      <4>3. tree[m] # -1
        BY <4>2
      <4> QED
        BY <4>1, <4>3 DEF m
    <3>5. CASE m \notin P!Inner
      <4>1. P!IsLeaf(m)
        BY <3>2, <3>3, <3>5 DEF P!IsLeaf
      <4>2. PICK i \in PoolCells : m = LeafOf(i)
        BY <3>0, <3>2, <3>5, HasCellFacts
      <4>3. P!NodeIndexToPoolIndex(m) = i
        BY <3>0, <4>2, LeafFacts DEF P!NodeIndexToPoolIndex
      <4> QED
        BY <4>1, <4>3 DEF m, PoolCells
    <3> QED
      BY <3>4, <3>5
  <2> QED
    BY <2>1, <2>2
<1> QED
  BY <1>1, SpecTreeInv, PTL

-----------------------------------------------------------------------------
(* Remainders                                                              *)

\* x is q times c, and r.
Makes(c, q, r, x) == c \in Nat \ {0} /\ q \in Int /\ r \in Int /\ x \in Int /\ x = c * q + r

\* Division gives a quotient and a remainder.
LEMMA Divided ==
  ASSUME NEW x \in Int, NEW c \in Nat \ {0}
  PROVE  x \div c \in Int /\ x % c \in 0..(c - 1) /\ Makes(c, x \div c, x % c, x)
  BY DEF Makes

\* The only multiple of c between -c and c is 0.
LEMMA NoFactor ==
  ASSUME NEW c, NEW a, NEW d, Makes(c, a, 0, d), -c < d, d < c
  PROVE  d = 0
<1>0. d = c * a /\ c \in Nat \ {0} /\ a \in Int /\ d \in Int
  BY DEF Makes
<1>1. a >= 1 => d >= c
  <2> SUFFICES ASSUME a >= 1 PROVE c * a >= c
    BY <1>0
  <2> USE <1>0
  <2>1. c * a = c * (a - 1) + c
    OBVIOUS
  <2>2. a - 1 \in Nat
    OBVIOUS
  <2>3. c * (a - 1) \in Nat
    BY <2>2
  <2> QED
    BY <2>1, <2>3
<1>2. a <= -1 => d <= -c
  <2> SUFFICES ASSUME a <= -1 PROVE c * a <= -c
    BY <1>0
  <2> USE <1>0
  <2>1. c * a = -(c * ((-a) - 1)) - c
    OBVIOUS
  <2>2. (-a) - 1 \in Nat
    OBVIOUS
  <2>3. c * ((-a) - 1) \in Nat
    BY <2>2
  <2> QED
    BY <2>1, <2>3
<1> QED
  BY <1>0, <1>1, <1>2

\* The remainder is the r of a quotient and a remainder below the divisor.
LEMMA Remainder ==
  ASSUME NEW c, NEW q, NEW r, NEW x, Makes(c, q, r, x), 0 <= r, r < c
  PROVE  x % c = r
<1>0. c \in Nat \ {0} /\ q \in Int /\ r \in Int /\ x \in Int
  BY DEF Makes
<1>1. x \div c \in Int /\ x % c \in 0..(c - 1) /\ Makes(c, x \div c, x % c, x)
  BY <1>0, Divided
<1> DEFINE a == (x \div c) - q
           d == r - (x % c)
<1>2. Makes(c, a, 0, d)
  BY <1>0, <1>1 DEF Makes
<1>3. a \in Int /\ d \in Int /\ -c < d /\ d < c
  BY <1>0, <1>1
<1> HIDE DEF a
<1>4. d = 0
  BY <1>2, <1>3, NoFactor
<1> QED
  BY <1>0, <1>1, <1>4

\* A multiple of c more or less does not change the remainder.
LEMMA Shifted ==
  ASSUME NEW c, NEW k, NEW x, NEW y, Makes(c, k, x, y)
  PROVE  y % c = x % c
<1>0. c \in Nat \ {0} /\ k \in Int /\ x \in Int /\ y \in Int
  BY DEF Makes
<1>1. x \div c \in Int /\ x % c \in 0..(c - 1) /\ Makes(c, x \div c, x % c, x)
  BY <1>0, Divided
<1> DEFINE q == (x \div c) + k
           r == x % c
<1>2. Makes(c, q, r, y) /\ 0 <= r /\ r < c
  BY <1>0, <1>1 DEF Makes
<1> HIDE DEF q, r
<1>3. y % c = r
  BY <1>2, Remainder
<1> QED
  BY <1>3 DEF r

\* A number below c is its own remainder.
LEMMA Within == ASSUME NEW c \in Nat \ {0}, NEW x \in 0..(c - 1) PROVE x % c = x
<1>1. Makes(c, 0, x, x)
  BY DEF Makes
<1> QED
  BY <1>1, Remainder

\* A remainder inside a sum or a difference.
LEMMA SumLeft ==
  ASSUME NEW c \in Nat \ {0}, NEW x \in Int, NEW y \in Int
  PROVE  ((x % c) + y) % c = (x + y) % c /\ (y - (x % c)) % c = (y - x) % c
<1>1. x \div c \in Int /\ x % c \in 0..(c - 1) /\ Makes(c, x \div c, x % c, x)
  BY Divided
<1> DEFINE q == x \div c
           v == (x % c) + y
           w == y - (x % c)
           a == x + y
           b == y - x
<1>2. Makes(c, q, v, a) /\ Makes(c, q, b, w) /\ q \in Int /\ v \in Int /\ w \in Int /\ a \in Int /\ b \in Int
  BY <1>1 DEF Makes
<1> HIDE DEF q, v, w, a, b
<1>3. a % c = v % c
  BY <1>2, Shifted
<1>4. w % c = b % c
  BY <1>2, Shifted
<1> QED
  BY <1>3, <1>4 DEF v, w, a, b

\* An index that wraps at m has its place in a ring of c, when c divides m: the place of the index.
LEMMA Nested ==
  ASSUME NEW m \in Nat \ {0}, NEW c \in Nat \ {0}, m % c = 0, NEW x \in Int
  PROVE  (x % m) % c = x % c
<1>1. m \div c \in Int /\ Makes(c, m \div c, 0, m)
  BY Divided
<1>2. x \div m \in Int /\ x % m \in 0..(m - 1) /\ Makes(m, x \div m, x % m, x)
  BY Divided
<1> DEFINE k == (m \div c) * (x \div m)
<1>3. k \in Int /\ Makes(c, k, x % m, x)
  <2> DEFINE a == m \div c
             b == x \div m
             r == x % m
  <2>1. a \in Int /\ b \in Int /\ r \in Int /\ m = c * a + 0 /\ x = m * b + r
    BY <1>1, <1>2 DEF Makes
  <2> HIDE DEF a, b, r
  <2>2. a * b \in Int /\ x = c * (a * b) + r
    BY <2>1
  <2> QED
    BY <2>2 DEF Makes, a, b, r
<1> HIDE DEF k
<1>4. x % m \in Int
  BY <1>2
<1> QED
  BY <1>3, <1>4, Shifted

\* Two numbers less than c apart have different remainders.
LEMMA Distinct ==
  ASSUME NEW c \in Nat \ {0}, NEW x \in Int, NEW y \in Int, x % c = y % c, -c < x - y, x - y < c
  PROVE  x = y
<1>1. x \div c \in Int /\ x % c \in 0..(c - 1) /\ Makes(c, x \div c, x % c, x)
  BY Divided
<1>2. y \div c \in Int /\ Makes(c, y \div c, y % c, y)
  BY Divided
<1> DEFINE a == (x \div c) - (y \div c)
           d == x - y
<1>3. Makes(c, a, 0, d) /\ a \in Int /\ d \in Int /\ -c < d /\ d < c
  BY <1>1, <1>2 DEF Makes
<1> HIDE DEF a
<1>4. d = 0
  BY <1>3, NoFactor
<1> QED
  BY <1>4

-----------------------------------------------------------------------------
(* The ring of the wait-free queue                                         *)

\* The number of values in a ring, and the values.
Filled(r) == (r.tail - r.head) % IndexMod
Stays(r)  == [k \in 1..Filled(r) |-> r.array[(r.head + k - 1) % r.capacity]]

\* What a ring and the two calls are made of.
RingRecs(c) == [capacity : {c}, head : 0..(IndexMod - 1), tail : 0..(IndexMod - 1),
                array : [0..(c - 1) -> Values \cup {Nothing}]]
SpscRecs(ops, results) ==
  [op : ops \cup {"idle"}, value : Values \cup {Nothing}, result : results \cup {Nothing}, saw : {S!Free.saw}]
PutRecs  == SpscRecs({"put", "store", "publish"}, {"done", "full"})
GetRecs  == SpscRecs({"get", "load", "advance"}, Values \cup {"empty"})

RingShape(r) == /\ r.capacity \in 1..(IndexMod - 1) /\ IndexMod \in Nat /\ IndexMod % r.capacity = 0
                /\ r \in RingRecs(r.capacity) /\ Filled(r) <= r.capacity

\* A put that has found room keeps it, and the value that it has stored stays behind the last one.
Putting(r, c) == /\ c \in PutRecs /\ (c.op = "idle" => c = S!Free) /\ (c.op # "idle" => c.value \in Values)
                 /\ c.op \in {"store", "publish"} => Filled(r) < r.capacity /\ c.result = Nothing
                 /\ c.op = "publish" => r.array[r.tail % r.capacity] = c.value

\* A get that has found a value keeps it, and what it has read is still the first value.
Getting(r, c) == /\ c \in GetRecs /\ (c.op = "idle" => c = S!Free)
                 /\ c.op \in {"load", "advance"} => Filled(r) > 0 /\ c.result = Nothing
                 /\ c.op = "advance" => c.value = r.array[r.head % r.capacity]

SpscShape(s) == s \in [puts : Seq(Values), gets : Nat, put : PutRecs, get : GetRecs]

\* The inductive invariant of the wait-free queue.
SpscInv == RingShape(ring) /\ SpscShape(spsc) /\ Putting(ring, spsc.put) /\ Getting(ring, spsc.get)

\* The sizes of a ring.
LEMMA RingSizes ==
  ASSUME NEW r, RingShape(r)
  PROVE  /\ r.capacity \in Nat \ {0} /\ r.capacity < IndexMod /\ IndexMod \in Nat \ {0}
         /\ r.head \in 0..(IndexMod - 1) /\ r.tail \in 0..(IndexMod - 1)
         /\ r.array \in [0..(r.capacity - 1) -> Values \cup {Nothing}]
         /\ r.head \in Int /\ r.tail \in Int
         /\ Filled(r) \in Nat /\ Filled(r) <= r.capacity
         /\ \A x \in Int : x % r.capacity \in 0..(r.capacity - 1)
<1>1. /\ r.capacity \in Nat \ {0} /\ r.capacity < IndexMod /\ IndexMod \in Nat \ {0}
      /\ r.head \in 0..(IndexMod - 1) /\ r.tail \in 0..(IndexMod - 1)
      /\ r.array \in [0..(r.capacity - 1) -> Values \cup {Nothing}]
  BY DEF RingShape, RingRecs
<1>2. r.head \in Int /\ r.tail \in Int /\ r.tail - r.head \in Int
  BY <1>1
<1>3. \A x \in Int : x % IndexMod \in 0..(IndexMod - 1)
  BY <1>1, Divided
<1>4. Filled(r) \in Nat
  BY <1>2, <1>3 DEF Filled
<1>5. \A x \in Int : x % r.capacity \in 0..(r.capacity - 1)
  BY <1>1, Divided
<1> QED
  BY <1>1, <1>2, <1>4, <1>5 DEF RingShape

\* The values of the ring, before and after a step.
LEMMA RingSame ==
  /\ RingShape(ring)  => S!RingContents  = Stays(ring)
  /\ RingShape(ring') => S!RingContents' = Stays(ring')
<1>1. ASSUME NEW r, RingShape(r)
      PROVE  [k \in 1..Filled(r) |-> r.array[((r.head + k - 1) % IndexMod) % r.capacity]] = Stays(r)
  <2>1. /\ r.capacity \in Nat \ {0} /\ IndexMod \in Nat \ {0} /\ r.head \in Int /\ Filled(r) \in Nat
    BY <1>1, RingSizes
  <2>2. IndexMod % r.capacity = 0
    BY <1>1 DEF RingShape
  <2>3. \A x \in Int : (x % IndexMod) % r.capacity = x % r.capacity
    BY <2>1, <2>2, Nested
  <2>4. \A k \in 1..Filled(r) : r.head + k - 1 \in Int
    BY <2>1
  <2> QED
    BY <2>3, <2>4 DEF Stays
<1>2. S!RingContents = [k \in 1..Filled(ring) |-> ring.array[((ring.head + k - 1) % IndexMod) % ring.capacity]]
  BY DEF S!RingContents, S!Used, Filled
<1>3. S!RingContents' = [k \in 1..Filled(ring') |-> ring'.array[((ring'.head + k - 1) % IndexMod) % ring'.capacity]]
  BY DEF S!RingContents, S!Used, Filled
<1> QED
  BY <1>1, <1>2, <1>3

\* The place behind the last value.
LEMMA TailPlace ==
  ASSUME NEW r, RingShape(r)
  PROVE  r.tail % r.capacity = (r.head + Filled(r)) % r.capacity
<1> DEFINE c == r.capacity
           m == IndexMod
           h == r.head
           l == r.tail
           u == Filled(r)
<1>1. /\ c \in Nat \ {0} /\ m \in Nat \ {0} /\ h \in Int /\ l \in Int /\ l \in 0..(m - 1) /\ u \in Nat
      /\ m % c = 0 /\ u = (l - h) % m
  BY RingSizes DEF RingShape, Filled
<1> HIDE DEF c, m, h, l, u
<1>2. l - h \in Int /\ (l - h) + h = l /\ u + h = h + u /\ h + u \in Int
  BY <1>1
<1>3. (((l - h) % m) + h) % m = ((l - h) + h) % m
  BY <1>1, <1>2, SumLeft
<1>4. l % m = l
  BY <1>1, Within
<1>5. (h + u) % m = l
  BY <1>1, <1>2, <1>3, <1>4
<1>6. ((h + u) % m) % c = (h + u) % c
  BY <1>1, <1>2, Nested
<1> QED
  BY <1>5, <1>6 DEF c, h, l, u

\* The length and the places of the values.
LEMMA StaysType ==
  ASSUME NEW r, RingShape(r)
  PROVE  /\ Stays(r) \in Seq(Values \cup {Nothing}) /\ Len(Stays(r)) = Filled(r)
         /\ \A k \in 1..Filled(r) : Stays(r)[k] = r.array[(r.head + k - 1) % r.capacity]
<1> DEFINE n == Filled(r)
           f(k) == r.array[(r.head + k - 1) % r.capacity]
<1>1. /\ n \in Nat /\ r.head \in Int /\ r.array \in [0..(r.capacity - 1) -> Values \cup {Nothing}]
      /\ \A x \in Int : x % r.capacity \in 0..(r.capacity - 1)
  BY RingSizes
<1>2. \A k \in 1..n : f(k) \in Values \cup {Nothing}
  <2> TAKE k \in 1..n
  <2>0. r.head \in Int /\ n \in Nat
    BY <1>1
  <2>1. r.head + k - 1 \in Int
    <3> HIDE DEF n
    <3> QED
      BY <2>0
  <2>2. (r.head + k - 1) % r.capacity \in 0..(r.capacity - 1)
    BY <1>1, <2>1
  <2> QED
    BY <1>1, <2>2
<1>3. Stays(r) = [k \in 1..n |-> f(k)]
  BY DEF Stays
<1> HIDE DEF n, f
<1>4. /\ Stays(r) \in Seq(Values \cup {Nothing}) /\ Len(Stays(r)) = n
      /\ \A k \in 1..n : Stays(r)[k] = f(k)
  BY <1>1, <1>2, <1>3
<1> QED
  BY <1>4 DEF n, f

\* The array with v behind the last value.
Behind(r, v) == [r.array EXCEPT ![r.tail % r.capacity] = v]

\* A value is stored behind the last one.
LEMMA RingStored ==
  ASSUME NEW r, RingShape(r), Filled(r) < r.capacity, NEW v \in Values, NEW q, q \in RingRecs(r.capacity),
         q.head = r.head, q.tail = r.tail, q.array = Behind(r, v)
  PROVE  /\ RingShape(q) /\ Filled(q) = Filled(r) /\ q.capacity = r.capacity /\ Stays(q) = Stays(r)
         /\ q.array[q.tail % q.capacity] = v
         /\ Filled(r) > 0 => q.array[q.head % q.capacity] = r.array[r.head % r.capacity]
<1> DEFINE c == r.capacity
           h == r.head
           u == Filled(r)
           x == r.tail % c
<1>1. /\ c \in Nat \ {0} /\ h \in Int /\ u \in Nat /\ u < c /\ r.array \in [0..(c - 1) -> Values \cup {Nothing}]
      /\ x \in 0..(c - 1) /\ \A y \in Int : y % c \in 0..(c - 1)
  BY RingSizes
<1>2. q.capacity = c
  BY DEF RingRecs
<1>3. Filled(q) = u
  BY DEF Filled
<1>4. RingShape(q)
  BY <1>2, <1>3 DEF RingShape
<1>5. x = (h + u) % c
  BY TailPlace
<1>6. q.array[x] = v /\ \A y \in 0..(c - 1) : y # x => q.array[y] = r.array[y]
  BY <1>1 DEF Behind
<1> HIDE DEF c, h, u, x
<1>7. ASSUME NEW k \in 1..u
      PROVE  (h + k - 1) % c \in 0..(c - 1) /\ (h + k - 1) % c # x
  <2> DEFINE y == h + k - 1
             z == h + u
  <2>1. y \in Int /\ z \in Int /\ -c < z - y /\ z - y < c /\ z # y
    BY <1>1
  <2> HIDE DEF y, z
  <2>2. z % c # y % c
    BY <1>1, <2>1, Distinct
  <2> QED
    BY <1>1, <1>5, <2>1, <2>2 DEF y, z
<1>8. \A k \in 1..u : q.array[(h + k - 1) % c] = r.array[(h + k - 1) % c]
  BY <1>6, <1>7
<1>9. Stays(q) = Stays(r)
  BY <1>2, <1>3, <1>8 DEF Stays, c, h, u
<1>10. u > 0 => q.array[h % c] = r.array[h % c]
  <2> SUFFICES ASSUME u > 0 PROVE q.array[h % c] = r.array[h % c]
    OBVIOUS
  <2>1. 1 \in 1..u /\ h + 1 - 1 = h
    BY <1>1
  <2> QED
    BY <1>8, <2>1
<1> QED
  BY <1>2, <1>3, <1>4, <1>6, <1>9, <1>10 DEF c, h, u, x

\* The tail goes on: the value behind the last one is the last one now.
LEMMA RingPublished ==
  ASSUME NEW r, RingShape(r), Filled(r) < r.capacity, NEW q, q \in RingRecs(r.capacity),
         q.head = r.head, q.tail = (r.tail + 1) % IndexMod, q.array = r.array
  PROVE  /\ RingShape(q) /\ Filled(q) = Filled(r) + 1 /\ q.capacity = r.capacity
         /\ Stays(q) = Append(Stays(r), r.array[r.tail % r.capacity])
<1> DEFINE c == r.capacity
           m == IndexMod
           h == r.head
           l == r.tail
           u == Filled(r)
<1>1. /\ c \in Nat \ {0} /\ m \in Nat \ {0} /\ h \in Int /\ l \in Int /\ u \in Nat /\ u < c /\ c < m
      /\ u = (l - h) % m
  BY RingSizes DEF Filled
<1>2. q.capacity = c
  BY DEF RingRecs
<1>3. Filled(q) = (((l + 1) % m) - h) % m
  BY DEF Filled
<1>4. Filled(q) = u + 1
  <2> HIDE DEF c, m, h, l, u
  <2>0. \A x, y \in Int : ((x % m) + y) % m = (x + y) % m
    BY <1>1, SumLeft
  <2>a. l + 1 \in Int /\ -h \in Int /\ l - h \in Int /\ 1 \in Int
    BY <1>1
  <2>1. (((l + 1) % m) + (-h)) % m = ((l + 1) + (-h)) % m
    BY <2>0, <2>a, Zenon
  <2>2. (((l - h) % m) + 1) % m = ((l - h) + 1) % m
    BY <2>0, <2>a, Zenon
  <2>3. u + 1 \in 0..(m - 1)
    BY <1>1
  <2>4. (u + 1) % m = u + 1
    BY <1>1, <2>3, Within
  <2>5. (l + 1) + (-h) = (l - h) + 1 /\ ((l + 1) % m) \in Int
    BY <1>1, Divided
  <2>6. ((l + 1) % m) - h = ((l + 1) % m) + (-h)
    BY <1>1, <2>5
  <2> QED
    BY <1>1, <1>3, <2>1, <2>2, <2>4, <2>5, <2>6
<1>5. RingShape(q)
  BY <1>1, <1>2, <1>4 DEF RingShape
<1> DEFINE e == Stays(r)
           x == r.array[l % c]
           b == Stays(q)
           D == Values \cup {Nothing}
<1>6. e \in Seq(D) /\ Len(e) = u /\ \A k \in 1..u : e[k] = r.array[(h + k - 1) % c]
  BY StaysType
<1>7. b \in Seq(D) /\ Len(b) = u + 1 /\ \A k \in 1..(u + 1) : b[k] = r.array[(h + k - 1) % c]
  BY <1>2, <1>4, <1>5, StaysType
<1>8. b[u + 1] = x
  <2>1. l % c = (h + u) % c
    BY TailPlace
  <2>2. h + (u + 1) - 1 = h + u /\ u + 1 \in 1..(u + 1)
    BY <1>1
  <2> QED
    BY <1>7, <2>1, <2>2
<1> HIDE DEF e, x, b, D, u, h, l, c
<1>9. \A k \in 1..u : b[k] = e[k]
  BY <1>1, <1>6, <1>7
<1>10. b = Append(e, x)
  <2>1. x \in D
    BY <1>1, <1>7, <1>8
  <2>2. Append(e, x) \in Seq(D) /\ Len(Append(e, x)) = u + 1 /\ Append(e, x)[u + 1] = x
        /\ \A k \in 1..u : Append(e, x)[k] = e[k]
    BY <1>1, <1>6, <2>1
  <2>3. \A k \in 1..(u + 1) : b[k] = Append(e, x)[k]
    BY <1>1, <1>8, <1>9, <2>2
  <2> QED
    BY <1>1, <1>7, <2>2, <2>3, SeqEqual
<1> QED
  BY <1>2, <1>4, <1>5, <1>10 DEF e, x, b, u, h, l, c

\* The head goes on: the first value is taken.
LEMMA RingAdvanced ==
  ASSUME NEW r, RingShape(r), Filled(r) > 0, NEW q, q \in RingRecs(r.capacity),
         q.head = (r.head + 1) % IndexMod, q.tail = r.tail, q.array = r.array
  PROVE  /\ RingShape(q) /\ Filled(q) = Filled(r) - 1 /\ q.capacity = r.capacity
         /\ Stays(r) # <<>> /\ Stays(q) = Tail(Stays(r)) /\ Head(Stays(r)) = r.array[r.head % r.capacity]
<1> DEFINE c == r.capacity
           m == IndexMod
           h == r.head
           l == r.tail
           u == Filled(r)
<1>1. /\ c \in Nat \ {0} /\ m \in Nat \ {0} /\ h \in Int /\ l \in Int /\ u \in Nat /\ u <= c /\ c < m /\ u > 0
      /\ u = (l - h) % m /\ m % c = 0
  BY RingSizes DEF Filled, RingShape
<1>2. q.capacity = c
  BY DEF RingRecs
<1>3. Filled(q) = (l - ((h + 1) % m)) % m
  BY DEF Filled
<1>4. Filled(q) = u - 1
  <2> HIDE DEF c, m, h, l, u
  <2>0. \A x, y \in Int : ((x % m) + y) % m = (x + y) % m /\ (y - (x % m)) % m = (y - x) % m
    BY <1>1, SumLeft
  <2>a. h + 1 \in Int /\ l \in Int /\ l - h \in Int /\ -1 \in Int
    BY <1>1
  <2>1. (l - ((h + 1) % m)) % m = (l - (h + 1)) % m
    BY <2>0, <2>a, Zenon
  <2>2. (((l - h) % m) + (-1)) % m = ((l - h) + (-1)) % m
    BY <2>0, <2>a, Zenon
  <2>3. u - 1 \in 0..(m - 1) /\ u + (-1) = u - 1
    BY <1>1
  <2>4. (u - 1) % m = u - 1
    BY <1>1, <2>3, Within
  <2>5. (l - (h + 1)) = (l - h) + (-1)
    BY <1>1
  <2> QED
    BY <1>1, <1>3, <2>1, <2>2, <2>3, <2>4, <2>5
<1>5. RingShape(q)
  BY <1>1, <1>2, <1>4 DEF RingShape
<1> DEFINE e == Stays(r)
           b == Stays(q)
           D == Values \cup {Nothing}
<1>6. e \in Seq(D) /\ Len(e) = u /\ \A k \in 1..u : e[k] = r.array[(h + k - 1) % c]
  BY StaysType
<1>7. b \in Seq(D) /\ Len(b) = u - 1 /\ \A k \in 1..(u - 1) : b[k] = r.array[(((h + 1) % m) + k - 1) % c]
  BY <1>2, <1>4, <1>5, StaysType
<1> HIDE DEF e, b, D, u, h, l, c, m
<1>8. ASSUME NEW k \in 1..(u - 1) PROVE (((h + 1) % m) + k - 1) % c = (h + (k + 1) - 1) % c
  <2> DEFINE w == (h + 1) % m
  <2>1. w \in Int /\ k - 1 \in Int /\ h + 1 \in Int
    BY <1>1, Divided
  <2>2. w % c = (h + 1) % c
    BY <1>1, <2>1, Nested
  <2> HIDE DEF w
  <2>3. ((w % c) + (k - 1)) % c = (w + (k - 1)) % c
    BY <1>1, <2>1, SumLeft
  <2>4. (((h + 1) % c) + (k - 1)) % c = ((h + 1) + (k - 1)) % c
    BY <1>1, <2>1, SumLeft
  <2>5. (h + 1) + (k - 1) = h + (k + 1) - 1 /\ w + (k - 1) = w + k - 1
    BY <1>1, <2>1
  <2> QED
    BY <2>2, <2>3, <2>4, <2>5 DEF w
<1>9. \A k \in 1..(u - 1) : k + 1 \in 1..u /\ b[k] = e[k + 1]
  <2> TAKE k \in 1..(u - 1)
  <2>1. \A n \in Nat : \A i \in 1..(n - 1) : i + 1 \in 1..n
    OBVIOUS
  <2>2. k + 1 \in 1..u
    BY <1>1, <2>1
  <2>3. e[k + 1] = r.array[(h + (k + 1) - 1) % c]
    BY <1>6, <2>2
  <2> QED
    BY <1>7, <1>8, <2>2, <2>3
<1>10. e # <<>> /\ Head(e) = r.array[h % c]
  <2>1. 1 \in 1..u /\ h + 1 - 1 = h
    BY <1>1
  <2>2. e[1] = r.array[h % c]
    BY <1>6, <2>1
  <2>3. e \in Seq(D) /\ Len(e) = u /\ u \in Nat /\ u > 0
    BY <1>1, <1>6
  <2> QED
    BY <2>2, <2>3
<1>11. b = Tail(e)
  <2>0. e \in Seq(D) /\ Len(e) = u /\ u \in Nat /\ u > 0 /\ b \in Seq(D) /\ Len(b) = u - 1
    BY <1>1, <1>6, <1>7
  <2>1. Tail(e) \in Seq(D) /\ Len(Tail(e)) = u - 1 /\ \A k \in 1..(u - 1) : Tail(e)[k] = e[k + 1]
    BY <1>10, <2>0
  <2>2. \A k \in 1..(u - 1) : b[k] = Tail(e)[k]
    BY <1>9, <2>1
  <2> QED
    BY <2>0, <2>1, <2>2, SeqEqual
<1> QED
  BY <1>2, <1>4, <1>5, <1>10, <1>11 DEF e, b, u, h, c

-----------------------------------------------------------------------------
(* The calls of the wait-free queue                                        *)

\* A call that goes on, gets its result, or is told as another operation.
SpscGoes(c, o)     == [c EXCEPT !.op = o]
SpscSays(c, x)     == [c EXCEPT !.result = x]
SpscTold(c, o, v)  == [c EXCEPT !.op = o, !.value = v]
SpscEnded(c, o, x) == [c EXCEPT !.op = o, !.result = x]

\* What LinearContainer sees of a call c of the operation op.
SpscShown(c, op) == IF c.op = "idle" THEN c ELSE SpscTold(c, op, IF op = "put" THEN c.value ELSE Nothing)

\* A call by its fields.
CallIs(o, v, x) == [op |-> o, value |-> v, result |-> x, saw |-> S!Free.saw]

\* No call.
LEMMA FreeCall == S!Free = CallIs("idle", Nothing, Nothing) /\ W!Idle = CallIs("idle", Nothing, Nothing)
<1>1. S!Free.saw = FALSE /\ S!Free = [op |-> "idle", value |-> Nothing, result |-> Nothing, saw |-> FALSE]
  BY DEF S!Free
<1>2. W!Idle = S!Free
  BY DEF S!Free, W!Idle
<1>3. S!Free = CallIs("idle", Nothing, Nothing)
  BY <1>1, Zenon DEF CallIs
<1> QED
  BY <1>2, <1>3

\* The fields of a call.
LEMMA CallFields ==
  ASSUME NEW o, NEW v, NEW x
  PROVE  CallIs(o, v, x).op = o /\ CallIs(o, v, x).value = v /\ CallIs(o, v, x).result = x
  BY DEF CallIs

\* A call with other fields.
LEMMA CallExcept ==
  ASSUME NEW o, NEW v, NEW x, NEW y, NEW z
  PROVE  /\ SpscSays(CallIs(o, v, x), y) = CallIs(o, v, y)
         /\ SpscGoes(CallIs(o, v, x), y) = CallIs(y, v, x)
         /\ SpscTold(CallIs(o, v, x), y, z) = CallIs(y, z, x)
         /\ SpscEnded(CallIs(o, v, x), y, z) = CallIs(y, v, z)
<1> DEFINE b == S!Free.saw
           c == CallIs(o, v, x)
<1>1. \A p, q, r : CallIs(p, q, r) = [op |-> p, value |-> q, result |-> r, saw |-> b]
  BY DEF CallIs
<1> HIDE DEF b
<1>2. /\ \A p, q, r, w : [CallIs(p, q, r) EXCEPT !.result = w] = CallIs(p, q, w)
      /\ \A p, q, r, w : [CallIs(p, q, r) EXCEPT !.op = w] = CallIs(w, q, r)
      /\ \A p, q, r, w : [CallIs(p, q, r) EXCEPT !.value = w] = CallIs(p, w, r)
  BY <1>1
<1>3. c = [op |-> o, value |-> v, result |-> x, saw |-> b]
  BY <1>1
<1> HIDE DEF c
<1>4. [c EXCEPT !.op = y, !.value = z] = [[c EXCEPT !.op = y] EXCEPT !.value = z]
  BY <1>3
<1>5. [c EXCEPT !.op = y, !.result = z] = [[c EXCEPT !.op = y] EXCEPT !.result = z]
  BY <1>3
<1>6. [c EXCEPT !.op = y] = CallIs(y, v, x) /\ [c EXCEPT !.result = y] = CallIs(o, v, y)
  BY <1>2 DEF c
<1>7. /\ [CallIs(y, v, x) EXCEPT !.value = z] = CallIs(y, z, x)
      /\ [CallIs(y, v, x) EXCEPT !.result = z] = CallIs(y, v, z)
  BY <1>2
<1> QED
  BY <1>4, <1>5, <1>6, <1>7 DEF c, SpscSays, SpscGoes, SpscTold, SpscEnded

\* A call gets a result, or goes on.
LEMMA CallNext ==
  ASSUME NEW o, NEW v, NEW x, NEW y
  PROVE  SpscSays(CallIs(o, v, x), y) = CallIs(o, v, y) /\ SpscGoes(CallIs(o, v, x), y) = CallIs(y, v, x)
<1>1. \A z : /\ SpscSays(CallIs(o, v, x), y) = CallIs(o, v, y) /\ SpscGoes(CallIs(o, v, x), y) = CallIs(y, v, x)
            /\ SpscTold(CallIs(o, v, x), y, z) = CallIs(y, z, x)
  BY CallExcept
<1> QED
  BY <1>1

\* A call is what its fields are, and what is shown of it.
LEMMA CallOfFields ==
  ASSUME NEW ops, NEW results, NEW c \in SpscRecs(ops, results)
  PROVE  /\ c = CallIs(c.op, c.value, c.result)
         /\ c.op = "idle" => \A o : SpscShown(c, o) = c
         /\ c.op # "idle" => /\ SpscShown(c, "put") = CallIs("put", c.value, c.result)
                             /\ SpscShown(c, "get") = CallIs("get", Nothing, c.result)
<1>1. c = CallIs(c.op, c.value, c.result)
  BY DEF SpscRecs, CallIs
<1>2. ASSUME NEW o, NEW v, NEW x, c = CallIs(o, v, x), o # "idle"
      PROVE  /\ SpscShown(c, "put") = CallIs("put", v, x)
             /\ SpscShown(c, "get") = CallIs("get", Nothing, x)
  <2>1. c.op = o /\ c.value = v
    <3>1. CallIs(o, v, x).op = o /\ CallIs(o, v, x).value = v
      BY CallFields
    <3> QED
      BY <1>2, <3>1
  <2>2. SpscShown(c, "put") = SpscTold(c, "put", v)
    BY <1>2, <2>1 DEF SpscShown
  <2>3. SpscShown(c, "get") = SpscTold(c, "get", Nothing)
    BY <1>2, <2>1 DEF SpscShown
  <2>4. \A y, z : SpscTold(CallIs(o, v, x), y, z) = CallIs(y, z, x)
    BY CallExcept
  <2> QED
    BY <1>2, <2>2, <2>3, <2>4
<1>3. c.op = "idle" => \A o : SpscShown(c, o) = c
  BY DEF SpscShown
<1> QED
  BY <1>1, <1>2, <1>3

\* The records of the calls, by their fields.
LEMMA CallTyped ==
  ASSUME NEW ops, NEW results, NEW o \in ops \cup {"idle"}, NEW v \in Values \cup {Nothing}, NEW x \in results \cup {Nothing}
  PROVE  CallIs(o, v, x) \in SpscRecs(ops, results)
  BY DEF CallIs, SpscRecs

\* What is shown of the two threads, before and after a step.
LEMMA SpscCallsShown ==
  /\ SpscCalls[Producer] = SpscShown(spsc.put, "put") /\ SpscCalls[Consumer] = SpscShown(spsc.get, "get")
  /\ SpscCalls'[Producer] = SpscShown(spsc'.put, "put") /\ SpscCalls'[Consumer] = SpscShown(spsc'.get, "get")
  /\ SpscCalls  = [t \in {Producer, Consumer} |-> IF t = Producer THEN SpscShown(spsc.put, "put")
                                                                  ELSE SpscShown(spsc.get, "get")]
  /\ SpscCalls' = [t \in {Producer, Consumer} |-> IF t = Producer THEN SpscShown(spsc'.put, "put")
                                                                  ELSE SpscShown(spsc'.get, "get")]
<1>1. SpscCalls  = [t \in {Producer, Consumer} |-> IF t = Producer THEN SpscShown(spsc.put, "put")
                                                                   ELSE SpscShown(spsc.get, "get")]
  BY DEF SpscCalls, SpscShown, SpscTold
<1>2. SpscCalls' = [t \in {Producer, Consumer} |-> IF t = Producer THEN SpscShown(spsc'.put, "put")
                                                                   ELSE SpscShown(spsc'.get, "get")]
  BY DEF SpscCalls, SpscShown, SpscTold
<1> QED
  BY <1>1, <1>2, IndexAssumption

\* A step of the producer, of the consumer, and one that is not seen.
LEMMA SpscBecomes ==
  /\ spsc'.get = spsc.get => W!Becomes(Producer, SpscShown(spsc'.put, "put"))
  /\ spsc'.put = spsc.put => W!Becomes(Consumer, SpscShown(spsc'.get, "get"))
  /\ SpscShown(spsc'.put, "put") = SpscShown(spsc.put, "put") /\ SpscShown(spsc'.get, "get") = SpscShown(spsc.get, "get")
       => SpscCalls' = SpscCalls
<1>1. ASSUME spsc'.get = spsc.get PROVE W!Becomes(Producer, SpscShown(spsc'.put, "put"))
  <2>1. \A u \in {Producer, Consumer} : SpscCalls'[u] = IF u = Producer THEN SpscShown(spsc'.put, "put") ELSE SpscCalls[u]
    BY <1>1, SpscCallsShown
  <2> QED
    BY <2>1 DEF W!Becomes
<1>2. ASSUME spsc'.put = spsc.put PROVE W!Becomes(Consumer, SpscShown(spsc'.get, "get"))
  <2>1. \A u \in {Producer, Consumer} : SpscCalls'[u] = IF u = Consumer THEN SpscShown(spsc'.get, "get") ELSE SpscCalls[u]
    BY <1>2, SpscCallsShown
  <2> QED
    BY <2>1 DEF W!Becomes
<1>3. ASSUME SpscShown(spsc'.put, "put") = SpscShown(spsc.put, "put"), SpscShown(spsc'.get, "get") = SpscShown(spsc.get, "get")
      PROVE  SpscCalls' = SpscCalls
  BY <1>3, SpscCallsShown
<1> QED
  BY <1>1, <1>2, <1>3

\* The calls' record with another put or get.
PutNow(s, c)    == [s EXCEPT !.put = c]
GetNow(s, c)    == [s EXCEPT !.get = c]
PutNew(s, q, c) == [s EXCEPT !.puts = q, !.put = c]
GetNew(s, n, c) == [s EXCEPT !.gets = n, !.get = c]

\* The parts of the calls' record.
LEMMA SpscFields ==
  ASSUME NEW s, SpscShape(s)
  PROVE  s.puts \in Seq(Values) /\ s.gets \in Nat /\ s.put \in PutRecs /\ s.get \in GetRecs
  BY DEF SpscShape

\* The calls' record with another put.
LEMMA PutNewFields ==
  ASSUME NEW s, SpscShape(s), NEW q \in Seq(Values), NEW c \in PutRecs
  PROVE  SpscShape(PutNew(s, q, c)) /\ PutNew(s, q, c).put = c /\ PutNew(s, q, c).get = s.get
  BY DEF SpscShape, PutNew

\* The calls' record with another get.
LEMMA GetNewFields ==
  ASSUME NEW s, SpscShape(s), NEW n \in Nat, NEW c \in GetRecs
  PROVE  SpscShape(GetNew(s, n, c)) /\ GetNew(s, n, c).get = c /\ GetNew(s, n, c).put = s.put
  BY DEF SpscShape, GetNew

\* The put goes on.
LEMMA PutNowFields ==
  ASSUME NEW s, SpscShape(s), NEW c \in PutRecs
  PROVE  SpscShape(PutNow(s, c)) /\ PutNow(s, c).put = c /\ PutNow(s, c).get = s.get
  BY DEF SpscShape, PutNow

\* The get goes on.
LEMMA GetNowFields ==
  ASSUME NEW s, SpscShape(s), NEW c \in GetRecs
  PROVE  SpscShape(GetNow(s, c)) /\ GetNow(s, c).get = c /\ GetNow(s, c).put = s.put
  BY DEF SpscShape, GetNow

\* What is shown of a put under way.
LEMMA ShownPut == ASSUME NEW c \in PutRecs, c.op # "idle" PROVE SpscShown(c, "put") = CallIs("put", c.value, c.result)
  BY CallOfFields DEF PutRecs

\* What is shown of a get under way.
LEMMA ShownGet == ASSUME NEW c \in GetRecs, c.op # "idle" PROVE SpscShown(c, "get") = CallIs("get", Nothing, c.result)
  BY CallOfFields DEF GetRecs

\* A put gets its result.
LEMMA PutEnds ==
  ASSUME SpscShape(spsc), SpscShape(spsc'), spsc.put.op # "idle", spsc.put.result = Nothing,
         spsc'.put.op # "idle", spsc'.put.value = spsc.put.value, spsc'.get = spsc.get
  PROVE  /\ W!Ends(Producer, spsc'.put.result) /\ W!Open(Producer, "put")
         /\ SpscCalls[Producer].value = spsc.put.value
<1> DEFINE v == spsc.put.value
           x == spsc'.put.result
<1>1. spsc.put \in PutRecs /\ spsc'.put \in PutRecs
  BY SpscFields
<1>2. SpscCalls[Producer] = CallIs("put", v, Nothing) /\ SpscShown(spsc'.put, "put") = CallIs("put", v, x)
  BY <1>1, ShownPut, SpscCallsShown
<1>3. W!Becomes(Producer, CallIs("put", v, x))
  BY <1>2, SpscBecomes
<1> HIDE DEF v, x
<1>4. SpscSays(CallIs("put", v, Nothing), x) = CallIs("put", v, x)
  BY CallExcept
<1>5. W!Ends(Producer, x)
  BY <1>2, <1>3, <1>4 DEF W!Ends, SpscSays
<1>6. /\ CallIs("put", v, Nothing).op = "put" /\ CallIs("put", v, Nothing).result = Nothing
      /\ CallIs("put", v, Nothing).value = v
  BY CallFields
<1>7. W!Open(Producer, "put") /\ SpscCalls[Producer].value = v
  BY <1>2, <1>6 DEF W!Open
<1> QED
  BY <1>5, <1>7 DEF v, x

\* A get gets its result.
LEMMA GetEnds ==
  ASSUME SpscShape(spsc), SpscShape(spsc'), spsc.get.op # "idle", spsc.get.result = Nothing,
         spsc'.get.op # "idle", spsc'.put = spsc.put
  PROVE  W!Ends(Consumer, spsc'.get.result) /\ W!Open(Consumer, "get")
<1> DEFINE x == spsc'.get.result
<1>1. spsc.get \in GetRecs /\ spsc'.get \in GetRecs
  BY SpscFields
<1>2. SpscCalls[Consumer] = CallIs("get", Nothing, Nothing) /\ SpscShown(spsc'.get, "get") = CallIs("get", Nothing, x)
  BY <1>1, ShownGet, SpscCallsShown
<1>3. W!Becomes(Consumer, CallIs("get", Nothing, x))
  BY <1>2, SpscBecomes
<1> HIDE DEF x
<1>4. SpscSays(CallIs("get", Nothing, Nothing), x) = CallIs("get", Nothing, x)
  BY CallExcept
<1>5. W!Ends(Consumer, x)
  BY <1>2, <1>3, <1>4 DEF W!Ends, SpscSays
<1>6. CallIs("get", Nothing, Nothing).op = "get" /\ CallIs("get", Nothing, Nothing).result = Nothing
  BY CallFields
<1>7. W!Open(Consumer, "get")
  BY <1>2, <1>6 DEF W!Open
<1> QED
  BY <1>5, <1>7 DEF x

\* What the invariant says.
LEMMA SpscKnown ==
  ASSUME SpscInv
  PROVE  /\ RingShape(ring) /\ SpscShape(spsc) /\ spsc.put \in PutRecs /\ spsc.get \in GetRecs
         /\ spsc.puts \in Seq(Values) /\ spsc.gets \in Nat
         /\ Putting(ring, spsc.put) /\ Getting(ring, spsc.get)
         /\ S!RingContents = Stays(ring) /\ S!Used = Filled(ring)
         /\ spsc.put = CallIs(spsc.put.op, spsc.put.value, spsc.put.result)
         /\ spsc.get = CallIs(spsc.get.op, spsc.get.value, spsc.get.result)
         /\ spsc.put.value \in Values \cup {Nothing} /\ spsc.get.value \in Values \cup {Nothing}
<1>1. RingShape(ring) /\ SpscShape(spsc) /\ Putting(ring, spsc.put) /\ Getting(ring, spsc.get)
  BY DEF SpscInv
<1>2. spsc.put \in PutRecs /\ spsc.get \in GetRecs /\ spsc.puts \in Seq(Values) /\ spsc.gets \in Nat
  BY <1>1, SpscFields
<1>3. S!RingContents = Stays(ring) /\ S!Used = Filled(ring)
  BY <1>1, RingSame DEF S!Used, Filled
<1>4. /\ spsc.put = CallIs(spsc.put.op, spsc.put.value, spsc.put.result)
      /\ spsc.get = CallIs(spsc.get.op, spsc.get.value, spsc.get.result)
  BY <1>2, CallOfFields DEF PutRecs, GetRecs
<1>5. spsc.put.value \in Values \cup {Nothing} /\ spsc.get.value \in Values \cup {Nothing}
  BY <1>2 DEF PutRecs, GetRecs, SpscRecs
<1> QED
  BY <1>1, <1>2, <1>3, <1>4, <1>5

\* The ring is not changed.
LEMMA RingKept == ASSUME ring' = ring PROVE S!RingContents' = S!RingContents
  BY DEF S!RingContents, S!Used

\* A step that is not seen.
SpscUnseen == SpscInv' /\ UNCHANGED W!vars
\* A step that is seen.
SpscSeen   == SpscInv' /\ W!Next

\* TryEnqueue begins.
LEMMA SeesPutBegins == ASSUME SpscInv, S!PutBegins PROVE SpscSeen
<1> DEFINE v == Head(spsc.puts)
           c == CallIs("put", v, Nothing)
<1>0. /\ RingShape(ring) /\ SpscShape(spsc) /\ spsc.puts \in Seq(Values) /\ Putting(ring, spsc.put)
      /\ Getting(ring, spsc.get)
  BY SpscKnown
<1>1. /\ spsc.put = S!Free /\ spsc.puts # <<>> /\ ring' = ring
      /\ spsc' = PutNew(spsc, Tail(spsc.puts), SpscTold(S!Free, "put", v))
  BY DEF S!PutBegins, SpscTold, PutNew
<1>2. v \in Values /\ Tail(spsc.puts) \in Seq(Values)
  BY <1>0, <1>1
<1> HIDE DEF v
<1>3. SpscTold(S!Free, "put", v) = c /\ SpscTold(W!Idle, "put", v) = c
  BY FreeCall, CallExcept
<1>4. c \in PutRecs
  BY <1>2, CallTyped DEF PutRecs
<1>5. c.op = "put" /\ c.value = v /\ c.result = Nothing
  BY CallFields
<1> HIDE DEF c
<1>6. SpscShape(spsc') /\ spsc'.put = c /\ spsc'.get = spsc.get
  <2> DEFINE q == Tail(spsc.puts)
  <2>1. spsc' = PutNew(spsc, q, c) /\ q \in Seq(Values)
    BY <1>1, <1>2, <1>3
  <2> HIDE DEF q
  <2>2. SpscShape(PutNew(spsc, q, c)) /\ PutNew(spsc, q, c).put = c /\ PutNew(spsc, q, c).get = spsc.get
    BY <1>0, <1>4, <2>1, PutNewFields
  <2> QED
    BY <2>1, <2>2
<1>7. Putting(ring, c)
  BY <1>2, <1>4, <1>5 DEF Putting
<1>8. SpscInv'
  BY <1>0, <1>1, <1>6, <1>7 DEF SpscInv
<1>9. SpscShown(c, "put") = c
  BY <1>4, <1>5, ShownPut DEF c
<1>10. W!Becomes(Producer, SpscTold(W!Idle, "put", v))
  BY <1>3, <1>6, <1>9, SpscBecomes
<1>11. SpscCalls[Producer] = W!Idle
  <2>1. S!Free.op = "idle" /\ S!Free = W!Idle
    BY FreeCall, CallFields
  <2> QED
    BY <1>1, <2>1, SpscCallsShown DEF SpscShown
<1>12. W!Begin(Producer)
  BY <1>1, <1>2, <1>10, <1>11, RingKept DEF W!Begin, SpscTold
<1> QED
  BY <1>1, <1>8, <1>12 DEF W!Next, SpscSeen

\* TryDequeue begins.
LEMMA SeesGetBegins == ASSUME SpscInv, S!GetBegins PROVE SpscSeen
<1> DEFINE c == CallIs("get", Nothing, Nothing)
<1>0. /\ RingShape(ring) /\ SpscShape(spsc) /\ spsc.gets \in Nat /\ Putting(ring, spsc.put)
      /\ Getting(ring, spsc.get)
  BY SpscKnown
<1>1. /\ spsc.get = S!Free /\ spsc.gets > 0 /\ ring' = ring
      /\ spsc' = GetNew(spsc, spsc.gets - 1, SpscGoes(S!Free, "get"))
  BY DEF S!GetBegins, SpscGoes, GetNew
<1>2. spsc.gets - 1 \in Nat
  BY <1>0, <1>1
<1>3. SpscGoes(S!Free, "get") = c /\ SpscTold(W!Idle, "get", Nothing) = c
  BY FreeCall, CallExcept
<1>4. c \in GetRecs
  BY CallTyped DEF GetRecs
<1>5. c.op = "get" /\ c.value = Nothing /\ c.result = Nothing
  BY CallFields
<1> HIDE DEF c
<1>6. SpscShape(spsc') /\ spsc'.get = c /\ spsc'.put = spsc.put
  <2> DEFINE n == spsc.gets - 1
  <2>1. spsc' = GetNew(spsc, n, c) /\ n \in Nat
    BY <1>1, <1>2, <1>3
  <2> HIDE DEF n
  <2>2. SpscShape(GetNew(spsc, n, c)) /\ GetNew(spsc, n, c).get = c /\ GetNew(spsc, n, c).put = spsc.put
    BY <1>0, <1>4, <2>1, GetNewFields
  <2> QED
    BY <2>1, <2>2
<1>7. Getting(ring, c)
  BY <1>4, <1>5 DEF Getting
<1>8. SpscInv'
  BY <1>0, <1>1, <1>6, <1>7 DEF SpscInv
<1>9. SpscShown(c, "get") = c
  BY <1>4, <1>5, ShownGet DEF c
<1>10. W!Becomes(Consumer, SpscTold(W!Idle, "get", Nothing))
  BY <1>3, <1>6, <1>9, SpscBecomes
<1>11. SpscCalls[Consumer] = W!Idle
  <2>1. S!Free.op = "idle" /\ S!Free = W!Idle
    BY FreeCall, CallFields
  <2> QED
    BY <1>1, <2>1, SpscCallsShown DEF SpscShown
<1>12. W!Begin(Consumer)
  BY <1>1, <1>10, <1>11, RingKept DEF W!Begin, SpscTold
<1> QED
  BY <1>1, <1>8, <1>12 DEF W!Next, SpscSeen

\* The put goes on to o with the result x.
LEMMA PutGoesOn ==
  ASSUME SpscInv, NEW o \in {"put", "store", "publish"}, NEW x \in {"done", "full"} \cup {Nothing}, spsc.put.op # "idle",
         spsc' = PutNow(spsc, CallIs(o, spsc.put.value, x)), RingShape(ring'), Getting(ring', spsc.get),
         o \in {"store", "publish"} => Filled(ring') < ring'.capacity /\ x = Nothing,
         o = "publish" => ring'.array[ring'.tail % ring'.capacity] = spsc.put.value
  PROVE  /\ SpscInv' /\ SpscShape(spsc) /\ SpscShape(spsc') /\ spsc'.get = spsc.get
         /\ spsc'.put.op = o /\ spsc'.put.value = spsc.put.value /\ spsc'.put.result = x
<1> DEFINE v == spsc.put.value
           c == CallIs(o, v, x)
<1>1. SpscShape(spsc) /\ v \in Values
  BY SpscKnown DEF Putting
<1>2. c \in PutRecs
  BY <1>1, CallTyped DEF PutRecs
<1>3. c.op = o /\ c.value = v /\ c.result = x
  BY CallFields
<1> HIDE DEF c
<1>4. spsc' = PutNow(spsc, c)
  BY DEF c
<1>5. SpscShape(spsc') /\ spsc'.put = c /\ spsc'.get = spsc.get
  BY <1>1, <1>2, <1>4, PutNowFields
<1>6. Putting(ring', c)
  BY <1>1, <1>2, <1>3 DEF Putting
<1>7. SpscInv'
  BY <1>5, <1>6 DEF SpscInv
<1> QED
  BY <1>1, <1>3, <1>5, <1>7

\* The get goes on to o with the value v and the result x.
LEMMA GetGoesOn ==
  ASSUME SpscInv, NEW o \in {"get", "load", "advance"}, NEW v \in Values \cup {Nothing},
         NEW x \in (Values \cup {"empty"}) \cup {Nothing}, spsc.get.op # "idle",
         spsc' = GetNow(spsc, CallIs(o, v, x)), RingShape(ring'), Putting(ring', spsc.put),
         o \in {"load", "advance"} => Filled(ring') > 0 /\ x = Nothing,
         o = "advance" => v = ring'.array[ring'.head % ring'.capacity]
  PROVE  /\ SpscInv' /\ SpscShape(spsc) /\ SpscShape(spsc') /\ spsc'.put = spsc.put
         /\ spsc'.get.op = o /\ spsc'.get.result = x
<1> DEFINE c == CallIs(o, v, x)
<1>1. SpscShape(spsc)
  BY SpscKnown
<1>2. c \in GetRecs
  BY <1>1, CallTyped DEF GetRecs
<1>3. c.op = o /\ c.value = v /\ c.result = x
  BY CallFields
<1> HIDE DEF c
<1>4. spsc' = GetNow(spsc, c)
  BY DEF c
<1>5. SpscShape(spsc') /\ spsc'.get = c /\ spsc'.put = spsc.put
  BY <1>1, <1>2, <1>4, GetNowFields
<1>6. Getting(ring', c)
  BY <1>1, <1>2, <1>3 DEF Getting
<1>7. SpscInv'
  BY <1>5, <1>6 DEF SpscInv
<1> QED
  BY <1>1, <1>3, <1>5, <1>7

\* A step of a put that has no result yet is not seen when the values stay.
LEMMA PutUnseen ==
  ASSUME SpscShape(spsc), SpscShape(spsc'), spsc'.get = spsc.get, spsc.put.op # "idle", spsc'.put.op # "idle",
         spsc'.put.value = spsc.put.value, spsc'.put.result = spsc.put.result,
         S!RingContents' = S!RingContents, ring'.capacity = ring.capacity
  PROVE  UNCHANGED W!vars
<1>1. spsc.put \in PutRecs /\ spsc'.put \in PutRecs
  BY SpscFields
<1>2. SpscShown(spsc'.put, "put") = SpscShown(spsc.put, "put")
  BY <1>1, ShownPut
<1>3. SpscCalls' = SpscCalls
  BY <1>2, SpscBecomes
<1> QED
  BY <1>3 DEF W!vars

\* A step of a get that has no result yet is not seen when the values stay.
LEMMA GetUnseen ==
  ASSUME SpscShape(spsc), SpscShape(spsc'), spsc'.put = spsc.put, spsc.get.op # "idle", spsc'.get.op # "idle",
         spsc'.get.result = spsc.get.result,
         S!RingContents' = S!RingContents, ring'.capacity = ring.capacity
  PROVE  UNCHANGED W!vars
<1>1. spsc.get \in GetRecs /\ spsc'.get \in GetRecs
  BY SpscFields
<1>2. SpscShown(spsc'.get, "get") = SpscShown(spsc.get, "get")
  BY <1>1, ShownGet
<1>3. SpscCalls' = SpscCalls
  BY <1>2, SpscBecomes
<1> QED
  BY <1>3 DEF W!vars

\* TryEnqueue reads the two indices.
LEMMA SeesPutTests == ASSUME SpscInv, S!PutTests PROVE SpscSeen \/ SpscUnseen
<1> DEFINE v == spsc.put.value
<1>0. /\ RingShape(ring) /\ Getting(ring, spsc.get) /\ spsc.put = CallIs(spsc.put.op, v, spsc.put.result)
      /\ S!RingContents = Stays(ring) /\ S!Used = Filled(ring)
  BY SpscKnown
<1>1. /\ spsc.put.op = "put" /\ spsc.put.result = Nothing /\ ring' = ring
      /\ spsc' = PutNow(spsc, IF S!RingFull THEN SpscSays(spsc.put, "full") ELSE SpscGoes(spsc.put, "store"))
  BY DEF S!PutTests, PutNow, SpscSays, SpscGoes
<1>2. spsc.put = CallIs("put", v, Nothing)
  BY <1>0, <1>1
<1>3. /\ SpscSays(CallIs("put", v, Nothing), "full") = CallIs("put", v, "full")
      /\ SpscGoes(CallIs("put", v, Nothing), "store") = CallIs("store", v, Nothing)
  BY CallExcept
<1>4. Filled(ring) \in Nat /\ Filled(ring) <= ring.capacity /\ ring.capacity \in Nat
  BY <1>0, RingSizes
<1>5. RingShape(ring') /\ Getting(ring', spsc.get) /\ S!RingContents' = S!RingContents
  BY <1>0, <1>1, RingKept
<1>6. CASE S!RingFull
  <2>1. spsc' = PutNow(spsc, CallIs("put", spsc.put.value, "full"))
    BY <1>1, <1>2, <1>3, <1>6
  <2>2. /\ SpscInv' /\ SpscShape(spsc) /\ SpscShape(spsc') /\ spsc'.get = spsc.get
        /\ spsc'.put.op = "put" /\ spsc'.put.value = spsc.put.value /\ spsc'.put.result = "full"
    BY <1>1, <1>5, <2>1, PutGoesOn
  <2>3. W!Ends(Producer, "full") /\ W!Open(Producer, "put")
    BY <1>1, <2>2, PutEnds
  <2>4. Len(S!RingContents) = ring.capacity
    BY <1>0, <1>6, StaysType DEF S!RingFull
  <2> DEFINE n == W!Cardinality({u \in {Producer, Consumer} \ {Producer} : SpscCalls[u].op = "put"})
  <2>5. n \in Nat
    <3>1. IsFiniteSet({Producer, Consumer})
      <4>1. IsFiniteSet({Producer} \cup {Consumer})
        BY FS_AddElement, FS_Singleton
      <4>2. {Producer, Consumer} = {Producer} \cup {Consumer}
        OBVIOUS
      <4> QED
        BY <4>1, <4>2
    <3>2. IsFiniteSet({u \in {Producer, Consumer} \ {Producer} : SpscCalls[u].op = "put"})
      BY <3>1, FS_Subset
    <3>3. Cardinality({u \in {Producer, Consumer} \ {Producer} : SpscCalls[u].op = "put"}) \in Nat
      BY <3>2, FS_CardinalityType
    <3> QED
      BY <3>3 DEF W!Cardinality, Cardinality
  <2>6. Len(S!RingContents) + n >= ring.capacity
    <3> HIDE DEF n
    <3> QED
      BY <1>4, <2>4, <2>5
  <2>7. W!PutFails(Producer)
    BY <1>5, <2>3, <2>6 DEF W!PutFails
  <2> QED
    BY <1>1, <2>2, <2>7 DEF W!Next, SpscSeen
<1>7. CASE ~S!RingFull
  <2>1. spsc' = PutNow(spsc, CallIs("store", spsc.put.value, Nothing))
    BY <1>1, <1>2, <1>3, <1>7
  <2>2. Filled(ring') < ring'.capacity
    BY <1>0, <1>1, <1>4, <1>7 DEF S!RingFull
  <2>3. /\ SpscInv' /\ SpscShape(spsc) /\ SpscShape(spsc') /\ spsc'.get = spsc.get
        /\ spsc'.put.op = "store" /\ spsc'.put.value = spsc.put.value /\ spsc'.put.result = Nothing
    BY <1>1, <1>5, <2>1, <2>2, PutGoesOn
  <2>4. UNCHANGED W!vars
    BY <1>1, <1>5, <2>3, PutUnseen
  <2> QED
    BY <2>3, <2>4 DEF SpscUnseen
<1> QED
  BY <1>6, <1>7

\* TryEnqueue stores the value.
LEMMA SeesPutStores == ASSUME SpscInv, S!PutStores PROVE SpscUnseen
<1> DEFINE v == spsc.put.value
           c == ring.capacity
           i == ring.tail % c
<1>0. /\ RingShape(ring) /\ Getting(ring, spsc.get) /\ Putting(ring, spsc.put)
      /\ spsc.put = CallIs(spsc.put.op, v, spsc.put.result) /\ S!RingContents = Stays(ring)
  BY SpscKnown
<1>1. /\ spsc.put.op = "store" /\ ring' = [ring EXCEPT !.array[i] = v]
      /\ spsc' = PutNow(spsc, SpscGoes(spsc.put, "publish"))
  BY DEF S!PutStores, PutNow, SpscGoes
<1>2. v \in Values /\ Filled(ring) < c /\ spsc.put.result = Nothing
  BY <1>0, <1>1 DEF Putting
<1>3. ring \in RingRecs(c)
  BY <1>0 DEF RingShape
<1>4. /\ ring' \in RingRecs(c) /\ ring'.head = ring.head /\ ring'.tail = ring.tail
      /\ ring'.array = [ring.array EXCEPT ![i] = v]
  <2> HIDE DEF c, v, i
  <2> QED
    BY <1>1, <1>2, <1>3 DEF RingRecs
<1>5. /\ RingShape(ring') /\ Filled(ring') = Filled(ring) /\ ring'.capacity = c /\ Stays(ring') = Stays(ring)
      /\ ring'.array[ring'.tail % ring'.capacity] = v
      /\ Filled(ring) > 0 => ring'.array[ring'.head % ring'.capacity] = ring.array[ring.head % c]
  <2> HIDE DEF v
  <2>1. ring'.array = Behind(ring, v) /\ v \in Values
    BY <1>2, <1>4 DEF Behind
  <2> DEFINE q == ring'
  <2>2. /\ q \in RingRecs(ring.capacity) /\ q.head = ring.head /\ q.tail = ring.tail /\ q.array = Behind(ring, v)
        /\ RingShape(ring) /\ Filled(ring) < ring.capacity
    BY <1>0, <1>2, <1>4, <2>1
  <2> HIDE DEF q
  <2>3. /\ RingShape(q) /\ Filled(q) = Filled(ring) /\ q.capacity = ring.capacity /\ Stays(q) = Stays(ring)
        /\ q.array[q.tail % q.capacity] = v
        /\ Filled(ring) > 0 => q.array[q.head % q.capacity] = ring.array[ring.head % ring.capacity]
    BY <2>1, <2>2, RingStored, SMTT(30)
  <2> QED
    BY <2>3 DEF q
<1>6. Getting(ring', spsc.get)
  BY <1>0, <1>5 DEF Getting
<1>7. S!RingContents' = S!RingContents
  BY <1>0, <1>5, RingSame
<1>8. spsc' = PutNow(spsc, CallIs("publish", v, Nothing))
  <2>1. SpscGoes(CallIs("store", v, Nothing), "publish") = CallIs("publish", v, Nothing)
    <3> HIDE DEF v
    <3> QED
      BY CallExcept
  <2>2. spsc.put = CallIs("store", v, Nothing)
    BY <1>0, <1>1, <1>2
  <2> QED
    BY <1>1, <2>1, <2>2
<1>9. Filled(ring') < ring'.capacity
  BY <1>2, <1>5
<1>10. /\ SpscInv' /\ SpscShape(spsc) /\ SpscShape(spsc') /\ spsc'.get = spsc.get
       /\ spsc'.put.op = "publish" /\ spsc'.put.value = spsc.put.value /\ spsc'.put.result = Nothing
  BY <1>1, <1>5, <1>6, <1>8, <1>9, PutGoesOn
<1>11. UNCHANGED W!vars
  BY <1>1, <1>2, <1>5, <1>7, <1>10, PutUnseen
<1> QED
  BY <1>10, <1>11 DEF SpscUnseen

\* TryEnqueue publishes the value.
LEMMA SeesPutPublishes == ASSUME SpscInv, S!PutPublishes PROVE SpscSeen
<1> DEFINE v == spsc.put.value
           c == ring.capacity
           l == (ring.tail + 1) % IndexMod
<1>0. /\ RingShape(ring) /\ Getting(ring, spsc.get) /\ Putting(ring, spsc.put)
      /\ spsc.put = CallIs(spsc.put.op, v, spsc.put.result) /\ S!RingContents = Stays(ring)
  BY SpscKnown
<1>1. /\ spsc.put.op = "publish" /\ ring' = [ring EXCEPT !.tail = l]
      /\ spsc' = PutNow(spsc, SpscEnded(spsc.put, "put", "done"))
  BY DEF S!PutPublishes, PutNow, SpscEnded
<1>2. v \in Values /\ Filled(ring) < c /\ spsc.put.result = Nothing /\ ring.array[ring.tail % c] = v
  BY <1>0, <1>1 DEF Putting
<1>3. ring \in RingRecs(c)
  BY <1>0 DEF RingShape
<1>4. /\ ring' \in RingRecs(c) /\ ring'.head = ring.head /\ ring'.tail = l /\ ring'.array = ring.array
  <2>1. ring.tail \in Int /\ IndexMod \in Nat \ {0}
    BY <1>0, RingSizes
  <2>2. l \in 0..(IndexMod - 1)
    <3> DEFINE y == ring.tail + 1
    <3>1. y \in Int
      BY <2>1
    <3> HIDE DEF y
    <3>2. y % IndexMod \in 0..(IndexMod - 1)
      BY <2>1, <3>1, Divided
    <3> QED
      BY <3>2 DEF y
  <2> HIDE DEF c, l
  <2> QED
    BY <1>1, <1>3, <2>2 DEF RingRecs
<1>5. /\ RingShape(ring') /\ Filled(ring') = Filled(ring) + 1 /\ ring'.capacity = c
      /\ Stays(ring') = Append(Stays(ring), v)
  BY <1>0, <1>2, <1>4, RingPublished
<1>6. Getting(ring', spsc.get)
  <2>1. Filled(ring) \in Nat
    BY <1>0, RingSizes
  <2>2. Filled(ring) > 0 => Filled(ring') > 0
    BY <1>5, <2>1
  <2> QED
    BY <1>0, <1>4, <1>5, <2>2 DEF Getting
<1>7. S!RingContents' = Append(S!RingContents, v)
  BY <1>0, <1>5, RingSame
<1>8. spsc' = PutNow(spsc, CallIs("put", v, "done"))
  <2>1. SpscEnded(CallIs("publish", v, Nothing), "put", "done") = CallIs("put", v, "done")
    BY CallExcept
  <2>2. spsc.put = CallIs("publish", v, Nothing)
    BY <1>0, <1>1, <1>2
  <2> QED
    BY <1>1, <2>1, <2>2
<1>9. /\ SpscInv' /\ SpscShape(spsc) /\ SpscShape(spsc') /\ spsc'.get = spsc.get
      /\ spsc'.put.op = "put" /\ spsc'.put.value = v /\ spsc'.put.result = "done"
  BY <1>1, <1>5, <1>6, <1>8, PutGoesOn
<1>10. W!Ends(Producer, "done") /\ W!Open(Producer, "put") /\ SpscCalls[Producer].value = v
  BY <1>1, <1>2, <1>9, PutEnds
<1>11. W!Put(Producer)
  BY <1>7, <1>10 DEF W!Put
<1> QED
  BY <1>5, <1>9, <1>11 DEF W!Next, SpscSeen

\* TryDequeue reads the two indices.
LEMMA SeesGetTests == ASSUME SpscInv, S!GetTests PROVE SpscSeen \/ SpscUnseen
<1> DEFINE v == spsc.get.value
<1>0. /\ RingShape(ring) /\ Putting(ring, spsc.put) /\ spsc.get = CallIs(spsc.get.op, v, spsc.get.result)
      /\ S!RingContents = Stays(ring) /\ S!Used = Filled(ring) /\ v \in Values \cup {Nothing}
  BY SpscKnown
<1>1. /\ spsc.get.op = "get" /\ spsc.get.result = Nothing /\ ring' = ring
      /\ spsc' = GetNow(spsc, IF S!Used = 0 THEN SpscSays(spsc.get, "empty") ELSE SpscGoes(spsc.get, "load"))
  BY DEF S!GetTests, GetNow, SpscSays, SpscGoes
<1>2. spsc.get = CallIs("get", v, Nothing)
  BY <1>0, <1>1
<1>3. /\ SpscSays(CallIs("get", v, Nothing), "empty") = CallIs("get", v, "empty")
      /\ SpscGoes(CallIs("get", v, Nothing), "load") = CallIs("load", v, Nothing)
  <2> HIDE DEF v
  <2>1. SpscSays(CallIs("get", v, Nothing), "empty") = CallIs("get", v, "empty")
    BY CallExcept
  <2>2. SpscGoes(CallIs("get", v, Nothing), "load") = CallIs("load", v, Nothing)
    BY CallNext
  <2> QED
    BY <2>1, <2>2
<1>4. Filled(ring) \in Nat
  BY <1>0, RingSizes
<1>5. RingShape(ring') /\ Putting(ring', spsc.put) /\ S!RingContents' = S!RingContents
  BY <1>0, <1>1, RingKept
<1>6. CASE S!Used = 0
  <2>1. spsc' = GetNow(spsc, CallIs("get", v, "empty"))
    BY <1>1, <1>2, <1>3, <1>6
  <2>2. /\ SpscInv' /\ SpscShape(spsc) /\ SpscShape(spsc') /\ spsc'.put = spsc.put
        /\ spsc'.get.op = "get" /\ spsc'.get.result = "empty"
    BY <1>0, <1>1, <1>5, <2>1, GetGoesOn
  <2>3. W!Ends(Consumer, "empty") /\ W!Open(Consumer, "get")
    BY <1>1, <2>2, GetEnds
  <2>4. S!RingContents = <<>>
    BY <1>0, <1>6, StaysType, EmptySeq
  <2>5. W!GetFails(Consumer)
    BY <1>5, <2>3, <2>4 DEF W!GetFails
  <2> QED
    BY <1>1, <2>2, <2>5 DEF W!Next, SpscSeen
<1>7. CASE S!Used # 0
  <2>1. spsc' = GetNow(spsc, CallIs("load", v, Nothing))
    BY <1>1, <1>2, <1>3, <1>7
  <2>2. Filled(ring') > 0
    BY <1>0, <1>1, <1>4, <1>7
  <2>3. /\ SpscInv' /\ SpscShape(spsc) /\ SpscShape(spsc') /\ spsc'.put = spsc.put
        /\ spsc'.get.op = "load" /\ spsc'.get.result = Nothing
    BY <1>0, <1>1, <1>5, <2>1, <2>2, GetGoesOn
  <2>4. UNCHANGED W!vars
    BY <1>1, <1>5, <2>3, GetUnseen
  <2> QED
    BY <2>3, <2>4 DEF SpscUnseen
<1> QED
  BY <1>6, <1>7

\* TryDequeue reads the value.
LEMMA SeesGetLoads == ASSUME SpscInv, S!GetLoads PROVE SpscUnseen
<1> DEFINE v == ring.array[ring.head % ring.capacity]
           w == spsc.get.value
<1>0. /\ RingShape(ring) /\ Putting(ring, spsc.put) /\ Getting(ring, spsc.get)
      /\ spsc.get = CallIs(spsc.get.op, w, spsc.get.result)
  BY SpscKnown
<1>1. /\ spsc.get.op = "load" /\ ring' = ring /\ spsc' = GetNow(spsc, SpscTold(spsc.get, "advance", v))
  BY DEF S!GetLoads, GetNow, SpscTold
<1>2. Filled(ring) > 0 /\ spsc.get.result = Nothing
  BY <1>0, <1>1 DEF Getting
<1>3. v \in Values \cup {Nothing}
  <2>1. /\ ring.array \in [0..(ring.capacity - 1) -> Values \cup {Nothing}] /\ ring.head \in Int
        /\ \A x \in Int : x % ring.capacity \in 0..(ring.capacity - 1)
    BY <1>0, RingSizes
  <2>2. ring.head % ring.capacity \in 0..(ring.capacity - 1)
    BY <2>1
  <2> QED
    BY <2>1, <2>2
<1>4. spsc' = GetNow(spsc, CallIs("advance", v, Nothing))
  <2> HIDE DEF v, w
  <2>1. SpscTold(CallIs("load", w, Nothing), "advance", v) = CallIs("advance", v, Nothing)
    BY CallExcept
  <2>2. spsc.get = CallIs("load", w, Nothing)
    BY <1>0, <1>1, <1>2
  <2> QED
    BY <1>1, <2>1, <2>2
<1>5. /\ RingShape(ring') /\ Putting(ring', spsc.put) /\ S!RingContents' = S!RingContents
      /\ Filled(ring') > 0 /\ v = ring'.array[ring'.head % ring'.capacity]
  BY <1>0, <1>1, <1>2, RingKept
<1> HIDE DEF v
<1>6. /\ SpscInv' /\ SpscShape(spsc) /\ SpscShape(spsc') /\ spsc'.put = spsc.put
      /\ spsc'.get.op = "advance" /\ spsc'.get.result = Nothing
  BY <1>1, <1>3, <1>4, <1>5, GetGoesOn
<1>7. UNCHANGED W!vars
  BY <1>1, <1>2, <1>5, <1>6, GetUnseen
<1> QED
  BY <1>6, <1>7 DEF SpscUnseen

\* TryDequeue takes the value.
LEMMA SeesGetAdvances == ASSUME SpscInv, S!GetAdvances PROVE SpscSeen
<1> DEFINE v == spsc.get.value
           c == ring.capacity
           h == (ring.head + 1) % IndexMod
<1>0. /\ RingShape(ring) /\ Getting(ring, spsc.get) /\ Putting(ring, spsc.put)
      /\ S!RingContents = Stays(ring) /\ v \in Values \cup {Nothing}
  BY SpscKnown
<1>1. /\ spsc.get.op = "advance" /\ ring' = [ring EXCEPT !.head = h]
      /\ spsc' = GetNow(spsc, SpscEnded(S!Free, "get", v))
  BY DEF S!GetAdvances, GetNow, SpscEnded
<1>2. Filled(ring) > 0 /\ spsc.get.result = Nothing /\ v = ring.array[ring.head % c]
  BY <1>0, <1>1 DEF Getting
<1>3. ring \in RingRecs(c)
  BY <1>0 DEF RingShape
<1>4. /\ ring' \in RingRecs(c) /\ ring'.head = h /\ ring'.tail = ring.tail /\ ring'.array = ring.array
  <2>1. ring.head \in Int /\ IndexMod \in Nat \ {0}
    BY <1>0, RingSizes
  <2>2. h \in 0..(IndexMod - 1)
    <3> DEFINE y == ring.head + 1
    <3>1. y \in Int
      BY <2>1
    <3> HIDE DEF y
    <3>2. y % IndexMod \in 0..(IndexMod - 1)
      BY <2>1, <3>1, Divided
    <3> QED
      BY <3>2 DEF y
  <2> HIDE DEF c, h
  <2> QED
    BY <1>1, <1>3, <2>2 DEF RingRecs
<1>5. /\ RingShape(ring') /\ Filled(ring') = Filled(ring) - 1 /\ ring'.capacity = c
      /\ Stays(ring) # <<>> /\ Stays(ring') = Tail(Stays(ring)) /\ Head(Stays(ring)) = v
  BY <1>0, <1>2, <1>4, RingAdvanced
<1>6. Putting(ring', spsc.put)
  <2>1. Filled(ring) \in Nat /\ c \in Nat
    BY <1>0, RingSizes
  <2>2. Filled(ring) < c => Filled(ring') < c
    BY <1>5, <2>1
  <2> QED
    BY <1>0, <1>4, <1>5, <2>2 DEF Putting
<1>7. S!RingContents # <<>> /\ S!RingContents' = Tail(S!RingContents) /\ Head(S!RingContents) = v
  BY <1>0, <1>5, RingSame
<1>8. spsc' = GetNow(spsc, CallIs("get", Nothing, v))
  <2> HIDE DEF v
  <2>1. SpscEnded(CallIs("idle", Nothing, Nothing), "get", v) = CallIs("get", Nothing, v)
    BY CallExcept
  <2> QED
    BY <1>1, <2>1, FreeCall
<1> HIDE DEF v
<1>9. /\ SpscInv' /\ SpscShape(spsc) /\ SpscShape(spsc') /\ spsc'.put = spsc.put
      /\ spsc'.get.op = "get" /\ spsc'.get.result = v
  BY <1>0, <1>1, <1>5, <1>6, <1>8, GetGoesOn
<1>10. W!Ends(Consumer, v) /\ W!Open(Consumer, "get")
  BY <1>1, <1>2, <1>9, GetEnds
<1>11. W!Get(Consumer)
  BY <1>7, <1>10 DEF W!Get
<1> QED
  BY <1>5, <1>9, <1>11 DEF W!Next, SpscSeen

\* A call returns.
LEMMA SeesSpscReturn == ASSUME SpscInv, S!SpscReturn PROVE SpscSeen
<1> DEFINE f == S!Free
<1>0. /\ RingShape(ring) /\ SpscShape(spsc) /\ Getting(ring, spsc.get) /\ Putting(ring, spsc.put)
      /\ spsc.put \in PutRecs /\ spsc.get \in GetRecs
  BY SpscKnown
<1>1. f.op = "idle" /\ f.result = Nothing /\ f = W!Idle
  BY FreeCall, CallFields
<1>2. f \in PutRecs /\ f \in GetRecs
  <2>1. CallIs("idle", Nothing, Nothing) \in PutRecs
    BY CallTyped DEF PutRecs
  <2>2. CallIs("idle", Nothing, Nothing) \in GetRecs
    BY CallTyped DEF GetRecs
  <2> QED
    BY <2>1, <2>2, FreeCall
<1>3. ring' = ring /\ S!RingContents' = S!RingContents
  BY RingKept DEF S!SpscReturn
<1> HIDE DEF f
<1>4. Putting(ring, f) /\ Getting(ring, f)
  BY <1>1, <1>2 DEF Putting, Getting, f
<1>5. SpscShown(f, "put") = f /\ SpscShown(f, "get") = f
  BY <1>1 DEF SpscShown
<1>6. CASE spsc.put.result # Nothing /\ spsc' = PutNow(spsc, f)
  <2>1. SpscShape(spsc') /\ spsc'.put = f /\ spsc'.get = spsc.get
    BY <1>0, <1>2, <1>6, PutNowFields
  <2>2. SpscInv'
    BY <1>0, <1>3, <1>4, <2>1 DEF SpscInv
  <2>3. spsc.put.op # "idle"
    BY <1>0, <1>1, <1>6 DEF Putting, f
  <2>4. SpscCalls[Producer].result # Nothing
    <3>1. SpscCalls[Producer] = CallIs("put", spsc.put.value, spsc.put.result)
      BY <1>0, <2>3, ShownPut, SpscCallsShown
    <3> QED
      BY <1>6, <3>1, CallFields
  <2>5. W!Becomes(Producer, W!Idle)
    BY <1>1, <1>5, <2>1, SpscBecomes
  <2>6. W!Return(Producer)
    BY <1>3, <2>4, <2>5 DEF W!Return
  <2> QED
    BY <1>3, <2>2, <2>6 DEF W!Next, SpscSeen
<1>7. CASE spsc.get.result # Nothing /\ spsc' = GetNow(spsc, f)
  <2>1. SpscShape(spsc') /\ spsc'.get = f /\ spsc'.put = spsc.put
    BY <1>0, <1>2, <1>7, GetNowFields
  <2>2. SpscInv'
    BY <1>0, <1>3, <1>4, <2>1 DEF SpscInv
  <2>3. spsc.get.op # "idle"
    BY <1>0, <1>1, <1>7 DEF Getting, f
  <2>4. SpscCalls[Consumer].result # Nothing
    <3>1. SpscCalls[Consumer] = CallIs("get", Nothing, spsc.get.result)
      BY <1>0, <2>3, ShownGet, SpscCallsShown
    <3> QED
      BY <1>7, <3>1, CallFields
  <2>5. W!Becomes(Consumer, W!Idle)
    BY <1>1, <1>5, <2>1, SpscBecomes
  <2>6. W!Return(Consumer)
    BY <1>3, <2>4, <2>5 DEF W!Return
  <2> QED
    BY <1>3, <2>2, <2>6 DEF W!Next, SpscSeen
<1> QED
  BY <1>6, <1>7 DEF S!SpscReturn, PutNow, GetNow, f

\* Every step of the wait-free queue is one of LinearContainer or is not seen.
LEMMA SpscStepSeen == ASSUME SpscInv, S!SpscStep PROVE SpscSeen \/ SpscUnseen
  BY SeesPutBegins, SeesPutTests, SeesPutStores, SeesPutPublishes, SeesGetBegins, SeesGetTests, SeesGetLoads,
     SeesGetAdvances, SeesSpscReturn DEF S!SpscStep

\* A step of another container.
LEMMA SpscElse == ASSUME SpscInv, UNCHANGED svars PROVE SpscUnseen
<1>1. ring' = ring /\ spsc' = spsc
  BY DEF svars
<1>2. SpscInv'
  BY <1>1 DEF SpscInv
<1>3. SpscCalls' = SpscCalls
  BY <1>1, SpscCallsShown
<1> QED
  BY <1>1, <1>2, <1>3, RingKept DEF W!vars, SpscUnseen

\* The queue is empty at first.
LEMMA SpscFirst == ASSUME S!SpscInit PROVE SpscInv /\ W!Init
<1> DEFINE f == S!Free
<1>1. PICK s \in SpscSetups :
        /\ ring = [capacity |-> S!AlignCapacityToPowerOfTwo(s.capacity), head |-> 0, tail |-> 0,
                   array |-> [i \in 0..(S!AlignCapacityToPowerOfTwo(s.capacity) - 1) |-> Nothing]]
        /\ spsc = [puts |-> s.puts, gets |-> s.gets, put |-> f, get |-> f]
  BY DEF S!SpscInit
<1> DEFINE p == S!AlignCapacityToPowerOfTwo(s.capacity)
<1>2. /\ IndexMod \in Nat /\ s.puts \in Seq(Values) /\ s.gets \in Nat /\ p \in 1..(IndexMod - 1) /\ IndexMod % p = 0
      /\ ring = [capacity |-> p, head |-> 0, tail |-> 0, array |-> [i \in 0..(p - 1) |-> Nothing]]
  BY <1>1, IndexAssumption
<1> HIDE DEF p, f
<1>3. ring.capacity = p /\ ring.head = 0 /\ ring.tail = 0 /\ ring \in RingRecs(p)
  BY <1>2 DEF RingRecs
<1>4. Filled(ring) = 0
  <2>1. IndexMod \in Nat \ {0} /\ 0 \in 0..(IndexMod - 1) /\ 0 - 0 = 0
    BY <1>2
  <2>2. 0 % IndexMod = 0
    BY <2>1, Within
  <2> QED
    BY <1>3, <2>1, <2>2 DEF Filled
<1>5. RingShape(ring)
  BY <1>2, <1>3, <1>4 DEF RingShape
<1>6. f.op = "idle" /\ f.result = Nothing /\ f = W!Idle
  BY FreeCall, CallFields DEF f
<1>7. f \in PutRecs /\ f \in GetRecs
  <2>1. CallIs("idle", Nothing, Nothing) \in PutRecs
    BY CallTyped DEF PutRecs
  <2>2. CallIs("idle", Nothing, Nothing) \in GetRecs
    BY CallTyped DEF GetRecs
  <2> QED
    BY <2>1, <2>2, FreeCall DEF f
<1>8. SpscShape(spsc) /\ spsc.put = f /\ spsc.get = f
  BY <1>1, <1>2, <1>7 DEF SpscShape
<1>9. Putting(ring, f) /\ Getting(ring, f)
  BY <1>6, <1>7 DEF Putting, Getting, f
<1>10. SpscInv
  BY <1>5, <1>8, <1>9 DEF SpscInv
<1>11. S!RingContents = <<>>
  BY <1>4, <1>5, RingSame, StaysType, EmptySeq
<1>12. SpscCalls = [t \in {Producer, Consumer} |-> W!Idle]
  BY <1>6, <1>8, SpscCallsShown DEF SpscShown
<1> QED
  BY <1>10, <1>11, <1>12 DEF W!Init

\* The wait-free queue keeps its promise: each TryEnqueue and each TryDequeue
\* takes effect at once although its index is written long after its test, a
\* put fails only when the queue is full, a get only when it is empty, and the
\* wrap of the indices is not seen.
THEOREM WaitFreeLinearizable == Spec => W!Spec
<1>1. Init => SpscInv /\ W!Init
  BY SpscFirst DEF Init
<1>2. SpscInv /\ [Next]_vars => SpscInv' /\ [W!Next]_(W!vars)
  <2> SUFFICES ASSUME SpscInv, [Next]_vars PROVE SpscSeen \/ SpscUnseen
    BY DEF SpscSeen, SpscUnseen
  <2>1. CASE S!SpscStep
    BY <2>1, SpscStepSeen
  <2>2. CASE UNCHANGED svars
    BY <2>2, SpscElse
  <2> QED
    BY <2>1, <2>2 DEF Next, vars, svars
<1> QED
  BY <1>1, <1>2, PTL DEF Spec, W!Spec
=============================================================================
