------------------------------ MODULE LockFree ------------------------------
(***************************************************************************)
(* The lock-free stack and the lock-free queue of containers_cpp           *)
(* (lock_free_stack-inl.h, lock_free_mpmc_queue-inl.h): nodes of a pool,   *)
(* compare-and-swap on top, head, tail and next, hazard pointers.          *)
(***************************************************************************)
EXTENDS HazardPointer

\* ObjectPool::Allocate: any node that is free, with the new value in it.  Of
\* the nodes that were never used, which nobody can tell apart, the first.
Unused(n) == node[n].element = Nothing

AllocateNode(t, where) ==
  \E n \in pool :
    /\ Unused(n) => \A m \in pool : Unused(m) => n <= m
    /\ pool' = pool \ {n}
    /\ node' = [node EXCEPT ![n] = [next |-> NULL, element |-> Local(t).value]]
    /\ Becomes(t, [Local(t) EXCEPT !.at = where, !.mine = n])
    /\ UNCHANGED <<setup, guarding, head, tail>>

\* The pool is empty: the call fails.
AllocateFails(t) ==
  /\ pool = {}
  /\ Ends(t, "full")
  /\ UNCHANGED <<setup, guarding, heap>>

Allocate(t) ==
  \/ At(t, "push") /\ (AllocateNode(t, "pushTop") \/ AllocateFails(t))
  \/ At(t, "enq") /\ (AllocateNode(t, "enqTail") \/ AllocateFails(t))

\* Only reads: the call goes on with what it has read.
Reads(t, c) == Becomes(t, c) /\ UNCHANGED <<setup, guarding, heap>>

-----------------------------------------------------------------------------
(* LockFreeStack::TryPush                                                  *)

\* Read top and link the new node to it, which nobody else can see yet.
PushTop(t) ==
  /\ At(t, "pushTop")
  /\ node' = [node EXCEPT ![Local(t).mine].next = head]
  /\ Becomes(t, [Local(t) EXCEPT !.at = "pushCas", !.top = head])
  /\ UNCHANGED <<setup, guarding, pool, head, tail>>

PushCas(t) ==
  /\ At(t, "pushCas")
  /\ \/ /\ head = Local(t).top
        /\ head' = Local(t).mine
        /\ Ends(t, "done")
     \/ /\ head # Local(t).top
        /\ Goes(t, "pushTop")
        /\ UNCHANGED head
  /\ UNCHANGED <<setup, guarding, pool, node, tail>>

-----------------------------------------------------------------------------
(* LockFreeStack::TryPop                                                   *)

PopTop(t) ==
  /\ At(t, "pop")
  /\ Reads(t, IF head = NULL THEN [Local(t) EXCEPT !.at = "return", !.result = "empty"]
              ELSE [Local(t) EXCEPT !.at = "guard", !.top = head])

PopGuard(t) == Guard(t, "guard", 0, Local(t).top, [Local(t) EXCEPT !.at = "popCheck"])

\* Mutant: the top is not read again after the guard was set.
PopCheckNot(t) ==
  /\ At(t, "popCheck")
  /\ Reads(t, [Local(t) EXCEPT !.at = "popNext"])

\* Is the top still the top?  Then it has not been retired before the guard.
PopCheck(t) ==
  /\ At(t, "popCheck")
  /\ Reads(t, [Local(t) EXCEPT !.at = IF head = Local(t).top THEN "popNext" ELSE "pop"])

PopNext(t) ==
  /\ At(t, "popNext")
  /\ Reads(t, [Local(t) EXCEPT !.at = "popCas", !.next = node[Local(t).top].next])

PopCas(t) ==
  /\ At(t, "popCas")
  /\ \/ /\ head = Local(t).top
        /\ head' = Local(t).next
        /\ Becomes(t, [Local(t) EXCEPT !.at = "popTake",
                                       !.result = node[Local(t).top].element])
     \/ /\ head # Local(t).top
        /\ Goes(t, "popAgain")
        /\ UNCHANGED head
  /\ UNCHANGED <<setup, guarding, pool, node, tail>>

\* The guard is removed before the next try, or before the node is retired.
PopUnguard(t) ==
  \/ Guard(t, "popAgain", 0, NULL, [Local(t) EXCEPT !.at = "pop"])
  \/ Guard(t, "popTake", 0, NULL, [Local(t) EXCEPT !.at = "retire"])

-----------------------------------------------------------------------------
(* LockFreeMPMCQueue::TryEnqueue                                           *)

EnqTail(t) ==
  /\ At(t, "enqTail")
  /\ Reads(t, [Local(t) EXCEPT !.at = "enqGuard", !.last = tail])

EnqGuard(t) == Guard(t, "enqGuard", 0, Local(t).last, [Local(t) EXCEPT !.at = "enqCheck"])

EnqCheck(t) ==
  /\ At(t, "enqCheck")
  /\ Reads(t, [Local(t) EXCEPT !.at = IF tail = Local(t).last THEN "enqNext" ELSE "enqTail"])

EnqNext(t) ==
  /\ At(t, "enqNext")
  /\ Reads(t, [Local(t) EXCEPT !.at = "enqAgain", !.next = node[Local(t).last].next])

EnqAgain(t) ==
  /\ At(t, "enqAgain")
  /\ Reads(t, [Local(t) EXCEPT !.at = CASE tail # Local(t).last -> "enqTail"
                                        [] tail = Local(t).last /\ Local(t).next = NULL -> "enqCas"
                                        [] OTHER -> "enqSwing"])

\* CompareAndSwap of the tail, after the node was linked or for another thread.
SwingTail(t, where, to, c) ==
  /\ At(t, where)
  /\ tail' = IF tail = Local(t).last THEN to ELSE tail
  /\ Becomes(t, c)
  /\ UNCHANGED <<setup, guarding, pool, node, head>>

EnqSwing(t) == SwingTail(t, "enqSwing", Local(t).next, [Local(t) EXCEPT !.at = "enqTail"])

\* Mutant: the node is linked whatever next is by now.
EnqStore(t) ==
  /\ At(t, "enqCas")
  /\ node' = [node EXCEPT ![Local(t).last].next = Local(t).mine]
  /\ Becomes(t, [Local(t) EXCEPT !.at = "enqDone", !.result = "done"])
  /\ UNCHANGED <<setup, guarding, pool, head, tail>>

\* The node is linked behind the last one, if that is still the last one.
EnqCas(t) ==
  /\ At(t, "enqCas")
  /\ \/ /\ node[Local(t).last].next = NULL
        /\ node' = [node EXCEPT ![Local(t).last].next = Local(t).mine]
        /\ Becomes(t, [Local(t) EXCEPT !.at = "enqDone", !.result = "done"])
     \/ /\ node[Local(t).last].next # NULL
        /\ Goes(t, "enqTail")
        /\ UNCHANGED node
  /\ UNCHANGED <<setup, guarding, pool, head, tail>>

EnqDone(t) == SwingTail(t, "enqDone", Local(t).mine, [Local(t) EXCEPT !.at = "return"])

-----------------------------------------------------------------------------
(* LockFreeMPMCQueue::TryDequeue                                           *)

DeqHead(t) ==
  /\ At(t, "deq")
  /\ Reads(t, [Local(t) EXCEPT !.at = "deqGuard", !.top = head])

DeqGuard(t) == Guard(t, "deqGuard", 0, Local(t).top, [Local(t) EXCEPT !.at = "deqCheck"])

DeqCheck(t) ==
  /\ At(t, "deqCheck")
  /\ Reads(t, [Local(t) EXCEPT !.at = IF head = Local(t).top THEN "deqTail" ELSE "deq"])

DeqTail(t) ==
  /\ At(t, "deqTail")
  /\ Reads(t, [Local(t) EXCEPT !.at = "deqNext", !.last = tail])

DeqNext(t) ==
  /\ At(t, "deqNext")
  /\ Reads(t, [Local(t) EXCEPT !.at = "deqGuardNext", !.next = node[Local(t).top].next])

DeqGuardNext(t) ==
  Guard(t, "deqGuardNext", 1, Local(t).next, [Local(t) EXCEPT !.at = "deqAgain"])

DeqAgain(t) ==
  /\ At(t, "deqAgain")
  /\ Reads(t, LET c == Local(t) IN
       CASE head # c.top -> [c EXCEPT !.at = "deq"]
         [] head = c.top /\ c.next = NULL -> [c EXCEPT !.at = "return", !.result = "empty"]
         [] head = c.top /\ c.next # NULL ->
              [c EXCEPT !.at = IF c.top = c.last THEN "deqSwing" ELSE "deqElement"])

DeqSwing(t) == SwingTail(t, "deqSwing", Local(t).next, [Local(t) EXCEPT !.at = "deq"])

\* The value is read before the node becomes the dummy.
DeqElement(t) ==
  /\ At(t, "deqElement")
  /\ Reads(t, [Local(t) EXCEPT !.at = "deqCas", !.value = node[Local(t).next].element])

DeqCas(t) ==
  /\ At(t, "deqCas")
  /\ \/ /\ head = Local(t).top
        /\ head' = Local(t).next
        /\ Becomes(t, [Local(t) EXCEPT !.at = "retire", !.result = Local(t).value,
                                       !.value = Nothing])
     \/ /\ head # Local(t).top
        /\ Becomes(t, [Local(t) EXCEPT !.at = "deq", !.value = Nothing])
        /\ UNCHANGED head
  /\ UNCHANGED <<setup, guarding, pool, node, tail>>

LockFreeStep(t) ==
  \/ HazardStep(t) \/ Allocate(t)
  \/ PushTop(t) \/ PushCas(t)
  \/ PopTop(t) \/ PopGuard(t) \/ PopCheck(t) \/ PopNext(t) \/ PopCas(t) \/ PopUnguard(t)
  \/ EnqTail(t) \/ EnqGuard(t) \/ EnqCheck(t) \/ EnqNext(t) \/ EnqAgain(t) \/ EnqSwing(t)
  \/ EnqCas(t) \/ EnqDone(t)
  \/ DeqHead(t) \/ DeqGuard(t) \/ DeqCheck(t) \/ DeqTail(t) \/ DeqNext(t)
  \/ DeqGuardNext(t) \/ DeqAgain(t) \/ DeqSwing(t) \/ DeqElement(t) \/ DeqCas(t)
=============================================================================
