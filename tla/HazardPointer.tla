--------------------------- MODULE HazardPointer ----------------------------
(***************************************************************************)
(* Hazard pointers (containers/internal/hazard_pointer-inl.h), the indices *)
(* of threads they use (base_c/src/internal/thread_index.c) and the pool   *)
(* of nodes (object_pool-inl.h) of the lock-free stack and queue.          *)
(*                                                                         *)
(* A thread announces the node it is about to read in a guard.  A node     *)
(* that has been taken out of the container is put on the list of retired  *)
(* nodes of the thread; when that is long enough, the nodes that nobody    *)
(* guards go back to the pool.                                             *)
(***************************************************************************)
EXTENDS Integers, Sequences, FiniteSets, FiniteSetsExt, SequencesExt

CONSTANTS Threads,
          Setups,   \* [kind, max_threads, capacity, program]: what may be run
          Values, Nothing, NULL

\* Nothing and NULL are neither values nor nodes nor results.  A thread that leaves
\* does not use the container afterwards.
Ops == [op : {"put"}, value : Values] \cup [op : {"get", "leave"}, value : {Nothing}]

ASSUME SetupsAssumption ==
  /\ Nothing \notin Values \cup {"done", "empty", "full", "exception"}
  /\ Values \cap {"empty", "exception"} = {}
  /\ NULL \notin Nat
  /\ \A s \in Setups :
       /\ s \in [kind : {"stack", "queue"}, max_threads : Nat \ {0}, capacity : Nat \ {0},
                 program : [Threads -> Seq(Ops)]]
       /\ \A t \in Threads : \A k \in DOMAIN s.program[t] :
            s.program[t][k].op = "leave" => k = Len(s.program[t])

VARIABLES setup,    \* the kind of container, its size, and the program of each thread
          counter,  \* embb_thread_index_counter_index
          entry,    \* hazard_pointer_thread_entry_array
          active_hazard_pointer,
          pool,     \* the nodes that are free
          node,     \* [Nodes -> next, element]
          head, tail,  \* of the queue; head is top of the stack
          thread    \* per thread: its index, what is left of its program, its call

heap  == <<pool, node, head, tail>>
guarding == <<counter, entry, active_hazard_pointer>>
hvars == <<setup, guarding, heap, thread>>

Guards  == IF setup.kind = "stack" THEN 0..0 ELSE 0..1
Entries == 0..(setup.max_threads - 1)

\* GetRetiredListMaxSize: 1.25 times threads and guards, cut off, plus one.
RetiredListMaxSize(s) ==
  ((5 * s.max_threads * (IF s.kind = "stack" THEN 1 ELSE 2)) \div 4) + 1

\* The size of the pool: the capacity, what may be retired, a dummy for the queue.
PoolSize(s) == RetiredListMaxSize(s) * s.max_threads + s.capacity
               + (IF s.kind = "stack" THEN 0 ELSE 1)
Nodes == 1..PoolSize(setup)

NoIndex == -1
Idle == [at |-> "idle", op |-> "idle", value |-> Nothing, result |-> Nothing,
         saw |-> FALSE, mine |-> NULL, top |-> NULL, last |-> NULL, next |-> NULL,
         scan |-> 0, k |-> 0, help |-> 0, hazards |-> {}, count |-> 0]

\* The constructors.  The queue takes a dummy node from its pool.
HazardInit ==
  /\ setup \in Setups
  /\ counter = 0
  /\ active_hazard_pointer = setup.max_threads
  /\ entry = [i \in Entries |-> [is_active |-> TRUE, guards |-> [p \in Guards |-> NULL],
                                 retired |-> <<>>]]
  /\ head = (IF setup.kind = "stack" THEN NULL ELSE 1)
  /\ tail = head
  /\ pool = Nodes \ {head}
  /\ node = [n \in Nodes |-> [next |-> NULL, element |-> Nothing]]
  /\ thread = [t \in Threads |-> [index |-> NoIndex, todo |-> setup.program[t],
                                  call |-> Idle]]

-----------------------------------------------------------------------------
(* The values in the container, and the calls                              *)

\* The nodes from n on, as many as there can be.
Chain(n) ==
  LET from[x \in (0..PoolSize(setup)) \X (Nodes \cup {NULL})] ==
        LET k == x[1]  m == x[2]
        IN  IF k = 0 \/ m = NULL THEN <<>> ELSE <<m>> \o from[<<k - 1, node[m].next>>]
  IN  from[<<PoolSize(setup), n>>]

Contents ==
  LET ns == Chain(IF setup.kind = "stack" THEN head ELSE node[head].next)
  IN  [k \in DOMAIN ns |-> node[ns[k]].element]

At(t, where) == thread[t].call.at = where
Local(t)     == thread[t].call

\* A call goes on; every get under way notes that the container is empty.
Becomes(t, c) ==
  thread' = [u \in Threads |->
    LET saw == thread[u].call.op = "get" /\ Contents = <<>>
        r   == IF u = t THEN c ELSE thread[u].call
    IN  [thread[u] EXCEPT !.call = IF saw /\ r.op = "get" THEN [r EXCEPT !.saw = TRUE] ELSE r]]

Goes(t, where)  == Becomes(t, [Local(t) EXCEPT !.at = where])
Ends(t, r)      == Becomes(t, [Local(t) EXCEPT !.at = "return", !.result = r])

Entry(op) == CASE op = "leave" -> "leave"
               [] op = "put" -> IF setup.kind = "stack" THEN "push" ELSE "enq"
               [] op = "get" -> IF setup.kind = "stack" THEN "pop" ELSE "deq"

Begin(t) ==
  /\ At(t, "idle") /\ thread[t].todo # <<>>
  /\ LET o == Head(thread[t].todo)
         c == [Idle EXCEPT !.at = Entry(o.op), !.op = o.op, !.value = o.value]
     IN  thread' = [thread EXCEPT ![t].todo = Tail(@), ![t].call = c]
  /\ UNCHANGED <<setup, guarding, heap>>

Return(t) ==
  /\ At(t, "return")
  /\ Becomes(t, Idle)
  /\ UNCHANGED <<setup, guarding, heap>>

-----------------------------------------------------------------------------
(* embb_internal_thread_index                                              *)

\* The points of a call at which it needs the entry of its thread.
NeedsEntry(t) == At(t, "leave") \/ At(t, "guard") \/ At(t, "enqGuard") \/ At(t, "deqGuard")
MyEntry(t)    == thread[t].index

\* The counter is incremented, its old value is the index if it is not too large.
TakeIndex(t) ==
  /\ NeedsEntry(t) /\ thread[t].index = NoIndex
  /\ counter' = counter + 1
  /\ thread' = [thread EXCEPT
       ![t].index = IF counter < setup.max_threads THEN counter ELSE @,
       ![t].call.at = IF counter < setup.max_threads THEN @ ELSE "giveBack"]
  /\ UNCHANGED <<setup, entry, active_hazard_pointer, heap>>

\* No index is left: the call throws.
GiveBack(t) ==
  /\ At(t, "giveBack")
  /\ counter' = counter - 1
  /\ Ends(t, "exception")
  /\ UNCHANGED <<setup, entry, active_hazard_pointer, heap>>

\* HazardPointer::GuardPointer, then the call goes on.
Guard(t, where, pos, n, c) ==
  /\ At(t, where) /\ thread[t].index # NoIndex
  /\ entry' = [entry EXCEPT ![MyEntry(t)].guards[pos] = n]
  /\ Becomes(t, c)
  /\ UNCHANGED <<setup, counter, active_hazard_pointer, heap>>

-----------------------------------------------------------------------------
(* EnqueuePointerForDeletion, Scan and HelpScan                            *)

\* IsThresholdExceeded
Exceeded(n) == 4 * n >= 5 * active_hazard_pointer * Cardinality(Guards)

\* The call scans an entry; the values it has worked with are not used again.
Scanning(c, i, helps) ==
  [c EXCEPT !.at = "scan", !.scan = i, !.k = 0, !.hazards = {}, !.help = helps,
            !.mine = NULL, !.top = NULL, !.last = NULL, !.next = NULL]

\* The node is added to the retired list, if there is room.
Retire(t) ==
  /\ At(t, "retire")
  /\ LET i    == MyEntry(t)
         list == entry[i].retired
         more == IF Len(list) < RetiredListMaxSize(setup)
                   THEN Append(list, Local(t).top) ELSE list
     IN  /\ entry' = [entry EXCEPT ![i].retired = more]
         /\ Becomes(t, IF Exceeded(Len(more)) THEN Scanning(Local(t), i, 0)
                       ELSE [Local(t) EXCEPT !.at = "return"])
  /\ UNCHANGED <<setup, counter, active_hazard_pointer, heap>>

\* Read one guard of one thread; those of inactive threads do not count.
ScanGuard(t) ==
  /\ At(t, "scan")
  /\ LET G    == Cardinality(Guards)
         k    == Local(t).k
         e    == entry[k \div G]
         seen == IF e.is_active /\ e.guards[k % G] # NULL THEN {e.guards[k % G]} ELSE {}
     IN  Becomes(t, [Local(t) EXCEPT !.k = @ + 1, !.hazards = @ \cup seen,
                       !.at = IF k + 1 < G * setup.max_threads THEN "scan" ELSE "free"])
  /\ UNCHANGED <<setup, guarding, heap>>

\* The nodes of a retired list that are hazards, in their order.
Kept(list, hazards) ==
  LET keep[k \in 0..Len(list)] ==
        IF k = 0 THEN <<>>
        ELSE IF list[k] \in hazards THEN Append(keep[k - 1], list[k]) ELSE keep[k - 1]
  IN  keep[Len(list)]

\* The retired nodes that nobody guards go back to the pool, the others stay.
ScanFrees(t) ==
  /\ At(t, "free")
  /\ LET i == Local(t).scan
         kept == Kept(entry[i].retired, Local(t).hazards)
     IN  /\ pool' = pool \cup (Range(entry[i].retired) \ Range(kept))
         /\ entry' = [entry EXCEPT ![i].retired = kept]
  /\ Goes(t, IF Local(t).help = 0 THEN "help" ELSE "helped")
  /\ UNCHANGED <<setup, counter, active_hazard_pointer, node, head, tail>>

\* HelpScan: an inactive entry is reserved and scanned if it has retired nodes.
HelpScan(t) ==
  /\ At(t, "help")
  /\ LET i == Local(t).help
         e == entry[i]
     IN  \/ /\ i < setup.max_threads /\ ~e.is_active
            /\ entry' = [entry EXCEPT ![i].is_active = TRUE]
            /\ Becomes(t, IF e.retired # <<>> THEN Scanning(Local(t), i, i + 1)
                          ELSE [Local(t) EXCEPT !.at = "helped", !.scan = i, !.help = i + 1])
         \/ /\ i < setup.max_threads /\ e.is_active
            /\ Becomes(t, [Local(t) EXCEPT !.help = i + 1])
            /\ UNCHANGED entry
         \/ /\ i = setup.max_threads
            /\ Goes(t, "return")
            /\ UNCHANGED entry
  /\ UNCHANGED <<setup, counter, active_hazard_pointer, heap>>

\* The entry that was reserved is inactive again.
Helped(t) ==
  /\ At(t, "helped")
  /\ entry' = [entry EXCEPT ![Local(t).scan].is_active = FALSE]
  /\ Goes(t, "help")
  /\ UNCHANGED <<setup, counter, active_hazard_pointer, heap>>

\* DeactivateCurrentThread: for good, and the other threads free its nodes.  The test
\* and the store are one step, because the others reserve inactive entries only.
Leave(t) ==
  /\ At(t, "leave") /\ thread[t].index # NoIndex
  /\ IF entry[MyEntry(t)].is_active
     THEN /\ entry' = [entry EXCEPT ![MyEntry(t)].is_active = FALSE]
          /\ Goes(t, "leaveRead")
     ELSE Ends(t, "done") /\ UNCHANGED entry
  /\ UNCHANGED <<setup, counter, active_hazard_pointer, heap>>

\* active_hazard_pointer-- on a plain integer: threads that leave together may read the
\* same value, and one of their decrements is lost.
LeaveRead(t) ==
  /\ At(t, "leaveRead")
  /\ Becomes(t, [Local(t) EXCEPT !.at = "leaveWrite", !.count = active_hazard_pointer])
  /\ UNCHANGED <<setup, guarding, heap>>

LeaveWrite(t) ==
  /\ At(t, "leaveWrite")
  /\ active_hazard_pointer' = Local(t).count - 1
  /\ Ends(t, "done")
  /\ UNCHANGED <<setup, counter, entry, heap>>

HazardStep(t) ==
  \/ Begin(t) \/ Return(t) \/ TakeIndex(t) \/ GiveBack(t) \/ Retire(t)
  \/ ScanGuard(t) \/ ScanFrees(t) \/ HelpScan(t) \/ Helped(t)
  \/ Leave(t) \/ LeaveRead(t) \/ LeaveWrite(t)
=============================================================================
