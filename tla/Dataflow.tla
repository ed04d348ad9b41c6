------------------------------ MODULE Dataflow ------------------------------
(***************************************************************************)
(* Dataflow networks (dataflow_cpp/include/embb/dataflow).                 *)
(*                                                                         *)
(* A token enters at the sources and has a clock, its number.  Up to       *)
(* Slices tokens are on their way at a time: whatever a node keeps for a   *)
(* token is at the index clock % Slices, so a token may only enter when    *)
(* the one Slices before it has left everything.  Nothing but the count of *)
(* the sinks and the group of the slice says when that is.                 *)
(*                                                                         *)
(* The threads are main, which runs the network and its sources, and the   *)
(* workers of MTAPI; a worker is known by the task it runs.  Signals are   *)
(* passed on by calls: the agenda of a thread is what its nested calls     *)
(* have still to do, the innermost first.                                  *)
(* Tasks of one ordered queue run one after the other, in order            *)
(* (MtapiQueue), and a group counts the tasks started in it (MtapiGroup).  *)
(***************************************************************************)
EXTENDS Integers, Sequences, FiniteSets, SequencesExt

CONSTANTS Slices,     \* how many tokens are on their way at most
          Tokens,     \* after so many tokens the sources return false
          Sources,    \* the sources in the order they were added: a sequence
          Constants,  \* those that are a ConstantSource
          Serial, Parallel, Switches, Selects, Sinks,
          Arity,      \* the number of inputs of a node
          Targets,    \* of a node: for every output the inputs <<node, port>>
          QueueOf,    \* the ordered queue of a serial process or sink
          NumWorkers

Receivers == Serial \cup Parallel \cup Switches \cup Selects \cup Sinks
Ordered   == Serial \cup Sinks
Main      == <<"main", 0>>
Tasks     == (Serial \cup Parallel \cup Sinks) \X (0..(Tokens - 1))
Threads   == Tasks \cup {Main}
Slice(c)  == c % Slices
Index     == 0..(Slices - 1)
Queues    == {QueueOf[n] : n \in Ordered}
Ports     == {<<n, i>> : n \in Receivers, i \in 1..5}
Inputs    == {p \in Ports : p[2] <= Arity[p[1]]}

Senders   == Range(Sources) \cup Serial \cup Parallel \cup Switches \cup Selects

ASSUME DataflowAssumption ==
  /\ Slices \in Nat \ {0} /\ Tokens \in Nat \ {0} /\ NumWorkers \in Nat \ {0}
  /\ \A n \in Receivers : Arity[n] \in 1..5
  /\ "main" \notin Receivers

\* Who is connected to whom, as the types of the nodes have it: an output is
\* connected to inputs, a switch has two inputs and two outputs, a selection
\* three inputs and one output.
ASSUME ConnectionAssumption ==
  /\ Sources \in Seq(Range(Sources))
  /\ Targets \in [Senders -> Seq(Seq(Inputs))]
  /\ \A n \in Switches : Arity[n] = 2 /\ Len(Targets[n]) = 2
  /\ \A n \in Selects : Arity[n] = 3 /\ Len(Targets[n]) = 1

VARIABLES
  signal,       \* [Inputs -> [Index -> record]]: In::values_
  count,        \* [Receivers -> [Index -> Nat]]: Inputs::count_
  test_count,   \* [Receivers -> Int]: Inputs::test_count_
  next_clock,   \* per serial process or sink
  queued_clock,
  queue,        \* [Queues -> Seq(<<node, clock>>)]: tasks that wait
  spawned,      \* tasks of parallel processes that wait: a set of <<node, clock>>
  group,        \* [Index -> Nat]: tasks of a slice that are not finished
  sink_counter, \* [Index -> Nat]
  sink_count,
  main,         \* the loop of Network::operator()
  agenda,       \* [Threads -> Seq(record)]
  thrown,       \* history: an exception was thrown or a wrong signal read
  ran           \* history: [Ordered -> Seq(clock)], the order of the tokens

network == <<signal, count, test_count>>
clocks  == <<next_clock, queued_clock>>
tasks   == <<queue, spawned, group>>
sinks   == <<sink_counter, sink_count>>
vars    == <<network, clocks, tasks, sinks, main, agenda, thrown, ran>>

Init ==
  /\ signal = [p \in Inputs |-> [k \in Index |-> [clock |-> -1, blank |-> TRUE, value |-> 0]]]
  /\ count = [n \in Receivers |-> [k \in Index |-> Arity[n]]]
  /\ test_count = [n \in Receivers |-> Arity[n]]
  /\ next_clock = [n \in Ordered |-> 0]
  /\ queued_clock = [n \in Ordered |-> 0]
  /\ queue = [q \in Queues |-> <<>>]
  /\ spawned = {}
  /\ group = [k \in Index |-> 0]
  /\ sink_counter = [k \in Index |-> 0]
  /\ sink_count = 0
  /\ main = [at |-> "init", clock |-> 0, source |-> 1, result |-> TRUE]
  /\ agenda = [t \in Threads |-> <<>>]
  /\ thrown = FALSE
  /\ ran = [n \in Ordered |-> <<>>]

-----------------------------------------------------------------------------
(* Agendas                                                                 *)

Todo(t, what) == agenda[t] # <<>> /\ Head(agenda[t]).do = what
Now(t)        == Head(agenda[t])
Idle(t)       == agenda[t] = <<>>

\* The call that is on top is replaced by the calls it makes.
Calls(t, ops) == agenda' = [agenda EXCEPT ![t] = ops \o Tail(@)]
Returns(t)    == Calls(t, <<>>)

\* Out::Send and Out::SendInit: one call for every target, in order.
Send(inputs, op(_)) == [i \in DOMAIN inputs |-> op(inputs[i])]

\* The signals of a node, one per output, go out in the order of the outputs.
SendAll(n, c, outs) ==
  FlattenSeq([k \in DOMAIN outs |-> Send(Targets[n][k], LAMBDA p :
    [do |-> "receive", to |-> p, clock |-> c, blank |-> outs[k].blank, value |-> outs[k].value])])
InitAll(n) ==
  FlattenSeq([k \in DOMAIN Targets[n] |-> Send(Targets[n][k], LAMBDA p : [do |-> "init", n |-> p[1]])])

Blank    == [blank |-> TRUE, value |-> 0]
Value(v) == [blank |-> FALSE, value |-> v]
At(n, i, c)        == signal[<<n, i>>][Slice(c)]
AreNoneBlank(n, c) == \A i \in 1..Arity[n] : ~At(n, i, c).blank
AreAtClock(n, c)   == \A i \in 1..Arity[n] : At(n, i, c).clock = c
Carried(n, i, c)   == [blank |-> At(n, i, c).blank, value |-> At(n, i, c).value]

\* What a node sends for a token.  ProcessExecutor::Execute: blank signals when
\* an input is blank (the function of the user is taken to return its first
\* argument).  Switch::Run: the value to the chosen output, a blank one to the
\* other.  Select::Run: the chosen input, whatever it is.
ProcessOuts(n, c) ==
  [k \in DOMAIN Targets[n] |-> IF AreNoneBlank(n, c) THEN Carried(n, 1, c) ELSE Blank]
SwitchOuts(n, c) ==
  IF ~AreNoneBlank(n, c) THEN <<Blank, Blank>>
  ELSE IF At(n, 1, c).value = 1 THEN <<Carried(n, 2, c), Blank>>
  ELSE <<Blank, Carried(n, 2, c)>>
SelectOuts(n, c) ==
  IF At(n, 1, c).blank THEN <<Blank>>
  ELSE <<Carried(n, IF At(n, 1, c).value = 1 THEN 2 ELSE 3, c)>>

-----------------------------------------------------------------------------
(* Signals arrive                                                          *)

\* In::Receive stores the signal and tells the inputs of the node.
Receive(t) ==
  /\ Todo(t, "receive")
  /\ LET o == Now(t)
         s == signal[o.to][Slice(o.clock)] IN
     /\ thrown' = (thrown \/ s.clock >= o.clock)
     /\ signal' = [signal EXCEPT ![o.to][Slice(o.clock)] =
                     [clock |-> o.clock, blank |-> o.blank, value |-> o.value]]
     /\ Calls(t, <<[do |-> "count", n |-> o.to[1], clock |-> o.clock]>>)
  /\ UNCHANGED <<count, test_count, clocks, tasks, sinks, main, ran>>

\* Inputs::OnClock counts the inputs that have arrived; the last one resets the
\* count and tells the node.
Count(t) ==
  /\ Todo(t, "count")
  /\ LET o == Now(t)
         k == Slice(o.clock) IN
     /\ thrown' = (thrown \/ count[o.n][k] = 0)
     /\ count' = [count EXCEPT ![o.n][k] = @ - 1]
     /\ Calls(t, IF count[o.n][k] = 1 THEN <<[o EXCEPT !.do = "reset"]>> ELSE <<>>)
  /\ UNCHANGED <<signal, test_count, clocks, tasks, sinks, main, ran>>
Reset(t) ==
  /\ Todo(t, "reset")
  /\ count' = [count EXCEPT ![Now(t).n][Slice(Now(t).clock)] = Arity[Now(t).n]]
  /\ Calls(t, <<[Now(t) EXCEPT !.do = "onclock"]>>)
  /\ UNCHANGED <<signal, test_count, clocks, tasks, sinks, main, thrown, ran>>

\* Process::OnClock of a parallel process spawns a task; Switch::OnClock and
\* Select::OnClock run the node in the thread that sends.
OnClockParallel(t) ==
  /\ Todo(t, "onclock") /\ Now(t).n \in Parallel
  /\ LET n == Now(t).n
         c == Now(t).clock IN
     /\ thrown' = (thrown \/ ~AreAtClock(n, c))
     /\ spawned' = spawned \cup {<<n, c>>}
     /\ group' = [group EXCEPT ![Slice(c)] = @ + 1]
  /\ Returns(t)
  /\ UNCHANGED <<network, clocks, queue, sinks, main, ran>>
OnClockInline(t) ==
  /\ Todo(t, "onclock") /\ Now(t).n \in Switches \cup Selects
  /\ LET n == Now(t).n
         c == Now(t).clock IN
     /\ thrown' = (thrown \/ ~AreAtClock(n, c))
     /\ Calls(t, SendAll(n, c, IF n \in Switches THEN SwitchOuts(n, c) ELSE SelectOuts(n, c)))
  /\ UNCHANGED <<network, clocks, tasks, sinks, main, ran>>

-----------------------------------------------------------------------------
(* Process::OnClock of a serial process and Sink::OnClock: enqueue the     *)
(* tokens that are complete, in order, whoever completed them.             *)

\* int clk = next_clock_
Load(n) == <<[do |-> "scan", n |-> n, clk |-> next_clock[n], res |-> next_clock[n]]>>

OnClockOrdered(t) ==
  /\ Todo(t, "onclock") /\ Now(t).n \in Ordered
  /\ thrown' = (thrown \/ ~AreAtClock(Now(t).n, Now(t).clock))
  /\ Calls(t, Load(Now(t).n))
  /\ UNCHANGED <<network, clocks, tasks, sinks, main, ran>>

\* The clocks from clk on whose inputs have all arrived, one at a time.
Scan(t) ==
  /\ Todo(t, "scan")
  /\ LET o == Now(t) IN
     IF o.res < o.clk + Slices /\ AreAtClock(o.n, o.res)
     THEN Calls(t, <<[o EXCEPT !.res = @ + 1]>>)
     ELSE IF o.res > o.clk THEN Calls(t, <<[o EXCEPT !.do = "swap"]>>)
     ELSE Returns(t)
  /\ UNCHANGED <<network, clocks, tasks, sinks, main, thrown, ran>>

\* The thread that moves next_clock_ enqueues these clocks; any other retries.
Swap(t) ==
  /\ Todo(t, "swap")
  /\ LET o == Now(t) IN
     IF next_clock[o.n] = o.clk
     THEN /\ next_clock' = [next_clock EXCEPT ![o.n] = o.res]
          /\ Calls(t, <<[o EXCEPT !.do = "turn"]>>)
     ELSE /\ Calls(t, Load(o.n))
          /\ UNCHANGED next_clock
  /\ UNCHANGED <<network, queued_clock, tasks, sinks, main, thrown, ran>>

\* Mutant: it does not wait for the clocks before.
TurnAtOnce(t) ==
  /\ Todo(t, "turn")
  /\ Calls(t, <<[Now(t) EXCEPT !.do = "enqueue"]>>)
  /\ UNCHANGED <<network, clocks, tasks, sinks, main, thrown, ran>>

\* It waits until the clocks before are in the queue,
Turn(t) ==
  /\ Todo(t, "turn")
  /\ queued_clock[Now(t).n] >= Now(t).clk
  /\ Calls(t, <<[Now(t) EXCEPT !.do = "enqueue"]>>)
  /\ UNCHANGED <<network, clocks, tasks, sinks, main, thrown, ran>>

\* Mutant: the next one is not told.
EnqueueSilent(t) ==
  /\ Todo(t, "enqueue")
  /\ LET o == Now(t) IN
     IF o.clk < o.res
     THEN /\ queue' = [queue EXCEPT ![QueueOf[o.n]] = Append(@, <<o.n, o.clk>>)]
          /\ group' = [group EXCEPT ![Slice(o.clk)] = @ + 1]
          /\ Calls(t, <<[o EXCEPT !.clk = @ + 1]>>)
     ELSE Returns(t) /\ UNCHANGED <<queue, group>>
  /\ UNCHANGED <<network, clocks, spawned, sinks, main, thrown, ran>>

\* enqueues them one by one, and tells the next.
Enqueue(t) ==
  /\ Todo(t, "enqueue")
  /\ LET o == Now(t) IN
     IF o.clk < o.res
     THEN /\ queue' = [queue EXCEPT ![QueueOf[o.n]] = Append(@, <<o.n, o.clk>>)]
          /\ group' = [group EXCEPT ![Slice(o.clk)] = @ + 1]
          /\ Calls(t, <<[o EXCEPT !.clk = @ + 1]>>)
          /\ UNCHANGED queued_clock
     ELSE /\ queued_clock' = [queued_clock EXCEPT ![o.n] = o.res]
          /\ Returns(t)
          /\ UNCHANGED <<queue, group>>
  /\ UNCHANGED <<network, next_clock, spawned, sinks, main, thrown, ran>>

-----------------------------------------------------------------------------
(* Tasks: Action::RunMTAPI                                                 *)

Running(a) == ~Idle(a)
FreeWorker == Cardinality({a \in Tasks : Running(a)}) < NumWorkers

\* Run of a process or a sink: what the task does, the end of the task last.
Run(a) ==
  LET n == a[1]
      c == a[2] IN
  /\ FreeWorker
  /\ thrown' = (thrown \/ ~AreAtClock(n, c))
  /\ agenda' = [agenda EXCEPT ![a] =
       (IF n \in Sinks THEN <<[do |-> "sunk", clock |-> c]>> ELSE SendAll(n, c, ProcessOuts(n, c)))
         \o <<[do |-> "finish", slice |-> Slice(c)]>>]

\* The first task of an ordered queue, when the one before has finished.
RunOrdered(a) ==
  LET n == a[1]
      q == QueueOf[n] IN
  /\ n \in Ordered
  /\ queue[q] # <<>> /\ Head(queue[q]) = a
  /\ \A b \in Tasks : b[1] \in Ordered /\ QueueOf[b[1]] = q => ~Running(b)
  /\ Run(a)
  /\ ran' = [ran EXCEPT ![n] = Append(@, a[2])]
  /\ queue' = [queue EXCEPT ![q] = Tail(@)]
  /\ UNCHANGED <<network, clocks, spawned, group, sinks, main>>
RunSpawned(a) ==
  /\ a \in spawned
  /\ Run(a)
  /\ spawned' = spawned \ {a}
  /\ UNCHANGED <<network, clocks, queue, group, sinks, main, ran>>

\* Network::OnClock: one more sink has the token.
Sunk(t) ==
  /\ Todo(t, "sunk")
  /\ LET k == Slice(Now(t).clock) IN
     /\ thrown' = (thrown \/ sink_counter[k] = 0)
     /\ sink_counter' = [sink_counter EXCEPT ![k] = @ - 1]
  /\ Returns(t)
  /\ UNCHANGED <<network, clocks, tasks, sink_count, main, ran>>

Finish(t) ==
  /\ Todo(t, "finish")
  /\ group' = [group EXCEPT ![Now(t).slice] = @ - 1]
  /\ Returns(t)
  /\ UNCHANGED <<network, clocks, queue, spawned, sinks, main, thrown, ran>>

-----------------------------------------------------------------------------
(* Network::operator()                                                     *)

MainAt(where) == Idle(Main) /\ main.at = where

\* Init goes through the network: a node is reached when all its inputs are.
InitSource ==
  /\ MainAt("init") /\ main.source <= Len(Sources)
  /\ agenda' = [agenda EXCEPT ![Main] = InitAll(Sources[main.source])]
  /\ main' = [main EXCEPT !.source = @ + 1]
  /\ UNCHANGED <<network, clocks, tasks, sinks, thrown, ran>>
OnInit ==
  /\ Todo(Main, "init")
  /\ LET n == Now(Main).n IN
     /\ test_count' = [test_count EXCEPT ![n] = @ - 1]
     /\ sink_count' = IF test_count[n] = 1 /\ n \in Sinks THEN sink_count + 1 ELSE sink_count
     /\ Calls(Main, IF test_count[n] = 1 /\ n \notin Sinks THEN InitAll(n) ELSE <<>>)
  /\ UNCHANGED <<signal, count, clocks, tasks, sink_counter, main, thrown, ran>>
InitDone ==
  /\ MainAt("init") /\ main.source > Len(Sources)
  /\ main' = [main EXCEPT !.at = "wait"]
  /\ UNCHANGED <<network, clocks, tasks, sinks, agenda, thrown, ran>>

\* Mutant: the sinks are not waited for.
SliceDoneEarly(c) == group[Slice(c)] = 0

\* The token that had this slice is gone: all sinks have it, and WaitForSlice,
\* no task of it is left.
SliceDone(c) == sink_counter[Slice(c)] = 0 /\ group[Slice(c)] = 0

\* SpawnClock sets the count of the sinks,
SpawnClock ==
  /\ MainAt("wait") /\ SliceDone(main.clock)
  /\ sink_counter' = [sink_counter EXCEPT ![Slice(main.clock)] = sink_count]
  /\ main' = [main EXCEPT !.at = "start", !.source = 1, !.result = TRUE]
  /\ UNCHANGED <<network, clocks, tasks, sink_count, agenda, thrown, ran>>

\* and starts the sources one by one.  The first output of a source that is
\* not constant is the token, the others are truth values of its choice.
StartSource ==
  /\ MainAt("start") /\ main.source <= Len(Sources)
  /\ LET n == Sources[main.source]
         c == main.clock IN
     /\ main' = [main EXCEPT !.source = @ + 1,
                   !.result = @ /\ (n \in Constants \/ c + 1 < Tokens)]
     /\ \E b \in {0, 1} :
          agenda' = [agenda EXCEPT ![Main] = SendAll(n, c, [k \in DOMAIN Targets[n] |->
            IF n \in Constants THEN Value(0) ELSE IF k = 1 THEN Value(c) ELSE Value(b)])]
  /\ UNCHANGED <<network, clocks, tasks, sinks, thrown, ran>>
NextClock ==
  /\ MainAt("start") /\ main.source > Len(Sources)
  /\ main' = IF main.result THEN [main EXCEPT !.at = "wait", !.clock = @ + 1]
             ELSE [main EXCEPT !.at = "drain", !.source = IF main.clock < Slices THEN 0
                                                          ELSE main.clock - Slices + 1]
  /\ UNCHANGED <<network, clocks, tasks, sinks, agenda, thrown, ran>>

\* At the end the tokens before the last one are waited for,
Drain ==
  /\ MainAt("drain") /\ main.source < main.clock
  /\ SliceDone(main.source)
  /\ main' = [main EXCEPT !.source = @ + 1]
  /\ UNCHANGED <<network, clocks, tasks, sinks, agenda, thrown, ran>>

\* and, by the destructor of the scheduler, the tasks of all slices.
Finished ==
  /\ MainAt("drain") /\ main.source = main.clock
  /\ \A k \in Index : group[k] = 0
  /\ main' = [main EXCEPT !.at = "done"]
  /\ UNCHANGED <<network, clocks, tasks, sinks, agenda, thrown, ran>>

ThreadStep(t) ==
  \/ Receive(t) \/ Count(t) \/ Reset(t) \/ OnClockParallel(t) \/ OnClockInline(t)
  \/ OnClockOrdered(t) \/ Scan(t) \/ Swap(t) \/ Turn(t) \/ Enqueue(t)
WorkerStep(a) == ThreadStep(a) \/ RunOrdered(a) \/ RunSpawned(a) \/ Sunk(a) \/ Finish(a)
MainStep ==
  \/ ThreadStep(Main) \/ InitSource \/ OnInit \/ InitDone
  \/ SpawnClock \/ StartSource \/ NextClock \/ Drain \/ Finished

Next == MainStep \/ \E a \in Tasks : WorkerStep(a)
Spec == Init /\ [][Next]_vars

\* The threads do not all stop.  The wait of a thread is a guard here, so no
\* thread takes steps for ever and this is enough.
FairSpec == Spec /\ WF_vars(Next)

-----------------------------------------------------------------------------
(* Properties                                                              *)

\* No exception: no signal overwrites one of the same slice that was not used,
\* no input fires twice, a node that runs finds the signals of its token, and
\* no sink reports more than once (the EMBB_THROW conditions of in.h, inputs.h,
\* process.h, sink.h, switch.h, select.h and network.h).
SlicesApart == ~thrown

\* A serial process and a sink take the tokens in order, none left out and none
\* twice, although the threads complete them in any order (process.h, sink.h).
TokensInOrder == \A n \in Ordered : ran[n] = [i \in 1..Len(ran[n]) |-> i - 1]

\* Every sink has every token.
Delivered == \A n \in Sinks : Len(ran[n]) = Tokens /\ \A k \in Index : sink_counter[k] = 0

\* The network comes to an end, and not before every sink has every token, the
\* last one included, which the loop of Network::operator() does not wait for.
NetworkFinishes == <>[](main.at = "done" /\ Delivered)
=============================================================================
