--------------------------- MODULE DataflowProofs ---------------------------
(***************************************************************************)
(* Proofs about Dataflow for every network, number of slices, of tokens    *)
(* and of workers: a serial process and a sink take the tokens in order.   *)
(*                                                                         *)
(* A thread that has moved next_clock_ claims the clocks it moved it over, *)
(* and enqueues them when queued_clock_ has come to them.  The invariant   *)
(* says that the claims on a node do not overlap, that only the first one  *)
(* is being enqueued, and that what is in the queue begins where the node  *)
(* has stopped and has no gap.                                             *)
(***************************************************************************)
EXTENDS Dataflow, SequenceTheorems, WellFoundedInduction, TLAPS

-----------------------------------------------------------------------------
(* Sequences of sequences                                                  *)

\* A set of naturals with zero and with the successor of each is all of them.
LEMMA SetInduction ==
  ASSUME NEW Q \in SUBSET Nat, 0 \in Q, \A n \in Q : n + 1 \in Q
  PROVE  Q = Nat
<1> DEFINE rest == Nat \ Q
<1>1. SUFFICES ASSUME rest # {} PROVE FALSE
  OBVIOUS
<1>2. PICK n \in rest : \A m \in rest : ~ (<<m, n>> \in OpToRel(<, Nat))
  BY <1>1, WFMin, NatLessThanWellFounded
<1>3. \A m \in rest : ~ (m < n)
  BY <1>2 DEF OpToRel
<1>4. n # 0 /\ n - 1 \in Nat
  OBVIOUS
<1>5. n - 1 \in Q
  BY <1>3, <1>4
<1> QED
  BY <1>4, <1>5

\* What FlattenSeq builds up to the i-th sequence.
Flattens(f, ss, N) ==
  f = [i \in 1..N |-> IF i = 1 THEN ss[i] ELSE f[i - 1] \o ss[i]]

\* FlattenSeq of sequences over D is a sequence over D.
LEMMA FlattenType ==
  ASSUME NEW D, NEW ss \in Seq(Seq(D))
  PROVE  FlattenSeq(ss) \in Seq(D)
<1> DEFINE N == Len(ss)
<1>0. CASE N = 0
  <2>1. ss = <<>>
    BY <1>0
  <2>2. ss \in Seq(D)
    BY <2>1
  <2> QED
    BY <1>0, <2>2 DEF FlattenSeq
<1>1. CASE N # 0
  <2>1. N \in Nat /\ \A i \in 1..N : ss[i] \in Seq(D)
    OBVIOUS
  <2> DEFINE R(i, f) == /\ f \in [1..i -> Seq(D)]
                        /\ \A k \in 1..i : k <= N => f[k] = IF k = 1 THEN ss[k] ELSE f[k - 1] \o ss[k]
             Q == {i \in Nat : \E f : R(i, f)}
  <2>2. 0 \in Q
    <3>1. R(0, [k \in 1..0 |-> <<>>])
      OBVIOUS
    <3> QED
      BY <3>1
  <2>3. ASSUME NEW i \in Q PROVE i + 1 \in Q
    <3>1. PICK f : R(i, f)
      OBVIOUS
    <3> DEFINE new == IF i + 1 <= N
                      THEN IF i + 1 = 1 THEN ss[i + 1] ELSE f[i] \o ss[i + 1]
                      ELSE <<>>
               g == [k \in 1..(i + 1) |-> IF k <= i THEN f[k] ELSE new]
    <3>2. new \in Seq(D)
      <4>1. CASE i + 1 <= N /\ i + 1 # 1
        <5>1. f[i] \in Seq(D) /\ ss[i + 1] \in Seq(D)
          BY <2>1, <3>1, <4>1
        <5>2. f[i] \o ss[i + 1] \in Seq(D)
          BY <5>1
        <5> QED
          BY <4>1, <5>2
      <4>2. CASE i + 1 <= N /\ i + 1 = 1
        BY <2>1, <4>2
      <4>3. CASE ~ (i + 1 <= N)
        BY <4>3
      <4> QED
        BY <4>1, <4>2, <4>3
    <3>3. g \in [1..(i + 1) -> Seq(D)]
      BY <3>1, <3>2
    <3>4. ASSUME NEW k \in 1..(i + 1), k <= N
          PROVE  g[k] = IF k = 1 THEN ss[k] ELSE g[k - 1] \o ss[k]
      <4>1. CASE k <= i
        <5>1. g[k] = f[k] /\ (k # 1 => g[k - 1] = f[k - 1])
          BY <4>1
        <5>2. f[k] = IF k = 1 THEN ss[k] ELSE f[k - 1] \o ss[k]
          <6>1. k \in 1..i
            BY <4>1
          <6> QED
            BY <3>1, <3>4, <6>1, Zenon
        <5> QED
          BY <5>1, <5>2
      <4>2. CASE k = i + 1
        <5>1. g[k] = new /\ (k # 1 => g[k - 1] = f[i])
          BY <4>2
        <5>2. new = IF k = 1 THEN ss[k] ELSE f[i] \o ss[k]
          <6>1. i + 1 = k /\ i + 1 <= N
            BY <3>4, <4>2
          <6> HIDE DEF N, R, Q
          <6> QED
            BY <6>1, Zenon
        <5> HIDE DEF g, new
        <5> QED
          BY <5>1, <5>2
      <4> QED
        BY <4>1, <4>2
    <3>5. R(i + 1, g)
      <4> HIDE DEF g
      <4> QED
        BY <3>3, <3>4
    <3> HIDE DEF R
    <3> QED
      BY <3>5
  <2>4. Q = Nat
    <3> HIDE DEF Q
    <3>1. Q \in SUBSET Nat
      BY DEF Q
    <3> QED
      BY <2>2, <2>3, <3>1, SetInduction
  <2>5. PICK f : R(N, f)
    BY <2>1, <2>4
  <2>6. Flattens(f, ss, N)
    <3>0. \A k \in 1..N : k <= N
      BY <2>1
    <3>1. \A k \in 1..N : f[k] = IF k = 1 THEN ss[k] ELSE f[k - 1] \o ss[k]
      BY <3>0, <2>5, Zenon
    <3>2. f = [k \in 1..N |-> f[k]]
      BY <2>5
    <3> HIDE DEF N, R, Q
    <3> QED
      BY <3>1, <3>2, Zenon DEF Flattens
  <2> DEFINE h == CHOOSE f2 : Flattens(f2, ss, N)
  <2>7. Flattens(h, ss, N)
    <3> HIDE DEF N, R, Q
    <3> QED
      BY <2>6
  <2>8. FlattenSeq(ss) = h[N]
    BY <1>1 DEF FlattenSeq, Flattens
  <2> HIDE DEF h
  <2> DEFINE G == {i \in Nat : i \in 1..N => h[i] \in Seq(D)}
  <2>9. 0 \in G
    OBVIOUS
  <2>10. ASSUME NEW i \in G PROVE i + 1 \in G
    <3>1. SUFFICES ASSUME i + 1 \in 1..N PROVE h[i + 1] \in Seq(D)
      OBVIOUS
    <3>2. h[i + 1] = IF i + 1 = 1 THEN ss[i + 1] ELSE h[(i + 1) - 1] \o ss[i + 1]
      BY <2>7, <3>1 DEF Flattens
    <3>3. (i + 1) - 1 = i /\ (i + 1 # 1 => i \in 1..N)
      BY <3>1
    <3>4. ss[i + 1] \in Seq(D) /\ (i + 1 # 1 => h[i] \in Seq(D))
      BY <2>1, <3>1, <3>3
    <3> QED
      BY <3>2, <3>3, <3>4
  <2>11. G = Nat
    <3> HIDE DEF G
    <3>1. G \in SUBSET Nat
      BY DEF G
    <3> QED
      BY <2>9, <2>10, <3>1, SetInduction
  <2>12. N \in G /\ N \in 1..N
    BY <1>1, <2>1, <2>11
  <2> QED
    BY <2>8, <2>12
<1> QED
  BY <1>0, <1>1

-----------------------------------------------------------------------------
(* Types                                                                   *)

\* The calls that pass a token on.
Call ==
  [do : {"receive"}, to : Inputs, clock : Nat, blank : BOOLEAN, value : Nat]
  \cup [do : {"count", "reset", "onclock"}, n : Receivers, clock : Nat]
  \cup [do : {"sunk"}, clock : Nat]
  \cup [do : {"finish"}, slice : Index]
  \cup [do : {"init"}, n : Receivers]

\* OnClock of an ordered node on its way through the clocks from clk to res.
Walk ==
  {w \in [do : {"scan", "swap", "turn", "enqueue"}, n : Ordered, clk : Nat, res : Nat] :
     w.clk <= w.res /\ (w.do \in {"swap", "turn"} => w.clk < w.res)}

\* Only the innermost call can be one of these.
Agendas == {s \in Seq(Call \cup Walk) : \A i \in 2..Len(s) : s[i] \in Call}

\* The signals, and what a node sends.
Signal == [clock : Nat \cup {-1}, blank : BOOLEAN, value : Nat]
Out    == [blank : BOOLEAN, value : Nat]

\* The types of the variables.  The loop of the network is at a source while
\* it goes through them.
TypeOK ==
  /\ signal \in [Inputs -> [Index -> Signal]]
  /\ count \in [Receivers -> [Index -> Int]]
  /\ test_count \in [Receivers -> Int]
  /\ next_clock \in [Ordered -> Nat]
  /\ queued_clock \in [Ordered -> Nat]
  /\ queue \in [Queues -> Seq(Ordered \X Nat)]
  /\ spawned \subseteq Parallel \X Nat
  /\ group \in [Index -> Int]
  /\ sink_counter \in [Index -> Int]
  /\ sink_count \in Nat
  /\ main \in [at : {"init", "wait", "start", "drain", "done"}, clock : Nat,
               source : Nat, result : BOOLEAN]
  /\ main.at \in {"init", "start"} => main.source >= 1
  /\ agenda \in [Threads -> Agendas]
  /\ thrown \in BOOLEAN
  /\ ran \in [Ordered -> Seq(Nat)]

\* The index of a token is one of the slices.
LEMMA SliceType ==
  ASSUME NEW c \in Nat
  PROVE  Slice(c) \in Index
BY DataflowAssumption DEF Slice, Index

\* The inputs of a node.
LEMMA InputFacts ==
  /\ \A p \in Inputs : p[1] \in Receivers
  /\ \A n \in Receivers : \A i \in 1..Arity[n] : <<n, i>> \in Inputs
<1>1. \A p \in Inputs : p[1] \in Receivers
  BY DEF Inputs, Ports
<1>2. ASSUME NEW n \in Receivers, NEW i \in 1..Arity[n] PROVE <<n, i>> \in Inputs
  <2>1. Arity[n] \in 1..5
    BY DataflowAssumption
  <2>2. i \in 1..5 /\ i <= Arity[n]
    BY <2>1
  <2>3. <<n, i>> \in Ports
    BY <2>2 DEF Ports
  <2> QED
    BY <2>2, <2>3 DEF Inputs
<1> QED
  BY <1>1, <1>2

\* What the calls are, by what they do.
LEMMA CallCases ==
  ASSUME NEW o \in Call \cup Walk
  PROVE  /\ o.do = "receive" =>
              o \in [do : {"receive"}, to : Inputs, clock : Nat, blank : BOOLEAN, value : Nat]
         /\ o.do \in {"count", "reset", "onclock"} =>
              o \in [do : {"count", "reset", "onclock"}, n : Receivers, clock : Nat]
         /\ o.do = "sunk" => o \in [do : {"sunk"}, clock : Nat]
         /\ o.do = "finish" => o \in [do : {"finish"}, slice : Index]
         /\ o.do = "init" => o \in [do : {"init"}, n : Receivers]
         /\ o.do \in {"scan", "swap", "turn", "enqueue"} => o \in Walk
BY DEF Call, Walk

\* A call is not a walk.
LEMMA CallIsNoWalk ==
  ASSUME NEW o \in Call
  PROVE  o.do \notin {"scan", "swap", "turn", "enqueue", "none"}
BY DEF Call

-----------------------------------------------------------------------------
(* Agendas                                                                 *)

\* What a thread is about to do.
Top(s) == IF s = <<>> THEN [do |-> "none"] ELSE Head(s)

\* An agenda without a walk.
LEMMA PlainAgenda ==
  ASSUME NEW s \in Seq(Call)
  PROVE  s \in Agendas /\ Top(s).do \notin {"scan", "swap", "turn", "enqueue"}
<1>1. s \in Seq(Call \cup Walk) /\ \A i \in 1..Len(s) : s[i] \in Call
  OBVIOUS
<1>2. s \in Agendas
  BY <1>1 DEF Agendas
<1>3. CASE s = <<>>
  BY <1>2, <1>3 DEF Top
<1>4. CASE s # <<>>
  <2>1. Head(s) \in Call
    BY <1>4
  <2>2. Head(s).do \notin {"scan", "swap", "turn", "enqueue"}
    BY <2>1, CallIsNoWalk
  <2> QED
    BY <1>2, <1>4, <2>2 DEF Top
<1> QED
  BY <1>3, <1>4

\* The call on top of an agenda, and what is left below it.
LEMMA AgendaFacts ==
  ASSUME NEW s \in Agendas, s # <<>>
  PROVE  /\ Head(s) \in Call \cup Walk
         /\ Tail(s) \in Seq(Call)
         /\ Top(s) = Head(s)
<1>1. s \in Seq(Call \cup Walk) /\ \A i \in 2..Len(s) : s[i] \in Call
  BY DEF Agendas
<1>2. Head(s) \in Call \cup Walk /\ Tail(s) \in Seq(Call \cup Walk)
  BY <1>1
<1>3. Len(Tail(s)) = Len(s) - 1 /\ Len(s) \in Nat \ {0} /\ \A i \in 1..Len(Tail(s)) : Tail(s)[i] = s[i + 1]
  BY <1>1
<1>4. \A i \in 1..Len(Tail(s)) : Tail(s)[i] \in Call
  <2> TAKE i \in 1..Len(Tail(s))
  <2>1. i + 1 \in 2..Len(s)
    BY <1>3
  <2> QED
    BY <1>1, <1>3, <2>1
<1>5. Tail(s) \in Seq(Call)
  <2> DEFINE u == Tail(s)
  <2>0. u \in [1..Len(u) -> Call \cup Walk] /\ Len(u) \in Nat
    BY <1>2, LenProperties
  <2>1. u \in [1..Len(u) -> Call] /\ Len(u) \in Nat
    <3>1. \A i \in 1..Len(u) : u[i] \in Call
      BY <1>4
    <3> HIDE DEF u
    <3> QED
      BY <2>0, <3>1
  <2> HIDE DEF u
  <2>2. u \in Seq(Call)
    BY <2>1, SeqDef
  <2> QED
    BY <2>2 DEF u
<1> QED
  BY <1>2, <1>5 DEF Top

\* The call on top is replaced by calls that are no walk.
LEMMA CallsMade ==
  ASSUME NEW s \in Agendas, s # <<>>, NEW ops \in Seq(Call)
  PROVE  /\ ops \o Tail(s) \in Agendas
         /\ Top(ops \o Tail(s)).do \notin {"scan", "swap", "turn", "enqueue"}
<1>1. Tail(s) \in Seq(Call)
  BY AgendaFacts
<1>2. ops \o Tail(s) \in Seq(Call)
  BY <1>1
<1> QED
  BY <1>2, PlainAgenda

\* The call on top is replaced by one.
LEMMA CallReplaced ==
  ASSUME NEW s \in Agendas, s # <<>>, NEW o \in Call \cup Walk
  PROVE  /\ <<o>> \o Tail(s) \in Agendas
         /\ Top(<<o>> \o Tail(s)) = o
<1>1. Tail(s) \in Seq(Call)
  BY AgendaFacts
<1> DEFINE r == <<o>> \o Tail(s)
<1>2. /\ r \in Seq(Call \cup Walk)
      /\ Len(r) = Len(Tail(s)) + 1 /\ Len(Tail(s)) \in Nat
      /\ r[1] = o
      /\ \A i \in 2..Len(r) : r[i] = Tail(s)[i - 1]
  <2> DEFINE u == Tail(s)
  <2>1. u \in Seq(Call \cup Walk) /\ <<o>> \in Seq(Call \cup Walk) /\ Len(<<o>>) = 1
    BY <1>1
  <2>2. /\ r \in Seq(Call \cup Walk) /\ Len(r) = 1 + Len(u)
        /\ \A i \in 1..(1 + Len(u)) : r[i] = IF i <= 1 THEN <<o>>[i] ELSE u[i - 1]
    <3> HIDE DEF u
    <3> QED
      BY <2>1, ConcatProperties DEF u
  <2>3. Len(u) \in Nat
    BY <2>1
  <2> HIDE DEF u, r
  <2>4. r[1] = o
    BY <2>2, <2>3
  <2>5. \A i \in 2..Len(r) : r[i] = u[i - 1]
    BY <2>2, <2>3
  <2> QED
    BY <2>2, <2>3, <2>4, <2>5 DEF u
<1>3. \A i \in 2..Len(r) : r[i] \in Call
  <2> TAKE i \in 2..Len(r)
  <2>1. i - 1 \in 1..Len(Tail(s))
    BY <1>2
  <2> QED
    BY <1>1, <1>2, <2>1
<1> HIDE DEF r
<1>4. r \in Agendas
  BY <1>2, <1>3 DEF Agendas
<1>5. r # <<>> /\ Head(r) = o
  BY <1>2
<1> QED
  BY <1>4, <1>5 DEF Top, r

-----------------------------------------------------------------------------
(* What a node sends                                                       *)

\* The calls of Out::Send for the outputs of a node.
LEMMA SendAllType ==
  ASSUME NEW n \in Senders, NEW c \in Nat, NEW outs \in Seq(Out), Len(outs) <= Len(Targets[n])
  PROVE  SendAll(n, c, outs) \in Seq(Call)
<1>1. Targets[n] \in Seq(Seq(Inputs))
  BY ConnectionAssumption
<1> DEFINE Sent(k) == [i \in DOMAIN Targets[n][k] |->
             [do |-> "receive", to |-> Targets[n][k][i], clock |-> c,
              blank |-> outs[k].blank, value |-> outs[k].value]]
           all == [k \in DOMAIN outs |-> Sent(k)]
<1>2. DOMAIN outs = 1..Len(outs) /\ Len(outs) \in Nat
  OBVIOUS
<1>3. ASSUME NEW k \in 1..Len(outs) PROVE Sent(k) \in Seq(Call)
  <2>1. outs[k] \in Out
    OBVIOUS
  <2>2. k \in 1..Len(Targets[n])
    BY <1>1, <1>2
  <2>3. Targets[n][k] \in Seq(Inputs)
    BY <1>1, <2>2
  <2>4. ASSUME NEW i \in DOMAIN Targets[n][k]
        PROVE  [do |-> "receive", to |-> Targets[n][k][i], clock |-> c,
                blank |-> outs[k].blank, value |-> outs[k].value] \in Call
    <3>1. Targets[n][k][i] \in Inputs
      BY <2>3
    <3> QED
      BY <2>1, <3>1 DEF Call, Out
  <2>5. DOMAIN Targets[n][k] = 1..Len(Targets[n][k]) /\ Len(Targets[n][k]) \in Nat
    BY <2>3
  <2>6. Sent(k) \in [1..Len(Targets[n][k]) -> Call]
    BY <2>4, <2>5
  <2> HIDE DEF Sent
  <2> QED
    BY <2>5, <2>6, SeqDef
<1>4. all \in Seq(Seq(Call))
  <2> HIDE DEF Sent
  <2> QED
    BY <1>2, <1>3
<1>5. FlattenSeq(all) \in Seq(Call)
  <2> HIDE DEF all
  <2> QED
    BY <1>4, FlattenType
<1>6. SendAll(n, c, outs) = FlattenSeq(all)
  BY DEF SendAll, Send
<1> QED
  BY <1>5, <1>6

\* The calls of Out::SendInit for the outputs of a node.
LEMMA InitAllType ==
  ASSUME NEW n \in Senders
  PROVE  InitAll(n) \in Seq(Call)
<1>1. Targets[n] \in Seq(Seq(Inputs))
  BY ConnectionAssumption
<1> DEFINE Sent(k) == [i \in DOMAIN Targets[n][k] |-> [do |-> "init", n |-> Targets[n][k][i][1]]]
           all == [k \in DOMAIN Targets[n] |-> Sent(k)]
<1>3. ASSUME NEW k \in DOMAIN Targets[n] PROVE Sent(k) \in Seq(Call)
  <2>3. Targets[n][k] \in Seq(Inputs)
    BY <1>1
  <2>4. ASSUME NEW i \in DOMAIN Targets[n][k]
        PROVE  [do |-> "init", n |-> Targets[n][k][i][1]] \in Call
    <3>1. Targets[n][k][i] \in Inputs
      BY <2>3
    <3>2. Targets[n][k][i][1] \in Receivers
      BY <3>1, InputFacts
    <3> QED
      BY <3>2 DEF Call
  <2>5. DOMAIN Targets[n][k] = 1..Len(Targets[n][k]) /\ Len(Targets[n][k]) \in Nat
    BY <2>3
  <2>6. Sent(k) \in [1..Len(Targets[n][k]) -> Call]
    BY <2>4, <2>5
  <2> HIDE DEF Sent
  <2> QED
    BY <2>5, <2>6, SeqDef
<1>4. all \in Seq(Seq(Call))
  <2>1. DOMAIN Targets[n] = 1..Len(Targets[n]) /\ Len(Targets[n]) \in Nat
    BY <1>1
  <2>2. all \in [1..Len(Targets[n]) -> Seq(Call)]
    <3> HIDE DEF Sent
    <3> QED
      BY <1>3, <2>1
  <2> HIDE DEF all
  <2> QED
    BY <2>1, <2>2, SeqDef
<1>5. FlattenSeq(all) \in Seq(Call)
  <2> HIDE DEF all
  <2> QED
    BY <1>4, FlattenType
<1>6. InitAll(n) = FlattenSeq(all)
  BY DEF InitAll, Send
<1> QED
  BY <1>5, <1>6

\* What a node passes on of an input.
LEMMA CarriedType ==
  ASSUME TypeOK, NEW n \in Receivers, NEW i \in 1..Arity[n], NEW c \in Nat
  PROVE  Carried(n, i, c) \in Out
<1>1. <<n, i>> \in Inputs /\ Slice(c) \in Index
  BY InputFacts, SliceType
<1>2. At(n, i, c) \in Signal
  BY <1>1 DEF TypeOK, At
<1> QED
  BY <1>2 DEF Carried, Signal, Out

\* Process, Switch and Select send a signal for every output they have.
LEMMA NodeSends ==
  ASSUME TypeOK, NEW n, NEW c \in Nat
  PROVE  /\ n \in Serial \cup Parallel => SendAll(n, c, ProcessOuts(n, c)) \in Seq(Call)
         /\ n \in Switches => SendAll(n, c, SwitchOuts(n, c)) \in Seq(Call)
         /\ n \in Selects => SendAll(n, c, SelectOuts(n, c)) \in Seq(Call)
<1>0. Blank \in Out
  BY DEF Blank, Out
<1>1. ASSUME n \in Serial \cup Parallel PROVE SendAll(n, c, ProcessOuts(n, c)) \in Seq(Call)
  <2>1. n \in Receivers /\ n \in Senders
    BY <1>1 DEF Receivers, Senders
  <2>2. 1 \in 1..Arity[n]
    BY <2>1, DataflowAssumption
  <2>3. Carried(n, 1, c) \in Out
    BY <2>1, <2>2, CarriedType
  <2>4. Targets[n] \in Seq(Seq(Inputs))
    BY <2>1, ConnectionAssumption
  <2>5. DOMAIN Targets[n] = 1..Len(Targets[n]) /\ Len(Targets[n]) \in Nat
    BY <2>4
  <2> DEFINE outs == ProcessOuts(n, c)
  <2>6. outs \in [1..Len(Targets[n]) -> Out]
    BY <1>0, <2>3, <2>5 DEF ProcessOuts
  <2> HIDE DEF outs
  <2>7. outs \in Seq(Out)
    BY <2>5, <2>6, SeqDef
  <2>8. Len(outs) <= Len(Targets[n])
    BY <2>5, <2>6, <2>7, LenProperties
  <2>9. SendAll(n, c, outs) \in Seq(Call)
    BY <2>1, <2>7, <2>8, SendAllType
  <2> QED
    BY <2>9 DEF outs
<1>2. ASSUME n \in Switches PROVE SendAll(n, c, SwitchOuts(n, c)) \in Seq(Call)
  <2>1. n \in Receivers /\ n \in Senders
    BY <1>2 DEF Receivers, Senders
  <2>2. Arity[n] = 2 /\ Len(Targets[n]) = 2
    BY <1>2, ConnectionAssumption
  <2>3. Carried(n, 2, c) \in Out
    BY <2>1, <2>2, CarriedType
  <2> DEFINE outs == SwitchOuts(n, c)
  <2>4. outs \in Seq(Out) /\ Len(outs) = 2
    BY <1>0, <2>3 DEF SwitchOuts
  <2> HIDE DEF outs
  <2>5. SendAll(n, c, outs) \in Seq(Call)
    BY <2>1, <2>2, <2>4, SendAllType
  <2> QED
    BY <2>5 DEF outs
<1>3. ASSUME n \in Selects PROVE SendAll(n, c, SelectOuts(n, c)) \in Seq(Call)
  <2>1. n \in Receivers /\ n \in Senders
    BY <1>3 DEF Receivers, Senders
  <2>2. Arity[n] = 3 /\ Len(Targets[n]) = 1
    BY <1>3, ConnectionAssumption
  <2>3. Carried(n, 2, c) \in Out /\ Carried(n, 3, c) \in Out
    BY <2>1, <2>2, CarriedType
  <2> DEFINE outs == SelectOuts(n, c)
             pick == IF At(n, 1, c).value = 1 THEN 2 ELSE 3
  <2>4. Carried(n, pick, c) \in Out
    BY <2>3
  <2>5. outs = <<Blank>> \/ outs = <<Carried(n, pick, c)>>
    BY DEF SelectOuts
  <2>6. outs \in Seq(Out) /\ Len(outs) = 1
    <3> DEFINE picked == Carried(n, pick, c)
    <3>1. picked \in Out /\ (outs = <<Blank>> \/ outs = <<picked>>)
      BY <2>4, <2>5
    <3> HIDE DEF outs, pick, picked
    <3>2. <<Blank>> \in Seq(Out) /\ <<picked>> \in Seq(Out)
      BY <1>0, <3>1
    <3> QED
      BY <3>1, <3>2
  <2> HIDE DEF outs
  <2>7. SendAll(n, c, outs) \in Seq(Call)
    BY <2>1, <2>2, <2>6, SendAllType
  <2> QED
    BY <2>7 DEF outs
<1> QED
  BY <1>1, <1>2, <1>3

\* StartSource: what a source sends.
LEMMA SourceSends ==
  ASSUME NEW n \in Range(Sources), NEW c \in Nat, NEW b \in {0, 1}
  PROVE  SendAll(n, c, [k \in DOMAIN Targets[n] |->
           IF n \in Constants THEN Value(0) ELSE IF k = 1 THEN Value(c) ELSE Value(b)]) \in Seq(Call)
<1> DEFINE outs == [k \in DOMAIN Targets[n] |->
             IF n \in Constants THEN Value(0) ELSE IF k = 1 THEN Value(c) ELSE Value(b)]
<1>1. n \in Senders
  BY DEF Senders
<1>2. Targets[n] \in Seq(Seq(Inputs))
  BY <1>1, ConnectionAssumption
<1>3. DOMAIN Targets[n] = 1..Len(Targets[n]) /\ Len(Targets[n]) \in Nat
  BY <1>2
<1>4. Value(0) \in Out /\ Value(c) \in Out /\ Value(b) \in Out
  BY DEF Value, Out
<1>5. outs \in [1..Len(Targets[n]) -> Out]
  BY <1>3, <1>4
<1> HIDE DEF outs
<1>6. outs \in Seq(Out)
  BY <1>3, <1>5, SeqDef
<1>7. Len(outs) <= Len(Targets[n])
  BY <1>3, <1>5, <1>6, LenProperties
<1>8. SendAll(n, c, outs) \in Seq(Call)
  BY <1>1, <1>6, <1>7, SendAllType
<1> QED
  BY <1>8 DEF outs

-----------------------------------------------------------------------------
(* The steps, as the order of the tokens sees them                         *)

ordered == <<next_clock, queued_clock, queue, ran>>

\* A thread goes on with the agenda s.
GoesOn(t, s) == s \in Agendas /\ agenda' = [agenda EXCEPT ![t] = s]

\* The claims and the queues stay, but for the claim a thread may give up.
Passes ==
  /\ \/ agenda' = agenda
     \/ \E t \in Threads : \E s : GoesOn(t, s) /\ Top(s).do \notin {"turn", "enqueue"}
  /\ UNCHANGED ordered

\* Swap moves next_clock_,
Moved(t, o, s) ==
  /\ o \in Walk /\ Top(agenda[t]) = o /\ o.do = "swap" /\ next_clock[o.n] = o.clk
  /\ GoesOn(t, s) /\ Top(s) = [o EXCEPT !.do = "turn"]
  /\ next_clock' = [next_clock EXCEPT ![o.n] = o.res]
  /\ UNCHANGED <<queued_clock, queue, ran>>

\* Turn comes to the clocks that are next for the queue,
Turned(t, o, s) ==
  /\ o \in Walk /\ Top(agenda[t]) = o /\ o.do = "turn" /\ queued_clock[o.n] >= o.clk
  /\ GoesOn(t, s) /\ Top(s) = [o EXCEPT !.do = "enqueue"]
  /\ UNCHANGED ordered

\* Enqueue puts one of them in the queue,
Put(t, o, s) ==
  /\ o \in Walk /\ Top(agenda[t]) = o /\ o.do = "enqueue" /\ o.clk < o.res
  /\ GoesOn(t, s) /\ Top(s) = [o EXCEPT !.clk = @ + 1]
  /\ queue' = [queue EXCEPT ![QueueOf[o.n]] = Append(@, <<o.n, o.clk>>)]
  /\ UNCHANGED <<next_clock, queued_clock, ran>>

\* or is through with them and sets queued_clock_,
Told(t, o, s) ==
  /\ o \in Walk /\ Top(agenda[t]) = o /\ o.do = "enqueue" /\ o.clk = o.res
  /\ GoesOn(t, s) /\ Top(s).do \notin {"turn", "enqueue"}
  /\ queued_clock' = [queued_clock EXCEPT ![o.n] = o.res]
  /\ UNCHANGED <<next_clock, queue, ran>>

\* and RunOrdered takes the first task of a queue.
Taken(a, s) ==
  /\ a \in Ordered \X Nat /\ GoesOn(a, s) /\ Top(s).do \notin {"turn", "enqueue"}
  /\ queue[QueueOf[a[1]]] # <<>> /\ Head(queue[QueueOf[a[1]]]) = a
  /\ queue' = [queue EXCEPT ![QueueOf[a[1]]] = Tail(@)]
  /\ ran' = [ran EXCEPT ![a[1]] = Append(@, a[2])]
  /\ UNCHANGED <<next_clock, queued_clock>>

Effect ==
  \/ Passes
  \/ \E t \in Threads : \E o, s : Moved(t, o, s) \/ Turned(t, o, s) \/ Put(t, o, s) \/ Told(t, o, s)
  \/ \E a \in Tasks : \E s : Taken(a, s)

\* A call that is done makes the calls ops.
LEMMA CallsPasses ==
  ASSUME TypeOK, NEW t \in Threads, agenda[t] # <<>>, NEW ops \in Seq(Call), Calls(t, ops),
         UNCHANGED ordered
  PROVE  Passes
<1>1. agenda[t] \in Agendas
  BY DEF TypeOK
<1> DEFINE s == ops \o Tail(agenda[t])
<1>2. s \in Agendas /\ Top(s).do \notin {"turn", "enqueue"}
  BY <1>1, CallsMade
<1>3. agenda' = [agenda EXCEPT ![t] = s]
  BY DEF Calls, TypeOK
<1> HIDE DEF s
<1>4. GoesOn(t, s)
  BY <1>2, <1>3 DEF GoesOn
<1> QED
  BY <1>2, <1>4 DEF Passes

\* A walk goes on with o.
LEMMA WalkGoesOn ==
  ASSUME TypeOK, NEW t \in Threads, agenda[t] # <<>>, NEW o \in Walk, Calls(t, <<o>>)
  PROVE  \E s : GoesOn(t, s) /\ Top(s) = o
<1>1. agenda[t] \in Agendas
  BY DEF TypeOK
<1> DEFINE s == <<o>> \o Tail(agenda[t])
<1>2. s \in Agendas /\ Top(s) = o
  BY <1>1, CallReplaced
<1>3. agenda' = [agenda EXCEPT ![t] = s]
  BY DEF Calls, TypeOK
<1> HIDE DEF s
<1>4. GoesOn(t, s)
  BY <1>2, <1>3 DEF GoesOn
<1> QED
  BY <1>2, <1>4

\* What a thread is about to do, by its name.
LEMMA NowFacts ==
  ASSUME TypeOK, NEW t \in Threads, NEW what, Todo(t, what)
  PROVE  /\ agenda[t] # <<>> /\ Now(t) \in Call \cup Walk /\ Now(t).do = what
         /\ Top(agenda[t]) = Now(t)
<1>1. agenda[t] \in Agendas /\ agenda[t] # <<>>
  BY DEF TypeOK, Todo
<1> QED
  BY <1>1, AgendaFacts DEF Todo, Now

\* Every step of a thread that is not an ordered node's passes a token on.
LEMMA PassingOn ==
  ASSUME TypeOK, NEW t \in Threads,
         \/ Receive(t) \/ Count(t) \/ Reset(t) \/ OnClockParallel(t) \/ OnClockInline(t)
         \/ Sunk(t) \/ Finish(t)
  PROVE  Passes
<1>0. <<>> \in Seq(Call)
  OBVIOUS
<1>1. CASE Receive(t)
  <2> DEFINE op == [do |-> "count", n |-> Now(t).to[1], clock |-> Now(t).clock]
  <2>1. agenda[t] # <<>> /\ Now(t) \in [do : {"receive"}, to : Inputs, clock : Nat, blank : BOOLEAN, value : Nat]
    BY <1>1, NowFacts, CallCases DEF Receive
  <2>2. op \in Call
    BY <2>1, InputFacts DEF Call
  <2>3. Calls(t, <<op>>) /\ UNCHANGED ordered
    BY <1>1 DEF Receive, ordered, clocks, tasks
  <2> HIDE DEF op
  <2>4. <<op>> \in Seq(Call)
    BY <2>2
  <2> QED
    BY <2>1, <2>3, <2>4, CallsPasses
<1>2. CASE Count(t)
  <2> DEFINE op == [Now(t) EXCEPT !.do = "reset"]
             ops == IF count[Now(t).n][Slice(Now(t).clock)] = 1 THEN <<op>> ELSE <<>>
  <2>1. agenda[t] # <<>> /\ Now(t) \in [do : {"count", "reset", "onclock"}, n : Receivers, clock : Nat]
    BY <1>2, NowFacts, CallCases DEF Count
  <2>2. op \in Call
    BY <2>1 DEF Call
  <2>3. Calls(t, ops) /\ UNCHANGED ordered
    BY <1>2 DEF Count, ordered, clocks, tasks
  <2> HIDE DEF op
  <2>4. ops \in Seq(Call)
    BY <2>2, <1>0
  <2> HIDE DEF ops
  <2> QED
    BY <2>1, <2>3, <2>4, CallsPasses
<1>3. CASE Reset(t)
  <2> DEFINE op == [Now(t) EXCEPT !.do = "onclock"]
  <2>1. agenda[t] # <<>> /\ Now(t) \in [do : {"count", "reset", "onclock"}, n : Receivers, clock : Nat]
    BY <1>3, NowFacts, CallCases DEF Reset
  <2>2. op \in Call
    BY <2>1 DEF Call
  <2>3. Calls(t, <<op>>) /\ UNCHANGED ordered
    BY <1>3 DEF Reset, ordered, clocks, tasks
  <2> HIDE DEF op
  <2>4. <<op>> \in Seq(Call)
    BY <2>2
  <2> QED
    BY <2>1, <2>3, <2>4, CallsPasses
<1>4. CASE OnClockParallel(t)
  <2>1. agenda[t] # <<>>
    BY <1>4, NowFacts DEF OnClockParallel
  <2>2. Calls(t, <<>>) /\ UNCHANGED ordered
    BY <1>4 DEF OnClockParallel, Returns, ordered, clocks, tasks
  <2> QED
    BY <1>0, <2>1, <2>2, CallsPasses
<1>5. CASE OnClockInline(t)
  <2> DEFINE n == Now(t).n
             c == Now(t).clock
             ops == SendAll(n, c, IF n \in Switches THEN SwitchOuts(n, c) ELSE SelectOuts(n, c))
  <2>1. agenda[t] # <<>> /\ Now(t) \in [do : {"count", "reset", "onclock"}, n : Receivers, clock : Nat]
    BY <1>5, NowFacts, CallCases DEF OnClockInline
  <2>2. c \in Nat /\ n \in Switches \cup Selects
    BY <1>5, <2>1 DEF OnClockInline
  <2>3. Calls(t, ops) /\ UNCHANGED ordered
    BY <1>5 DEF OnClockInline, ordered, clocks, tasks
  <2>4. ops \in Seq(Call)
    <3> HIDE DEF n, c
    <3> QED
      BY <2>2, NodeSends
  <2> HIDE DEF ops
  <2> QED
    BY <2>1, <2>3, <2>4, CallsPasses
<1>6. CASE Sunk(t)
  <2>1. agenda[t] # <<>>
    BY <1>6, NowFacts DEF Sunk
  <2>2. Calls(t, <<>>) /\ UNCHANGED ordered
    BY <1>6 DEF Sunk, Returns, ordered, clocks, tasks
  <2> QED
    BY <1>0, <2>1, <2>2, CallsPasses
<1>7. CASE Finish(t)
  <2>1. agenda[t] # <<>>
    BY <1>7, NowFacts DEF Finish
  <2>2. Calls(t, <<>>) /\ UNCHANGED ordered
    BY <1>7 DEF Finish, Returns, ordered, clocks, tasks
  <2> QED
    BY <1>0, <2>1, <2>2, CallsPasses
<1> QED
  BY <1>1, <1>2, <1>3, <1>4, <1>5, <1>6, <1>7

\* A walk that is not a claim.
LEMMA WalkPasses ==
  ASSUME TypeOK, NEW t \in Threads, agenda[t] # <<>>, NEW o \in Walk, Calls(t, <<o>>),
         o.do \notin {"turn", "enqueue"}, UNCHANGED ordered
  PROVE  Passes
<1>1. PICK s : GoesOn(t, s) /\ Top(s) = o
  BY WalkGoesOn
<1> QED
  BY <1>1 DEF Passes

\* The steps of OnClock of an ordered node.
LEMMA Walking ==
  ASSUME TypeOK, NEW t \in Threads,
         OnClockOrdered(t) \/ Scan(t) \/ Swap(t) \/ Turn(t) \/ Enqueue(t)
  PROVE  Effect
<1>0. <<>> \in Seq(Call)
  OBVIOUS
<1> DEFINE o == Now(t)
<1>1. CASE OnClockOrdered(t)
  <2> DEFINE w == [do |-> "scan", n |-> o.n, clk |-> next_clock[o.n], res |-> next_clock[o.n]]
  <2>1. agenda[t] # <<>> /\ o.n \in Ordered
    BY <1>1, NowFacts DEF OnClockOrdered
  <2>2. next_clock[o.n] \in Nat
    BY <2>1 DEF TypeOK
  <2>3. w \in Walk /\ w.do = "scan"
    BY <2>1, <2>2 DEF Walk
  <2>4. Calls(t, <<w>>) /\ UNCHANGED ordered
    BY <1>1 DEF OnClockOrdered, Load, ordered, clocks, tasks
  <2> HIDE DEF w, o
  <2>5. Passes
    BY <2>1, <2>3, <2>4, WalkPasses
  <2> QED
    BY <2>5 DEF Effect
<1>2. CASE Scan(t)
  <2>1. agenda[t] # <<>> /\ o \in Walk /\ o.do = "scan"
    BY <1>2, NowFacts, CallCases DEF Scan
  <2>2. UNCHANGED ordered
    BY <1>2 DEF Scan, ordered, clocks, tasks
  <2>3. CASE Calls(t, <<[o EXCEPT !.res = @ + 1]>>)
    <3> DEFINE w == [o EXCEPT !.res = @ + 1]
    <3>1. w \in Walk /\ w.do = "scan"
      BY <2>1 DEF Walk
    <3>2. Calls(t, <<w>>)
      BY <2>3
    <3> HIDE DEF w, o
    <3>3. Passes
      BY <2>1, <2>2, <3>1, <3>2, WalkPasses
    <3> QED
      BY <3>3 DEF Effect
  <2>4. CASE o.res > o.clk /\ Calls(t, <<[o EXCEPT !.do = "swap"]>>)
    <3> DEFINE w == [o EXCEPT !.do = "swap"]
    <3>1. w \in Walk /\ w.do = "swap"
      BY <2>1, <2>4 DEF Walk
    <3>2. Calls(t, <<w>>)
      BY <2>4
    <3> HIDE DEF w, o
    <3>3. Passes
      BY <2>1, <2>2, <3>1, <3>2, WalkPasses
    <3> QED
      BY <3>3 DEF Effect
  <2>5. CASE Calls(t, <<>>)
    <3>1. Passes
      BY <1>0, <2>1, <2>2, <2>5, CallsPasses
    <3> QED
      BY <3>1 DEF Effect
  <2> QED
    BY <1>2, <2>3, <2>4, <2>5 DEF Scan, Returns
<1>3. CASE Swap(t)
  <2>1. agenda[t] # <<>> /\ o \in Walk /\ o.do = "swap" /\ Top(agenda[t]) = o
    BY <1>3, NowFacts, CallCases DEF Swap
  <2>2. UNCHANGED <<queued_clock, queue, ran>>
    BY <1>3 DEF Swap, tasks
  <2>3. CASE next_clock[o.n] = o.clk
    <3> DEFINE w == [o EXCEPT !.do = "turn"]
    <3>1. w \in Walk
      BY <2>1 DEF Walk
    <3>2. next_clock' = [next_clock EXCEPT ![o.n] = o.res] /\ Calls(t, <<w>>)
      BY <1>3, <2>3 DEF Swap
    <3> HIDE DEF w, o
    <3>3. PICK s : GoesOn(t, s) /\ Top(s) = w
      BY <2>1, <3>1, <3>2, WalkGoesOn
    <3>4. Moved(t, o, s)
      BY <2>1, <2>2, <2>3, <3>2, <3>3 DEF Moved, w
    <3> QED
      BY <3>4 DEF Effect
  <2>4. CASE next_clock[o.n] # o.clk
    <3> DEFINE w == [do |-> "scan", n |-> o.n, clk |-> next_clock[o.n], res |-> next_clock[o.n]]
    <3>1. o.n \in Ordered
      BY <2>1 DEF Walk
    <3>2. next_clock[o.n] \in Nat
      BY <3>1 DEF TypeOK
    <3>3. w \in Walk /\ w.do = "scan"
      BY <3>1, <3>2 DEF Walk
    <3>4. Calls(t, <<w>>) /\ UNCHANGED ordered
      BY <1>3, <2>2, <2>4 DEF Swap, Load, ordered
    <3> HIDE DEF w, o
    <3>5. Passes
      BY <2>1, <3>3, <3>4, WalkPasses
    <3> QED
      BY <3>5 DEF Effect
  <2> QED
    BY <2>3, <2>4
<1>4. CASE Turn(t)
  <2> DEFINE w == [o EXCEPT !.do = "enqueue"]
  <2>1. agenda[t] # <<>> /\ o \in Walk /\ o.do = "turn" /\ Top(agenda[t]) = o
    BY <1>4, NowFacts, CallCases DEF Turn
  <2>2. queued_clock[o.n] >= o.clk /\ Calls(t, <<w>>) /\ UNCHANGED ordered
    BY <1>4 DEF Turn, ordered, clocks, tasks
  <2>3. w \in Walk
    BY <2>1 DEF Walk
  <2> HIDE DEF w, o
  <2>4. PICK s : GoesOn(t, s) /\ Top(s) = w
    BY <2>1, <2>2, <2>3, WalkGoesOn
  <2>5. Turned(t, o, s)
    BY <2>1, <2>2, <2>4 DEF Turned, w
  <2> QED
    BY <2>5 DEF Effect
<1>5. CASE Enqueue(t)
  <2>1. agenda[t] # <<>> /\ o \in Walk /\ o.do = "enqueue" /\ Top(agenda[t]) = o
    BY <1>5, NowFacts, CallCases DEF Enqueue
  <2>2. UNCHANGED <<next_clock, ran>>
    BY <1>5 DEF Enqueue
  <2>3. CASE o.clk < o.res
    <3> DEFINE w == [o EXCEPT !.clk = @ + 1]
    <3>1. w \in Walk
      BY <2>1, <2>3 DEF Walk
    <3>2. /\ queue' = [queue EXCEPT ![QueueOf[o.n]] = Append(@, <<o.n, o.clk>>)]
          /\ Calls(t, <<w>>) /\ UNCHANGED queued_clock
      BY <1>5, <2>3 DEF Enqueue
    <3> HIDE DEF w, o
    <3>3. PICK s : GoesOn(t, s) /\ Top(s) = w
      BY <2>1, <3>1, <3>2, WalkGoesOn
    <3>4. Put(t, o, s)
      BY <2>1, <2>2, <2>3, <3>2, <3>3 DEF Put, w
    <3> QED
      BY <3>4 DEF Effect
  <2>4. CASE ~ (o.clk < o.res)
    <3>1. o.clk = o.res
      BY <2>1, <2>4 DEF Walk
    <3>2. /\ queued_clock' = [queued_clock EXCEPT ![o.n] = o.res]
          /\ Calls(t, <<>>) /\ UNCHANGED queue
      BY <1>5, <2>4 DEF Enqueue, Returns
    <3> DEFINE s == <<>> \o Tail(agenda[t])
    <3>3. agenda[t] \in Agendas /\ agenda' = [agenda EXCEPT ![t] = s]
      BY <3>2 DEF Calls, TypeOK
    <3>4. s \in Agendas /\ Top(s).do \notin {"turn", "enqueue"}
      BY <1>0, <2>1, <3>3, CallsMade
    <3> HIDE DEF s, o
    <3>5. GoesOn(t, s)
      BY <3>3, <3>4 DEF GoesOn
    <3>6. Told(t, o, s)
      BY <2>1, <2>2, <3>1, <3>2, <3>4, <3>5 DEF Told
    <3> QED
      BY <3>6 DEF Effect
  <2> QED
    BY <2>3, <2>4
<1> QED
  BY <1>1, <1>2, <1>3, <1>4, <1>5

\* The agenda of a task that starts.
LEMMA RunGoesOn ==
  ASSUME TypeOK, NEW a \in Tasks, Run(a)
  PROVE  \E s : GoesOn(a, s) /\ Top(s).do \notin {"turn", "enqueue"}
<1> DEFINE n == a[1]
           c == a[2]
           ops == IF n \in Sinks THEN <<[do |-> "sunk", clock |-> c]>> ELSE SendAll(n, c, ProcessOuts(n, c))
           end == [do |-> "finish", slice |-> Slice(c)]
           s == ops \o <<end>>
<1>1. n \in Serial \cup Parallel \cup Sinks /\ c \in Nat
  BY DataflowAssumption DEF Tasks
<1>2. ops \in Seq(Call)
  <2>1. CASE n \in Sinks
    <3>1. [do |-> "sunk", clock |-> c] \in Call
      BY <1>1 DEF Call
    <3> QED
      BY <2>1, <3>1
  <2>2. CASE n \notin Sinks
    <3> HIDE DEF n, c
    <3> QED
      BY <1>1, <2>2, NodeSends
  <2> QED
    BY <2>1, <2>2
<1>3. end \in Call
  BY <1>1, SliceType DEF Call
<1>4. agenda' = [agenda EXCEPT ![a] = s]
  BY DEF Run
<1> HIDE DEF n, c, ops, end
<1>5. s \in Seq(Call)
  BY <1>2, <1>3
<1> HIDE DEF s
<1> QED
  BY <1>4, <1>5, PlainAgenda DEF GoesOn

\* The source the loop of the network is at.
LEMMA SourceType ==
  ASSUME NEW i \in Nat, i >= 1, i <= Len(Sources)
  PROVE  Sources[i] \in Range(Sources) /\ Sources[i] \in Senders
<1>1. Len(Sources) \in Nat /\ DOMAIN Sources = 1..Len(Sources)
  BY ConnectionAssumption
<1>2. i \in DOMAIN Sources
  BY <1>1
<1>3. Sources[i] \in Range(Sources)
  BY <1>2 DEF Range
<1> QED
  BY <1>3 DEF Senders

\* Main starts a source.
LEMMA MainGoesOn ==
  ASSUME NEW s \in Seq(Call), agenda' = [agenda EXCEPT ![Main] = s], UNCHANGED ordered
  PROVE  Passes
<1>1. Main \in Threads
  BY DEF Threads
<1>2. GoesOn(Main, s) /\ Top(s).do \notin {"turn", "enqueue"}
  BY PlainAgenda DEF GoesOn
<1> QED
  BY <1>1, <1>2 DEF Passes

\* The loop of the network.
LEMMA MainPasses ==
  ASSUME TypeOK,
         \/ InitSource \/ OnInit \/ InitDone \/ SpawnClock \/ StartSource \/ NextClock
         \/ Drain \/ Finished
  PROVE  Passes
<1>0. main.source \in Nat /\ main.clock \in Nat
  BY DEF TypeOK
<1>1. CASE InitSource
  <2>1. main.source >= 1 /\ main.source <= Len(Sources)
    BY <1>1 DEF InitSource, MainAt, TypeOK
  <2>2. InitAll(Sources[main.source]) \in Seq(Call)
    BY <1>0, <2>1, SourceType, InitAllType
  <2>3. agenda' = [agenda EXCEPT ![Main] = InitAll(Sources[main.source])] /\ UNCHANGED ordered
    BY <1>1 DEF InitSource, ordered, clocks, tasks
  <2> QED
    BY <2>2, <2>3, MainGoesOn
<1>2. CASE OnInit
  <2> DEFINE n == Now(Main).n
             ops == IF test_count[n] = 1 /\ n \notin Sinks THEN InitAll(n) ELSE <<>>
  <2>1. Main \in Threads
    BY DEF Threads
  <2>2. agenda[Main] # <<>> /\ Now(Main) \in [do : {"init"}, n : Receivers]
    BY <1>2, <2>1, NowFacts, CallCases DEF OnInit
  <2>3. Calls(Main, ops) /\ UNCHANGED ordered
    BY <1>2 DEF OnInit, ordered, clocks, tasks
  <2>4. n \notin Sinks => n \in Senders
    BY <2>2 DEF Receivers, Senders
  <2>5. ops \in Seq(Call)
    <3> HIDE DEF n
    <3> QED
      BY <2>4, InitAllType
  <2> HIDE DEF ops
  <2> QED
    BY <2>1, <2>2, <2>3, <2>5, CallsPasses
<1>3. CASE InitDone \/ SpawnClock \/ NextClock \/ Drain \/ Finished
  BY <1>3 DEF InitDone, SpawnClock, NextClock, Drain, Finished, Passes, ordered, clocks, tasks
<1>4. CASE StartSource
  <2> DEFINE n == Sources[main.source]
             c == main.clock
  <2>1. main.source >= 1 /\ main.source <= Len(Sources)
    BY <1>4 DEF StartSource, MainAt, TypeOK
  <2>2. n \in Range(Sources) /\ c \in Nat
    BY <1>0, <2>1, SourceType
  <2>3. PICK b \in {0, 1} :
          agenda' = [agenda EXCEPT ![Main] = SendAll(n, c, [k \in DOMAIN Targets[n] |->
            IF n \in Constants THEN Value(0) ELSE IF k = 1 THEN Value(c) ELSE Value(b)])]
    BY <1>4 DEF StartSource
  <2>4. UNCHANGED ordered
    BY <1>4 DEF StartSource, ordered, clocks, tasks
  <2> DEFINE s == SendAll(n, c, [k \in DOMAIN Targets[n] |->
            IF n \in Constants THEN Value(0) ELSE IF k = 1 THEN Value(c) ELSE Value(b)])
  <2>5. s \in Seq(Call)
    <3> HIDE DEF n, c
    <3> QED
      BY <2>2, SourceSends
  <2>6. agenda' = [agenda EXCEPT ![Main] = s]
    BY <2>3
  <2> HIDE DEF s
  <2> QED
    BY <2>4, <2>5, <2>6, MainGoesOn
<1> QED
  BY <1>1, <1>2, <1>3, <1>4

\* Every step of the specification is one of these.
LEMMA StepEffect ==
  ASSUME TypeOK, [Next]_vars
  PROVE  Effect
<1>1. ASSUME NEW t \in Threads, ThreadStep(t) PROVE Effect
  <2>1. CASE Receive(t) \/ Count(t) \/ Reset(t) \/ OnClockParallel(t) \/ OnClockInline(t)
    BY <2>1, PassingOn DEF Effect
  <2>2. CASE OnClockOrdered(t) \/ Scan(t) \/ Swap(t) \/ Turn(t) \/ Enqueue(t)
    BY <2>2, Walking
  <2> QED
    BY <1>1, <2>1, <2>2 DEF ThreadStep
<1>2. ASSUME NEW a \in Tasks, WorkerStep(a) PROVE Effect
  <2>1. a \in Threads
    BY DEF Threads
  <2>2. CASE ThreadStep(a)
    BY <1>1, <2>1, <2>2
  <2>3. CASE Sunk(a) \/ Finish(a)
    BY <2>1, <2>3, PassingOn DEF Effect
  <2>4. CASE RunOrdered(a)
    <3>1. PICK s : GoesOn(a, s) /\ Top(s).do \notin {"turn", "enqueue"}
      BY <2>4, RunGoesOn DEF RunOrdered
    <3>2. a \in Ordered \X Nat
      BY <2>4, DataflowAssumption DEF RunOrdered, Tasks
    <3>3. Taken(a, s)
      BY <2>4, <3>1, <3>2 DEF RunOrdered, Taken, clocks
    <3> QED
      BY <3>3 DEF Effect
  <2>5. CASE RunSpawned(a)
    <3>1. PICK s : GoesOn(a, s) /\ Top(s).do \notin {"turn", "enqueue"}
      BY <2>5, RunGoesOn DEF RunSpawned
    <3>2. UNCHANGED ordered
      BY <2>5 DEF RunSpawned, ordered, clocks
    <3> QED
      BY <2>1, <3>1, <3>2 DEF Effect, Passes
  <2> QED
    BY <1>2, <2>2, <2>3, <2>4, <2>5 DEF WorkerStep
<1>3. CASE MainStep
  <2>1. CASE ThreadStep(Main)
    BY <1>1, <2>1 DEF Threads
  <2>2. CASE ~ ThreadStep(Main)
    BY <1>3, <2>2, MainPasses DEF MainStep, Effect
  <2> QED
    BY <2>1, <2>2
<1>4. CASE UNCHANGED vars
  BY <1>4 DEF vars, Effect, Passes, ordered, clocks, tasks
<1> QED
  BY <1>2, <1>3, <1>4 DEF Next

-----------------------------------------------------------------------------
(* Type correctness                                                        *)

\* The types of what the order of the tokens depends on.
OrderType ==
  /\ next_clock \in [Ordered -> Nat]
  /\ queued_clock \in [Ordered -> Nat]
  /\ queue \in [Queues -> Seq(Ordered \X Nat)]
  /\ agenda \in [Threads -> Agendas]
  /\ ran \in [Ordered -> Seq(Nat)]

\* They stay by what the steps do.
LEMMA StepOrderType ==
  ASSUME TypeOK, Effect
  PROVE  OrderType'
<1>0. OrderType
  BY DEF TypeOK, OrderType
<1>1. CASE Passes
  BY <1>0, <1>1 DEF Passes, GoesOn, ordered, OrderType
<1>2. ASSUME NEW t \in Threads, NEW o, NEW s,
             Moved(t, o, s) \/ Turned(t, o, s) \/ Put(t, o, s) \/ Told(t, o, s)
      PROVE  OrderType'
  <2>1. o \in Walk /\ o.n \in Ordered /\ o.clk \in Nat /\ o.res \in Nat
    BY <1>2 DEF Moved, Turned, Put, Told, Walk
  <2>2. agenda' \in [Threads -> Agendas]
    BY <1>0, <1>2 DEF Moved, Turned, Put, Told, GoesOn, OrderType
  <2>3. CASE Moved(t, o, s) \/ Turned(t, o, s) \/ Told(t, o, s)
    BY <1>0, <2>1, <2>2, <2>3 DEF Moved, Turned, Told, ordered, OrderType
  <2>4. CASE Put(t, o, s)
    <3>1. QueueOf[o.n] \in Queues
      BY <2>1 DEF Queues
    <3>2. Append(queue[QueueOf[o.n]], <<o.n, o.clk>>) \in Seq(Ordered \X Nat)
      BY <1>0, <2>1, <3>1 DEF OrderType
    <3>3. queue' \in [Queues -> Seq(Ordered \X Nat)]
      BY <1>0, <2>4, <3>1, <3>2 DEF Put, OrderType
    <3> QED
      BY <1>0, <2>2, <2>4, <3>3 DEF Put, OrderType
  <2> QED
    BY <1>2, <2>3, <2>4
<1>3. ASSUME NEW a \in Tasks, NEW s, Taken(a, s) PROVE OrderType'
  <2>1. a[1] \in Ordered /\ a[2] \in Nat /\ QueueOf[a[1]] \in Queues
    BY <1>3 DEF Taken, Queues
  <2>2. agenda' \in [Threads -> Agendas]
    BY <1>0, <1>3 DEF Taken, GoesOn, OrderType, Threads
  <2>3. Tail(queue[QueueOf[a[1]]]) \in Seq(Ordered \X Nat)
    BY <1>0, <1>3, <2>1 DEF OrderType, Taken
  <2>4. Append(ran[a[1]], a[2]) \in Seq(Nat)
    BY <1>0, <2>1 DEF OrderType
  <2>5. queue' \in [Queues -> Seq(Ordered \X Nat)]
    BY <1>0, <1>3, <2>1, <2>3 DEF OrderType, Taken
  <2>6. ran' \in [Ordered -> Seq(Nat)]
    BY <1>0, <1>3, <2>1, <2>4 DEF OrderType, Taken
  <2> QED
    BY <1>0, <1>3, <2>2, <2>5, <2>6 DEF OrderType, Taken
<1> QED
  BY <1>1, <1>2, <1>3 DEF Effect

\* The types of the rest.
NetType ==
  /\ signal \in [Inputs -> [Index -> Signal]]
  /\ count \in [Receivers -> [Index -> Int]]
  /\ test_count \in [Receivers -> Int]
  /\ spawned \subseteq Parallel \X Nat
  /\ group \in [Index -> Int]
  /\ sink_counter \in [Index -> Int]
  /\ sink_count \in Nat
  /\ main \in [at : {"init", "wait", "start", "drain", "done"}, clock : Nat,
               source : Nat, result : BOOLEAN]
  /\ main.at \in {"init", "start"} => main.source >= 1
  /\ thrown \in BOOLEAN

\* They stay when a thread takes a step.
LEMMA ThreadNetType ==
  ASSUME TypeOK, NEW t \in Threads, ThreadStep(t) \/ Sunk(t) \/ Finish(t)
  PROVE  NetType'
<1>0. NetType
  BY DEF TypeOK, NetType
<1>1. CASE Receive(t)
  <2> DEFINE o == Now(t)
             v == [clock |-> o.clock, blank |-> o.blank, value |-> o.value]
  <2>1. o \in [do : {"receive"}, to : Inputs, clock : Nat, blank : BOOLEAN, value : Nat]
    BY <1>1, NowFacts, CallCases DEF Receive
  <2>2. o.to \in Inputs /\ Slice(o.clock) \in Index
    BY <2>1, SliceType
  <2>3. v \in Signal
    BY <2>1 DEF Signal
  <2>4. signal' = [signal EXCEPT ![o.to][Slice(o.clock)] = v]
    BY <1>1 DEF Receive
  <2>5. thrown' \in BOOLEAN
    BY <1>1 DEF Receive
  <2>6. UNCHANGED <<count, test_count, spawned, group, sink_counter, sink_count, main>>
    BY <1>1 DEF Receive, tasks, sinks
  <2> HIDE DEF o, v
  <2>7. signal' \in [Inputs -> [Index -> Signal]]
    BY <1>0, <2>2, <2>3, <2>4 DEF NetType
  <2> QED
    BY <1>0, <2>5, <2>6, <2>7 DEF NetType
<1>2. CASE Count(t) \/ Reset(t)
  <2> DEFINE o == Now(t)
             k == Slice(o.clock)
  <2>1. o \in [do : {"count", "reset", "onclock"}, n : Receivers, clock : Nat]
    BY <1>2, NowFacts, CallCases DEF Count, Reset
  <2>2. o.n \in Receivers /\ k \in Index
    BY <2>1, SliceType
  <2>3. Arity[o.n] \in Int
    <3>1. Arity[o.n] \in 1..5
      BY <2>2, DataflowAssumption
    <3> QED
      BY <3>1
  <2>4. \/ count' = [count EXCEPT ![o.n][k] = @ - 1]
        \/ count' = [count EXCEPT ![o.n][k] = Arity[o.n]]
    BY <1>2 DEF Count, Reset
  <2>5. thrown' \in BOOLEAN
    BY <1>0, <1>2 DEF Count, Reset, NetType
  <2>6. UNCHANGED <<signal, test_count, spawned, group, sink_counter, sink_count, main>>
    BY <1>2 DEF Count, Reset, tasks, sinks
  <2> HIDE DEF o, k
  <2>7. count' \in [Receivers -> [Index -> Int]]
    <3>1. count \in [Receivers -> [Index -> Int]]
      BY <1>0 DEF NetType
    <3>2. count[o.n] \in [Index -> Int]
      BY <2>2, <3>1
    <3>3. /\ [count[o.n] EXCEPT ![k] = @ - 1] \in [Index -> Int]
          /\ [count[o.n] EXCEPT ![k] = Arity[o.n]] \in [Index -> Int]
      BY <2>2, <2>3, <3>2
    <3> QED
      BY <2>2, <2>4, <3>1, <3>3
  <2> QED
    BY <1>0, <2>5, <2>6, <2>7 DEF NetType
<1>3. CASE OnClockParallel(t)
  <2> DEFINE o == Now(t)
             k == Slice(o.clock)
  <2>1. o \in [do : {"count", "reset", "onclock"}, n : Receivers, clock : Nat] /\ o.n \in Parallel
    BY <1>3, NowFacts, CallCases DEF OnClockParallel
  <2>2. k \in Index /\ <<o.n, o.clock>> \in Parallel \X Nat
    BY <2>1, SliceType
  <2>3. group' = [group EXCEPT ![k] = @ + 1] /\ spawned' = spawned \cup {<<o.n, o.clock>>}
    BY <1>3 DEF OnClockParallel
  <2>4. thrown' \in BOOLEAN
    BY <1>3 DEF OnClockParallel
  <2>5. UNCHANGED <<signal, count, test_count, sink_counter, sink_count, main>>
    BY <1>3 DEF OnClockParallel, network, sinks
  <2> HIDE DEF o, k
  <2>6. group' \in [Index -> Int] /\ spawned' \subseteq Parallel \X Nat
    BY <1>0, <2>2, <2>3 DEF NetType
  <2> QED
    BY <1>0, <2>4, <2>5, <2>6 DEF NetType
<1>4. CASE OnClockInline(t) \/ OnClockOrdered(t)
  <2>1. thrown' \in BOOLEAN
    BY <1>4 DEF OnClockInline, OnClockOrdered
  <2>2. UNCHANGED <<network, spawned, group, sinks, main>>
    BY <1>4 DEF OnClockInline, OnClockOrdered, tasks
  <2> QED
    BY <1>0, <2>1, <2>2 DEF NetType, network, sinks
<1>5. CASE Scan(t) \/ Swap(t) \/ Turn(t)
  <2>1. UNCHANGED <<network, spawned, group, sinks, main, thrown>>
    BY <1>5 DEF Scan, Swap, Turn, tasks
  <2> QED
    BY <1>0, <2>1 DEF NetType, network, sinks
<1>6. CASE Enqueue(t)
  <2> DEFINE o == Now(t)
             k == Slice(o.clk)
  <2>1. o \in Walk
    BY <1>6, NowFacts, CallCases DEF Enqueue
  <2>2. k \in Index
    BY <2>1, SliceType DEF Walk
  <2>3. group' = group \/ group' = [group EXCEPT ![k] = @ + 1]
    BY <1>6 DEF Enqueue
  <2>4. UNCHANGED <<network, spawned, sinks, main, thrown>>
    BY <1>6 DEF Enqueue
  <2> HIDE DEF o, k
  <2>5. group' \in [Index -> Int]
    BY <1>0, <2>2, <2>3 DEF NetType
  <2> QED
    BY <1>0, <2>4, <2>5 DEF NetType, network, sinks
<1>7. CASE Sunk(t)
  <2> DEFINE k == Slice(Now(t).clock)
  <2>1. Now(t) \in [do : {"sunk"}, clock : Nat]
    BY <1>7, NowFacts, CallCases DEF Sunk
  <2>2. k \in Index
    BY <2>1, SliceType
  <2>3. sink_counter' = [sink_counter EXCEPT ![k] = @ - 1] /\ thrown' \in BOOLEAN
    BY <1>7 DEF Sunk
  <2>4. UNCHANGED <<network, spawned, group, sink_count, main>>
    BY <1>7 DEF Sunk, tasks
  <2> HIDE DEF k
  <2>5. sink_counter' \in [Index -> Int]
    BY <1>0, <2>2, <2>3 DEF NetType
  <2> QED
    BY <1>0, <2>3, <2>4, <2>5 DEF NetType, network
<1>8. CASE Finish(t)
  <2>1. Now(t) \in [do : {"finish"}, slice : Index]
    BY <1>8, NowFacts, CallCases DEF Finish
  <2>2. Now(t).slice \in Index
    BY <2>1
  <2>3. group' = [group EXCEPT ![Now(t).slice] = @ - 1]
    BY <1>8 DEF Finish
  <2>4. UNCHANGED <<network, spawned, sinks, main, thrown>>
    BY <1>8 DEF Finish
  <2>5. group' \in [Index -> Int]
    BY <1>0, <2>2, <2>3 DEF NetType
  <2> QED
    BY <1>0, <2>4, <2>5 DEF NetType, network, sinks
<1> QED
  BY <1>1, <1>2, <1>3, <1>4, <1>5, <1>6, <1>7, <1>8 DEF ThreadStep

\* They stay when a task starts, and when the loop of the network goes on.
LEMMA MainNetType ==
  ASSUME TypeOK,
         \/ \E a \in Tasks : RunOrdered(a) \/ RunSpawned(a)
         \/ InitSource \/ OnInit \/ InitDone \/ SpawnClock \/ StartSource \/ NextClock
         \/ Drain \/ Finished
  PROVE  NetType'
<1>0. NetType
  BY DEF TypeOK, NetType
<1>1. ASSUME NEW a \in Tasks, RunOrdered(a) \/ RunSpawned(a) PROVE NetType'
  <2>1. thrown' \in BOOLEAN /\ UNCHANGED <<network, group, sinks, main>>
    BY <1>1 DEF RunOrdered, RunSpawned, Run
  <2>2. spawned' \subseteq spawned
    BY <1>1 DEF RunOrdered, RunSpawned
  <2> QED
    BY <1>0, <2>1, <2>2 DEF NetType, network, sinks
<1> DEFINE Mains == [at : {"init", "wait", "start", "drain", "done"}, clock : Nat,
                     source : Nat, result : BOOLEAN]
<1>2. CASE InitSource \/ StartSource
  <2>1. main \in Mains /\ main.source >= 1
    BY <1>0, <1>2 DEF NetType, InitSource, StartSource, MainAt
  <2>2. main' \in Mains /\ main'.source >= 1
    <3>1. CASE InitSource
      BY <2>1, <3>1 DEF InitSource
    <3>2. CASE StartSource
      <4> DEFINE res == main.result /\ (Sources[main.source] \in Constants \/ main.clock + 1 < Tokens)
      <4>1. main' = [main EXCEPT !.source = @ + 1, !.result = res]
        BY <3>2 DEF StartSource
      <4>2. res \in BOOLEAN
        OBVIOUS
      <4> HIDE DEF res
      <4>3. main.source + 1 \in Nat /\ main.source + 1 >= 1
        BY <2>1
      <4>4. main' \in Mains
        BY <2>1, <4>1, <4>2, <4>3
      <4> QED
        BY <2>1, <4>1, <4>3, <4>4
    <3> QED
      BY <1>2, <3>1, <3>2
  <2>3. UNCHANGED <<network, spawned, group, sinks, thrown>>
    BY <1>2 DEF InitSource, StartSource, tasks
  <2> QED
    BY <1>0, <2>2, <2>3 DEF NetType, network, sinks
<1>3. CASE OnInit
  <2> DEFINE n == Now(Main).n
  <2>1. Now(Main) \in [do : {"init"}, n : Receivers]
    BY <1>3, NowFacts, CallCases DEF OnInit, Threads
  <2>2. n \in Receivers
    BY <2>1
  <2>3. /\ test_count' = [test_count EXCEPT ![n] = @ - 1]
        /\ sink_count' = sink_count + 1 \/ sink_count' = sink_count
    BY <1>3 DEF OnInit
  <2>4. UNCHANGED <<signal, count, spawned, group, sink_counter, main, thrown>>
    BY <1>3 DEF OnInit, tasks
  <2> HIDE DEF n
  <2>5. test_count' \in [Receivers -> Int] /\ sink_count' \in Nat
    BY <1>0, <2>2, <2>3 DEF NetType
  <2> QED
    BY <1>0, <2>4, <2>5 DEF NetType
<1>4. CASE SpawnClock
  <2>1. main \in Mains /\ Slice(main.clock) \in Index
    BY <1>0, SliceType DEF NetType
  <2>2. main' \in Mains /\ main'.source = 1
    BY <1>4, <2>1 DEF SpawnClock
  <2>3. sink_counter' \in [Index -> Int]
    BY <1>0, <1>4, <2>1 DEF NetType, SpawnClock
  <2>4. UNCHANGED <<network, spawned, group, sink_count, thrown>>
    BY <1>4 DEF SpawnClock, tasks
  <2> QED
    BY <1>0, <2>2, <2>3, <2>4 DEF NetType, network
<1>5. CASE InitDone \/ NextClock \/ Drain \/ Finished
  <2>1. main \in Mains /\ Slices \in Nat
    BY <1>0, DataflowAssumption DEF NetType
  <2>2. main' \in Mains /\ main'.at \notin {"init", "start"}
    <3>1. CASE InitDone \/ Finished
      BY <2>1, <3>1 DEF InitDone, Finished
    <3>2. CASE NextClock
      <4> DEFINE first == IF main.clock < Slices THEN 0 ELSE main.clock - Slices + 1
      <4>1. \/ main' = [main EXCEPT !.at = "wait", !.clock = @ + 1]
            \/ main' = [main EXCEPT !.at = "drain", !.source = first]
        BY <3>2 DEF NextClock
      <4>2. first \in Nat
        BY <2>1
      <4> HIDE DEF first
      <4>3. CASE main' = [main EXCEPT !.at = "wait", !.clock = @ + 1]
        <5>1. main.clock + 1 \in Nat
          BY <2>1
        <5>2. main' \in Mains
          BY <2>1, <4>3, <5>1
        <5>3. main'.at = "wait"
          BY <2>1, <4>3
        <5> QED
          BY <5>2, <5>3
      <4>4. CASE main' = [main EXCEPT !.at = "drain", !.source = first]
        BY <2>1, <4>2, <4>4
      <4> QED
        BY <4>1, <4>3, <4>4
    <3>3. CASE Drain
      BY <2>1, <3>3 DEF Drain, MainAt
    <3> QED
      BY <1>5, <3>1, <3>2, <3>3
  <2>3. UNCHANGED <<network, spawned, group, sinks, thrown>>
    BY <1>5 DEF InitDone, NextClock, Drain, Finished, tasks
  <2> QED
    BY <1>0, <2>2, <2>3 DEF NetType, network, sinks
<1> QED
  BY <1>1, <1>2, <1>3, <1>4, <1>5

\* The types are right in the beginning.
LEMMA InitType ==
  ASSUME Init
  PROVE  TypeOK
<1>1. [clock |-> -1, blank |-> TRUE, value |-> 0] \in Signal
  BY DEF Signal
<1>2. \A n \in Receivers : Arity[n] \in Int
  <2> TAKE n \in Receivers
  <2>1. Arity[n] \in 1..5
    BY DataflowAssumption
  <2> QED
    BY <2>1
<1>3. <<>> \in Agendas
  <2>1. <<>> \in Seq(Call)
    OBVIOUS
  <2> QED
    BY <2>1, PlainAgenda
<1>4. NetType
  <2>1. signal \in [Inputs -> [Index -> Signal]]
    BY <1>1 DEF Init
  <2>2. count \in [Receivers -> [Index -> Int]] /\ test_count \in [Receivers -> Int]
    BY <1>2 DEF Init
  <2>3. /\ main \in [at : {"init", "wait", "start", "drain", "done"}, clock : Nat,
                     source : Nat, result : BOOLEAN]
        /\ main.source >= 1
    BY DEF Init
  <2>4. spawned = {} /\ group \in [Index -> Int] /\ sink_counter \in [Index -> Int]
    BY DEF Init
  <2>5. sink_count \in Nat /\ thrown \in BOOLEAN
    BY DEF Init
  <2> QED
    BY <2>1, <2>2, <2>3, <2>4, <2>5 DEF NetType
<1>5. OrderType
  <2>1. queue \in [Queues -> Seq(Ordered \X Nat)] /\ ran \in [Ordered -> Seq(Nat)]
    BY DEF Init
  <2>2. next_clock \in [Ordered -> Nat] /\ queued_clock \in [Ordered -> Nat]
    BY DEF Init
  <2>3. agenda \in [Threads -> Agendas]
    BY <1>3 DEF Init
  <2> QED
    BY <2>1, <2>2, <2>3 DEF OrderType
<1> QED
  BY <1>4, <1>5 DEF TypeOK, NetType, OrderType

\* Every step keeps the types.
LEMMA StepType ==
  ASSUME TypeOK, [Next]_vars
  PROVE  TypeOK'
<1>1. OrderType'
  BY StepEffect, StepOrderType
<1>2. NetType'
  <2>1. ASSUME NEW a \in Tasks, WorkerStep(a) PROVE NetType'
    BY <2>1, ThreadNetType, MainNetType DEF WorkerStep, Threads
  <2>2. CASE MainStep
    BY <2>2, ThreadNetType, MainNetType DEF MainStep, Threads
  <2>3. CASE UNCHANGED vars
    BY <2>3 DEF vars, TypeOK, NetType, network, tasks, sinks
  <2> QED
    BY <2>1, <2>2, <2>3 DEF Next
<1> QED
  BY <1>1, <1>2 DEF TypeOK, NetType, OrderType

\* Type correctness: the agendas hold nothing but calls the code makes, the
\* index of a token is in range, and only the innermost call walks the clocks.
THEOREM TypeCorrect == Spec => []TypeOK
BY InitType, StepType, PTL DEF Spec

-----------------------------------------------------------------------------
(* The order of the tokens of a node                                       *)

\* The threads that have moved the next_clock_ of a node and have clocks to
\* enqueue.
Claims(n, ag) == {t \in Threads : Top(ag[t]).do \in {"turn", "enqueue"} /\ Top(ag[t]).n = n}

\* A token waits in a queue for a node.
Waits(n, q, c) == \E i \in 1..Len(q) : q[i] = <<n, c>>

\* What is in the queue q for n, which has taken the tokens before lo: the
\* tokens from lo on, in order, without a gap, at least those before
\* queued_clock_ (qc) and none that next_clock_ (nx) has not come to.
Line(n, nx, qc, q, lo) ==
  /\ qc <= nx /\ lo <= nx
  /\ \A i \in 1..Len(q) : q[i][1] = n => lo <= q[i][2] /\ q[i][2] < nx
  /\ \A i, j \in 1..Len(q) : q[i][1] = n /\ q[j][1] = n /\ i < j => q[i][2] < q[j][2]
  /\ \A c \in lo..(qc - 1) : Waits(n, q, c)
  /\ \A i \in 1..Len(q) : q[i][1] = n => \A c \in lo..(q[i][2] - 1) : Waits(n, q, c)

\* A claim is on clocks that are not in the queue.  All before it are when it
\* is being enqueued.
ClaimOK(n, o, nx, qc, q, lo) ==
  /\ qc <= o.clk /\ o.res <= nx /\ lo <= o.clk
  /\ \A i \in 1..Len(q) : q[i][1] = n => q[i][2] < o.clk
  /\ o.do = "enqueue" => qc < o.res /\ \A c \in lo..(o.clk - 1) : Waits(n, q, c)

\* Two claims do not overlap, and the one that is being enqueued is first.
Apart(o, p) ==
  /\ o.res <= p.clk \/ p.res <= o.clk
  /\ o.do = "enqueue" => p.do # "enqueue" /\ o.res <= p.clk
  /\ p.do = "enqueue" => o.do # "enqueue" /\ p.res <= o.clk

NodeInv(n, ag, nx, qc, q, lo) ==
  /\ Line(n, nx, qc, q, lo)
  /\ \A t \in Claims(n, ag) : ClaimOK(n, Top(ag[t]), nx, qc, q, lo)
  /\ \A t, u \in Claims(n, ag) : t # u => Apart(Top(ag[t]), Top(ag[u]))

OrderInv ==
  \A n \in Ordered :
    /\ ran[n] = [i \in 1..Len(ran[n]) |-> i - 1]
    /\ NodeInv(n, agenda, next_clock[n], queued_clock[n], queue[QueueOf[n]], Len(ran[n]))

\* A queue one task is added to.
LEMMA QueueGrows ==
  ASSUME NEW q \in Seq(Ordered \X Nat), NEW e \in Ordered \X Nat
  PROVE  /\ Append(q, e) \in Seq(Ordered \X Nat)
         /\ Len(Append(q, e)) = Len(q) + 1 /\ Len(q) \in Nat
         /\ \A i \in 1..Len(q) : Append(q, e)[i] = q[i]
         /\ Append(q, e)[Len(q) + 1] = e
         /\ \A n, c : Waits(n, q, c) => Waits(n, Append(q, e), c)
         /\ \A n, c : e = <<n, c>> => Waits(n, Append(q, e), c)
<1> DEFINE q2 == Append(q, e)
<1>1. /\ q2 \in Seq(Ordered \X Nat)
      /\ Len(q2) = Len(q) + 1 /\ Len(q) \in Nat
      /\ \A i \in 1..Len(q) : q2[i] = q[i]
      /\ q2[Len(q) + 1] = e
  <2>1. Len(q) \in Nat
    OBVIOUS
  <2>2. q2 \in Seq(Ordered \X Nat) /\ Len(q2) = Len(q) + 1
    OBVIOUS
  <2>3. \A i \in 1..Len(q) : q2[i] = q[i]
    BY <2>1
  <2>4. q2[Len(q) + 1] = e
    BY <2>1
  <2> QED
    BY <2>1, <2>2, <2>3, <2>4
<1> HIDE DEF q2
<1>2. ASSUME NEW n, NEW c, Waits(n, q, c) PROVE Waits(n, q2, c)
  <2>1. PICK i \in 1..Len(q) : q[i] = <<n, c>>
    BY <1>2 DEF Waits
  <2>2. i \in 1..Len(q2) /\ q2[i] = q[i]
    BY <1>1
  <2> QED
    BY <2>1, <2>2 DEF Waits
<1>3. \A n, c : e = <<n, c>> => Waits(n, q2, c)
  <2>1. Len(q) + 1 \in 1..Len(q2)
    BY <1>1
  <2> QED
    BY <1>1, <2>1 DEF Waits
<1> QED
  BY <1>1, <1>2, <1>3 DEF q2

\* A queue the first task is taken from.
LEMMA QueueShrinks ==
  ASSUME NEW q \in Seq(Ordered \X Nat), q # <<>>
  PROVE  /\ Tail(q) \in Seq(Ordered \X Nat)
         /\ Len(Tail(q)) = Len(q) - 1 /\ Len(q) \in Nat \ {0}
         /\ \A i \in 1..(Len(q) - 1) : Tail(q)[i] = q[i + 1]
         /\ \A n, c : Waits(n, q, c) /\ q[1] # <<n, c>> => Waits(n, Tail(q), c)
<1> DEFINE q2 == Tail(q)
<1>1. /\ q2 \in Seq(Ordered \X Nat)
      /\ Len(q2) = Len(q) - 1 /\ Len(q) \in Nat \ {0}
  BY HeadTailProperties
<1>2. \A i \in 1..(Len(q) - 1) : q2[i] = q[i + 1]
  BY <1>1, HeadTailProperties
<1> HIDE DEF q2
<1>3. ASSUME NEW n, NEW c, Waits(n, q, c), q[1] # <<n, c>> PROVE Waits(n, q2, c)
  <2>1. PICK i \in 1..Len(q) : q[i] = <<n, c>>
    BY <1>3 DEF Waits
  <2>2. i # 1 /\ i - 1 \in 1..Len(q2) /\ (i - 1) + 1 = i
    BY <1>1, <1>3, <2>1
  <2>3. q2[i - 1] = q[i]
    BY <1>1, <1>2, <2>2
  <2> QED
    BY <2>1, <2>2, <2>3 DEF Waits
<1> QED
  BY <1>1, <1>2, <1>3 DEF q2

\* The invariant of a node does not depend on the claims of other nodes, and a
\* claim may be given up.
LEMMA FewerClaims ==
  ASSUME NEW n, NEW ag, NEW ag2, NEW nx, NEW qc, NEW q, NEW lo,
         NodeInv(n, ag, nx, qc, q, lo),
         \A u \in Claims(n, ag2) : u \in Claims(n, ag) /\ Top(ag2[u]) = Top(ag[u])
  PROVE  NodeInv(n, ag2, nx, qc, q, lo)
BY DEF NodeInv

\* A claim is a walk.
LEMMA ClaimFacts ==
  ASSUME NEW n, NEW ag \in [Threads -> Agendas], NEW t \in Claims(n, ag)
  PROVE  /\ t \in Threads /\ Top(ag[t]) \in Walk
         /\ Top(ag[t]).do \in {"turn", "enqueue"} /\ Top(ag[t]).n = n
<1>1. /\ t \in Threads /\ Top(ag[t]).do \in {"turn", "enqueue"} /\ Top(ag[t]).n = n
  BY DEF Claims
<1>2. ag[t] # <<>>
  BY <1>1 DEF Top
<1>3. Top(ag[t]) \in Call \cup Walk
  BY <1>1, <1>2, AgendaFacts
<1> QED
  BY <1>1, <1>3, CallCases

\* The other threads keep their agendas.
Others(t, ag, ag2) == \A u \in Threads : u # t => ag2[u] = ag[u]

\* They keep their claims.
LEMMA OthersClaim ==
  ASSUME NEW n, NEW ag, NEW ag2, NEW t, Others(t, ag, ag2)
  PROVE  \A u \in Claims(n, ag2) : u # t => u \in Claims(n, ag) /\ Top(ag2[u]) = Top(ag[u])
BY DEF Claims, Others

\* Swap moves next_clock_: the claim begins where all others end.
LEMMA MovedNode ==
  ASSUME NEW n \in Ordered, NEW ag \in [Threads -> Agendas], NEW t \in Threads, NEW ag2,
         Others(t, ag, ag2), NEW o \in Walk, o.do = "swap", o.n = n,
         Top(ag2[t]) = [o EXCEPT !.do = "turn"],
         NEW qc \in Nat, NEW q \in Seq(Ordered \X Nat), NEW lo \in Nat,
         NodeInv(n, ag, o.clk, qc, q, lo)
  PROVE  NodeInv(n, ag2, o.res, qc, q, lo)
<1>0. o.clk \in Nat /\ o.res \in Nat /\ o.clk < o.res
  BY DEF Walk
<1>1. Len(q) \in Nat /\ \A i \in 1..Len(q) : q[i][2] \in Nat
  OBVIOUS
<1> DEFINE p == [o EXCEPT !.do = "turn"]
<1>2. p.do = "turn" /\ p.clk = o.clk /\ p.res = o.res /\ p.n = n
  BY DEF Walk
<1>3. Top(ag2[t]) = p /\ \A u \in Claims(n, ag2) : u # t => u \in Claims(n, ag) /\ Top(ag2[u]) = Top(ag[u])
  BY OthersClaim
<1> HIDE DEF p
<1>4. Line(n, o.res, qc, q, lo)
  BY <1>0, <1>1 DEF NodeInv, Line
<1>5. ASSUME NEW u \in Claims(n, ag)
      PROVE  /\ Top(ag[u]) \in Walk /\ Top(ag[u]).res <= o.clk
             /\ ClaimOK(n, Top(ag[u]), o.clk, qc, q, lo)
  <2>1. Top(ag[u]) \in Walk /\ ClaimOK(n, Top(ag[u]), o.clk, qc, q, lo)
    BY ClaimFacts DEF NodeInv
  <2> QED
    BY <2>1 DEF ClaimOK
<1>6. ASSUME NEW u \in Claims(n, ag2) PROVE ClaimOK(n, Top(ag2[u]), o.res, qc, q, lo)
  <2>1. CASE u = t
    <3>1. ClaimOK(n, p, o.res, qc, q, lo)
      BY <1>0, <1>1, <1>2 DEF ClaimOK, NodeInv, Line
    <3> QED
      BY <1>3, <2>1, <3>1
  <2>2. CASE u # t
    <3> DEFINE w == Top(ag[u])
    <3>1. w \in Walk /\ w.res <= o.clk /\ ClaimOK(n, w, o.clk, qc, q, lo) /\ Top(ag2[u]) = w
      BY <1>3, <1>5, <2>2
    <3> HIDE DEF w
    <3>2. w.res \in Nat /\ w.res <= o.res
      BY <1>0, <3>1 DEF Walk
    <3>3. ClaimOK(n, w, o.res, qc, q, lo)
      BY <3>1, <3>2 DEF ClaimOK
    <3> QED
      BY <3>1, <3>3
  <2> QED
    BY <2>1, <2>2
<1>7. ASSUME NEW u \in Claims(n, ag2), NEW v \in Claims(n, ag2), u # v
      PROVE  Apart(Top(ag2[u]), Top(ag2[v]))
  <2>1. CASE u # t /\ v # t
    BY <1>3, <1>7, <2>1 DEF NodeInv
  <2>2. CASE u = t
    <3>1. Top(ag2[v]) = Top(ag[v]) /\ Top(ag[v]).res <= o.clk
      BY <1>3, <1>5, <1>7, <2>2
    <3> QED
      BY <1>2, <1>3, <2>2, <3>1 DEF Apart
  <2>3. CASE v = t
    <3>1. Top(ag2[u]) = Top(ag[u]) /\ Top(ag[u]).res <= o.clk
      BY <1>3, <1>5, <1>7, <2>3
    <3> QED
      BY <1>2, <1>3, <2>3, <3>1 DEF Apart
  <2> QED
    BY <2>1, <2>2, <2>3
<1> QED
  BY <1>4, <1>6, <1>7 DEF NodeInv

\* Turn: the claim that queued_clock_ has come to is the first one.
LEMMA TurnedNode ==
  ASSUME NEW n \in Ordered, NEW ag \in [Threads -> Agendas], NEW t \in Threads, NEW ag2,
         Others(t, ag, ag2), NEW o \in Walk, Top(ag[t]) = o, o.do = "turn", o.n = n,
         Top(ag2[t]) = [o EXCEPT !.do = "enqueue"],
         NEW nx \in Nat, NEW qc \in Nat, NEW q \in Seq(Ordered \X Nat), NEW lo \in Nat,
         qc >= o.clk, NodeInv(n, ag, nx, qc, q, lo)
  PROVE  NodeInv(n, ag2, nx, qc, q, lo)
<1>0. o.clk \in Nat /\ o.res \in Nat /\ o.clk < o.res
  BY DEF Walk
<1> DEFINE p == [o EXCEPT !.do = "enqueue"]
<1>1. p.do = "enqueue" /\ p.clk = o.clk /\ p.res = o.res /\ p.n = n
  BY DEF Walk
<1>2. Top(ag2[t]) = p /\ \A u \in Claims(n, ag2) : u # t => u \in Claims(n, ag) /\ Top(ag2[u]) = Top(ag[u])
  BY OthersClaim
<1>3. t \in Claims(n, ag)
  BY DEF Claims
<1> HIDE DEF p
<1>4. Line(n, nx, qc, q, lo) /\ ClaimOK(n, o, nx, qc, q, lo)
  BY <1>3 DEF NodeInv
<1>5. qc = o.clk
  BY <1>0, <1>4 DEF ClaimOK
<1>6. ClaimOK(n, p, nx, qc, q, lo)
  BY <1>0, <1>1, <1>4, <1>5 DEF ClaimOK, Line
<1>7. ASSUME NEW u \in Claims(n, ag), u # t
      PROVE  Apart(p, Top(ag[u])) /\ Apart(Top(ag[u]), p)
  <2> DEFINE w == Top(ag[u])
  <2>1. w \in Walk /\ w.do \in {"turn", "enqueue"}
    BY ClaimFacts
  <2>2. ClaimOK(n, w, nx, qc, q, lo) /\ Apart(w, o)
    BY <1>3, <1>7 DEF NodeInv
  <2> HIDE DEF w
  <2>3. w.clk \in Nat /\ w.res \in Nat /\ w.clk <= w.res /\ (w.do = "turn" => w.clk < w.res)
    BY <2>1 DEF Walk
  <2>4. qc <= w.clk /\ (w.do = "enqueue" => qc < w.res)
    BY <2>2 DEF ClaimOK
  <2>5. w.do # "enqueue"
    BY <1>5, <2>2, <2>3, <2>4 DEF Apart
  <2>6. w.do = "turn"
    BY <2>1, <2>5
  <2>7. p.res <= w.clk
    BY <1>0, <1>1, <1>5, <2>2, <2>3, <2>4, <2>6 DEF Apart
  <2>8. Apart(p, w) /\ Apart(w, p)
    BY <1>1, <2>6, <2>7 DEF Apart
  <2> QED
    BY <2>8 DEF w
<1>8. ASSUME NEW u \in Claims(n, ag2) PROVE ClaimOK(n, Top(ag2[u]), nx, qc, q, lo)
  <2>1. CASE u = t
    BY <1>2, <1>6, <2>1
  <2>2. CASE u # t
    BY <1>2, <2>2 DEF NodeInv
  <2> QED
    BY <2>1, <2>2
<1>9. ASSUME NEW u \in Claims(n, ag2), NEW v \in Claims(n, ag2), u # v
      PROVE  Apart(Top(ag2[u]), Top(ag2[v]))
  <2>1. CASE u # t /\ v # t
    BY <1>2, <1>9, <2>1 DEF NodeInv
  <2>2. CASE u = t
    BY <1>2, <1>7, <1>9, <2>2
  <2>3. CASE v = t
    BY <1>2, <1>7, <1>9, <2>3
  <2> QED
    BY <2>1, <2>2, <2>3
<1> QED
  BY <1>4, <1>8, <1>9 DEF NodeInv

\* Enqueue puts the first clock of the claim in the queue.
LEMMA PutNode ==
  ASSUME NEW n \in Ordered, NEW ag \in [Threads -> Agendas], NEW t \in Threads, NEW ag2,
         Others(t, ag, ag2), NEW o \in Walk, Top(ag[t]) = o, o.do = "enqueue", o.n = n,
         Top(ag2[t]) = [o EXCEPT !.clk = @ + 1], o.clk < o.res,
         NEW nx \in Nat, NEW qc \in Nat, NEW q \in Seq(Ordered \X Nat), NEW lo \in Nat,
         NodeInv(n, ag, nx, qc, q, lo)
  PROVE  NodeInv(n, ag2, nx, qc, Append(q, <<n, o.clk>>), lo)
<1>0. o.clk \in Nat /\ o.res \in Nat
  BY DEF Walk
<1> DEFINE p == [o EXCEPT !.clk = @ + 1]
           e == <<n, o.clk>>
           q2 == Append(q, e)
<1>1. p.do = "enqueue" /\ p.clk = o.clk + 1 /\ p.res = o.res /\ p.n = n
  BY DEF Walk
<1>2. Top(ag2[t]) = p /\ \A u \in Claims(n, ag2) : u # t => u \in Claims(n, ag) /\ Top(ag2[u]) = Top(ag[u])
  BY OthersClaim
<1>3. t \in Claims(n, ag)
  BY DEF Claims
<1>4. e \in Ordered \X Nat /\ e[1] = n /\ e[2] = o.clk
  BY <1>0
<1>5. /\ Len(q2) = Len(q) + 1 /\ Len(q) \in Nat
      /\ \A i \in 1..Len(q) : q2[i] = q[i]
      /\ q2[Len(q) + 1] = e
  BY <1>4, QueueGrows
<1>6. (\A c : Waits(n, q, c) => Waits(n, q2, c)) /\ Waits(n, q2, o.clk)
  BY <1>4, QueueGrows
<1>7. \A i \in 1..Len(q) : q[i][2] \in Nat
  OBVIOUS
<1> HIDE DEF p, e, q2
<1>8. Line(n, nx, qc, q, lo) /\ ClaimOK(n, o, nx, qc, q, lo)
  BY <1>3 DEF NodeInv
<1>9. \A i \in 1..Len(q2) : i \in 1..Len(q) \/ i = Len(q) + 1
  BY <1>5
<1>10. lo <= o.clk /\ qc <= o.clk /\ o.res <= nx /\ qc < o.res
  BY <1>8 DEF ClaimOK
<1>11. Line(n, nx, qc, q2, lo)
  <2>1. qc <= nx /\ lo <= nx /\ \A c \in lo..(qc - 1) : Waits(n, q2, c)
    BY <1>6, <1>8 DEF Line
  <2>2. ASSUME NEW i \in 1..Len(q2), q2[i][1] = n
        PROVE  lo <= q2[i][2] /\ q2[i][2] < nx /\ \A c \in lo..(q2[i][2] - 1) : Waits(n, q2, c)
    <3>1. CASE i \in 1..Len(q)
      BY <1>5, <1>6, <1>8, <2>2, <3>1 DEF Line
    <3>2. CASE i = Len(q) + 1
      <4>1. q2[i][2] = o.clk
        BY <1>4, <1>5, <3>2
      <4>2. \A c \in lo..(o.clk - 1) : Waits(n, q2, c)
        BY <1>6, <1>8 DEF ClaimOK
      <4> QED
        BY <1>0, <1>10, <4>1, <4>2
    <3> QED
      BY <1>9, <3>1, <3>2
  <2>3. ASSUME NEW i \in 1..Len(q2), NEW j \in 1..Len(q2), q2[i][1] = n, q2[j][1] = n, i < j
        PROVE  q2[i][2] < q2[j][2]
    <3>1. i \in 1..Len(q) /\ q2[i] = q[i]
      BY <1>5, <2>3
    <3>2. CASE j \in 1..Len(q)
      BY <1>5, <1>8, <2>3, <3>1, <3>2 DEF Line
    <3>3. CASE j = Len(q) + 1
      <4>1. q2[j][2] = o.clk
        BY <1>4, <1>5, <3>3
      <4>2. q[i][2] < o.clk
        BY <1>8, <2>3, <3>1 DEF ClaimOK
      <4> QED
        BY <3>1, <4>1, <4>2
    <3> QED
      BY <1>9, <3>2, <3>3
  <2> QED
    BY <2>1, <2>2, <2>3 DEF Line
<1>12. ClaimOK(n, p, nx, qc, q2, lo)
  <2>1. qc <= p.clk /\ p.res <= nx /\ lo <= p.clk /\ qc < p.res
    BY <1>0, <1>1, <1>10
  <2>2. ASSUME NEW i \in 1..Len(q2), q2[i][1] = n PROVE q2[i][2] < p.clk
    <3>1. CASE i \in 1..Len(q)
      <4>1. q[i][2] < o.clk /\ q[i][2] \in Nat
        BY <1>5, <1>7, <1>8, <2>2, <3>1 DEF ClaimOK
      <4> QED
        BY <1>0, <1>1, <1>5, <3>1, <4>1
    <3>2. CASE i = Len(q) + 1
      BY <1>0, <1>1, <1>4, <1>5, <3>2
    <3> QED
      BY <1>9, <3>1, <3>2
  <2>3. ASSUME NEW c \in lo..(p.clk - 1) PROVE Waits(n, q2, c)
    <3>1. c \in lo..(o.clk - 1) \/ c = o.clk
      BY <1>0, <1>1
    <3> QED
      BY <1>6, <1>8, <3>1 DEF ClaimOK
  <2> QED
    BY <2>1, <2>2, <2>3 DEF ClaimOK
<1>13. ASSUME NEW u \in Claims(n, ag), u # t
       PROVE  /\ ClaimOK(n, Top(ag[u]), nx, qc, q2, lo)
              /\ Apart(p, Top(ag[u])) /\ Apart(Top(ag[u]), p)
  <2> DEFINE w == Top(ag[u])
  <2>1. w \in Walk /\ w.do \in {"turn", "enqueue"} /\ ClaimOK(n, w, nx, qc, q, lo) /\ Apart(o, w)
    BY <1>3, <1>13, ClaimFacts DEF NodeInv
  <2> HIDE DEF w
  <2>2. w.clk \in Nat /\ o.res <= w.clk /\ w.do # "enqueue"
    BY <2>1 DEF Walk, Apart
  <2>3. ASSUME NEW i \in 1..Len(q2), q2[i][1] = n PROVE q2[i][2] < w.clk
    <3>1. CASE i \in 1..Len(q)
      BY <1>5, <2>1, <2>3, <3>1 DEF ClaimOK
    <3>2. CASE i = Len(q) + 1
      BY <1>0, <1>4, <1>5, <2>2, <3>2
    <3> QED
      BY <1>9, <3>1, <3>2
  <2>4. ClaimOK(n, w, nx, qc, q2, lo)
    BY <2>1, <2>2, <2>3 DEF ClaimOK
  <2>5. Apart(p, w) /\ Apart(w, p)
    BY <1>1, <2>2 DEF Apart
  <2> QED
    BY <2>4, <2>5 DEF w
<1>14. ASSUME NEW u \in Claims(n, ag2) PROVE ClaimOK(n, Top(ag2[u]), nx, qc, q2, lo)
  <2>1. CASE u = t
    BY <1>2, <1>12, <2>1
  <2>2. CASE u # t
    BY <1>2, <1>13, <2>2
  <2> QED
    BY <2>1, <2>2
<1>15. ASSUME NEW u \in Claims(n, ag2), NEW v \in Claims(n, ag2), u # v
       PROVE  Apart(Top(ag2[u]), Top(ag2[v]))
  <2>1. CASE u # t /\ v # t
    BY <1>2, <1>15, <2>1 DEF NodeInv
  <2>2. CASE u = t
    BY <1>2, <1>13, <1>15, <2>2
  <2>3. CASE v = t
    BY <1>2, <1>13, <1>15, <2>3
  <2> QED
    BY <2>1, <2>2, <2>3
<1>16. NodeInv(n, ag2, nx, qc, q2, lo)
  BY <1>11, <1>14, <1>15 DEF NodeInv
<1> QED
  BY <1>16 DEF q2, e

\* What is added to the queue for another node changes nothing.
LEMMA PutOther ==
  ASSUME NEW n, NEW ag, NEW nx \in Nat, NEW qc \in Nat, NEW q \in Seq(Ordered \X Nat), NEW lo \in Nat,
         NEW e \in Ordered \X Nat, e[1] # n, NodeInv(n, ag, nx, qc, q, lo)
  PROVE  NodeInv(n, ag, nx, qc, Append(q, e), lo)
<1> DEFINE q2 == Append(q, e)
<1>1. /\ Len(q2) = Len(q) + 1 /\ Len(q) \in Nat
      /\ \A i \in 1..Len(q) : q2[i] = q[i]
      /\ q2[Len(q) + 1] = e
  BY QueueGrows
<1>2. \A c : Waits(n, q, c) => Waits(n, q2, c)
  BY QueueGrows
<1> HIDE DEF q2
<1>3. \A i \in 1..Len(q2) : q2[i][1] = n => i \in 1..Len(q) /\ q2[i] = q[i]
  BY SMTT(40), <1>1
<1>4. Line(n, nx, qc, q2, lo)
  <2>1. Line(n, nx, qc, q, lo)
    BY DEF NodeInv
  <2>2. qc <= nx /\ lo <= nx /\ \A c \in lo..(qc - 1) : Waits(n, q2, c)
    BY <1>2, <2>1 DEF Line
  <2>3. ASSUME NEW i \in 1..Len(q2), q2[i][1] = n
        PROVE  lo <= q2[i][2] /\ q2[i][2] < nx /\ \A c \in lo..(q2[i][2] - 1) : Waits(n, q2, c)
    BY <1>2, <1>3, <2>1, <2>3 DEF Line
  <2>4. ASSUME NEW i \in 1..Len(q2), NEW j \in 1..Len(q2), q2[i][1] = n, q2[j][1] = n, i < j
        PROVE  q2[i][2] < q2[j][2]
    BY <1>3, <2>1, <2>4 DEF Line
  <2> QED
    BY <2>2, <2>3, <2>4 DEF Line
<1>5. ASSUME NEW t \in Claims(n, ag) PROVE ClaimOK(n, Top(ag[t]), nx, qc, q2, lo)
  <2> DEFINE w == Top(ag[t])
  <2>1. ClaimOK(n, w, nx, qc, q, lo)
    BY DEF NodeInv
  <2> HIDE DEF w
  <2>2. ClaimOK(n, w, nx, qc, q2, lo)
    BY <1>2, <1>3, <2>1 DEF ClaimOK
  <2> QED
    BY <2>2 DEF w
<1>6. NodeInv(n, ag, nx, qc, q2, lo)
  BY <1>4, <1>5 DEF NodeInv
<1> QED
  BY <1>6 DEF q2

\* Enqueue is through with a claim and sets queued_clock_.
LEMMA ToldNode ==
  ASSUME NEW n \in Ordered, NEW ag \in [Threads -> Agendas], NEW t \in Threads, NEW ag2,
         Others(t, ag, ag2), NEW o \in Walk, Top(ag[t]) = o, o.do = "enqueue", o.n = n,
         Top(ag2[t]).do \notin {"turn", "enqueue"}, o.clk = o.res,
         NEW nx \in Nat, NEW qc \in Nat, NEW q \in Seq(Ordered \X Nat), NEW lo \in Nat,
         NodeInv(n, ag, nx, qc, q, lo)
  PROVE  NodeInv(n, ag2, nx, o.res, q, lo)
<1>0. o.clk \in Nat /\ o.res \in Nat
  BY DEF Walk
<1>1. t \in Claims(n, ag) /\ t \notin Claims(n, ag2)
  BY DEF Claims
<1>2. \A u \in Claims(n, ag2) : u # t /\ u \in Claims(n, ag) /\ Top(ag2[u]) = Top(ag[u])
  BY <1>1, OthersClaim
<1>3. Line(n, nx, qc, q, lo) /\ ClaimOK(n, o, nx, qc, q, lo)
  BY <1>1 DEF NodeInv
<1>4. Line(n, nx, o.res, q, lo)
  <2>1. o.res <= nx /\ \A c \in lo..(o.res - 1) : Waits(n, q, c)
    BY <1>3 DEF ClaimOK
  <2> QED
    BY <1>3, <2>1 DEF Line
<1>5. ASSUME NEW u \in Claims(n, ag2) PROVE ClaimOK(n, Top(ag2[u]), nx, o.res, q, lo)
  <2> DEFINE w == Top(ag2[u])
  <2>1. ClaimOK(n, w, nx, qc, q, lo) /\ Apart(o, w)
    BY <1>1, <1>2 DEF NodeInv
  <2> HIDE DEF w
  <2>2. o.res <= w.clk /\ w.do # "enqueue"
    BY <2>1 DEF Apart
  <2>3. ClaimOK(n, w, nx, o.res, q, lo)
    BY <2>1, <2>2 DEF ClaimOK
  <2> QED
    BY <2>3 DEF w
<1>6. ASSUME NEW u \in Claims(n, ag2), NEW v \in Claims(n, ag2), u # v
      PROVE  Apart(Top(ag2[u]), Top(ag2[v]))
  BY <1>2, <1>6 DEF NodeInv
<1> QED
  BY <1>4, <1>5, <1>6 DEF NodeInv

\* The first task in the queue of a node is for the token the node has
\* stopped at.
LEMMA FirstIsNext ==
  ASSUME NEW n, NEW nx \in Nat, NEW qc \in Nat, NEW q \in Seq(Ordered \X Nat), NEW lo \in Nat,
         q # <<>>, Head(q)[1] = n, Line(n, nx, qc, q, lo)
  PROVE  Head(q)[2] = lo /\ q[1] = <<n, lo>>
<1>1. Head(q) = q[1] /\ Len(q) \in Nat /\ 1 \in 1..Len(q) /\ q[1] \in Ordered \X Nat
  OBVIOUS
<1>2. lo <= q[1][2] /\ q[1][2] \in Nat
  BY <1>1 DEF Line
<1>3. ASSUME lo < q[1][2] PROVE FALSE
  <2>1. lo \in lo..(q[1][2] - 1)
    BY <1>2, <1>3
  <2>2. Waits(n, q, lo)
    BY <1>1, <2>1 DEF Line
  <2>3. PICK i \in 1..Len(q) : q[i] = <<n, lo>>
    BY <2>2 DEF Waits
  <2>4. q[i][1] = n /\ q[i][2] = lo
    BY <2>3
  <2>5. i # 1
    BY <1>3, <2>4
  <2>6. 1 < i
    BY <1>1, <2>5
  <2>7. q[1][2] < q[i][2]
    BY <1>1, <2>4, <2>6 DEF Line
  <2> QED
    BY <1>2, <1>3, <2>4, <2>7
<1>4. q[1][2] = lo /\ q[1][1] = n
  BY <1>1, <1>2, <1>3
<1> QED
  BY <1>1, <1>4

\* The node takes it.
LEMMA TakenNode ==
  ASSUME NEW n \in Ordered, NEW ag \in [Threads -> Agendas],
         NEW nx \in Nat, NEW qc \in Nat, NEW q \in Seq(Ordered \X Nat), NEW lo \in Nat,
         q # <<>>, Head(q)[1] = n, NodeInv(n, ag, nx, qc, q, lo)
  PROVE  NodeInv(n, ag, nx, qc, Tail(q), lo + 1)
<1> DEFINE q2 == Tail(q)
<1>1. /\ Len(q2) = Len(q) - 1 /\ Len(q) \in Nat \ {0}
      /\ \A i \in 1..(Len(q) - 1) : q2[i] = q[i + 1]
  BY QueueShrinks
<1>2. \A c : Waits(n, q, c) /\ q[1] # <<n, c>> => Waits(n, q2, c)
  BY QueueShrinks
<1>3. \A i \in 1..Len(q) : q[i][2] \in Nat
  OBVIOUS
<1>4. Line(n, nx, qc, q, lo)
  BY DEF NodeInv
<1>5. q[1] = <<n, lo>> /\ q[1][1] = n /\ q[1][2] = lo /\ 1 \in 1..Len(q)
  <2>1. q[1] = <<n, lo>>
    BY <1>4, FirstIsNext
  <2>2. 1 \in 1..Len(q)
    BY <1>1
  <2> QED
    BY <2>1, <2>2
<1> HIDE DEF q2
<1>6. \A i \in 1..Len(q2) : i + 1 \in 1..Len(q) /\ 1 < i + 1 /\ q2[i] = q[i + 1]
  BY <1>1
<1>7. \A c \in Nat : lo + 1 <= c /\ Waits(n, q, c) => Waits(n, q2, c)
  <2> TAKE c \in Nat
  <2>1. lo + 1 <= c => q[1] # <<n, c>>
    BY <1>5
  <2> QED
    BY <1>2, <2>1
<1>8. Line(n, nx, qc, q2, lo + 1)
  <2>1. qc <= nx /\ lo + 1 <= nx
    BY <1>4, <1>5 DEF Line
  <2>2. ASSUME NEW c \in (lo + 1)..(qc - 1) PROVE Waits(n, q2, c)
    <3>1. c \in Nat /\ lo + 1 <= c /\ c \in lo..(qc - 1)
      OBVIOUS
    <3> QED
      BY <1>4, <1>7, <3>1 DEF Line
  <2>3. ASSUME NEW i \in 1..Len(q2), q2[i][1] = n
        PROVE  lo + 1 <= q2[i][2] /\ q2[i][2] < nx /\ \A c \in (lo + 1)..(q2[i][2] - 1) : Waits(n, q2, c)
    <3> DEFINE k == i + 1
    <3>1. k \in 1..Len(q) /\ 1 < k /\ q2[i] = q[k]
      BY <1>6
    <3> HIDE DEF k
    <3>2. q[k][1] = n /\ q[k][2] \in Nat
      BY <1>3, <2>3, <3>1
    <3>3. q[1][2] < q[k][2] /\ q[k][2] < nx
      BY <1>4, <1>5, <3>1, <3>2 DEF Line
    <3>4. ASSUME NEW c \in (lo + 1)..(q[k][2] - 1) PROVE Waits(n, q2, c)
      <4>1. c \in Nat /\ lo + 1 <= c /\ c \in lo..(q[k][2] - 1)
        BY SMTT(40), <3>2
      <4>2. Waits(n, q, c)
        BY <1>4, <3>1, <3>2, <4>1 DEF Line
      <4> QED
        BY <1>7, <4>1, <4>2
    <3> QED
      BY <1>5, <3>1, <3>2, <3>3, <3>4
  <2>4. ASSUME NEW i \in 1..Len(q2), NEW j \in 1..Len(q2), q2[i][1] = n, q2[j][1] = n, i < j
        PROVE  q2[i][2] < q2[j][2]
    <3> DEFINE k == i + 1
               l == j + 1
    <3>1. k \in 1..Len(q) /\ l \in 1..Len(q) /\ k < l /\ q2[i] = q[k] /\ q2[j] = q[l]
      <4>1. k \in 1..Len(q) /\ q2[i] = q[k]
        BY <1>6
      <4>2. l \in 1..Len(q) /\ q2[j] = q[l]
        BY <1>6
      <4>3. k < l
        BY <1>1, <2>4
      <4> QED
        BY <4>1, <4>2, <4>3
    <3> HIDE DEF k, l
    <3> QED
      BY <1>4, <2>4, <3>1 DEF Line
  <2> QED
    BY <2>1, <2>2, <2>3, <2>4 DEF Line
<1>9. ASSUME NEW t \in Claims(n, ag) PROVE ClaimOK(n, Top(ag[t]), nx, qc, q2, lo + 1)
  <2> DEFINE w == Top(ag[t])
  <2>1. w \in Walk /\ ClaimOK(n, w, nx, qc, q, lo)
    BY ClaimFacts DEF NodeInv
  <2> HIDE DEF w
  <2>2. w.clk \in Nat
    BY <2>1 DEF Walk
  <2>3. lo < w.clk
    BY <1>5, <2>1 DEF ClaimOK
  <2>4. ASSUME NEW i \in 1..Len(q2), q2[i][1] = n PROVE q2[i][2] < w.clk
    BY <1>6, <2>1, <2>4 DEF ClaimOK
  <2>5. ASSUME w.do = "enqueue", NEW c \in (lo + 1)..(w.clk - 1) PROVE Waits(n, q2, c)
    <3>1. c \in Nat /\ lo + 1 <= c /\ c \in lo..(w.clk - 1)
      BY <2>2
    <3> QED
      BY <1>7, <2>1, <2>5, <3>1 DEF ClaimOK
  <2>6. ClaimOK(n, w, nx, qc, q2, lo + 1)
    BY <2>1, <2>2, <2>3, <2>4, <2>5 DEF ClaimOK
  <2> QED
    BY <2>6 DEF w
<1>10. NodeInv(n, ag, nx, qc, q2, lo + 1)
  BY <1>8, <1>9 DEF NodeInv
<1> QED
  BY <1>10 DEF q2

\* What is taken from the queue for another node changes nothing.
LEMMA TakenOther ==
  ASSUME NEW n, NEW ag, NEW nx \in Nat, NEW qc \in Nat, NEW q \in Seq(Ordered \X Nat), NEW lo \in Nat,
         q # <<>>, Head(q)[1] # n, NodeInv(n, ag, nx, qc, q, lo)
  PROVE  NodeInv(n, ag, nx, qc, Tail(q), lo)
<1> DEFINE q2 == Tail(q)
<1>1. /\ Len(q2) = Len(q) - 1 /\ Len(q) \in Nat \ {0}
      /\ \A i \in 1..(Len(q) - 1) : q2[i] = q[i + 1]
  BY QueueShrinks
<1>2. Head(q) = q[1]
  OBVIOUS
<1>3. \A c : Waits(n, q, c) => Waits(n, q2, c)
  <2>1. \A c : Waits(n, q, c) /\ q[1] # <<n, c>> => Waits(n, q2, c)
    BY QueueShrinks
  <2>2. \A c : q[1] # <<n, c>>
    BY <1>2
  <2> QED
    BY <2>1, <2>2
<1> HIDE DEF q2
<1>4. \A i \in 1..Len(q2) : i + 1 \in 1..Len(q) /\ q2[i] = q[i + 1]
  BY <1>1
<1>5. Line(n, nx, qc, q2, lo)
  <2>1. Line(n, nx, qc, q, lo)
    BY DEF NodeInv
  <2>2. qc <= nx /\ lo <= nx /\ \A c \in lo..(qc - 1) : Waits(n, q2, c)
    BY <1>3, <2>1 DEF Line
  <2>3. ASSUME NEW i \in 1..Len(q2), q2[i][1] = n
        PROVE  lo <= q2[i][2] /\ q2[i][2] < nx /\ \A c \in lo..(q2[i][2] - 1) : Waits(n, q2, c)
    BY <1>3, <1>4, <2>1, <2>3 DEF Line
  <2>4. ASSUME NEW i \in 1..Len(q2), NEW j \in 1..Len(q2), q2[i][1] = n, q2[j][1] = n, i < j
        PROVE  q2[i][2] < q2[j][2]
    <3> DEFINE k == i + 1
               l == j + 1
    <3>1. k \in 1..Len(q) /\ l \in 1..Len(q) /\ k < l /\ q2[i] = q[k] /\ q2[j] = q[l]
      <4>1. k \in 1..Len(q) /\ q2[i] = q[k]
        BY <1>4
      <4>2. l \in 1..Len(q) /\ q2[j] = q[l]
        BY <1>4
      <4>3. k < l
        BY <1>1, <2>4
      <4> QED
        BY <4>1, <4>2, <4>3
    <3> HIDE DEF k, l
    <3> QED
      BY <2>1, <2>4, <3>1 DEF Line
  <2> QED
    BY <2>2, <2>3, <2>4 DEF Line
<1>6. ASSUME NEW t \in Claims(n, ag) PROVE ClaimOK(n, Top(ag[t]), nx, qc, q2, lo)
  <2> DEFINE w == Top(ag[t])
  <2>1. ClaimOK(n, w, nx, qc, q, lo)
    BY DEF NodeInv
  <2> HIDE DEF w
  <2>2. ClaimOK(n, w, nx, qc, q2, lo)
    BY <1>3, <1>4, <2>1 DEF ClaimOK
  <2> QED
    BY <2>2 DEF w
<1>7. NodeInv(n, ag, nx, qc, q2, lo)
  BY <1>5, <1>6 DEF NodeInv
<1> QED
  BY <1>7 DEF q2

-----------------------------------------------------------------------------
(* The order of the tokens                                                 *)

\* In the beginning nobody has a claim and nothing is in a queue.
LEMMA InitOrder ==
  ASSUME Init
  PROVE  OrderInv
<1> SUFFICES ASSUME NEW n \in Ordered
             PROVE  /\ ran[n] = [i \in 1..Len(ran[n]) |-> i - 1]
                    /\ NodeInv(n, agenda, next_clock[n], queued_clock[n], queue[QueueOf[n]], Len(ran[n]))
  BY DEF OrderInv
<1>1. QueueOf[n] \in Queues
  BY DEF Queues
<1>2. ran[n] = <<>> /\ queue[QueueOf[n]] = <<>> /\ next_clock[n] = 0 /\ queued_clock[n] = 0
  BY <1>1 DEF Init
<1>3. Claims(n, agenda) = {}
  BY DEF Init, Claims, Top
<1>4. Line(n, 0, 0, <<>>, 0)
  BY DEF Line
<1>5. Len(ran[n]) = 0
  BY <1>2
<1>6. ran[n] = [i \in 1..Len(ran[n]) |-> i - 1]
  BY <1>2
<1> QED
  BY <1>2, <1>3, <1>4, <1>5, <1>6 DEF NodeInv

\* A thread that goes on leaves the others alone.
LEMMA GoesOnFacts ==
  ASSUME TypeOK, NEW t \in Threads, NEW s, GoesOn(t, s)
  PROVE  Others(t, agenda, agenda') /\ agenda'[t] = s
BY DEF TypeOK, GoesOn, Others

\* What a step leaves to a node when the thread that takes it makes no claim
\* on that node.
LEMMA NoNewClaim ==
  ASSUME TypeOK, NEW t \in Threads, NEW s, GoesOn(t, s), NEW n,
         ~ (Top(s).do \in {"turn", "enqueue"} /\ Top(s).n = n),
         NEW nx, NEW qc, NEW q, NEW lo, NodeInv(n, agenda, nx, qc, q, lo)
  PROVE  NodeInv(n, agenda', nx, qc, q, lo)
<1>1. Others(t, agenda, agenda') /\ agenda'[t] = s
  BY GoesOnFacts
<1>2. t \notin Claims(n, agenda')
  BY <1>1 DEF Claims
<1>3. \A u \in Claims(n, agenda') : u # t => u \in Claims(n, agenda) /\ Top(agenda'[u]) = Top(agenda[u])
  BY <1>1, OthersClaim
<1>4. \A u \in Claims(n, agenda') : u \in Claims(n, agenda) /\ Top(agenda'[u]) = Top(agenda[u])
  BY <1>2, <1>3
<1> QED
  BY <1>4, FewerClaims

\* The steps that leave the order alone keep the invariant.
LEMMA PassesOrder ==
  ASSUME TypeOK, OrderInv, Passes
  PROVE  OrderInv'
<1>0. UNCHANGED <<next_clock, queued_clock, queue, ran>>
  BY DEF Passes, ordered
<1>1. CASE agenda' = agenda
  BY <1>0, <1>1 DEF OrderInv
<1>2. ASSUME NEW t \in Threads, NEW s, GoesOn(t, s), Top(s).do \notin {"turn", "enqueue"}
      PROVE  OrderInv'
  <2>1. ASSUME NEW n \in Ordered
        PROVE  NodeInv(n, agenda', next_clock[n], queued_clock[n], queue[QueueOf[n]], Len(ran[n]))
    <3>1. NodeInv(n, agenda, next_clock[n], queued_clock[n], queue[QueueOf[n]], Len(ran[n]))
      BY DEF OrderInv
    <3> QED
      BY <1>2, <3>1, NoNewClaim
  <2> QED
    BY <1>0, <2>1 DEF OrderInv
<1> QED
  BY <1>1, <1>2 DEF Passes

\* So do the steps of a claim.
LEMMA ClaimOrder ==
  ASSUME TypeOK, OrderInv, NEW t \in Threads, NEW o, NEW s,
         Moved(t, o, s) \/ Turned(t, o, s) \/ Put(t, o, s) \/ Told(t, o, s)
  PROVE  OrderInv'
<1>0. /\ o \in Walk /\ o.n \in Ordered /\ o.clk \in Nat /\ Top(agenda[t]) = o
      /\ GoesOn(t, s) /\ UNCHANGED ran
  BY DEF Moved, Turned, Put, Told, Walk, ordered
<1>1. Others(t, agenda, agenda') /\ agenda'[t] = s
  BY <1>0, GoesOnFacts
<1>2. agenda \in [Threads -> Agendas]
  BY DEF TypeOK
<1> SUFFICES ASSUME NEW n \in Ordered
             PROVE  NodeInv(n, agenda', next_clock'[n], queued_clock'[n], queue'[QueueOf[n]], Len(ran[n]))
  BY <1>0 DEF OrderInv
<1> DEFINE nx == next_clock[n]
           qc == queued_clock[n]
           q == queue[QueueOf[n]]
           lo == Len(ran[n])
<1>3. nx \in Nat /\ qc \in Nat /\ q \in Seq(Ordered \X Nat) /\ lo \in Nat /\ QueueOf[n] \in Queues
  <2>1. QueueOf[n] \in Queues
    BY DEF Queues
  <2>2. ran[n] \in Seq(Nat)
    BY DEF TypeOK
  <2>3. lo \in Nat
    BY <2>2
  <2> QED
    BY <2>1, <2>3 DEF TypeOK
<1>4. NodeInv(n, agenda, nx, qc, q, lo)
  BY DEF OrderInv
<1>5. Top(s).do \in {"turn", "enqueue"} => Top(s).n = o.n
  <2>1. /\ [o EXCEPT !.do = "turn"].n = o.n
        /\ [o EXCEPT !.do = "enqueue"].n = o.n
        /\ [o EXCEPT !.clk = @ + 1].n = o.n
    BY <1>0 DEF Walk
  <2> QED
    BY <2>1 DEF Moved, Turned, Put, Told
<1>6. n # o.n => NodeInv(n, agenda', nx, qc, q, lo)
  BY <1>0, <1>4, <1>5, NoNewClaim
<1>7. CASE Moved(t, o, s)
  <2>1. queued_clock'[n] = qc /\ queue'[QueueOf[n]] = q
    BY <1>7 DEF Moved
  <2>2. CASE n = o.n
    <3>1. next_clock'[n] = o.res /\ nx = o.clk
      BY <1>7, <2>2 DEF Moved, TypeOK
    <3>2. NodeInv(n, agenda', o.res, qc, q, lo)
      <4> HIDE DEF nx, qc, q, lo
      <4>1. o.do = "swap" /\ Top(agenda'[t]) = [o EXCEPT !.do = "turn"]
        BY <1>1, <1>7 DEF Moved
      <4>2. NodeInv(n, agenda, o.clk, qc, q, lo)
        BY <1>4, <3>1
      <4> QED
        BY <1>0, <1>1, <1>2, <1>3, <2>2, <4>1, <4>2, MovedNode
    <3> QED
      BY <2>1, <3>1, <3>2
  <2>3. CASE n # o.n
    <3>1. next_clock'[n] = nx
      BY <1>7, <2>3 DEF Moved, TypeOK
    <3> QED
      BY <1>6, <2>1, <2>3, <3>1
  <2> QED
    BY <2>2, <2>3
<1>8. CASE Turned(t, o, s)
  <2>1. next_clock'[n] = nx /\ queued_clock'[n] = qc /\ queue'[QueueOf[n]] = q
    BY <1>8 DEF Turned, ordered
  <2>2. NodeInv(n, agenda', nx, qc, q, lo)
    <3>1. CASE n = o.n
      <4>1. qc >= o.clk
        BY <1>8, <3>1 DEF Turned
      <4> HIDE DEF nx, qc, q, lo
      <4>2. o.do = "turn" /\ Top(agenda'[t]) = [o EXCEPT !.do = "enqueue"]
        BY <1>1, <1>8 DEF Turned
      <4> QED
        BY <1>0, <1>1, <1>2, <1>3, <1>4, <3>1, <4>1, <4>2, TurnedNode
    <3> QED
      BY <1>6, <3>1
  <2> QED
    BY <2>1, <2>2
<1>9. CASE Put(t, o, s)
  <2> DEFINE e == <<o.n, o.clk>>
  <2>0. e \in Ordered \X Nat /\ e[1] = o.n
    BY <1>0
  <2>1. next_clock'[n] = nx /\ queued_clock'[n] = qc
    BY <1>9 DEF Put
  <2>2. queue' = [queue EXCEPT ![QueueOf[o.n]] = Append(@, e)] /\ queue \in [Queues -> Seq(Ordered \X Nat)]
    BY <1>9 DEF Put, TypeOK
  <2>3. CASE n = o.n
    <3>1. queue'[QueueOf[n]] = Append(q, <<n, o.clk>>)
      BY <1>3, <2>2, <2>3
    <3>2. NodeInv(n, agenda', nx, qc, Append(q, <<n, o.clk>>), lo)
      <4> HIDE DEF nx, qc, q, lo
      <4>1. o.do = "enqueue" /\ o.clk < o.res /\ Top(agenda'[t]) = [o EXCEPT !.clk = @ + 1]
        BY <1>1, <1>9 DEF Put
      <4> QED
        BY <1>0, <1>1, <1>2, <1>3, <1>4, <2>3, <4>1, PutNode
    <3> QED
      BY <2>1, <3>1, <3>2
  <2>4. CASE n # o.n /\ QueueOf[n] = QueueOf[o.n]
    <3>1. queue'[QueueOf[n]] = Append(q, e)
      BY <1>3, <2>2, <2>4
    <3>2. NodeInv(n, agenda', nx, qc, Append(q, e), lo)
      <4> HIDE DEF nx, qc, q, lo, e
      <4> QED
        BY <1>3, <1>6, <2>0, <2>4, PutOther
    <3> QED
      BY <2>1, <3>1, <3>2
  <2>5. CASE n # o.n /\ QueueOf[n] # QueueOf[o.n]
    <3>1. queue'[QueueOf[n]] = q
      BY <1>3, <2>2, <2>5
    <3> QED
      BY <1>6, <2>1, <2>5, <3>1
  <2> QED
    BY <2>3, <2>4, <2>5
<1>10. CASE Told(t, o, s)
  <2>1. next_clock'[n] = nx /\ queue'[QueueOf[n]] = q
    BY <1>10 DEF Told
  <2>2. CASE n = o.n
    <3>1. queued_clock'[n] = o.res
      BY <1>10, <2>2 DEF Told, TypeOK
    <3>2. NodeInv(n, agenda', nx, o.res, q, lo)
      <4> HIDE DEF nx, qc, q, lo
      <4>1. o.do = "enqueue" /\ o.clk = o.res /\ Top(agenda'[t]).do \notin {"turn", "enqueue"}
        BY <1>1, <1>10 DEF Told
      <4> QED
        BY <1>0, <1>1, <1>2, <1>3, <1>4, <2>2, <4>1, ToldNode
    <3> QED
      BY <2>1, <3>1, <3>2
  <2>3. CASE n # o.n
    <3>1. queued_clock'[n] = qc
      BY <1>10, <2>3 DEF Told, TypeOK
    <3> QED
      BY <1>6, <2>1, <2>3, <3>1
  <2> QED
    BY <2>2, <2>3
<1> QED
  BY <1>7, <1>8, <1>9, <1>10

\* So does a node that takes a token.
LEMMA TakenOrder ==
  ASSUME TypeOK, OrderInv, NEW a \in Tasks, NEW s, Taken(a, s)
  PROVE  OrderInv'
<1>0. a \in Threads /\ a[1] \in Ordered /\ a[2] \in Nat /\ GoesOn(a, s) /\ Top(s).do \notin {"turn", "enqueue"}
  BY DEF Taken, Threads
<1> SUFFICES ASSUME NEW n \in Ordered
             PROVE  /\ ran'[n] = [i \in 1..Len(ran'[n]) |-> i - 1]
                    /\ NodeInv(n, agenda', next_clock'[n], queued_clock'[n], queue'[QueueOf[n]], Len(ran'[n]))
  BY DEF OrderInv
<1> DEFINE nx == next_clock[n]
           qc == queued_clock[n]
           q == queue[QueueOf[n]]
           r == ran[n]
           lo == Len(r)
<1>1. nx \in Nat /\ qc \in Nat /\ q \in Seq(Ordered \X Nat) /\ lo \in Nat /\ QueueOf[n] \in Queues /\ r \in Seq(Nat)
  BY DEF TypeOK, Queues
<1>2. r = [i \in 1..lo |-> i - 1] /\ NodeInv(n, agenda, nx, qc, q, lo)
  BY DEF OrderInv
<1>3. NodeInv(n, agenda', nx, qc, q, lo)
  BY <1>0, <1>2, NoNewClaim
<1>4. next_clock'[n] = nx /\ queued_clock'[n] = qc
  BY DEF Taken
<1>5. agenda' \in [Threads -> Agendas]
  BY <1>0 DEF GoesOn, TypeOK
<1>6. /\ queue[QueueOf[a[1]]] # <<>> /\ Head(queue[QueueOf[a[1]]]) = a
      /\ queue' = [queue EXCEPT ![QueueOf[a[1]]] = Tail(@)] /\ queue \in [Queues -> Seq(Ordered \X Nat)]
      /\ ran' = [ran EXCEPT ![a[1]] = Append(@, a[2])] /\ ran \in [Ordered -> Seq(Nat)]
  BY DEF Taken, TypeOK
<1>7. CASE n = a[1]
  <2>1. queue'[QueueOf[n]] = Tail(q) /\ ran'[n] = Append(r, a[2]) /\ q # <<>> /\ Head(q) = a /\ Head(q)[1] = n
    BY <1>1, <1>6, <1>7
  <2> HIDE DEF nx, qc, q, r
  <2>2. a[2] = lo
    <3>1. Line(n, nx, qc, q, lo)
      BY <1>2 DEF NodeInv
    <3> HIDE DEF lo
    <3>2. q # <<>> /\ Head(q)[1] = n /\ Head(q) = a
      BY <2>1
    <3>3. Head(q)[2] = lo
      BY <1>1, <3>1, <3>2, FirstIsNext
    <3> QED
      BY <3>2, <3>3
  <2>3. Len(ran'[n]) = lo + 1
    BY <1>1, <2>1, <2>2
  <2>4. NodeInv(n, agenda', nx, qc, Tail(q), lo + 1)
    BY <1>1, <1>3, <1>5, <2>1, TakenNode
  <2>5. Append(r, lo) = [i \in 1..(lo + 1) |-> i - 1]
    <3> DEFINE r2 == Append(r, lo)
    <3>1. r2 \in Seq(Nat) /\ Len(r2) = lo + 1
      BY <1>1
    <3>2. r2 \in [1..(lo + 1) -> Nat]
      BY <3>1, LenProperties
    <3>3. ASSUME NEW i \in 1..(lo + 1) PROVE r2[i] = i - 1
      <4>1. CASE i \in 1..lo
        <5>1. r2[i] = r[i]
          BY <1>1, <4>1
        <5>2. r[i] = i - 1
          BY <1>2, <4>1
        <5> QED
          BY <5>1, <5>2
      <4>2. CASE i = lo + 1
        BY <1>1, <4>2
      <4> QED
        BY <1>1, <4>1, <4>2
    <3> HIDE DEF r2
    <3>4. r2 = [i \in 1..(lo + 1) |-> i - 1]
      BY <3>2, <3>3
    <3> QED
      BY <3>4 DEF r2
  <2> QED
    BY <1>4, <2>1, <2>2, <2>3, <2>4, <2>5
<1>8. CASE n # a[1] /\ QueueOf[n] = QueueOf[a[1]]
  <2>1. queue'[QueueOf[n]] = Tail(q) /\ ran'[n] = r /\ q # <<>> /\ Head(q)[1] # n
    BY <1>0, <1>1, <1>6, <1>8
  <2> HIDE DEF nx, qc, q, r
  <2>2. NodeInv(n, agenda', nx, qc, Tail(q), lo)
    BY <1>1, <1>3, <2>1, TakenOther
  <2> QED
    BY <1>2, <1>4, <2>1, <2>2
<1>9. CASE n # a[1] /\ QueueOf[n] # QueueOf[a[1]]
  <2>1. queue'[QueueOf[n]] = q /\ ran'[n] = r
    BY <1>1, <1>6, <1>9
  <2> QED
    BY <1>2, <1>3, <1>4, <2>1
<1> QED
  BY <1>7, <1>8, <1>9

\* The inductive invariant: the claims and the queues of every ordered node.
THEOREM SpecOrderInv == Spec => [](TypeOK /\ OrderInv)
<1>1. Init => TypeOK /\ OrderInv
  BY InitType, InitOrder
<1>2. ASSUME TypeOK, OrderInv, [Next]_vars PROVE (TypeOK /\ OrderInv)'
  <2>1. Effect
    BY <1>2, StepEffect
  <2>2. OrderInv'
    BY <1>2, <2>1, PassesOrder, ClaimOrder, TakenOrder DEF Effect
  <2> QED
    BY <1>2, <2>2, StepType
<1> QED
  BY <1>1, <1>2, PTL DEF Spec

\* A serial process and a sink take the tokens in order, none left out and none
\* twice, in every network, whichever threads complete them (process.h, sink.h).
THEOREM TokensInOrderHolds == Spec => []TokensInOrder
<1>1. OrderInv => TokensInOrder
  BY DEF OrderInv, TokensInOrder
<1> QED
  BY <1>1, SpecOrderInv, PTL
=============================================================================
