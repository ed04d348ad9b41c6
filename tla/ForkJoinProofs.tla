--------------------------- MODULE ForkJoinProofs ---------------------------
(***************************************************************************)
(* Lemmas about frames, slots and queues; the steps of the MTAPI runtime   *)
(* under a fork-join program keep the invariant of module ForkJoinFrames;  *)
(* what follows from it.                                                   *)
(***************************************************************************)
EXTENDS ForkJoinFrames, SequenceTheorems, FiniteSetTheorems, WellFoundedInduction, TLAPS

-----------------------------------------------------------------------------
(* Lemmas about frames                                                     *)

\* What the point of a frame says of its fields.
LEMMA FrameKinds ==
  ASSUME NEW f \in FrameSet
  PROVE  /\ f.at \in StartPoints => f \in StartFrames
         /\ f.at = "wait" => f \in WaitFrames
         /\ f.at \in {"loop", "take"} => f \in SeekFrames
         /\ f.at \in {"asleep", "waiting", "awake"} => f \in SleepFrames
         /\ f.at \in {"dispatch", "exec"} => f \in GotFrames
         /\ f.at = "execCall" => f \in CallFrames
         /\ f.at = "execTodo" => f \in TodoFrames
         /\ f.at \in {"execDone", "execCount"} => f \in DoneFrames
         /\ f.at = "execGroup" => f \in EndFrames
         /\ f.at = "user" => f \in MainFrames \/ f \in BodyFrames
  BY DEF FrameSet, MainFrames, BodyFrames, StartFrames, WaitFrames, SeekFrames,
         SleepFrames, GotFrames, CallFrames, TodoFrames, DoneFrames, EndFrames, StartPoints

\* The points there are.
LEMMA FramePoints ==
  ASSUME NEW f \in FrameSet
  PROVE  f.at \in StartPoints \cup ExecPoints \cup BasePoints \cup {"user", "wait", "take", "dispatch"}
  BY DEF FrameSet, MainFrames, BodyFrames, StartFrames, WaitFrames, SeekFrames,
         SleepFrames, GotFrames, CallFrames, TodoFrames, DoneFrames, EndFrames, StartPoints,
         ExecPoints, BasePoints

\* A stack whose top is replaced by a frame.
LEMMA Replaced ==
  ASSUME NEW X, NEW st \in Seq(X), st # <<>>, NEW f \in X
  PROVE  LET r == <<f>> \o Tail(st) IN
         /\ r \in Seq(X) /\ Len(r) = Len(st) /\ Len(st) \in Nat \ {0} /\ Fm(r, Len(r)) = f
         /\ \A d \in 1..(Len(st) - 1) : Fm(r, d) = Fm(st, d)
  BY DEF Fm

\* A stack with one more frame.
LEMMA Pushed ==
  ASSUME NEW X, NEW st \in Seq(X), NEW f \in X
  PROVE  LET r == <<f>> \o st IN
         /\ r \in Seq(X) /\ Len(r) = Len(st) + 1 /\ Len(st) \in Nat /\ Fm(r, Len(r)) = f
         /\ \A d \in 1..Len(st) : Fm(r, d) = Fm(st, d)
  BY DEF Fm

\* A stack without its top.
LEMMA Popped ==
  ASSUME NEW X, NEW st \in Seq(X), st # <<>>
  PROVE  LET r == Tail(st) IN
         /\ r \in Seq(X) /\ Len(r) = Len(st) - 1 /\ Len(st) \in Nat \ {0}
         /\ \A d \in 1..(Len(st) - 1) : Fm(r, d) = Fm(st, d)
  BY DEF Fm

\* A stack whose top is replaced by two frames.
LEMMA Called ==
  ASSUME NEW X, NEW st \in Seq(X), st # <<>>, NEW f \in X, NEW g \in X
  PROVE  LET r == <<f, g>> \o Tail(st) IN
         /\ r \in Seq(X) /\ Len(r) = Len(st) + 1 /\ Len(st) \in Nat \ {0}
         /\ Fm(r, Len(st) + 1) = f /\ Fm(r, Len(st)) = g
         /\ \A d \in 1..(Len(st) - 1) : Fm(r, d) = Fm(st, d)
  BY DEF Fm

\* The top of a stack.
LEMMA Tops ==
  ASSUME NEW X, NEW st \in Seq(X), st # <<>>
  PROVE  Head(st) = Fm(st, Len(st)) /\ Len(st) \in Nat \ {0} /\ Head(st) \in X
  BY DEF Fm

-----------------------------------------------------------------------------
(* A thread changes the upper part of its stack                            *)

\* Thread t keeps its lowest e frames; the other threads keep all of theirs.
Rests(S, S2, t, e) ==
  /\ \A u \in Threads \ {t} : S2[u] = S[u]
  /\ Len(S[t]) \in Nat /\ Len(S2[t]) \in Nat
  /\ e \in 0..Len(S[t]) /\ e <= Len(S2[t])
  /\ \A d \in 1..e : Fm(S2[t], d) = Fm(S[t], d)

\* Frame d of thread u is one that is kept.
Kept(S, t, e, u, d) == u \in Threads /\ d \in 1..Len(S[u]) /\ (u = t => d <= e)

\* A frame after the step is one that was kept or a new one.
LEMMA KeptOrNew ==
  ASSUME NEW S, NEW S2, NEW t \in Threads, NEW e, Rests(S, S2, t, e),
         NEW u \in Threads, NEW d \in 1..Len(S2[u])
  PROVE  \/ Kept(S, t, e, u, d) /\ Fm(S2[u], d) = Fm(S[u], d)
         \/ u = t /\ d \in (e + 1)..Len(S2[t])
  BY DEF Rests, Kept

\* The shape of a stack is kept if the new frames fit.
LEMMA StackStep ==
  ASSUME NEW t, NEW st, NEW r, NEW e \in 0..Len(st), StackOK(t, st),
         r \in Seq(FrameSet), Len(r) > 0, e <= Len(r), Len(st) \in Nat,
         \A d \in 1..e : Fm(r, d) = Fm(st, d),
         \A d \in (e + 1)..Len(r) : d > 1 => Sits(Fm(r, d), Fm(r, d - 1)),
         e = 0 => Base(t, Fm(r, 1)),
         t \notin Workers => \A d \in (e + 1)..Len(r) : Fm(r, d).at \in StartPoints \cup {"user", "wait"}
  PROVE  StackOK(t, r)
<1>1. Len(r) \in Nat
  OBVIOUS
<1>2. Base(t, Fm(r, 1))
  BY <1>1 DEF StackOK
<1>3. ASSUME NEW d \in 2..Len(r) PROVE Sits(Fm(r, d), Fm(r, d - 1))
  <2>1. CASE d <= e
    <3>1. d \in 2..Len(st) /\ d \in 1..e /\ d - 1 \in 1..e
      BY <2>1, <1>1
    <3> QED
      BY <3>1 DEF StackOK
  <2>2. CASE ~(d <= e)
    <3>1. d \in (e + 1)..Len(r) /\ d > 1
      BY <2>2, <1>1
    <3> QED
      BY <3>1
  <2> QED
    BY <2>1, <2>2
<1>4. ASSUME t \notin Workers, NEW d \in 1..Len(r)
      PROVE  Fm(r, d).at \in StartPoints \cup {"user", "wait"}
  <2>1. CASE d <= e
    BY <1>1, <1>4, <2>1 DEF StackOK
  <2>2. CASE ~(d <= e)
    BY <1>1, <1>4, <2>2
  <2> QED
    BY <2>1, <2>2
<1> QED
  BY <1>1, <1>2, <1>3, <1>4 DEF StackOK

\* One of the new frames may hold a slot that no kept frame holds.
LEMMA HeldStep ==
  ASSUME NEW S, NEW S2, NEW t \in Threads, NEW e, Rests(S, S2, t, e), HeldOnce(S),
         NEW x, NEW k,
         \A d \in (e + 1)..Len(S2[t]) : \A s \in Slots : Holds(Fm(S2[t], d), s) => s = x /\ d = k,
         \A u, d : Kept(S, t, e, u, d) => ~Holds(Fm(S[u], d), x)
  PROVE  HeldOnce(S2)
<1> SUFFICES ASSUME NEW u \in Threads, NEW v \in Threads, NEW c \in 1..Len(S2[u]),
                    NEW d \in 1..Len(S2[v]), NEW s \in Slots,
                    Holds(Fm(S2[u], c), s), Holds(Fm(S2[v], d), s)
             PROVE  u = v /\ c = d
  BY DEF HeldOnce
<1>1. \/ Kept(S, t, e, u, c) /\ Holds(Fm(S[u], c), s)
      \/ u = t /\ s = x /\ c = k
  BY KeptOrNew
<1>2. \/ Kept(S, t, e, v, d) /\ Holds(Fm(S[v], d), s)
      \/ v = t /\ s = x /\ d = k
  BY KeptOrNew, SMTT(40)
<1> QED
  BY <1>1, <1>2 DEF HeldOnce, Kept

\* The slots in a queue and those frames hold stay apart.
LEMMA QueuedStep ==
  ASSUME NEW S, NEW S2, NEW t \in Threads, NEW e, Rests(S, S2, t, e), NEW Q, NEW Q2,
         \A u, d : Kept(S, t, e, u, d) =>
           \A q \in DOMAIN Q2 : \A k \in DOMAIN Q2[q] : ~Holds(Fm(S[u], d), Q2[q][k]),
         \A d \in (e + 1)..Len(S2[t]) :
           \A q \in DOMAIN Q2 : \A k \in DOMAIN Q2[q] : ~Holds(Fm(S2[t], d), Q2[q][k])
  PROVE  QueuedFree(S2, Q2)
<1> SUFFICES ASSUME NEW u \in Threads, NEW d \in 1..Len(S2[u]),
                    NEW q \in DOMAIN Q2, NEW k \in DOMAIN Q2[q]
             PROVE  ~Holds(Fm(S2[u], d), Q2[q][k])
  BY DEF QueuedFree
<1>1. \/ Kept(S, t, e, u, d) /\ Fm(S2[u], d) = Fm(S[u], d)
      \/ u = t /\ d \in (e + 1)..Len(S2[t])
  BY KeptOrNew
<1> QED
  BY <1>1

\* A new frame owns a valid handle only if no other frame owns it.
LEMMA OwnedStep ==
  ASSUME NEW S, NEW S2, NEW t \in Threads, NEW e, Rests(S, S2, t, e), NEW T, NEW T2, Owned(T, S),
         \A s \in Slots : T2[s].tag = T[s].tag \/
            \A u, d : Kept(S, t, e, u, d) => ~Owns(Fm(S[u], d), [id |-> s, tag |-> T2[s].tag]),
         \A c, d \in (e + 1)..Len(S2[t]) : \A s \in Slots :
            Owns(Fm(S2[t], c), [id |-> s, tag |-> T2[s].tag]) =>
              (Owns(Fm(S2[t], d), [id |-> s, tag |-> T2[s].tag]) => c = d),
         \A c \in (e + 1)..Len(S2[t]) : \A s \in Slots :
            Owns(Fm(S2[t], c), [id |-> s, tag |-> T2[s].tag]) =>
              \A u, d : Kept(S, t, e, u, d) => ~Owns(Fm(S[u], d), [id |-> s, tag |-> T2[s].tag])
  PROVE  Owned(T2, S2)
<1> SUFFICES ASSUME NEW u \in Threads, NEW v \in Threads, NEW c \in 1..Len(S2[u]),
                    NEW d \in 1..Len(S2[v]), NEW s \in Slots,
                    Owns(Fm(S2[u], c), [id |-> s, tag |-> T2[s].tag]),
                    Owns(Fm(S2[v], d), [id |-> s, tag |-> T2[s].tag])
             PROVE  u = v /\ c = d
  BY DEF Owned
<1> DEFINE h == [id |-> s, tag |-> T2[s].tag]
<1>1. \/ Kept(S, t, e, u, c) /\ Owns(Fm(S[u], c), h)
      \/ u = t /\ c \in (e + 1)..Len(S2[t])
  BY KeptOrNew
<1>2. \/ Kept(S, t, e, v, d) /\ Owns(Fm(S[v], d), h)
      \/ v = t /\ d \in (e + 1)..Len(S2[t])
  BY KeptOrNew
<1>3. CASE Kept(S, t, e, u, c) /\ Owns(Fm(S[u], c), h) /\ Kept(S, t, e, v, d) /\ Owns(Fm(S[v], d), h)
  <2>1. T2[s].tag = T[s].tag
    BY <1>3
  <2> QED
    BY <1>3, <2>1 DEF Owned, Kept
<1>4. CASE u = t /\ c \in (e + 1)..Len(S2[t]) /\ v = t /\ d \in (e + 1)..Len(S2[t])
  BY <1>4
<1>5. CASE Kept(S, t, e, u, c) /\ Owns(Fm(S[u], c), h) /\ v = t /\ d \in (e + 1)..Len(S2[t])
  BY <1>5
<1>6. CASE Kept(S, t, e, v, d) /\ Owns(Fm(S[v], d), h) /\ u = t /\ c \in (e + 1)..Len(S2[t])
  BY <1>6
<1> QED
  BY <1>1, <1>2, <1>3, <1>4, <1>5, <1>6

-----------------------------------------------------------------------------
(* What a step on one slot means to the frames that do not hold it         *)

\* Where a frame may hold a slot.
HoldPoints == StartPoints \cup {"dispatch", "exec", "execCall", "execTodo", "execDone"}

\* The frame says something about slot s.
Refers(f, s) == \/ f.at \in HoldPoints \cup {"wait"} /\ f.task = s
                \/ f.at = "user" /\ f \in BodyFrames /\ f.self = s

\* Nothing changes for the other slots.
Elsewhere(T, R, T2, R2, s) ==
  \A x \in Slots \ {s} : T2[x] = T[x] /\ (Ran(T2, R2, x) <=> Ran(T, R, x))

\* Points at which nothing is said about a task.
LEMMA GoodIdle ==
  ASSUME NEW T, NEW R, NEW t, NEW f, f.at \notin HoldPoints \cup {"wait", "user"}
  PROVE  Good(T, R, t, f) /\ (\A s : ~Holds(f, s)) /\ (\A h : ~Owns(f, h))
  BY DEF Good, Holds, Owns, HoldPoints, StartPoints

\* A frame that does not refer to the slot stays as good as it was.
LEMMA GoodElsewhere ==
  ASSUME NEW T, NEW R, NEW T2, NEW R2, NEW s \in Slots, Elsewhere(T, R, T2, R2, s),
         NEW u, NEW f \in FrameSet, Good(T, R, u, f), ~Refers(f, s),
         \A h \in Handles : HandleOK(T, h) => HandleOK(T2, h)
  PROVE  Good(T2, R2, u, f)
<1>1. CASE f.at = "user"
  <2>1. \A k \in DOMAIN f.started : HandleOK(T2, f.started[k])
    <3>1. f.started \in Seq(Handles)
      BY <1>1, FrameKinds DEF MainFrames, BodyFrames
    <3>2. \A k \in DOMAIN f.started : f.started[k] \in Handles /\ HandleOK(T, f.started[k])
      BY <1>1, <3>1 DEF Good
    <3> QED
      BY <3>2
  <2>2. ASSUME f \in BodyFrames PROVE f.self \in Slots \ {s} /\ T2[f.self] = T[f.self]
    BY <1>1, <2>2 DEF Refers, BodyFrames, Elsewhere
  <2> QED
    BY <1>1, <2>1, <2>2 DEF Good, StartPoints
<1>2. CASE f.at \in HoldPoints \cup {"wait"}
  <2>1. f.task \in Slots \ {s}
    BY <1>2, FrameKinds DEF Refers, StartFrames, WaitFrames, GotFrames, CallFrames, TodoFrames,
         DoneFrames, HoldPoints
  <2>2. T2[f.task] = T[f.task] /\ (Ran(T2, R2, f.task) <=> Ran(T, R, f.task))
    BY <2>1 DEF Elsewhere
  <2>3. f.at # "user"
    BY <1>2 DEF HoldPoints, StartPoints
  <2> QED
    BY <2>2, <2>3 DEF Good
<1>3. CASE f.at \notin HoldPoints \cup {"wait", "user"}
  BY <1>3 DEF Good, HoldPoints, StartPoints
<1> QED
  BY <1>1, <1>2, <1>3

\* The task in slot s goes on and is not deleted.
GoesOn(r, r2) ==
  /\ r2.tag = r.tag /\ r2.id = r.id /\ r2.action = r.action /\ r2.job = r.job
  /\ r.state \in {"SCHEDULED", "RUNNING"} /\ r2.state \in {"SCHEDULED", "RUNNING", "COMPLETED"}

\* A frame that refers to a task that goes on but does not hold it.
LEMMA GoodBeside ==
  ASSUME NEW T, NEW R, NEW T2, NEW R2, NEW s \in Slots, Elsewhere(T, R, T2, R2, s),
         GoesOn(T[s], T2[s]),
         NEW u, NEW f \in FrameSet, Good(T, R, u, f), ~Holds(f, s)
  PROVE  Good(T2, R2, u, f)
<1>0. \A h \in Handles : HandleOK(T, h) => HandleOK(T2, h)
  <2> SUFFICES ASSUME NEW h \in Handles, HandleOK(T, h), h.id \in Slots PROVE HandleOK(T2, h)
    BY DEF HandleOK
  <2>1. CASE h.id = s
    BY <2>1 DEF HandleOK, GoesOn
  <2>2. CASE h.id # s
    BY <2>2 DEF HandleOK, Elsewhere
  <2> QED
    BY <2>1, <2>2
<1>1. CASE ~Refers(f, s)
  BY <1>0, <1>1, GoodElsewhere
<1>2. CASE f.at = "user" /\ f \in BodyFrames /\ f.self = s
  <2>1. \A k \in DOMAIN f.started : HandleOK(T2, f.started[k])
    <3>1. f.started \in Seq(Handles)
      BY <1>2 DEF BodyFrames
    <3>2. \A k \in DOMAIN f.started : f.started[k] \in Handles /\ HandleOK(T, f.started[k])
      BY <1>2, <3>1 DEF Good
    <3> QED
      BY <1>0, <3>2
  <2> QED
    BY <1>2, <2>1 DEF Good, GoesOn, StartPoints
<1>3. CASE f.at = "wait" /\ f.task = s
  BY <1>3 DEF Good, GoesOn, StartPoints
<1>4. CASE f.at \in HoldPoints /\ f.task = s
  <2>1. f.at = "scheduled" /\ f.ok
    BY <1>4 DEF Holds, HoldPoints, StartPoints
  <2> QED
    BY <1>4, <2>1 DEF Good, GoesOn, Holds, StartPoints
<1> QED
  BY <1>1, <1>2, <1>3, <1>4 DEF Refers

-----------------------------------------------------------------------------
(* Steps that change stacks only                                           *)

\* All frames are good after the step.
LEMMA GoodStep ==
  ASSUME NEW S, NEW S2, NEW t \in Threads, NEW e, Rests(S, S2, t, e), NEW T2, NEW R2,
         \A u, d : Kept(S, t, e, u, d) => Good(T2, R2, u, Fm(S[u], d)),
         \A d \in (e + 1)..Len(S2[t]) : Good(T2, R2, t, Fm(S2[t], d))
  PROVE  \A u \in Threads : \A d \in 1..Len(S2[u]) : Good(T2, R2, u, Fm(S2[u], d))
<1> SUFFICES ASSUME NEW u \in Threads, NEW d \in 1..Len(S2[u])
             PROVE  Good(T2, R2, u, Fm(S2[u], d))
  OBVIOUS
<1>1. \/ Kept(S, t, e, u, d) /\ Fm(S2[u], d) = Fm(S[u], d)
      \/ u = t /\ d \in (e + 1)..Len(S2[t])
  BY KeptOrNew
<1> QED
  BY <1>1

\* A frame that is kept is not one that is given up.
LEMMA KeptApart ==
  ASSUME NEW S, NEW t \in Threads, NEW e, e \in 0..Len(S[t]), Len(S[t]) \in Nat,
         NEW c \in (e + 1)..Len(S[t])
  PROVE  /\ c \in 1..Len(S[t])
         /\ HeldOnce(S) => \A s \in Slots : Holds(Fm(S[t], c), s) =>
              \A u, d : Kept(S, t, e, u, d) => ~Holds(Fm(S[u], d), s)
         /\ \A T : Owned(T, S) =>
              \A s \in Slots : Owns(Fm(S[t], c), [id |-> s, tag |-> T[s].tag]) =>
                \A u, d : Kept(S, t, e, u, d) => ~Owns(Fm(S[u], d), [id |-> s, tag |-> T[s].tag])
<1>1. c \in 1..Len(S[t])
  OBVIOUS
<1>2. \A u, d : Kept(S, t, e, u, d) => u \in Threads /\ d \in 1..Len(S[u]) /\ ~(u = t /\ d = c)
  BY DEF Kept
<1>3. ASSUME HeldOnce(S), NEW s \in Slots, Holds(Fm(S[t], c), s), NEW u, NEW d, Kept(S, t, e, u, d)
      PROVE  ~Holds(Fm(S[u], d), s)
  BY <1>1, <1>2, <1>3 DEF HeldOnce
<1>4. ASSUME NEW T, Owned(T, S), NEW s \in Slots, Owns(Fm(S[t], c), [id |-> s, tag |-> T[s].tag]),
             NEW u, NEW d, Kept(S, t, e, u, d)
      PROVE  ~Owns(Fm(S[u], d), [id |-> s, tag |-> T[s].tag])
  BY <1>1, <1>2, <1>4 DEF Owned
<1> QED
  BY <1>1, <1>3, <1>4

\* No frame owns the handle.
Unowned(S, h) == \A u \in Threads : \A d \in 1..Len(S[u]) : ~Owns(Fm(S[u], d), h)

\* No frame holds the slot and no queue has it.
Unheld(S, Q, s) == /\ \A u \in Threads : \A d \in 1..Len(S[u]) : ~Holds(Fm(S[u], d), s)
                   /\ \A q \in DOMAIN Q : \A k \in DOMAIN Q[q] : Q[q][k] # s

\* The new frames hold and own what the frames they replace did, or nobody.
Takes(S, S2, Q, t, e) ==
  /\ \A c, d \in (e + 1)..Len(S2[t]) : \A s \in Slots :
       Holds(Fm(S2[t], c), s) /\ Holds(Fm(S2[t], d), s) => c = d
  /\ \A c \in (e + 1)..Len(S2[t]) : \A s \in Slots : Holds(Fm(S2[t], c), s) =>
       Unheld(S, Q, s) \/ \E d \in (e + 1)..Len(S[t]) : Holds(Fm(S[t], d), s)
  /\ \A c, d \in (e + 1)..Len(S2[t]) : \A h :
       Owns(Fm(S2[t], c), h) /\ Owns(Fm(S2[t], d), h) /\ h.id \in Slots => c = d
  /\ \A c \in (e + 1)..Len(S2[t]) : \A h : Owns(Fm(S2[t], c), h) /\ h.id \in Slots =>
       Unowned(S, h) \/ \E d \in (e + 1)..Len(S[t]) : Owns(Fm(S[t], d), h)

\* A thread exchanges the upper part of its stack.
LEMMA StackMove ==
  ASSUME NEW A, NEW A2, NEW T, NEW F, NEW Q, NEW S, NEW S2, NEW R, Safe(A, T, F, Q, S, R),
         NEW t \in Threads, NEW e, Rests(S, S2, t, e), DOMAIN S2 = Threads,
         \A a \in Actions : A2[a].valid = A[a].valid,
         StackOK(t, S2[t]), Takes(S, S2, Q, t, e),
         \A d \in (e + 1)..Len(S2[t]) : Good(T, R, t, Fm(S2[t], d)),
         TodoOK(T, R, S2[t])
  PROVE  Safe(A2, T, F, Q, S2, R)
<1>1. \A u \in Threads : StackOK(u, S2[u]) /\ TodoOK(T, R, S2[u])
  BY DEF Safe, Rests
<1>2. \A u \in Threads : \A d \in 1..Len(S2[u]) : Good(T, R, u, Fm(S2[u], d))
  <2>1. \A u, d : Kept(S, t, e, u, d) => Good(T, R, u, Fm(S[u], d))
    BY DEF Safe, Kept
  <2> QED
    BY <2>1, GoodStep
<1>3. \A c \in (e + 1)..Len(S2[t]) : \A s \in Slots : Holds(Fm(S2[t], c), s) =>
        \A u, d : Kept(S, t, e, u, d) => ~Holds(Fm(S[u], d), s)
  <2> SUFFICES ASSUME NEW c \in (e + 1)..Len(S2[t]), NEW s \in Slots, Holds(Fm(S2[t], c), s)
               PROVE  \A u, d : Kept(S, t, e, u, d) => ~Holds(Fm(S[u], d), s)
    OBVIOUS
  <2>1. Unheld(S, Q, s) \/ \E d \in (e + 1)..Len(S[t]) : Holds(Fm(S[t], d), s)
    BY DEF Takes
  <2>2. e \in 0..Len(S[t]) /\ Len(S[t]) \in Nat /\ HeldOnce(S)
    BY DEF Rests, Safe
  <2>3. CASE Unheld(S, Q, s)
    BY <2>3 DEF Unheld, Kept
  <2>4. CASE \E d \in (e + 1)..Len(S[t]) : Holds(Fm(S[t], d), s)
    <3>1. PICK d \in (e + 1)..Len(S[t]) : Holds(Fm(S[t], d), s)
      BY <2>4
    <3> QED
      BY <2>2, <3>1, KeptApart
  <2> QED
    BY <2>1, <2>3, <2>4
<1>4. HeldOnce(S2)
  <2> SUFFICES ASSUME NEW u \in Threads, NEW v \in Threads, NEW c \in 1..Len(S2[u]),
                      NEW d \in 1..Len(S2[v]), NEW s \in Slots,
                      Holds(Fm(S2[u], c), s), Holds(Fm(S2[v], d), s)
               PROVE  u = v /\ c = d
    BY DEF HeldOnce
  <2>1. \/ Kept(S, t, e, u, c) /\ Holds(Fm(S[u], c), s)
        \/ u = t /\ c \in (e + 1)..Len(S2[t])
    BY KeptOrNew
  <2>2. \/ Kept(S, t, e, v, d) /\ Holds(Fm(S[v], d), s)
        \/ v = t /\ d \in (e + 1)..Len(S2[t])
    BY KeptOrNew
  <2>3. CASE Kept(S, t, e, u, c) /\ Holds(Fm(S[u], c), s) /\ Kept(S, t, e, v, d) /\ Holds(Fm(S[v], d), s)
    BY <2>3 DEF Safe, HeldOnce, Kept
  <2>4. CASE u = t /\ c \in (e + 1)..Len(S2[t]) /\ v = t /\ d \in (e + 1)..Len(S2[t])
    BY <2>4 DEF Takes
  <2> QED
    BY <1>3, <2>1, <2>2, <2>3, <2>4
<1>5. QueuedFree(S2, Q)
  <2>1. \A u, d : Kept(S, t, e, u, d) =>
          \A q \in DOMAIN Q : \A k \in DOMAIN Q[q] : ~Holds(Fm(S[u], d), Q[q][k])
    BY DEF Safe, Kept, QueuedFree
  <2>2. \A d \in (e + 1)..Len(S2[t]) :
          \A q \in DOMAIN Q : \A k \in DOMAIN Q[q] : ~Holds(Fm(S2[t], d), Q[q][k])
    <3> SUFFICES ASSUME NEW c \in (e + 1)..Len(S2[t]), NEW q \in DOMAIN Q, NEW k \in DOMAIN Q[q],
                        Holds(Fm(S2[t], c), Q[q][k])
                 PROVE  FALSE
      OBVIOUS
    <3>1. Q[q][k] \in Slots
      BY DEF Safe, WaitingOK
    <3>a. ~Unheld(S, Q, Q[q][k])
      BY DEF Unheld
    <3>2. PICK d \in (e + 1)..Len(S[t]) : Holds(Fm(S[t], d), Q[q][k])
      BY <3>1, <3>a DEF Takes
    <3>3. d \in 1..Len(S[t])
      BY DEF Rests
    <3> QED
      BY <3>2, <3>3 DEF Safe, QueuedFree
  <2> QED
    BY <2>1, <2>2, QueuedStep
<1>6. Owned(T, S2)
  <2>1. Owned(T, S)
    BY DEF Safe
  <2>2. \A c, d \in (e + 1)..Len(S2[t]) : \A s \in Slots :
            Owns(Fm(S2[t], c), [id |-> s, tag |-> T[s].tag]) =>
              (Owns(Fm(S2[t], d), [id |-> s, tag |-> T[s].tag]) => c = d)
    <3> SUFFICES ASSUME NEW c \in (e + 1)..Len(S2[t]), NEW d \in (e + 1)..Len(S2[t]), NEW s \in Slots,
                        Owns(Fm(S2[t], c), [id |-> s, tag |-> T[s].tag]),
                        Owns(Fm(S2[t], d), [id |-> s, tag |-> T[s].tag])
                 PROVE  c = d
      OBVIOUS
    <3>1. [id |-> s, tag |-> T[s].tag].id \in Slots
      OBVIOUS
    <3> QED
      BY <3>1 DEF Takes
  <2>3. \A c \in (e + 1)..Len(S2[t]) : \A s \in Slots :
            Owns(Fm(S2[t], c), [id |-> s, tag |-> T[s].tag]) =>
              \A u, d : Kept(S, t, e, u, d) => ~Owns(Fm(S[u], d), [id |-> s, tag |-> T[s].tag])
    <3> SUFFICES ASSUME NEW c \in (e + 1)..Len(S2[t]), NEW s \in Slots,
                        Owns(Fm(S2[t], c), [id |-> s, tag |-> T[s].tag])
                 PROVE  \A u, d : Kept(S, t, e, u, d) => ~Owns(Fm(S[u], d), [id |-> s, tag |-> T[s].tag])
      OBVIOUS
    <3>0. [id |-> s, tag |-> T[s].tag].id \in Slots
      OBVIOUS
    <3>1. \/ Unowned(S, [id |-> s, tag |-> T[s].tag])
          \/ \E d \in (e + 1)..Len(S[t]) : Owns(Fm(S[t], d), [id |-> s, tag |-> T[s].tag])
      BY <3>0 DEF Takes
    <3>2. e \in 0..Len(S[t]) /\ Len(S[t]) \in Nat
      BY DEF Rests
    <3>3. CASE Unowned(S, [id |-> s, tag |-> T[s].tag])
      BY <3>3 DEF Unowned, Kept
    <3>4. CASE \E d \in (e + 1)..Len(S[t]) : Owns(Fm(S[t], d), [id |-> s, tag |-> T[s].tag])
      <4>1. PICK d \in (e + 1)..Len(S[t]) : Owns(Fm(S[t], d), [id |-> s, tag |-> T[s].tag])
        BY <3>4
      <4> QED
        BY <2>1, <4>1, <3>2, KeptApart
    <3> QED
      BY <3>1, <3>3, <3>4
  <2> QED
    BY <2>1, <2>2, <2>3, OwnedStep
<1>7. \A s \in Slots : SlotOK(A2, s, T[s])
  <2> TAKE s \in Slots
  <2>1. SlotOK(A, s, T[s])
    BY DEF Safe
  <2> DEFINE r == T[s]
  <2>2. r.action \in Actions \cup {NoAction}
    <3>1. r \in TaskRecords(s)
      BY <2>1 DEF SlotOK
    <3> HIDE DEF r
    <3> QED
      BY <3>1 DEF TaskRecords
  <2> QED
    BY <2>1, <2>2 DEF SlotOK
<1> QED
  BY <1>1, <1>2, <1>4, <1>5, <1>6, <1>7 DEF Safe

-----------------------------------------------------------------------------
(* The four ways to change the top of a stack                              *)

\* Facts about the stack of a thread and its top.
LEMMA TopFacts ==
  ASSUME NEW A, NEW T, NEW F, NEW Q, NEW S, NEW R, Safe(A, T, F, Q, S, R), NEW t \in Threads
  PROVE  /\ S[t] \in Seq(FrameSet) /\ S[t] # <<>> /\ Len(S[t]) \in Nat \ {0}
         /\ Head(S[t]) = Fm(S[t], Len(S[t])) /\ Head(S[t]) \in FrameSet
         /\ Good(T, R, t, Head(S[t]))
         /\ Len(S[t]) = 1 => Base(t, Head(S[t]))
         /\ Len(S[t]) > 1 => Sits(Head(S[t]), Fm(S[t], Len(S[t]) - 1))
         /\ t \notin Workers => Head(S[t]).at \in StartPoints \cup {"user", "wait"}
         /\ Head(S[t]).at = "execTodo" => Ran(T, R, Head(S[t]).task)
<1>1. StackOK(t, S[t]) /\ TodoOK(T, R, S[t])
  BY DEF Safe
<1>2. S[t] \in Seq(FrameSet) /\ S[t] # <<>>
  BY <1>1 DEF StackOK
<1>3. Head(S[t]) = Fm(S[t], Len(S[t])) /\ Len(S[t]) \in Nat \ {0} /\ Head(S[t]) \in FrameSet
  BY <1>2, Tops
<1>4. Len(S[t]) \in 1..Len(S[t])
  BY <1>3
<1>5. Good(T, R, t, Head(S[t]))
  BY <1>3, <1>4 DEF Safe
<1>6. Head(S[t]).at = "execTodo" => Ran(T, R, Head(S[t]).task)
  BY <1>1, <1>3, <1>4 DEF TodoOK
<1>7. Len(S[t]) = 1 => Base(t, Head(S[t]))
  BY <1>1, <1>3 DEF StackOK
<1>8. Len(S[t]) > 1 => Sits(Head(S[t]), Fm(S[t], Len(S[t]) - 1))
  BY <1>1, <1>3 DEF StackOK
<1>9. t \notin Workers => Head(S[t]).at \in StartPoints \cup {"user", "wait"}
  BY <1>1, <1>3, <1>4 DEF StackOK
<1> QED
  BY <1>2, <1>3, <1>5, <1>6, <1>7, <1>8, <1>9

\* The top is replaced.
LEMMA Swap ==
  ASSUME NEW A, NEW A2, NEW T, NEW F, NEW Q, NEW S, NEW S2, NEW R, Safe(A, T, F, Q, S, R),
         \A a \in Actions : A2[a].valid = A[a].valid,
         NEW t \in Threads, NEW f \in FrameSet, S2 = [S EXCEPT ![t] = <<f>> \o Tail(@)],
         \A s \in Slots : Holds(f, s) => Unheld(S, Q, s) \/ Holds(Head(S[t]), s),
         \A h : Owns(f, h) /\ h.id \in Slots => Unowned(S, h) \/ Owns(Head(S[t]), h),
         Good(T, R, t, f), f.at # "execTodo",
         Base(t, Head(S[t])) => Base(t, f),
         \A b : Sits(Head(S[t]), b) => Sits(f, b),
         t \notin Workers => f.at \in StartPoints \cup {"user", "wait"}
  PROVE  Safe(A2, T, F, Q, S2, R)
<1> DEFINE st == S[t]
           r == S2[t]
           n == Len(st)
<1>1. /\ st \in Seq(FrameSet) /\ st # <<>> /\ n \in Nat \ {0} /\ Head(st) = Fm(st, n)
      /\ n = 1 => Base(t, Head(st))
      /\ n > 1 => Sits(Head(st), Fm(st, n - 1))
  BY TopFacts
<1>2. DOMAIN S = Threads /\ StackOK(t, st) /\ TodoOK(T, R, st)
  BY DEF Safe
<1>3. DOMAIN S2 = Threads /\ r = <<f>> \o Tail(st) /\ \A u \in Threads \ {t} : S2[u] = S[u]
  BY <1>2
<1>4. r \in Seq(FrameSet) /\ Len(r) = n /\ Fm(r, n) = f /\ \A d \in 1..(n - 1) : Fm(r, d) = Fm(st, d)
  BY <1>1, <1>3, Replaced
<1>5. Rests(S, S2, t, n - 1)
  BY <1>1, <1>3, <1>4 DEF Rests
<1> HIDE DEF st, r, n
<1>6. \A d \in (n - 1 + 1)..Len(r) : d = n /\ Fm(r, d) = f
  BY <1>1, <1>4
<1>7. StackOK(t, r)
  <2>1. \A d \in (n - 1 + 1)..Len(r) : d > 1 => Sits(Fm(r, d), Fm(r, d - 1))
    BY <1>1, <1>4, <1>6 DEF st
  <2>2. n - 1 = 0 => Base(t, Fm(r, 1))
    BY <1>1, <1>4 DEF st
  <2>3. n - 1 \in 0..Len(st) /\ Len(r) > 0 /\ n - 1 <= Len(r) /\ Len(st) \in Nat
    BY <1>1, <1>4 DEF n
  <2> QED
    BY <1>2, <1>4, <1>6, <2>1, <2>2, <2>3, StackStep
<1>8. TodoOK(T, R, r)
  <2> SUFFICES ASSUME NEW d \in 1..Len(r), Fm(r, d).at = "execTodo"
               PROVE  Ran(T, R, Fm(r, d).task) <=> d = Len(r)
    BY DEF TodoOK
  <2>1. d \in 1..(n - 1) /\ d # n /\ d \in 1..n
    BY <1>1, <1>4, <1>6
  <2>2. Fm(r, d) = Fm(st, d)
    BY <1>4, <2>1
  <2> QED
    BY <1>2, <1>4, <2>1, <2>2 DEF TodoOK, n
<1>9. Takes(S, S2, Q, t, n - 1)
  <2>1. n \in (n - 1 + 1)..Len(S[t]) /\ Head(S[t]) = Fm(S[t], n)
    BY <1>1 DEF n, st
  <2> QED
    BY <1>6, <2>1 DEF Takes, r
<1>10. \A d \in (n - 1 + 1)..Len(S2[t]) : Good(T, R, t, Fm(S2[t], d))
  BY <1>6 DEF r
<1>11. DOMAIN S2 = Threads /\ StackOK(t, S2[t]) /\ TodoOK(T, R, S2[t])
  BY <1>3, <1>7, <1>8 DEF r
<1> QED
  BY <1>5, <1>9, <1>10, <1>11, StackMove

\* The top is dropped.
LEMMA Drop ==
  ASSUME NEW A, NEW T, NEW F, NEW Q, NEW S, NEW S2, NEW R, Safe(A, T, F, Q, S, R),
         NEW t \in Threads, S2 = [S EXCEPT ![t] = Tail(@)],
         Head(S[t]).at \notin BasePoints \cup {"user"}
  PROVE  Safe(A, T, F, Q, S2, R)
<1> DEFINE st == S[t]
           r == S2[t]
           n == Len(st)
<1>1. /\ st \in Seq(FrameSet) /\ st # <<>> /\ n \in Nat \ {0} /\ Head(st) = Fm(st, n)
      /\ n = 1 => Base(t, Head(st))
      /\ n > 1 => Sits(Head(st), Fm(st, n - 1))
  BY TopFacts
<1>2. DOMAIN S = Threads /\ StackOK(t, st) /\ TodoOK(T, R, st)
  BY DEF Safe
<1>3. DOMAIN S2 = Threads /\ r = Tail(st) /\ \A u \in Threads \ {t} : S2[u] = S[u]
  BY <1>2
<1>4. r \in Seq(FrameSet) /\ Len(r) = n - 1 /\ \A d \in 1..(n - 1) : Fm(r, d) = Fm(st, d)
  BY <1>1, <1>3, Popped
<1>5. Rests(S, S2, t, n - 1)
  BY <1>1, <1>3, <1>4 DEF Rests
<1>6. n > 1
  <2>1. ASSUME Base(t, Head(st)) PROVE FALSE
    BY <2>1 DEF Base, MainFrames
  <2> HIDE DEF n, st
  <2> QED
    BY <1>1, <2>1
<1> HIDE DEF st, r, n
<1>7. \A d \in (n - 1 + 1)..Len(r) : FALSE
  BY <1>1, <1>4
<1>8. StackOK(t, r)
  <2>1. n - 1 \in 0..Len(st) /\ Len(r) > 0 /\ n - 1 <= Len(r) /\ Len(st) \in Nat /\ n - 1 # 0
    BY <1>1, <1>4, <1>6 DEF n
  <2> QED
    BY <1>2, <1>4, <1>7, <2>1, StackStep
<1>9. TodoOK(T, R, r)
  <2> SUFFICES ASSUME NEW d \in 1..Len(r), Fm(r, d).at = "execTodo"
               PROVE  Ran(T, R, Fm(r, d).task) <=> d = Len(r)
    BY DEF TodoOK
  <2>1. d \in 1..(n - 1) /\ d # n /\ d \in 1..n
    BY <1>1, <1>4
  <2>2. Fm(r, d) = Fm(st, d)
    BY <1>4, <2>1
  <2>3. d # n - 1
    <3>1. Head(st).at \in StartPoints \cup ExecPoints \cup {"wait", "take", "dispatch"}
      <4>1. Head(st) \in FrameSet
        BY TopFacts DEF st
      <4> QED
        BY <4>1, FramePoints DEF st
    <3>2. Sits(Head(st), Fm(st, n - 1))
      BY <1>1, <1>6
    <3>3. Fm(st, n - 1).at # "execTodo"
      BY <3>1, <3>2 DEF Sits
    <3> QED
      BY <2>2, <3>3
  <2> QED
    BY <1>2, <1>4, <2>1, <2>2, <2>3 DEF TodoOK, n
<1>10. Takes(S, S2, Q, t, n - 1)
  BY <1>7 DEF Takes, r
<1>11. \A d \in (n - 1 + 1)..Len(S2[t]) : Good(T, R, t, Fm(S2[t], d))
  BY <1>7 DEF r
<1>12. DOMAIN S2 = Threads /\ StackOK(t, S2[t]) /\ TodoOK(T, R, S2[t])
  BY <1>3, <1>8, <1>9 DEF r
<1> QED
  BY <1>5, <1>10, <1>11, <1>12, StackMove

\* The top is replaced by a frame with another one on it, which holds and owns
\* only what nobody does.
LEMMA CallOn ==
  ASSUME NEW A, NEW T, NEW F, NEW Q, NEW S, NEW S2, NEW R, Safe(A, T, F, Q, S, R),
         NEW t \in Threads, NEW f \in FrameSet, NEW g \in FrameSet,
         S2 = [S EXCEPT ![t] = <<f, g>> \o Tail(@)],
         \A s \in Slots : (Holds(f, s) => Unheld(S, Q, s)) /\ (Holds(g, s) => Holds(Head(S[t]), s)),
         \A h : h.id \in Slots => (Owns(f, h) => Unowned(S, h)) /\ (Owns(g, h) => Owns(Head(S[t]), h)),
         Good(T, R, t, f), Good(T, R, t, g), f.at # "execTodo",
         g.at = "execTodo" => ~Ran(T, R, g.task),
         Base(t, Head(S[t])) => Base(t, g),
         \A b : Sits(Head(S[t]), b) => Sits(g, b),
         Sits(f, g),
         t \notin Workers => f.at \in StartPoints \cup {"user", "wait"},
         t \notin Workers => g.at \in StartPoints \cup {"user", "wait"}
  PROVE  Safe(A, T, F, Q, S2, R)
<1> DEFINE st == S[t]
           r == S2[t]
           n == Len(st)
<1>1. /\ st \in Seq(FrameSet) /\ st # <<>> /\ n \in Nat \ {0} /\ Head(st) = Fm(st, n)
      /\ n = 1 => Base(t, Head(st))
      /\ n > 1 => Sits(Head(st), Fm(st, n - 1))
  BY TopFacts
<1>2. DOMAIN S = Threads /\ StackOK(t, st) /\ TodoOK(T, R, st)
  BY DEF Safe
<1>3. DOMAIN S2 = Threads /\ r = <<f, g>> \o Tail(st) /\ \A u \in Threads \ {t} : S2[u] = S[u]
  BY <1>2
<1>4. /\ r \in Seq(FrameSet) /\ Len(r) = n + 1 /\ Fm(r, n + 1) = f /\ Fm(r, n) = g
      /\ \A d \in 1..(n - 1) : Fm(r, d) = Fm(st, d)
  BY <1>1, <1>3, Called
<1>a. n \in Nat /\ n >= 1 /\ n - 1 \in 0..n /\ n - 1 <= n + 1 /\ n + 1 \in Nat
  <2> HIDE DEF n
  <2> QED
    BY <1>1
<1>5. Rests(S, S2, t, n - 1)
  <2> HIDE DEF Fm
  <2> QED
    BY <1>a, <1>3, <1>4 DEF Rests
<1> HIDE DEF st, r, n
<1>6. ASSUME NEW d \in (n - 1 + 1)..Len(r)
      PROVE  (d = n /\ Fm(r, d) = g) \/ (d = n + 1 /\ Fm(r, d) = f)
  <2>1. Len(r) = n + 1
    BY <1>4
  <2>2. d = n \/ d = n + 1
    BY <1>a, <2>1
  <2> QED
    BY <1>4, <2>2
<1>7. StackOK(t, r)
  <2>1. ASSUME NEW d \in (n - 1 + 1)..Len(r), d > 1 PROVE Sits(Fm(r, d), Fm(r, d - 1))
    <3>1. CASE d = n
      <4>1. n > 1 /\ n - 1 \in 1..(n - 1) /\ Fm(r, n) = g
        BY <1>1, <1>4, <2>1, <3>1
      <4>2. Sits(g, Fm(st, n - 1))
        BY <1>1, <4>1 DEF st
      <4> QED
        BY <1>4, <3>1, <4>1, <4>2
    <3>2. CASE d = n + 1
      <4>1. d - 1 = n
        BY <1>1, <3>2
      <4> QED
        BY <1>4, <3>2, <4>1
    <3> QED
      BY <1>6, <3>1, <3>2
  <2>2. n - 1 = 0 => Base(t, Fm(r, 1))
    BY <1>1, <1>4 DEF st
  <2>3. n - 1 \in 0..Len(st) /\ Len(r) > 0 /\ n - 1 <= Len(r) /\ Len(st) \in Nat
    BY <1>1, <1>4 DEF n
  <2>4. t \notin Workers => \A d \in (n - 1 + 1)..Len(r) : Fm(r, d).at \in StartPoints \cup {"user", "wait"}
    BY <1>6
  <2> QED
    BY <1>2, <1>4, <2>1, <2>2, <2>3, <2>4, StackStep
<1>8. TodoOK(T, R, r)
  <2> SUFFICES ASSUME NEW d \in 1..Len(r), Fm(r, d).at = "execTodo"
               PROVE  Ran(T, R, Fm(r, d).task) <=> d = Len(r)
    BY DEF TodoOK
  <2>1. d \in 1..(n - 1) \/ (d = n /\ Fm(r, d) = g)
    <3>1. Len(r) = n + 1
      BY <1>4
    <3>2. d \in 1..(n - 1) \/ d = n \/ d = n + 1
      BY <1>a, <3>1
    <3> QED
      BY <1>4, <3>2
  <2>2. CASE d \in 1..(n - 1)
    <3>1. Fm(r, d) = Fm(st, d) /\ d # n /\ d \in 1..n /\ d # Len(r)
      BY <1>1, <1>4, <2>2
    <3> QED
      BY <1>2, <3>1 DEF TodoOK, n
  <2>3. CASE d = n /\ Fm(r, d) = g
    BY <1>1, <1>4, <2>3
  <2> QED
    BY <2>1, <2>2, <2>3
<1>9. Takes(S, S2, Q, t, n - 1)
  <2>1. n \in (n - 1 + 1)..Len(S[t]) /\ Head(S[t]) = Fm(S[t], n)
    BY <1>1 DEF n, st
  <2>2. \A d \in (n - 1 + 1)..Len(S2[t]) : \/ d = n /\ Fm(S2[t], d) = g
                                           \/ d = n + 1 /\ Fm(S2[t], d) = f
    BY <1>6 DEF r
  <2>3. n \in 1..Len(S[t])
    BY <1>a DEF n, st
  <2>4. ASSUME NEW c \in (n - 1 + 1)..Len(S2[t]), NEW s \in Slots, Holds(Fm(S2[t], c), s)
        PROVE  (c = n /\ Holds(Fm(S[t], n), s)) \/ (c = n + 1 /\ Unheld(S, Q, s))
    BY <2>1, <2>2, <2>4
  <2>5. ASSUME NEW c \in (n - 1 + 1)..Len(S2[t]), NEW h, Owns(Fm(S2[t], c), h), h.id \in Slots
        PROVE  (c = n /\ Owns(Fm(S[t], n), h)) \/ (c = n + 1 /\ Unowned(S, h))
    BY <2>1, <2>2, <2>5
  <2>6. \A s : ~(Holds(Fm(S[t], n), s) /\ Unheld(S, Q, s))
    BY <2>3 DEF Unheld
  <2>7. \A h : ~(Owns(Fm(S[t], n), h) /\ Unowned(S, h))
    BY <2>3 DEF Unowned
  <2> QED
    BY <2>1, <2>4, <2>5, <2>6, <2>7, ZenonT(40) DEF Takes
<1>10. \A d \in (n - 1 + 1)..Len(S2[t]) : Good(T, R, t, Fm(S2[t], d))
  BY <1>6 DEF r
<1>11. DOMAIN S2 = Threads /\ StackOK(t, S2[t]) /\ TodoOK(T, R, S2[t])
  BY <1>3, <1>7, <1>8 DEF r
<1> QED
  BY <1>5, <1>9, <1>10, <1>11, StackMove

\* A frame that holds and owns only what nobody does is put on top.
LEMMA PushOn ==
  ASSUME NEW A, NEW T, NEW F, NEW Q, NEW S, NEW S2, NEW R, Safe(A, T, F, Q, S, R),
         NEW t \in Threads, NEW f \in FrameSet, S2 = [S EXCEPT ![t] = <<f>> \o @],
         \A s \in Slots : Holds(f, s) => Unheld(S, Q, s),
         \A h : h.id \in Slots => (Owns(f, h) => Unowned(S, h)),
         Good(T, R, t, f), f.at # "execTodo", Head(S[t]).at # "execTodo",
         Sits(f, Head(S[t])),
         t \notin Workers => f.at \in StartPoints \cup {"user", "wait"}
  PROVE  Safe(A, T, F, Q, S2, R)
<1> DEFINE g == Head(S[t])
<1>1. /\ S[t] \in Seq(FrameSet) /\ S[t] # <<>> /\ g \in FrameSet /\ Good(T, R, t, g)
      /\ t \notin Workers => g.at \in StartPoints \cup {"user", "wait"}
  BY TopFacts
<1>2. <<f>> \o S[t] = <<f, g>> \o Tail(S[t])
  BY <1>1
<1>3. S2 = [S EXCEPT ![t] = <<f, g>> \o Tail(@)]
  BY <1>2
<1> HIDE DEF g
<1>4. \A s \in Slots : Holds(g, s) => Holds(Head(S[t]), s)
  BY DEF g
<1>5. \A h : Owns(g, h) => Owns(Head(S[t]), h)
  BY DEF g
<1>6. g.at # "execTodo" /\ Sits(f, g) /\ (Base(t, Head(S[t])) => Base(t, g)) /\ \A b : Sits(Head(S[t]), b) => Sits(g, b)
  BY DEF g
<1> QED
  BY <1>1, <1>3, <1>4, <1>5, <1>6, CallOn

-----------------------------------------------------------------------------
(* Steps that change one slot or one queue and leave the stacks alone      *)

\* The slots in the queues are not the one that changes.
LEMMA WaitingStep ==
  ASSUME NEW T, NEW R, NEW T2, NEW R2, NEW s \in Slots, Elsewhere(T, R, T2, R2, s), NEW Q,
         WaitingOK(T, R, Q), \A q \in DOMAIN Q : \A k \in DOMAIN Q[q] : Q[q][k] # s
  PROVE  WaitingOK(T2, R2, Q)
<1>1. ASSUME NEW q \in DOMAIN Q, NEW k \in DOMAIN Q[q]
      PROVE  T2[Q[q][k]] = T[Q[q][k]] /\ (Ran(T2, R2, Q[q][k]) <=> Ran(T, R, Q[q][k]))
  <2>1. Q[q][k] \in Slots \ {s}
    BY DEF WaitingOK
  <2> QED
    BY <2>1 DEF Elsewhere
<1>2. \A q \in DOMAIN Q : \A k \in DOMAIN Q[q] : Waits(T2, R2, q, Q[q][k])
  BY <1>1 DEF WaitingOK, Waits
<1> QED
  BY <1>2 DEF WaitingOK

\* The bodies that run are not those of the slot that changes.
LEMMA TodoStep ==
  ASSUME NEW T, NEW R, NEW T2, NEW R2, NEW s \in Slots, Elsewhere(T, R, T2, R2, s), NEW t, NEW st,
         StackOK(t, st), TodoOK(T, R, st), \A d \in 1..Len(st) : ~Holds(Fm(st, d), s)
  PROVE  TodoOK(T2, R2, st)
<1> SUFFICES ASSUME NEW d \in 1..Len(st), Fm(st, d).at = "execTodo"
             PROVE  Ran(T2, R2, Fm(st, d).task) <=> d = Len(st)
  BY DEF TodoOK
<1>1. Fm(st, d) \in FrameSet
  BY DEF StackOK, Fm
<1>2. Fm(st, d).task \in Slots \ {s}
  BY <1>1, FrameKinds DEF Holds, TodoFrames
<1> QED
  BY <1>2 DEF TodoOK, Elsewhere

\* A frame of a stack.
LEMMA FrameFacts ==
  ASSUME NEW A, NEW T, NEW F, NEW Q, NEW S, NEW R, Safe(A, T, F, Q, S, R), NEW t \in Threads,
         NEW d \in 1..Len(S[t])
  PROVE  Fm(S[t], d) \in FrameSet /\ Good(T, R, t, Fm(S[t], d))
  BY DEF Safe, StackOK, Fm

\* The task in a slot goes on while no frame holds it.
LEMMA Progress ==
  ASSUME NEW A, NEW T, NEW F, NEW Q, NEW S, NEW R, Safe(A, T, F, Q, S, R), NEW s \in Slots,
         NEW T2, NEW r2, T2 = [T EXCEPT ![s] = r2], GoesOn(T[s], r2), SlotOK(A, s, r2),
         r2.state = "COMPLETED" => Ran(T, R, s), Unheld(S, Q, s)
  PROVE  Safe(A, T2, F, Q, S, R)
<1>1. DOMAIN T = Slots
  BY DEF Safe
<1>2. T2[s] = r2 /\ DOMAIN T2 = Slots /\ \A x \in Slots \ {s} : T2[x] = T[x]
  BY <1>1
<1>3. \A x \in Slots : T2[x].tag = T[x].tag /\ T2[x].id = T[x].id
  BY <1>2 DEF GoesOn
<1>4. \A x \in Slots : Ran(T2, R, x) <=> Ran(T, R, x)
  BY <1>3 DEF Ran
<1>5. Elsewhere(T, R, T2, R, s) /\ GoesOn(T[s], T2[s])
  BY <1>2, <1>4 DEF Elsewhere
<1>6. \A x \in Slots : SlotOK(A, x, T2[x])
  BY <1>2 DEF Safe
<1>7. Pool(T2, F)
  BY <1>3 DEF Safe, Pool
<1>8. ASSUME NEW t \in Threads, NEW d \in 1..Len(S[t]) PROVE Good(T2, R, t, Fm(S[t], d))
  BY <1>5, FrameFacts, GoodBeside DEF Unheld
<1>9. ASSUME NEW t \in Threads PROVE TodoOK(T2, R, S[t])
  BY <1>5, TodoStep DEF Unheld, Safe
<1>10. WaitingOK(T2, R, Q)
  BY <1>5, WaitingStep DEF Unheld, Safe
<1>11. Owned(T2, S)
  BY <1>3 DEF Safe, Owned
<1>12. RanOK(T2, R)
  BY <1>3 DEF Safe, RanOK
<1>13. DoneOK(T2, R)
  BY <1>2, <1>4 DEF Safe, DoneOK
<1> QED
  BY <1>2, <1>6, <1>7, <1>8, <1>9, <1>10, <1>11, <1>12, <1>13 DEF Safe

\* The body of a task is on top of the frame that executes the task.
LEMMA BodyBelow ==
  ASSUME NEW A, NEW T, NEW F, NEW Q, NEW S, NEW R, Safe(A, T, F, Q, S, R), NEW u \in Threads,
         NEW d \in 1..Len(S[u]), Fm(S[u], d).at = "user", Fm(S[u], d) \in BodyFrames
  PROVE  /\ d - 1 \in 1..Len(S[u]) /\ d \in Nat /\ Fm(S[u], d - 1).at = "execTodo"
         /\ Fm(S[u], d - 1).task = Fm(S[u], d).self
<1> DEFINE f == Fm(S[u], d)
<1>1. Len(S[u]) \in Nat
  BY DEF Safe, StackOK
<1>2. ASSUME d = 1 PROVE FALSE
  <2>1. Base(u, f)
    BY <1>2 DEF Safe, StackOK
  <2>2. f.at = "user" /\ f \in BodyFrames
    OBVIOUS
  <2> HIDE DEF f
  <2>3. f \in MainFrames
    BY <2>1, <2>2 DEF Base, BasePoints
  <2>4. f.prog \in Code \ Actions
    BY <2>3 DEF MainFrames
  <2>5. f.prog \in Code \cap Actions
    BY <2>2 DEF BodyFrames
  <2> QED
    BY <2>4, <2>5
<1>3. d \in Nat /\ d \in 2..Len(S[u]) /\ d - 1 \in 1..Len(S[u])
  BY <1>1, <1>2
<1>4. Sits(f, Fm(S[u], d - 1))
  BY <1>3 DEF Safe, StackOK
<1> QED
  BY <1>3, <1>4 DEF Sits

\* A wait is on top of the user code that has the handle.
LEMMA WaitBelow ==
  ASSUME NEW A, NEW T, NEW F, NEW Q, NEW S, NEW R, Safe(A, T, F, Q, S, R), NEW u \in Threads,
         NEW d \in 1..Len(S[u]), Fm(S[u], d).at \in StartPoints \cup {"wait"}
  PROVE  /\ d - 1 \in 1..Len(S[u]) /\ d \in Nat /\ Fm(S[u], d - 1).at = "user"
         /\ Fm(S[u], d).at = "wait" => Owns(Fm(S[u], d - 1), Fm(S[u], d).of)
<1> DEFINE f == Fm(S[u], d)
<1>1. Len(S[u]) \in Nat
  BY DEF Safe, StackOK
<1>2. ASSUME d = 1 PROVE FALSE
  <2>1. Base(u, f)
    BY <1>2 DEF Safe, StackOK
  <2> QED
    BY <2>1 DEF Base, BasePoints, MainFrames, StartPoints
<1>3. d \in Nat /\ d \in 2..Len(S[u]) /\ d - 1 \in 1..Len(S[u])
  BY <1>1, <1>2
<1>4. Sits(f, Fm(S[u], d - 1))
  BY <1>3 DEF Safe, StackOK
<1> QED
  BY <1>3, <1>4 DEF Sits

\* Nobody knows of a slot that is free.
LEMMA FreeSlot ==
  ASSUME NEW A, NEW T, NEW F, NEW Q, NEW S, NEW R, Safe(A, T, F, Q, S, R), NEW s \in Slots, T[s].id = 0
  PROVE  /\ Unheld(S, Q, s) /\ Unowned(S, [id |-> s, tag |-> T[s].tag]) /\ ~Ran(T, R, s)
         /\ \A u \in Threads : \A d \in 1..Len(S[u]) : ~Refers(Fm(S[u], d), s)
         /\ \A h : HandleOK(T, h) => ~(h = [id |-> s, tag |-> T[s].tag])
<1>1. SlotOK(A, s, T[s]) /\ T[s].state = "ERROR"
  BY DEF Safe, SlotOK
<1>2. ASSUME NEW u \in Threads, NEW d \in 1..Len(S[u]), Refers(Fm(S[u], d), s) PROVE FALSE
  <2> DEFINE f == Fm(S[u], d)
  <2>1. f \in FrameSet /\ Good(T, R, u, f) /\ Refers(f, s)
    BY <1>2, FrameFacts
  <2>2. ASSUME f.at = "user", f \in BodyFrames, f.self = s PROVE FALSE
    <3>2. d - 1 \in 1..Len(S[u])
      BY <2>2, BodyBelow
    <3>4. Fm(S[u], d - 1).at = "execTodo" /\ Fm(S[u], d - 1).task = s
      BY <2>2, BodyBelow
    <3>a. Good(T, R, u, Fm(S[u], d - 1))
      BY <3>2, FrameFacts
    <3>5. T[s].state = "RUNNING"
      BY <3>4, <3>a DEF Good
    <3> QED
      BY <1>1, <3>5
  <2>3. ASSUME f.at \in HoldPoints \cup {"wait"}, f.task = s PROVE FALSE
    <3> HIDE DEF f
    <3> QED
      BY <1>1, <2>1, <2>3 DEF Good, HoldPoints
  <2> QED
    BY <2>1, <2>2, <2>3 DEF Refers
<1>3. ASSUME NEW u \in Threads, NEW d \in 1..Len(S[u]), Holds(Fm(S[u], d), s) PROVE FALSE
  BY <1>2, <1>3 DEF Holds, Refers, HoldPoints, StartPoints
<1>4. ASSUME NEW q \in DOMAIN Q, NEW k \in DOMAIN Q[q], Q[q][k] = s PROVE FALSE
  BY <1>1, <1>4 DEF Safe, WaitingOK, Waits
<1>5. ~Ran(T, R, s)
  <2> SUFFICES ASSUME NEW c \in DOMAIN R, c.task = [id |-> s, tag |-> T[s].tag] PROVE FALSE
    BY DEF Ran
  <2>1. c.task.id = s /\ c.task.tag = T[s].tag
    OBVIOUS
  <2>2. c.task.tag = T[c.task.id].tag => T[c.task.id].id # 0
    BY DEF Safe, RanOK
  <2> QED
    BY <2>1, <2>2
<1>6. ASSUME NEW h, HandleOK(T, h), h = [id |-> s, tag |-> T[s].tag] PROVE FALSE
  BY <1>1, <1>6 DEF HandleOK
<1>7. ASSUME NEW u \in Threads, NEW d \in 1..Len(S[u]), Owns(Fm(S[u], d), [id |-> s, tag |-> T[s].tag])
      PROVE  FALSE
  <2> DEFINE f == Fm(S[u], d)
             h == [id |-> s, tag |-> T[s].tag]
  <2>1. Good(T, R, u, f)
    BY FrameFacts
  <2>2. CASE f.at = "user" /\ \E k \in DOMAIN f.started : f.started[k] = h
    <3> HIDE DEF f, h
    <3>1. HandleOK(T, h)
      BY <2>1, <2>2 DEF Good
    <3> QED
      BY <1>6, <3>1 DEF h
  <2>3. CASE f.at \in StartPoints /\ f.of = h
    <3>1. f.of = [id |-> f.task, tag |-> T[f.task].tag] /\ T[f.task].id # 0
      <4> HIDE DEF f
      <4> QED
        BY <2>1, <2>3 DEF Good
    <3>2. f.task = s
      <4> HIDE DEF f
      <4> QED
        BY <2>3, <3>1
    <3> QED
      BY <3>1, <3>2
  <2> QED
    BY <1>7, <2>2, <2>3 DEF Owns
<1> QED
  BY <1>2, <1>3, <1>4, <1>5, <1>6, <1>7 DEF Unheld, Unowned

\* A task that is not deleted is put into a free slot.
LEMMA Birth ==
  ASSUME NEW A, NEW T, NEW F, NEW Q, NEW S, NEW R, Safe(A, T, F, Q, S, R), F # <<>>,
         NEW s, s = Head(F), NEW T2, NEW r2, T2 = [T EXCEPT ![s] = r2],
         r2.id = s, r2.tag = T[s].tag, SlotOK(A, s, r2), r2.state # "COMPLETED"
  PROVE  Safe(A, T2, Tail(F), Q, S, R)
<1>1. DOMAIN T = Slots
  BY DEF Safe
<1>2. F \in Seq(Slots) /\ Len(F) \in Nat \ {0} /\ s = F[1] /\ 1 \in DOMAIN F
  BY DEF Safe, Pool
<1>3. s \in Slots /\ T[s].id = 0 /\ s # 0
  BY <1>2 DEF Safe, Pool, Slots
<1>4. T2[s] = r2 /\ DOMAIN T2 = Slots /\ \A x \in Slots \ {s} : T2[x] = T[x]
  BY <1>1, <1>3
<1>5. /\ Unheld(S, Q, s) /\ Unowned(S, [id |-> s, tag |-> T[s].tag]) /\ ~Ran(T, R, s)
      /\ \A u \in Threads : \A d \in 1..Len(S[u]) : ~Refers(Fm(S[u], d), s)
      /\ \A h : HandleOK(T, h) => ~(h = [id |-> s, tag |-> T[s].tag])
  BY <1>3, FreeSlot
<1>6. \A x \in Slots : T2[x].tag = T[x].tag
  BY <1>4
<1>7. \A x \in Slots : Ran(T2, R, x) <=> Ran(T, R, x)
  BY <1>6 DEF Ran
<1>8. Elsewhere(T, R, T2, R, s)
  BY <1>4, <1>7 DEF Elsewhere
<1>9. \A x \in Slots : SlotOK(A, x, T2[x])
  BY <1>4 DEF Safe
<1>10. \A h \in Handles : HandleOK(T, h) => HandleOK(T2, h)
  <2> SUFFICES ASSUME NEW h \in Handles, HandleOK(T, h), h.id \in Slots PROVE HandleOK(T2, h)
    BY DEF HandleOK
  <2>1. CASE h.id = s
    <3>1. h.tag # T[s].tag
      BY <1>5, <2>1 DEF Handles
    <3> QED
      BY <1>4, <2>1, <3>1 DEF HandleOK
  <2>2. CASE h.id # s
    BY <1>4, <2>2 DEF HandleOK
  <2> QED
    BY <2>1, <2>2
<1>11. ASSUME NEW t \in Threads, NEW d \in 1..Len(S[t]) PROVE Good(T2, R, t, Fm(S[t], d))
  BY <1>3, <1>5, <1>8, <1>10, FrameFacts, GoodElsewhere
<1>12. ASSUME NEW t \in Threads PROVE TodoOK(T2, R, S[t])
  BY <1>3, <1>5, <1>8, TodoStep DEF Unheld, Safe
<1>13. WaitingOK(T2, R, Q)
  BY <1>3, <1>5, <1>8, WaitingStep DEF Unheld, Safe
<1>14. Owned(T2, S)
  BY <1>6 DEF Safe, Owned
<1>15. RanOK(T2, R)
  <2> SUFFICES ASSUME NEW c \in DOMAIN R
               PROVE  /\ c.task.tag <= T2[c.task.id].tag
                      /\ c.task.tag = T2[c.task.id].tag => T2[c.task.id].id # 0
    BY DEF Safe, RanOK
  <2>1. c.task.id \in Slots /\ c.task.tag <= T[c.task.id].tag
        /\ (c.task.tag = T[c.task.id].tag => T[c.task.id].id # 0)
    BY DEF Safe, RanOK
  <2> QED
    BY <1>3, <1>4, <2>1
<1>16. DoneOK(T2, R)
  BY <1>4, <1>7 DEF Safe, DoneOK
<1>17. Pool(T2, Tail(F))
  <2>1. Pool(T, F)
    BY DEF Safe
  <2>2. /\ Tail(F) \in Seq(Slots) /\ Len(Tail(F)) = Len(F) - 1 /\ DOMAIN Tail(F) = 1..(Len(F) - 1)
        /\ DOMAIN F = 1..Len(F) /\ \A k \in 1..(Len(F) - 1) : Tail(F)[k] = F[k + 1]
    BY <1>2
  <2>3. ASSUME NEW x \in Slots
        PROVE  (\E k \in DOMAIN Tail(F) : Tail(F)[k] = x) <=> T2[x].id = 0
    <3>1. (\E k \in DOMAIN F : F[k] = x) <=> T[x].id = 0
      BY <2>1 DEF Pool
    <3>2. CASE x = s
      <4>1. \A k \in DOMAIN Tail(F) : Tail(F)[k] # x
        <5> SUFFICES ASSUME NEW k \in DOMAIN Tail(F), Tail(F)[k] = x PROVE FALSE
          OBVIOUS
        <5>1. k + 1 \in DOMAIN F /\ F[k + 1] = F[1] /\ k + 1 # 1
          BY <1>2, <2>2, <3>2
        <5> QED
          BY <1>2, <2>1, <5>1 DEF Pool
      <4> QED
        BY <1>3, <1>4, <3>2, <4>1
    <3>3. CASE x # s
      <4>1. T2[x].id = T[x].id
        BY <1>4, <3>3
      <4>2. ASSUME NEW k \in DOMAIN F, F[k] = x PROVE \E i \in DOMAIN Tail(F) : Tail(F)[i] = x
        <5>1. k # 1
          BY <1>2, <3>3, <4>2
        <5>2. k - 1 \in 1..(Len(F) - 1) /\ (k - 1) + 1 = k
          BY <1>2, <2>2, <5>1
        <5> QED
          BY <2>2, <4>2, <5>2
      <4>3. ASSUME NEW i \in DOMAIN Tail(F), Tail(F)[i] = x PROVE \E k \in DOMAIN F : F[k] = x
        <5>1. i + 1 \in DOMAIN F /\ F[i + 1] = x
          BY <1>2, <2>2, <4>3
        <5> QED
          BY <5>1
      <4> QED
        BY <3>1, <4>1, <4>2, <4>3
    <3> QED
      BY <3>2, <3>3
  <2>4. \A k \in DOMAIN Tail(F) : Tail(F)[k] \in Slots
    BY <2>2
  <2>5. {Tail(F)[k] : k \in DOMAIN Tail(F)} = {x \in Slots : T2[x].id = 0}
    BY <2>3, <2>4
  <2>6. \A j, k \in DOMAIN Tail(F) : Tail(F)[j] = Tail(F)[k] => j = k
    <3> SUFFICES ASSUME NEW j \in DOMAIN Tail(F), NEW k \in DOMAIN Tail(F), Tail(F)[j] = Tail(F)[k]
                 PROVE  j = k
      OBVIOUS
    <3>1. j + 1 \in DOMAIN F /\ k + 1 \in DOMAIN F /\ F[j + 1] = F[k + 1] /\ j \in Nat /\ k \in Nat
      BY <1>2, <2>2
    <3>2. j + 1 = k + 1
      BY <2>1, <3>1 DEF Pool
    <3> QED
      BY <3>1, <3>2
  <2>7. Len(Tail(F)) <= MaxTasks
    BY <1>2, <2>1, <2>2, SizesAssumption DEF Pool
  <2> QED
    BY <2>2, <2>5, <2>6, <2>7 DEF Pool
<1> QED
  BY <1>4, <1>9, <1>11, <1>12, <1>13, <1>14, <1>15, <1>16, <1>17 DEF Safe

\* A task that nobody refers to is deleted: there is a place for its slot in the pool.
LEMMA Death ==
  ASSUME NEW A, NEW T, NEW F, NEW Q, NEW S, NEW R, Safe(A, T, F, Q, S, R), NEW s \in Slots,
         T[s].id # 0, Unheld(S, Q, s),
         \A u \in Threads : \A d \in 1..Len(S[u]) : ~Refers(Fm(S[u], d), s),
         NEW T2, NEW r2, T2 = [T EXCEPT ![s] = r2],
         r2.id = 0, r2.tag = T[s].tag + 1, SlotOK(A, s, r2)
  PROVE  Safe(A, T2, Append(F, s), Q, S, R) /\ Len(F) < MaxTasks
<1>1. DOMAIN T = Slots /\ Pool(T, F)
  BY DEF Safe
<1>2. F \in Seq(Slots) /\ Len(F) \in Nat /\ DOMAIN F = 1..Len(F) /\ Len(F) <= MaxTasks
  BY <1>1 DEF Pool
<1>3. \A k \in DOMAIN F : F[k] \in Slots \ {s}
  BY <1>1, <1>2 DEF Pool
<1>4. Len(F) < MaxTasks
  <2> SUFFICES ASSUME Len(F) = MaxTasks PROVE FALSE
    BY <1>2, SizesAssumption
  <2>1. F \in [Slots -> Slots \ {s}]
    BY <1>2, <1>3 DEF Slots
  <2>2. IsFiniteSet(Slots) /\ Cardinality(Slots) = MaxTasks
    BY FS_Interval, SizesAssumption DEF Slots
  <2>3. IsFiniteSet(Slots \ {s}) /\ Cardinality(Slots \ {s}) = MaxTasks - 1
    BY <2>2, FS_RemoveElement
  <2>4. Cardinality(Slots \ {s}) < Cardinality(Slots)
    BY <2>2, <2>3, SizesAssumption
  <2>5. \E x, y \in Slots : x # y /\ F[x] = F[y]
    BY <2>1, <2>2, <2>3, <2>4, FS_PigeonHole
  <2> QED
    BY <1>1, <1>2, <2>5 DEF Pool, Slots
<1>5. T2[s] = r2 /\ DOMAIN T2 = Slots /\ \A x \in Slots \ {s} : T2[x] = T[x]
  BY <1>1
<1>6. T[s].tag \in Nat
  <2>1. T[s] \in TaskRecords(s)
    BY DEF Safe, SlotOK
  <2> QED
    BY <2>1 DEF TaskRecords
<1>7. r2.state = "ERROR" /\ \A x \in Slots : SlotOK(A, x, T2[x])
  BY <1>5 DEF Safe, SlotOK
<1>8. \A x \in Slots \ {s} : Ran(T2, R, x) <=> Ran(T, R, x)
  BY <1>5 DEF Ran
<1>9. Elsewhere(T, R, T2, R, s)
  BY <1>5, <1>8 DEF Elsewhere
<1>10. \A h \in Handles : HandleOK(T, h) => HandleOK(T2, h)
  <2> SUFFICES ASSUME NEW h \in Handles, HandleOK(T, h), h.id \in Slots PROVE HandleOK(T2, h)
    BY DEF HandleOK
  <2>1. CASE h.id = s
    <3>1. h.tag <= T[s].tag /\ h.tag \in Nat
      BY <2>1 DEF HandleOK, Handles
    <3>2. h.tag <= T2[s].tag /\ h.tag # T2[s].tag
      BY <1>5, <1>6, <3>1
    <3> QED
      BY <2>1, <3>2 DEF HandleOK
  <2>2. CASE h.id # s
    BY <1>5, <2>2 DEF HandleOK
  <2> QED
    BY <2>1, <2>2
<1>11. ASSUME NEW t \in Threads, NEW d \in 1..Len(S[t]) PROVE Good(T2, R, t, Fm(S[t], d))
  BY <1>9, <1>10, FrameFacts, GoodElsewhere
<1>12. ASSUME NEW t \in Threads PROVE TodoOK(T2, R, S[t])
  BY <1>9, TodoStep DEF Unheld, Safe
<1>13. WaitingOK(T2, R, Q)
  BY <1>9, WaitingStep DEF Unheld, Safe
<1>14. Owned(T2, S)
  <2> SUFFICES ASSUME NEW t \in Threads, NEW u \in Threads, NEW d \in 1..Len(S[t]),
                      NEW e \in 1..Len(S[u]), NEW x \in Slots,
                      Owns(Fm(S[t], d), [id |-> x, tag |-> T2[x].tag]),
                      Owns(Fm(S[u], e), [id |-> x, tag |-> T2[x].tag])
               PROVE  t = u /\ d = e
    BY DEF Owned
  <2>1. CASE x # s
    <3>1. T2[x].tag = T[x].tag
      BY <1>5, <2>1
    <3> QED
      BY <3>1 DEF Safe, Owned
  <2>2. CASE x = s
    <3> DEFINE f == Fm(S[t], d)
               h == [id |-> x, tag |-> T2[x].tag]
    <3>1. Good(T, R, t, f) /\ Owns(f, h)
      BY FrameFacts
    <3>2. h.id = s /\ h.tag = T[s].tag + 1 /\ s \in Slots
      BY <1>5, <2>2
    <3> HIDE DEF f, h
    <3>3. CASE f.at = "user" /\ \E k \in DOMAIN f.started : f.started[k] = h
      <4>1. HandleOK(T, h)
        BY <3>1, <3>3 DEF Good
      <4> QED
        BY <1>6, <3>2, <4>1 DEF HandleOK
    <3>4. CASE f.at \in StartPoints /\ f.of = h
      <4>1. f.of = [id |-> f.task, tag |-> T[f.task].tag]
        BY <3>1, <3>4 DEF Good
      <4>2. f.task = s /\ T[f.task].tag = T[s].tag + 1
        BY <3>2, <3>4, <4>1
      <4> QED
        BY <1>6, <4>2
    <3> QED
      BY <3>1, <3>3, <3>4 DEF Owns
  <2> QED
    BY <2>1, <2>2
<1>15. RanOK(T2, R)
  <2> SUFFICES ASSUME NEW c \in DOMAIN R
               PROVE  /\ c.task.tag <= T2[c.task.id].tag
                      /\ c.task.tag = T2[c.task.id].tag => T2[c.task.id].id # 0
    BY DEF Safe, RanOK
  <2>1. c.task.id \in Slots /\ c.task.tag <= T[c.task.id].tag
        /\ (c.task.tag = T[c.task.id].tag => T[c.task.id].id # 0)
    BY DEF Safe, RanOK
  <2>2. c.task.tag \in Nat
    <3>1. c.task \in Handles
      BY DEF Safe, RanOK, Calling
    <3> QED
      BY <3>1 DEF Handles
  <2>3. CASE c.task.id = s
    BY <1>5, <1>6, <2>1, <2>2, <2>3
  <2>4. CASE c.task.id # s
    BY <1>5, <2>1, <2>4
  <2> QED
    BY <2>3, <2>4
<1>16. DoneOK(T2, R)
  <2> SUFFICES ASSUME NEW x \in Slots, T2[x].state = "COMPLETED" PROVE Ran(T2, R, x)
    BY DEF DoneOK
  <2>1. x \in Slots \ {s}
    BY <1>5, <1>7
  <2> QED
    BY <1>5, <1>8, <2>1 DEF Safe, DoneOK
<1>17. Pool(T2, Append(F, s))
  <2> DEFINE G == Append(F, s)
             n == Len(F) + 1
  <2>1. /\ G \in Seq(Slots) /\ Len(G) = n /\ DOMAIN G = 1..n /\ G[n] = s
        /\ \A k \in 1..Len(F) : G[k] = F[k]
    BY <1>2
  <2>2. n \in Nat /\ n \in DOMAIN G /\ \A k \in DOMAIN G : k = n \/ k \in DOMAIN F
    BY <1>2, <2>1
  <2>a. \A k \in DOMAIN F : k \in DOMAIN G /\ G[k] = F[k] /\ F[k] # s
    BY <1>2, <1>3, <2>1
  <2> HIDE DEF G, n
  <2>3. ASSUME NEW x \in Slots
        PROVE  (\E k \in DOMAIN G : G[k] = x) <=> T2[x].id = 0
    <3>1. (\E k \in DOMAIN F : F[k] = x) <=> T[x].id = 0
      BY <1>1 DEF Pool
    <3>2. CASE x = s
      BY <1>5, <2>1, <2>2, <3>2
    <3>3. CASE x # s
      <4>1. T2[x].id = T[x].id
        BY <1>5, <3>3
      <4> QED
        BY <2>1, <2>2, <2>a, <3>1, <3>3, <4>1
    <3> QED
      BY <3>2, <3>3
  <2>4. \A k \in DOMAIN G : G[k] \in Slots
    BY <2>1
  <2>5. {G[k] : k \in DOMAIN G} = {x \in Slots : T2[x].id = 0}
    BY <2>3, <2>4
  <2>6. \A j, k \in DOMAIN G : G[j] = G[k] => j = k
    BY <1>1, <2>1, <2>2, <2>a DEF Pool
  <2>7. Len(G) <= MaxTasks
    BY <1>2, <1>4, <2>1, SizesAssumption DEF n
  <2> QED
    BY <2>1, <2>5, <2>6, <2>7 DEF Pool, G
<1> QED
  BY <1>4, <1>5, <1>7, <1>11, <1>12, <1>13, <1>14, <1>15, <1>16, <1>17 DEF Safe

\* A task is taken from a queue: nobody holds it then.
LEMMA Leaves ==
  ASSUME NEW A, NEW T, NEW F, NEW Q, NEW S, NEW R, Safe(A, T, F, Q, S, R),
         NEW q \in DOMAIN Q, Q[q] # <<>>, NEW Q2, Q2 = [Q EXCEPT ![q] = Tail(@)]
  PROVE  /\ Safe(A, T, F, Q2, S, R)
         /\ Head(Q[q]) \in Slots /\ Unheld(S, Q2, Head(Q[q]))
         /\ Waits(T, R, q, Head(Q[q]))
<1> DEFINE Ks == Workers \X {"private", "public"} \X Prios
           s == Head(Q[q])
<1>1. Q \in [Ks -> Seq(Slots)] /\ WaitingOK(T, R, Q) /\ QueuedFree(S, Q)
  BY DEF Safe, WaitingOK
<1>2. DOMAIN Q = Ks /\ q \in Ks /\ Q[q] \in Seq(Slots)
  BY <1>1
<1> HIDE DEF Ks
<1>3. /\ Tail(Q[q]) \in Seq(Slots) /\ Len(Q[q]) \in Nat \ {0} /\ Len(Tail(Q[q])) = Len(Q[q]) - 1
      /\ DOMAIN Q[q] = 1..Len(Q[q]) /\ DOMAIN Tail(Q[q]) = 1..(Len(Q[q]) - 1)
      /\ \A k \in 1..(Len(Q[q]) - 1) : Tail(Q[q])[k] = Q[q][k + 1]
      /\ s = Q[q][1]
  BY <1>2
<1>4. Q2 \in [Ks -> Seq(Slots)] /\ DOMAIN Q2 = Ks /\ Q2[q] = Tail(Q[q]) /\ \A p \in Ks \ {q} : Q2[p] = Q[p]
  BY <1>1, <1>2, <1>3
<1>5. ASSUME NEW p \in Ks, NEW k \in DOMAIN Q2[p]
      PROVE  LET i == IF p = q THEN k + 1 ELSE k IN i \in DOMAIN Q[p] /\ Q2[p][k] = Q[p][i] /\ (p = q => i # 1)
  <2>1. CASE p = q
    <3>1. k \in 1..(Len(Q[q]) - 1)
      BY <1>3, <1>4, <2>1
    <3>2. k + 1 \in DOMAIN Q[q] /\ k + 1 # 1
      BY <1>3, <3>1
    <3> QED
      BY <1>3, <1>4, <2>1, <3>1, <3>2
  <2>2. CASE p # q
    BY <1>4, <2>2
  <2> QED
    BY <2>1, <2>2
<1>6. 1 \in DOMAIN Q[q]
  BY <1>3
<1>7. s \in Slots
  BY <1>2, <1>3, <1>6
<1>8. ASSUME NEW p \in Ks, NEW k \in DOMAIN Q2[p] PROVE Q2[p][k] # s
  <2>1. PICK i \in DOMAIN Q[p] : Q2[p][k] = Q[p][i] /\ (p = q => i # 1)
    BY <1>5
  <2>2. Q[p][i] = Q[q][1] => p = q /\ i = 1
    BY <1>1, <1>2, <1>6, <2>1 DEF WaitingOK
  <2> QED
    BY <1>3, <2>1, <2>2
<1>9. WaitingOK(T, R, Q2)
  <2>1. ASSUME NEW p \in Ks PROVE Len(Q2[p]) <= QueueLimit
    <3>1. Len(Q[p]) <= QueueLimit
      BY <1>1, <1>2 DEF WaitingOK
    <3>2. CASE p = q
      BY <1>3, <1>4, <3>1, <3>2, SizesAssumption
    <3>3. CASE p # q
      BY <1>4, <3>1, <3>3
    <3> QED
      BY <3>2, <3>3
  <2>2. ASSUME NEW p \in Ks, NEW k \in DOMAIN Q2[p]
        PROVE  Waits(T, R, p, Q2[p][k])
    <3>1. PICK i \in DOMAIN Q[p] : Q2[p][k] = Q[p][i]
      BY <1>5
    <3> QED
      BY <1>1, <1>2, <3>1 DEF WaitingOK
  <2>3. ASSUME NEW p \in Ks, NEW o \in Ks, NEW j \in DOMAIN Q2[p], NEW k \in DOMAIN Q2[o],
               Q2[p][j] = Q2[o][k]
        PROVE  p = o /\ j = k
    <3> DEFINE x == IF p = q THEN j + 1 ELSE j
               y == IF o = q THEN k + 1 ELSE k
    <3>1. x \in DOMAIN Q[p] /\ Q2[p][j] = Q[p][x] /\ y \in DOMAIN Q[o] /\ Q2[o][k] = Q[o][y]
      BY <1>5
    <3>2. p = o /\ x = y
      <4> HIDE DEF x, y
      <4> QED
        BY <1>1, <1>2, <2>3, <3>1 DEF WaitingOK
    <3>3. j \in Nat /\ k \in Nat
      <4>1. Q2[p] \in Seq(Slots) /\ Q2[o] \in Seq(Slots)
        BY <1>4
      <4> QED
        BY <4>1
    <3> QED
      BY <3>2, <3>3
  <2> QED
    BY <1>4, <2>1, <2>2, <2>3 DEF WaitingOK, Ks
<1>10. ASSUME NEW t \in Threads, NEW d \in 1..Len(S[t]), NEW p \in Ks, NEW k \in DOMAIN Q2[p]
       PROVE  ~Holds(Fm(S[t], d), Q2[p][k])
  <2>1. PICK i \in DOMAIN Q[p] : Q2[p][k] = Q[p][i]
    BY <1>5
  <2> QED
    BY <1>1, <1>2, <2>1 DEF QueuedFree
<1>11. QueuedFree(S, Q2)
  BY <1>4, <1>10 DEF QueuedFree
<1>12. Unheld(S, Q2, s)
  BY <1>1, <1>2, <1>3, <1>4, <1>6, <1>8 DEF Unheld, QueuedFree
<1>13. Waits(T, R, q, s)
  BY <1>1, <1>2, <1>3, <1>6, SMTT(40) DEF WaitingOK
<1> QED
  BY <1>7, <1>9, <1>11, <1>12, <1>13 DEF Safe

\* A task that nobody holds is put into a queue.
LEMMA Enters ==
  ASSUME NEW A, NEW T, NEW F, NEW Q, NEW S, NEW R, Safe(A, T, F, Q, S, R),
         NEW q \in DOMAIN Q, Len(Q[q]) < QueueLimit, NEW s \in Slots, Unheld(S, Q, s),
         Waits(T, R, q, s),
         NEW Q2, Q2 = [Q EXCEPT ![q] = Append(@, s)]
  PROVE  Safe(A, T, F, Q2, S, R)
<1> DEFINE Ks == Workers \X {"private", "public"} \X Prios
           n == Len(Q[q]) + 1
<1>1. Q \in [Ks -> Seq(Slots)] /\ WaitingOK(T, R, Q) /\ QueuedFree(S, Q)
  BY DEF Safe, WaitingOK
<1>2. DOMAIN Q = Ks /\ q \in Ks /\ Q[q] \in Seq(Slots)
  BY <1>1
<1> HIDE DEF Ks
<1>3. /\ Append(Q[q], s) \in Seq(Slots) /\ Len(Append(Q[q], s)) = n /\ Len(Q[q]) \in Nat
      /\ DOMAIN Q[q] = 1..Len(Q[q]) /\ DOMAIN Append(Q[q], s) = 1..n
      /\ \A k \in 1..Len(Q[q]) : Append(Q[q], s)[k] = Q[q][k]
      /\ Append(Q[q], s)[n] = s
  BY <1>2
<1>4. /\ Q2 \in [Ks -> Seq(Slots)] /\ DOMAIN Q2 = Ks /\ Q2[q] = Append(Q[q], s)
      /\ \A p \in Ks \ {q} : Q2[p] = Q[p]
  BY <1>1, <1>2, <1>3
<1>5. ASSUME NEW p \in Ks, NEW k \in DOMAIN Q2[p]
      PROVE  \/ k \in DOMAIN Q[p] /\ Q2[p][k] = Q[p][k] /\ Q2[p][k] # s
             \/ p = q /\ k = n /\ Q2[p][k] = s
  <2>0. \A i \in DOMAIN Q[p] : Q[p][i] # s
    BY <1>2 DEF Unheld
  <2>1. CASE p = q
    <3>1. k \in 1..n
      BY <1>3, <1>4, <2>1
    <3>2. k \in 1..Len(Q[q]) \/ k = n
      BY <1>3, <3>1
    <3> QED
      BY <1>3, <1>4, <2>0, <2>1, <3>2
  <2>2. CASE p # q
    BY <1>4, <2>0, <2>2
  <2> QED
    BY <2>1, <2>2
<1>6. WaitingOK(T, R, Q2)
  <2>1. ASSUME NEW p \in Ks PROVE Len(Q2[p]) <= QueueLimit
    <3>1. Len(Q[p]) <= QueueLimit
      BY <1>1, <1>2 DEF WaitingOK
    <3>2. CASE p = q
      BY <1>3, <1>4, <3>2, SizesAssumption
    <3>3. CASE p # q
      BY <1>4, <3>1, <3>3
    <3> QED
      BY <3>2, <3>3
  <2>2. ASSUME NEW p \in Ks, NEW k \in DOMAIN Q2[p]
        PROVE  Waits(T, R, p, Q2[p][k])
    <3>1. CASE k \in DOMAIN Q[p] /\ Q2[p][k] = Q[p][k]
      BY <1>1, <1>2, <3>1 DEF WaitingOK
    <3>2. CASE p = q /\ Q2[p][k] = s
      BY <3>2
    <3> QED
      BY <1>5, <3>1, <3>2
  <2>3. ASSUME NEW p \in Ks, NEW o \in Ks, NEW j \in DOMAIN Q2[p], NEW k \in DOMAIN Q2[o],
               Q2[p][j] = Q2[o][k]
        PROVE  p = o /\ j = k
    <3> HIDE DEF n
    <3>1. CASE Q2[p][j] = s
      BY <1>5, <2>3, <3>1
    <3>2. CASE Q2[p][j] # s
      <4>1. j \in DOMAIN Q[p] /\ k \in DOMAIN Q[o] /\ Q[p][j] = Q[o][k]
        BY <1>5, <2>3, <3>2
      <4> QED
        BY <1>1, <1>2, <4>1 DEF WaitingOK
    <3> QED
      BY <3>1, <3>2
  <2> QED
    BY <1>4, <2>1, <2>2, <2>3 DEF WaitingOK, Ks
<1>7. ASSUME NEW t \in Threads, NEW d \in 1..Len(S[t]), NEW p \in Ks, NEW k \in DOMAIN Q2[p]
      PROVE  ~Holds(Fm(S[t], d), Q2[p][k])
  BY <1>1, <1>2, <1>5 DEF QueuedFree, Unheld
<1>8. QueuedFree(S, Q2)
  BY <1>4, <1>7 DEF QueuedFree
<1> QED
  BY <1>6, <1>8 DEF Safe

\* The body of a task sets the error code of the task.
LEMMA ErrorSet ==
  ASSUME NEW A, NEW T, NEW F, NEW Q, NEW S, NEW R, Safe(A, T, F, Q, S, R), NEW s \in Slots,
         NEW t \in Threads, NEW c \in 1..Len(S[t]), Fm(S[t], c).at = "execTodo", Fm(S[t], c).task = s,
         NEW x \in Errors, NEW T2, T2 = [T EXCEPT ![s].error = x]
  PROVE  Safe(A, T2, F, Q, S, R)
<1>1. DOMAIN T = Slots /\ SlotOK(A, s, T[s]) /\ T[s] \in TaskRecords(s)
  BY DEF Safe, SlotOK
<1>2. T2[s] = [T[s] EXCEPT !.error = x] /\ DOMAIN T2 = Slots /\ \A y \in Slots \ {s} : T2[y] = T[y]
  BY <1>1
<1>3. T2[s] \in TaskRecords(s)
  BY <1>1, <1>2 DEF TaskRecords
<1>4. /\ T2[s].id = T[s].id /\ T2[s].tag = T[s].tag /\ T2[s].state = T[s].state /\ T2[s].todo = T[s].todo
      /\ T2[s].action = T[s].action /\ T2[s].job = T[s].job
  BY <1>1, <1>2 DEF TaskRecords
<1>5. \A y \in Slots : /\ T2[y].id = T[y].id /\ T2[y].tag = T[y].tag /\ T2[y].state = T[y].state
                       /\ T2[y].todo = T[y].todo /\ T2[y].action = T[y].action /\ T2[y].job = T[y].job
  BY <1>2, <1>4
<1>6. T[s].state = "RUNNING"
  <2>1. Good(T, R, t, Fm(S[t], c))
    BY FrameFacts
  <2> QED
    BY <2>1 DEF Good
<1>7. \A y \in Slots : SlotOK(A, y, T2[y])
  <2>1. SlotOK(A, s, T2[s])
    BY <1>1, <1>3, <1>4, <1>6 DEF SlotOK
  <2> QED
    BY <1>2, <2>1 DEF Safe
<1>8. Pool(T2, F)
  BY <1>5 DEF Safe, Pool
<1>9. \A y \in Slots : Ran(T2, R, y) <=> Ran(T, R, y)
  BY <1>5 DEF Ran
<1>10. ASSUME NEW u \in Threads, NEW d \in 1..Len(S[u]) PROVE Good(T2, R, u, Fm(S[u], d))
  <2> DEFINE f == Fm(S[u], d)
  <2>1. f \in FrameSet /\ Good(T, R, u, f)
    BY FrameFacts
  <2>2. ~(f.at = "execCall" /\ f.task = s)
    <3>1. Holds(Fm(S[t], c), s)
      BY DEF Holds
    <3>2. ASSUME f.at = "execCall", f.task = s PROVE FALSE
      <4>1. Holds(f, s)
        BY <3>2 DEF Holds
      <4>2. u = t /\ d = c
        BY <3>1, <4>1 DEF Safe, HeldOnce
      <4> QED
        BY <3>2, <4>2
    <3> QED
      BY <3>2
  <2> SUFFICES Good(T2, R, u, f)
    OBVIOUS
  <2> HIDE DEF f
  <2>3. CASE f.at = "user"
    <3>1. \A k \in DOMAIN f.started : HandleOK(T2, f.started[k])
      BY <1>5, <2>1, <2>3 DEF Good, HandleOK
    <3>2. ASSUME f \in BodyFrames
          PROVE  /\ T2[f.self].tag = T[f.self].tag /\ T2[f.self].action = T[f.self].action
                 /\ T2[f.self].job = T[f.self].job
      <4>1. f.self \in Slots
        BY <3>2 DEF BodyFrames
      <4> QED
        BY <1>5, <4>1
    <3> QED
      BY <2>1, <2>3, <3>1, <3>2, Zenon DEF Good, StartPoints
  <2>4. CASE f.at \in HoldPoints \cup {"wait"}
    <3>1. f.task \in Slots
      BY <2>1, <2>4, FrameKinds DEF StartFrames, WaitFrames, GotFrames, CallFrames, TodoFrames,
           DoneFrames, HoldPoints
    <3>2. f.at # "user"
      BY <2>4 DEF HoldPoints, StartPoints
    <3>3. f.at = "execCall" => T2[f.task].error = T[f.task].error
      BY <1>2, <2>2, <3>1
    <3>4. /\ T2[f.task].id = T[f.task].id /\ T2[f.task].tag = T[f.task].tag
          /\ T2[f.task].state = T[f.task].state /\ T2[f.task].todo = T[f.task].todo
          /\ T2[f.task].action = T[f.task].action /\ T2[f.task].job = T[f.task].job
          /\ (Ran(T2, R, f.task) <=> Ran(T, R, f.task))
      BY <1>5, <1>9, <3>1
    <3> QED
      BY <2>1, <3>2, <3>3, <3>4 DEF Good
  <2>5. CASE f.at \notin HoldPoints \cup {"wait", "user"}
    BY <2>5, GoodIdle
  <2> QED
    BY <2>3, <2>4, <2>5
<1>11. ASSUME NEW u \in Threads PROVE TodoOK(T2, R, S[u])
  <2> SUFFICES ASSUME NEW d \in 1..Len(S[u]), Fm(S[u], d).at = "execTodo"
               PROVE  Ran(T2, R, Fm(S[u], d).task) <=> d = Len(S[u])
    BY DEF TodoOK
  <2>1. Fm(S[u], d).task \in Slots
    BY FrameFacts, FrameKinds DEF TodoFrames
  <2> QED
    BY <1>9, <2>1 DEF Safe, TodoOK
<1>12. WaitingOK(T2, R, Q)
  <2>1. ASSUME NEW q \in DOMAIN Q, NEW k \in DOMAIN Q[q] PROVE Waits(T2, R, q, Q[q][k])
    <3>1. Q[q][k] \in Slots /\ Waits(T, R, q, Q[q][k])
      BY DEF Safe, WaitingOK
    <3> QED
      BY <1>5, <1>9, <3>1 DEF Waits
  <2> QED
    BY <2>1 DEF Safe, WaitingOK
<1>13. Owned(T2, S)
  BY <1>5 DEF Safe, Owned
<1>14. RanOK(T2, R)
  BY <1>5 DEF Safe, RanOK
<1>15. DoneOK(T2, R)
  <2> SUFFICES ASSUME NEW y \in Slots, T2[y].state = "COMPLETED" PROVE Ran(T2, R, y)
    BY DEF DoneOK
  <2>1. T[y].state = "COMPLETED"
    BY <1>5
  <2> QED
    BY <1>9, <2>1 DEF Safe, DoneOK
<1> QED
  BY <1>2, <1>7, <1>8, <1>10, <1>11, <1>12, <1>13, <1>14, <1>15 DEF Safe

\* What has run, with one more call.
WithCall(R, c) == R (+) SetToBag({c})

\* The body of a task returns.
LEMMA BodyEnds ==
  ASSUME NEW A, NEW T, NEW F, NEW Q, NEW S, NEW R, Safe(A, T, F, Q, S, R),
         NEW t \in Threads, Head(S[t]).at = "user", Head(S[t]) \in BodyFrames, t \in Workers,
         NEW S2, S2 = [S EXCEPT ![t] = Tail(@)],
         NEW R2, R2 = WithCall(R, Head(S[t]).call)
  PROVE  Safe(A, T, F, Q, S2, R2) /\ DOMAIN R \subseteq DOMAIN R2
<1> DEFINE st == S[t]
           r == S2[t]
           n == Len(st)
           f == Head(st)
           c == f.call
           s == f.self
<1>1. st \in Seq(FrameSet) /\ st # <<>> /\ n \in Nat \ {0} /\ f = Fm(st, n) /\ Good(T, R, t, f)
  BY TopFacts
<1>2. DOMAIN S = Threads /\ StackOK(t, st) /\ TodoOK(T, R, st)
  BY DEF Safe
<1>3. DOMAIN S2 = Threads /\ r = Tail(st) /\ \A u \in Threads \ {t} : S2[u] = S[u]
  BY <1>2
<1>4. r \in Seq(FrameSet) /\ Len(r) = n - 1 /\ \A d \in 1..(n - 1) : Fm(r, d) = Fm(st, d)
  BY <1>1, <1>3, Popped
<1>5. n \in 1..n /\ n - 1 \in 1..n /\ Fm(st, n - 1).at = "execTodo" /\ Fm(st, n - 1).task = s
  <2>1. n \in 1..Len(S[t]) /\ Fm(S[t], n).at = "user" /\ Fm(S[t], n) \in BodyFrames
    BY <1>1
  <2> QED
    BY <1>1, <2>1, BodyBelow, SMTT(40)
<1>6. s \in Slots /\ c \in Calling /\ f \in BodyFrames /\ f.at = "user"
  BY DEF BodyFrames
<1>7. Good(T, R, t, Fm(st, n - 1))
  BY <1>5, FrameFacts
<1> HIDE DEF st, r, n, f, s, c
<1>8. /\ c.task = [id |-> s, tag |-> T[s].tag] /\ c.on = t /\ May(t, c.action, c.job)
      /\ c.job = T[s].job
  BY <1>1, <1>6 DEF Good, c, s
<1>9. T[s].state = "RUNNING" /\ T[s].todo = 1
  BY <1>5, <1>7 DEF Good
<1>10. T[s].id # 0 /\ Attr[T[s].job].instances = 1
  BY <1>6, <1>9 DEF Safe, SlotOK
<1>11. ~Ran(T, R, s)
  BY <1>1, <1>2, <1>5 DEF TodoOK, n
<1>12. /\ DOMAIN R2 = DOMAIN R \cup {c} /\ R2[c] = 1 /\ c \notin DOMAIN R
       /\ \A x \in DOMAIN R : R2[x] = 1
  <2>1. c \notin DOMAIN R
    BY <1>8, <1>11 DEF Ran
  <2>2. R2 = R (+) SetToBag({c})
    BY DEF c, f, st, WithCall
  <2>3. \A x \in DOMAIN R : R[x] = 1
    BY DEF Safe, RanOK
  <2>4. DOMAIN R2 = DOMAIN R \cup {c}
    BY <2>2 DEF (+), SetToBag
  <2>5. R2[c] = 1
    BY <2>1, <2>2 DEF (+), SetToBag
  <2>6. \A x \in DOMAIN R : R2[x] = 1
    BY <2>1, <2>2, <2>3 DEF (+), SetToBag
  <2> QED
    BY <2>1, <2>4, <2>5, <2>6
<1>13. /\ Ran(T, R2, s)
       /\ \A x \in Slots \ {s} : Ran(T, R2, x) <=> Ran(T, R, x)
  <2>1. Ran(T, R2, s)
    BY <1>8, <1>12 DEF Ran
  <2>2. ASSUME NEW x \in Slots \ {s} PROVE Ran(T, R2, x) <=> Ran(T, R, x)
    <3>1. c.task # [id |-> x, tag |-> T[x].tag]
      BY <1>8
    <3> QED
      BY <1>12, <3>1 DEF Ran
  <2> QED
    BY <2>1, <2>2
<1>14. Elsewhere(T, R, T, R2, s) /\ GoesOn(T[s], T[s])
  BY <1>9, <1>13 DEF Elsewhere, GoesOn
<1>15. ASSUME NEW u \in Threads, NEW d \in 1..Len(S2[u])
       PROVE  /\ d \in 1..Len(S[u]) /\ Fm(S2[u], d) = Fm(S[u], d)
              /\ u = t => d \in 1..(n - 1)
  <2>1. CASE u = t
    <3>1. d \in 1..(n - 1) /\ d \in 1..n
      BY <1>1, <1>4, <2>1 DEF r
    <3> QED
      BY <1>4, <2>1, <3>1 DEF r, st, n
  <2>2. CASE u # t
    BY <1>3, <2>2
  <2> QED
    BY <2>1, <2>2
<1>16. ASSUME NEW u \in Threads, NEW d \in 1..Len(S[u]), Holds(Fm(S[u], d), s)
       PROVE  u = t /\ d = n - 1
  <2>1. Holds(Fm(S[t], n - 1), s) /\ n - 1 \in 1..Len(S[t])
    BY <1>5 DEF Holds, st, n
  <2> QED
    BY <1>6, <1>16, <2>1 DEF Safe, HeldOnce
<1>17. ASSUME NEW u \in Threads, NEW d \in 1..Len(S2[u]) PROVE Good(T, R2, u, Fm(S2[u], d))
  <2>1. Fm(S[u], d) \in FrameSet /\ Good(T, R, u, Fm(S[u], d))
    BY <1>15, FrameFacts
  <2>2. CASE Holds(Fm(S[u], d), s)
    <3>1. u = t /\ Fm(S[u], d) = Fm(st, n - 1)
      BY <1>15, <1>16, <2>2 DEF st
    <3>2. Good(T, R2, t, Fm(st, n - 1))
      BY <1>5, <1>7 DEF Good, StartPoints
    <3> QED
      BY <1>15, <3>1, <3>2
  <2>3. CASE ~Holds(Fm(S[u], d), s)
    <3>1. Good(T, R2, u, Fm(S[u], d))
      BY <1>6, <1>14, <2>1, <2>3, GoodBeside
    <3> QED
      BY <1>15, <3>1
  <2> QED
    BY <2>2, <2>3
<1>18. ASSUME NEW u \in Threads PROVE StackOK(u, S2[u])
  <2>1. CASE u = t
    <3>1. n - 1 \in 0..Len(st) /\ Len(r) > 0 /\ n - 1 <= Len(r) /\ Len(st) \in Nat /\ n - 1 # 0
      BY <1>1, <1>4, <1>5 DEF n
    <3>2. \A d \in (n - 1 + 1)..Len(r) : FALSE
      BY <1>1, <1>4
    <3>3. StackOK(t, r)
      BY <1>2, <1>4, <3>1, <3>2, StackStep
    <3> QED
      BY <2>1, <3>3 DEF r
  <2>2. CASE u # t
    BY <1>3, <2>2 DEF Safe
  <2> QED
    BY <2>1, <2>2
<1>19. ASSUME NEW u \in Threads PROVE TodoOK(T, R2, S2[u])
  <2> SUFFICES ASSUME NEW d \in 1..Len(S2[u]), Fm(S2[u], d).at = "execTodo"
               PROVE  Ran(T, R2, Fm(S2[u], d).task) <=> d = Len(S2[u])
    BY DEF TodoOK
  <2>1. d \in 1..Len(S[u]) /\ Fm(S2[u], d) = Fm(S[u], d)
    BY <1>15
  <2>2. Fm(S[u], d).task \in Slots
    BY <2>1, FrameFacts, FrameKinds DEF TodoFrames
  <2>3. Ran(T, R, Fm(S[u], d).task) <=> d = Len(S[u])
    BY <2>1 DEF Safe, TodoOK
  <2>4. CASE Fm(S[u], d).task = s
    <3>1. u = t /\ d = n - 1
      BY <1>16, <2>1, <2>4 DEF Holds
    <3>2. d = Len(S2[u])
      BY <1>4, <3>1 DEF r
    <3> QED
      BY <1>13, <2>1, <2>4, <3>2
  <2>5. CASE Fm(S[u], d).task # s
    <3>1. Ran(T, R2, Fm(S[u], d).task) <=> Ran(T, R, Fm(S[u], d).task)
      BY <1>13, <2>2, <2>5
    <3>2. CASE u # t
      BY <1>3, <2>1, <2>3, <3>1, <3>2
    <3>3. CASE u = t
      <4>1. d \in 1..(n - 1) /\ d # n /\ Len(S[u]) = n /\ Len(S2[u]) = n - 1
        BY <1>1, <1>4, <1>15, <3>3 DEF n, st, r
      <4>2. d # n - 1
        BY <1>5, <2>5, <3>3 DEF st
      <4> QED
        BY <2>1, <2>3, <3>1, <4>1, <4>2
    <3> QED
      BY <3>2, <3>3
  <2> QED
    BY <2>4, <2>5
<1>20. WaitingOK(T, R2, Q)
  <2>1. \A q \in DOMAIN Q : \A k \in DOMAIN Q[q] : Q[q][k] # s
    <3>1. Holds(Fm(S[t], n - 1), s) /\ n - 1 \in 1..Len(S[t])
      BY <1>5 DEF Holds, st, n
    <3> QED
      BY <3>1 DEF Safe, QueuedFree
  <2> QED
    BY <1>6, <1>14, <2>1, WaitingStep DEF Safe
<1>21. HeldOnce(S2)
  BY <1>15 DEF Safe, HeldOnce
<1>22. QueuedFree(S2, Q)
  BY <1>15 DEF Safe, QueuedFree
<1>23. Owned(T, S2)
  BY <1>15 DEF Safe, Owned
<1>24. RanOK(T, R2)
  <2> SUFFICES ASSUME NEW x \in DOMAIN R2
               PROVE  /\ R2[x] = 1 /\ x \in Calling /\ Attr[x.job].instances = 1
                      /\ May(x.on, x.action, x.job) /\ x.task.id \in Slots
                      /\ x.task.tag <= T[x.task.id].tag
                      /\ x.task.tag = T[x.task.id].tag => T[x.task.id].id # 0
                      /\ \A d \in DOMAIN R2 : x.task = d.task => x = d
    BY DEF RanOK
  <2>1. CASE x \in DOMAIN R
    <3>1. x.task # c.task
      BY <1>8, <1>11, <2>1 DEF Ran
    <3> QED
      BY <1>12, <2>1, <3>1 DEF Safe, RanOK
  <2>2. CASE x = c
    <3>1. \A d \in DOMAIN R : d.task # c.task
      BY <1>8, <1>11 DEF Ran
    <3>2. T[s].tag \in Nat
      <4>1. T[s] \in TaskRecords(s)
        BY <1>6 DEF Safe, SlotOK
      <4> QED
        BY <4>1 DEF TaskRecords
    <3>3. c.task.id = s /\ c.task.tag = T[s].tag /\ c.task.tag <= T[s].tag
      BY <1>8, <3>2
    <3> QED
      BY <1>6, <1>8, <1>10, <1>12, <2>2, <3>1, <3>3
  <2> QED
    BY <1>12, <2>1, <2>2
<1>25. DoneOK(T, R2)
  BY <1>13 DEF Safe, DoneOK
<1> QED
  BY <1>3, <1>12, <1>17, <1>18, <1>19, <1>20, <1>21, <1>22, <1>23, <1>24, <1>25 DEF Safe

-----------------------------------------------------------------------------
(* Searching and sleeping                                                  *)

\* A worker has at least one queue to look into.
LEMMA ProbesFact == Probes \in Nat \ {0}
<1>1. MaxPriorities \in Nat \ {0} /\ NumWorkers + 1 \in Nat \ {0}
  BY SizesAssumption
<1>2. \A a, b \in Nat \ {0} : a * b \in Nat \ {0}
  OBVIOUS
<1> QED
  BY <1>1, <1>2 DEF Probes

\* The frames of a worker without a task.
LEMMA IdleFrames ==
  /\ [at |-> "asleep"] \in FrameSet /\ [at |-> "waiting"] \in FrameSet /\ [at |-> "awake"] \in FrameSet
  /\ \A n \in 0..(Probes - 1) : [at |-> "loop", n |-> n] \in FrameSet /\ [at |-> "take", n |-> n] \in FrameSet
<1>1. \A f \in SleepFrames \cup SeekFrames : f \in FrameSet
  BY DEF FrameSet
<1> QED
  BY <1>1 DEF SleepFrames, SeekFrames

\* A worker without a task goes from one such point to another.
LEMMA IdleSwap ==
  ASSUME FInv, NEW w \in Threads, Top(w).at \in BasePoints, NEW f \in FrameSet, f.at \in BasePoints,
         stack' = ReplaceTop(w, f)
  PROVE  Safe(action, task, free, wqueue, stack', ran)
<1>1. Safe(action, task, free, wqueue, stack, ran)
  BY DEF FInv
<1>2. stack' = [stack EXCEPT ![w] = <<f>> \o Tail(@)]
  BY DEF ReplaceTop
<1>3. Good(task, ran, w, f) /\ (\A s : ~Holds(f, s)) /\ (\A h : ~Owns(f, h)) /\ f.at # "execTodo"
  BY GoodIdle DEF BasePoints, HoldPoints, StartPoints
<1>4. w \in Workers
  <2>1. w \notin Workers => Head(stack[w]).at \in StartPoints \cup {"user", "wait"}
    BY <1>1, TopFacts
  <2> QED
    BY <2>1 DEF Top, BasePoints, StartPoints
<1>5. Base(w, f) /\ \A b : ~Sits(Head(stack[w]), b)
  BY <1>4 DEF Base, Sits, Top
<1> QED
  BY <1>1, <1>2, <1>3, <1>4, <1>5, Swap

\* What is left alone by a step that only touches stacks.
LEMMA Untouched ==
  ASSUME FInv, UNCHANGED <<memory, history>>, Safe(action, task, free, wqueue, stack', ran)
  PROVE  FInv'
  BY DEF FInv, memory, history, scheduling, objects, Joined, Objects

\* An idle worker begins to wait on its condition variable, or the wait's time is up:
\* its oldest frame changes and nothing else.
LEMMA IdleSteps ==
  ASSUME FInv, NEW w \in Workers, StartWaiting(w) \/ WaitTimesOut(w)
  PROVE  FInv'
<1>1. w \in Threads
  BY DEF Threads
<1>2. CASE StartWaiting(w)
  <2>1. Top(w).at \in BasePoints /\ stack' = ReplaceTop(w, [at |-> "waiting"]) /\ UNCHANGED <<memory, history>>
    BY <1>2 DEF StartWaiting, At, BasePoints
  <2> QED
    BY <1>1, <2>1, IdleSwap, IdleFrames, Untouched DEF BasePoints
<1>3. CASE WaitTimesOut(w)
  <2>1. Top(w).at \in BasePoints /\ stack' = ReplaceTop(w, [at |-> "awake"]) /\ UNCHANGED <<memory, history>>
    BY <1>3 DEF WaitTimesOut, At, BasePoints
  <2> QED
    BY <1>1, <2>1, IdleSwap, IdleFrames, Untouched DEF BasePoints
<1> QED
  BY <1>2, <1>3

\* A worker announces that it sleeps, or takes that back when it is awake: its oldest frame and its flag change.
LEMMA SleepSteps ==
  ASSUME FInv, NEW w \in Workers, FallAsleep(w) \/ WakeUp(w)
  PROVE  FInv'
<1>1. w \in Threads
  BY DEF Threads
<1>2. ASSUME Safe(action, task, free, wqueue, stack', ran), NEW b \in BOOLEAN,
             is_sleeping' = [is_sleeping EXCEPT ![w] = b],
             UNCHANGED <<task, free, wqueue, affine_task_counter, action, group, objects, history>>
      PROVE  FInv'
  BY <1>2 DEF FInv, history, objects, Joined, Objects
<1>3. CASE FallAsleep(w)
  <2>1. Top(w).at \in BasePoints /\ stack' = ReplaceTop(w, [at |-> "asleep"])
    BY <1>3 DEF FallAsleep, At, BasePoints
  <2>2. Safe(action, task, free, wqueue, stack', ran)
    BY <1>1, <2>1, IdleSwap, IdleFrames DEF BasePoints
  <2> QED
    BY <1>2, <1>3, <2>2 DEF FallAsleep
<1>4. CASE WakeUp(w)
  <2>1. Top(w).at \in BasePoints /\ stack' = ReplaceTop(w, [at |-> "loop", n |-> 0])
    BY <1>4 DEF WakeUp, At, BasePoints
  <2>2. 0 \in 0..(Probes - 1)
    BY ProbesFact
  <2>3. Safe(action, task, free, wqueue, stack', ran)
    BY <1>1, <2>1, <2>2, IdleSwap, IdleFrames DEF BasePoints
  <2> QED
    BY <1>2, <1>4, <2>3 DEF WakeUp
<1> QED
  BY <1>3, <1>4

\* A queue had nothing for the worker: it goes on to the next one.
LEMMA ProbeFailsStep ==
  ASSUME FInv, NEW t \in Workers, ProbeFails(t)
  PROVE  FInv'
<1>0. t \in Threads /\ Safe(action, task, free, wqueue, stack, ran)
  BY DEF Threads, FInv
<1>1. UNCHANGED <<memory, history>> /\ Top(t).at \in {"loop", "take"}
  BY DEF ProbeFails, Searches, At
<1>2. Top(t) \in FrameSet /\ Top(t) = Head(stack[t])
  BY <1>0, TopFacts DEF Top
<1>3. Top(t) \in SeekFrames
  BY <1>1, <1>2, FrameKinds
<1>4. CASE /\ Top(t).n + 1 < Probes /\ At(t, "loop")
           /\ stack' = ReplaceTop(t, [Top(t) EXCEPT !.n = @ + 1])
  <2> DEFINE f == [Top(t) EXCEPT !.n = @ + 1]
  <2>1. f \in SeekFrames /\ f.at = "loop"
    BY <1>3, <1>4, ProbesFact DEF SeekFrames, At
  <2>2. f \in FrameSet
    BY <2>1 DEF FrameSet
  <2> HIDE DEF f
  <2> QED
    BY <1>0, <1>1, <1>4, <2>1, <2>2, IdleSwap, Untouched DEF BasePoints, f, At
<1>5. CASE /\ Top(t).n + 1 < Probes /\ At(t, "take")
           /\ stack' = ReplaceTop(t, [Top(t) EXCEPT !.n = @ + 1])
  <2> DEFINE f == [Top(t) EXCEPT !.n = @ + 1]
  <2>1. f \in SeekFrames /\ f.at = "take"
    BY <1>3, <1>5, ProbesFact DEF SeekFrames, At
  <2>2. f \in FrameSet
    BY <2>1 DEF FrameSet
  <2>3. stack' = [stack EXCEPT ![t] = <<f>> \o Tail(@)]
    BY <1>5 DEF ReplaceTop
  <2>4. Good(task, ran, t, f) /\ (\A s : ~Holds(f, s)) /\ (\A h : ~Owns(f, h)) /\ f.at # "execTodo"
    BY <2>1, GoodIdle DEF HoldPoints, StartPoints
  <2>5. ~Base(t, Head(stack[t])) /\ \A b : Sits(Head(stack[t]), b) => Sits(f, b)
    BY <1>2, <1>5, <2>1 DEF Base, Sits, At, BasePoints, StartPoints, ExecPoints
  <2> HIDE DEF f
  <2>6. Safe(action, task, free, wqueue, stack', ran)
    BY <1>0, <2>2, <2>3, <2>4, <2>5, Swap
  <2> QED
    BY <1>1, <2>6, Untouched
<1>6. CASE At(t, "loop") /\ stack' = ReplaceTop(t, [at |-> "loop", n |-> 0])
  <2>2. 0 \in 0..(Probes - 1) /\ Top(t).at \in BasePoints
    BY <1>6, ProbesFact DEF BasePoints, At
  <2> QED
    BY <1>0, <1>1, <1>6, <2>2, IdleSwap, IdleFrames, Untouched DEF BasePoints
<1>7. CASE At(t, "take") /\ stack' = PopFrame(t)
  <2>1. stack' = [stack EXCEPT ![t] = Tail(@)] /\ Head(stack[t]).at \notin BasePoints \cup {"user"}
    BY <1>7 DEF PopFrame, At, Top, BasePoints
  <2> QED
    BY <1>0, <1>1, <2>1, Drop, Untouched
<1> QED
  BY <1>1, <1>4, <1>5, <1>6, <1>7 DEF ProbeFails, At

-----------------------------------------------------------------------------
(* Facts about slots, objects and user code                                *)

\* A fork-join program has no groups and no queues.
LEMMA NoObjects ==
  ASSUME FInv
  PROVE  (\A g : ~ValidGroup(g)) /\ (\A q : ~ValidQueue(q))
  BY DEF FInv, Objects, ValidGroup, ValidQueue

\* A task that was scheduled has a valid action.
LEMMA SlotFacts ==
  ASSUME FInv, NEW s \in Slots
  PROVE  /\ task[s] \in TaskRecords(s)
         /\ task[s].id # 0 => task[s].id = s /\ Attr[task[s].job].instances = 1
         /\ task[s].id = 0 <=> task[s].state = "ERROR"
         /\ task[s].state \in {"SCHEDULED", "RUNNING", "COMPLETED"} =>
              /\ task[s].action \in Actions \cap Code /\ ValidAction(task[s].action)
         /\ task[s].state = "SCHEDULED" => task[s].current = 0 /\ task[s].error = "SUCCESS" /\ task[s].todo = 1
<1>1. SlotOK(action, s, task[s]) /\ task[s] \in TaskRecords(s)
  BY DEF FInv, Safe, SlotOK
<1>2. task[s].id \in {0, s} /\ task[s].action \in (Actions \cap Code) \cup {NoAction}
  BY <1>1 DEF TaskRecords
<1>3. task[s].id # 0 => task[s].id = s
  BY <1>2
<1>4. task[s].id # 0 => Attr[task[s].job].instances = 1
  BY <1>1 DEF SlotOK
<1>5. task[s].id = 0 <=> task[s].state = "ERROR"
  BY <1>1 DEF SlotOK
<1>6. task[s].state \in {"SCHEDULED", "RUNNING", "COMPLETED"} =>
        task[s].action \in Actions \cap Code /\ ValidAction(task[s].action)
  BY <1>1, <1>2 DEF SlotOK, ValidAction
<1>7. task[s].state = "SCHEDULED" => task[s].current = 0 /\ task[s].error = "SUCCESS" /\ task[s].todo = 1
  BY <1>1 DEF SlotOK
<1> QED
  BY <1>1, <1>3, <1>4, <1>5, <1>6, <1>7

\* The frame of user code after a call differs in the position only.
LEMMA AdvancedFacts ==
  ASSUME NEW f \in FrameSet, f.at = "user"
  PROVE  LET g == Advanced(f) IN
         /\ g \in FrameSet /\ g.at = "user" /\ g.started = f.started
         /\ (f \in MainFrames <=> g \in MainFrames) /\ (f \in BodyFrames <=> g \in BodyFrames)
         /\ f \in BodyFrames => g.self = f.self /\ g.call = f.call
         /\ \A h : Owns(g, h) <=> Owns(f, h)
         /\ \A s : ~Holds(g, s)
         /\ \A T, R, t : Good(T, R, t, f) => Good(T, R, t, g)
         /\ \A t : Base(t, f) => Base(t, g)
         /\ \A b : Sits(f, b) => Sits(g, b)
<1> DEFINE g == Advanced(f)
<1>1. f \in MainFrames \/ f \in BodyFrames
  BY FrameKinds
<1>2. /\ g.at = "user" /\ g.started = f.started
      /\ (f \in MainFrames => g \in MainFrames) /\ (f \in BodyFrames => g \in BodyFrames)
      /\ f \in BodyFrames => g.self = f.self /\ g.call = f.call
  BY <1>1 DEF Advanced, MainFrames, BodyFrames
<1>3. g \in FrameSet
  BY <1>1, <1>2 DEF FrameSet
<1>4. ~(f \in MainFrames /\ f \in BodyFrames) /\ ~(g \in MainFrames /\ g \in BodyFrames)
  <2>1. \A x : ~(x \in MainFrames /\ x \in BodyFrames)
    <3> SUFFICES ASSUME NEW x, x \in MainFrames, x \in BodyFrames PROVE FALSE
      OBVIOUS
    <3>1. x.prog \in Code \ Actions
      BY DEF MainFrames
    <3>2. x.prog \in Code \cap Actions
      BY DEF BodyFrames
    <3> QED
      BY <3>1, <3>2
  <2> QED
    BY <2>1
<1>5. (f \in MainFrames <=> g \in MainFrames) /\ (f \in BodyFrames <=> g \in BodyFrames)
  BY <1>1, <1>2, <1>4
<1> HIDE DEF g
<1>a. ASSUME NEW h PROVE Owns(g, h) <=> Owns(f, h)
  BY <1>2 DEF Owns, StartPoints
<1>b. ASSUME NEW s PROVE ~Holds(g, s)
  BY <1>2 DEF Holds
<1>6. (\A h : Owns(g, h) <=> Owns(f, h)) /\ (\A s : ~Holds(g, s))
  BY <1>a, <1>b
<1>7. ASSUME NEW T, NEW R, NEW t, Good(T, R, t, f) PROVE Good(T, R, t, g)
  BY <1>2, <1>5, <1>7 DEF Good, StartPoints
<1>8. ASSUME NEW t, Base(t, f) PROVE Base(t, g)
  BY <1>2, <1>5, <1>8 DEF Base, BasePoints
<1>9. ASSUME NEW b, Sits(f, b) PROVE Sits(g, b)
  BY <1>2, <1>5, <1>9 DEF Sits, BasePoints, StartPoints, ExecPoints
<1> QED
  BY <1>2, <1>3, <1>5, <1>6, <1>7, <1>8, <1>9 DEF g

\* What a thread in user code may be about to execute.
LEMMA StatementFacts ==
  ASSUME FInv, ForkJoin, NEW t \in Threads, InProgram(t)
  PROVE  /\ Top(t) \in FrameSet /\ Top(t) = Head(stack[t]) /\ Top(t).at = "user" /\ Good(task, ran, t, Top(t))
         /\ Top(t).prog \in Code /\ Top(t).i \in 1..Len(Program[Top(t).prog])
         /\ (Top(t).prog \in Actions <=> Top(t) \in BodyFrames)
         /\ Joins(Top(t).prog, Statement(t))
<1>1. Safe(action, task, free, wqueue, stack, ran)
  BY DEF FInv
<1>2. Top(t) \in FrameSet /\ Top(t) = Head(stack[t]) /\ Top(t).at = "user" /\ Good(task, ran, t, Top(t))
  BY <1>1, TopFacts DEF Top, InProgram, At
<1>3. Top(t) \in MainFrames \/ Top(t) \in BodyFrames
  BY <1>2, FrameKinds
<1>4. Top(t).prog \in Code /\ Top(t).i \in Nat \ {0}
  BY <1>3 DEF MainFrames, BodyFrames
<1>5. Top(t).prog \in Actions <=> Top(t) \in BodyFrames
  BY <1>3 DEF MainFrames, BodyFrames
<1>6. Len(Program[Top(t).prog]) \in Nat
  BY <1>4 DEF ForkJoin
<1>7. Top(t).i \in 1..Len(Program[Top(t).prog])
  BY <1>4, <1>6 DEF InProgram
<1>8. Joins(Top(t).prog, Statement(t))
  BY <1>4, <1>7 DEF ForkJoin, Statement
<1> QED
  BY <1>2, <1>4, <1>5, <1>7, <1>8

\* An API call that returns at once.
LEMMA CallDoneSafe ==
  ASSUME FInv, ForkJoin, NEW t \in Threads, InProgram(t), stack' = CallDone(t)
  PROVE  Safe(action, task, free, wqueue, stack', ran)
<1>1. Safe(action, task, free, wqueue, stack, ran)
  BY DEF FInv
<1>2. /\ Top(t) \in FrameSet /\ Top(t) = Head(stack[t]) /\ Top(t).at = "user"
      /\ Good(task, ran, t, Top(t))
  BY StatementFacts
<1> DEFINE f == Advanced(Top(t))
<1>3. /\ f \in FrameSet /\ f.at = "user" /\ (\A h : Owns(f, h) => Owns(Head(stack[t]), h))
      /\ (\A s : ~Holds(f, s)) /\ Good(task, ran, t, f)
      /\ (Base(t, Head(stack[t])) => Base(t, f)) /\ \A b : Sits(Head(stack[t]), b) => Sits(f, b)
  BY <1>2, AdvancedFacts
<1>4. stack' = [stack EXCEPT ![t] = <<f>> \o Tail(@)]
  BY DEF CallDone, ReplaceTop
<1> HIDE DEF f
<1>5. f.at # "execTodo" /\ f.at \in StartPoints \cup {"user", "wait"}
  BY <1>3
<1> QED
  BY <1>1, <1>3, <1>4, <1>5, Swap

\* A step that changes stacks and the result of a call that is no successful wait.
LEMMA Answered ==
  ASSUME FInv, UNCHANGED <<memory, ran>>, Safe(action, task, free, wqueue, stack', ran),
         NEW t \in Threads, NEW x, x.op # "wait" \/ x.code # "SUCCESS",
         status' = [status EXCEPT ![t] = x]
  PROVE  FInv'
<1>1. Joined'
  BY DEF FInv, Joined, memory
<1> QED
  BY <1>1 DEF FInv, memory, scheduling, objects, Objects

\* A step that leaves the result of every call and the other objects alone.
LEMMA Whole ==
  ASSUME FInv, Safe(action, task, free, wqueue, stack, ran)',
         UNCHANGED <<is_sleeping, group, queue, job, status>>,
         affine_task_counter' \in Nat,
         action' \in [Actions -> [valid : BOOLEAN, enabled : BOOLEAN, num_tasks : Int]],
         DOMAIN ran \subseteq DOMAIN ran'
  PROVE  FInv'
<1>1. Joined'
  BY DEF FInv, Joined
<1>2. Objects'
  BY DEF FInv, Objects
<1> QED
  BY <1>1, <1>2 DEF FInv

\* The second of a sequence is the first of its tail.
LEMMA Seconds ==
  ASSUME NEW X, NEW st \in Seq(X), Len(st) > 1
  PROVE  Tail(st) # <<>> /\ Head(Tail(st)) = st[2] /\ Tail(st)[1] = st[2]
<1>1. Len(st) \in Nat /\ Len(Tail(st)) = Len(st) - 1 /\ Tail(st) \in Seq(X)
  OBVIOUS
<1>2. Tail(st)[1] = st[2]
  OBVIOUS
<1>3. Len(Tail(st)) # 0
  BY <1>1
<1>4. Tail(st) # <<>>
  <2>1. Len(<<>>) = 0
    OBVIOUS
  <2> QED
    BY <1>3, <2>1, Zenon
<1>5. Head(Tail(st)) = Tail(st)[1]
  BY <1>1, <1>4
<1> QED
  BY <1>2, <1>4, <1>5

\* The top of a stack and the frame below it.
LEMMA Below ==
  ASSUME FInv, NEW t \in Threads, Top(t).at \notin BasePoints \cup {"user"}
  PROVE  /\ Top(t) = Head(stack[t]) /\ Top(t) \in FrameSet /\ Good(task, ran, t, Top(t))
         /\ Len(stack[t]) \in Nat /\ Len(stack[t]) > 1 /\ stack[t] \in Seq(FrameSet) /\ stack[t] # <<>>
         /\ Top(t) = Fm(stack[t], Len(stack[t]))
         /\ stack[t][2] = Fm(stack[t], Len(stack[t]) - 1) /\ Tail(stack[t])[1] = stack[t][2]
         /\ Sits(Top(t), stack[t][2]) /\ stack[t][2] \in FrameSet /\ Good(task, ran, t, stack[t][2])
         /\ Tail(stack[t]) # <<>> /\ Head(Tail(stack[t])) = stack[t][2]
<1> DEFINE st == stack[t]
           n == Len(st)
<1>1. Safe(action, task, free, wqueue, stack, ran)
  BY DEF FInv
<1>2. /\ st \in Seq(FrameSet) /\ st # <<>> /\ n \in Nat \ {0} /\ Head(st) = Fm(st, n)
      /\ Head(st) \in FrameSet /\ Good(task, ran, t, Head(st))
      /\ n = 1 => Base(t, Head(st))
      /\ n > 1 => Sits(Head(st), Fm(st, n - 1))
  BY <1>1, TopFacts
<1>3. n > 1
  <2>1. ~Base(t, Head(st))
    BY DEF Base, MainFrames, Top
  <2> HIDE DEF n, st
  <2> QED
    BY <1>2, <2>1
<1>4. n - 1 \in 1..n /\ st[2] = Fm(st, n - 1)
  <2>1. n + 1 - (n - 1) = 2 /\ n - 1 \in 1..n
    <3> HIDE DEF n
    <3> QED
      BY <1>2, <1>3
  <2> QED
    BY <2>1 DEF Fm
<1>5. Fm(st, n - 1) \in FrameSet /\ Good(task, ran, t, Fm(st, n - 1))
  BY <1>1, <1>4, FrameFacts
<1>6. Tail(st) # <<>> /\ Head(Tail(st)) = st[2] /\ Tail(st)[1] = st[2]
  BY <1>2, <1>3, Seconds
<1> QED
  BY <1>2, <1>3, <1>4, <1>5, <1>6 DEF Top

-----------------------------------------------------------------------------
(* Dispatching and executing a task                                        *)

\* A task that was taken is executed.
LEMMA DispatchRunStep ==
  ASSUME FInv, NEW w \in Workers, DispatchRun(w)
  PROVE  FInv'
<1>1. w \in Threads /\ Safe(action, task, free, wqueue, stack, ran)
  BY DEF Threads, FInv
<1> DEFINE s == Top(w).task
           f == [at |-> "exec", task |-> s]
<1>2. Top(w).at = "dispatch" /\ UNCHANGED <<memory, history>>
  BY DEF DispatchRun, At
<1>3. Top(w) = Head(stack[w]) /\ Top(w) \in FrameSet /\ Good(task, ran, w, Top(w))
  BY <1>1, <1>2, Below DEF BasePoints
<1>4. s \in Slots
  BY <1>2, <1>3, FrameKinds DEF GotFrames
<1>5. f \in FrameSet
  BY <1>4 DEF FrameSet, GotFrames
<1>6. stack' = [stack EXCEPT ![w] = <<f>> \o Tail(@)]
  <2>1. ~ValidQueue(task[s].queue)
    BY NoObjects
  <2>2. stack' = [stack EXCEPT ![w] = <<f>> \o (IF ValidQueue(task[s].queue) THEN
           <<[at |-> "executed", queue |-> task[s].queue, done |-> FALSE]>> ELSE <<>>) \o Tail(@)]
    BY DEF DispatchRun
  <2>3. <<f>> \o <<>> = <<f>>
    OBVIOUS
  <2> HIDE DEF f
  <2> QED
    BY <2>1, <2>2, <2>3
<1>7. Good(task, ran, w, f)
  BY <1>2, <1>3 DEF Good, StartPoints
<1>8. /\ \A x \in Slots : Holds(f, x) => Holds(Head(stack[w]), x)
      /\ \A h : ~Owns(f, h)
      /\ f.at # "execTodo"
      /\ ~Base(w, Head(stack[w]))
      /\ \A b : Sits(Head(stack[w]), b) => Sits(f, b)
  <2>1. f.at = "exec" /\ f.task = s /\ Head(stack[w]).at = "dispatch" /\ Head(stack[w]).task = s
    BY <1>2, <1>3
  <2> HIDE DEF f, s
  <2> QED
    BY <2>1 DEF Holds, Owns, Base, Sits, StartPoints, ExecPoints, BasePoints
<1> HIDE DEF f, s
<1>9. Safe(action, task, free, wqueue, stack', ran)
  BY <1>1, <1>5, <1>6, <1>7, <1>8, Swap
<1> QED
  BY <1>2, <1>9, Untouched

\* The action function is called.
LEMMA ExecCallStep ==
  ASSUME FInv, NEW w \in Workers, ExecCall(w)
  PROVE  FInv'
<1>1. w \in Threads /\ Safe(action, task, free, wqueue, stack, ran)
  BY DEF Threads, FInv
<1> DEFINE s == Top(w).task
           a == task[s].action
           g == [at |-> "execTodo", task |-> s, action |-> a]
           c == [task |-> Handle(s), job |-> task[s].job, action |-> a, queue |-> task[s].queue,
                 instance |-> Top(w).instance, on |-> w]
           f == [at |-> "user", prog |-> a, i |-> 1, started |-> <<>>, self |-> s, call |-> c]
<1>2. Top(w).at = "execCall" /\ UNCHANGED <<memory, history>>
  BY DEF ExecCall, At
<1>3. Top(w) = Head(stack[w]) /\ Top(w) \in FrameSet /\ Good(task, ran, w, Top(w))
  BY <1>1, <1>2, Below DEF BasePoints
<1>4. s \in Slots /\ Top(w).instance = 0
  BY <1>2, <1>3, FrameKinds DEF CallFrames
<1>5. /\ task[s].state = "RUNNING" /\ task[s].error = "SUCCESS" /\ task[s].todo = 1
      /\ May(w, a, task[s].job) /\ ~Ran(task, ran, s)
  BY <1>2, <1>3 DEF Good
<1>6. /\ task[s] \in TaskRecords(s) /\ task[s].id = s /\ a \in Actions \cap Code
  BY <1>4, <1>5, SlotFacts
<1>7. task[s].tag \in Nat /\ task[s].job \in Jobs /\ task[s].queue = NoQueue
  BY <1>6 DEF TaskRecords
<1>8. Handle(s) = [id |-> s, tag |-> task[s].tag] /\ Handle(s) \in Handles
  BY <1>4, <1>6, <1>7 DEF Handle, Handles, Slots
<1>9. c \in Calling
  BY <1>4, <1>6, <1>7, <1>8 DEF Calling
<1>10. f \in BodyFrames /\ g \in TodoFrames
  <2> HIDE DEF c
  <2> QED
    BY <1>4, <1>6, <1>9 DEF BodyFrames, TodoFrames
<1>11. f \in FrameSet /\ g \in FrameSet
  BY <1>10 DEF FrameSet
<1>12. stack' = [stack EXCEPT ![w] = <<f, g>> \o Tail(@)]
  BY <1>5 DEF ExecCall
<1>13. Good(task, ran, w, f)
  <2>1. f.at = "user" /\ DOMAIN f.started = {}
    OBVIOUS
  <2>2. f.call = c /\ f.self = s
    OBVIOUS
  <2>3. c.task = [id |-> s, tag |-> task[s].tag] /\ c.job = task[s].job /\ c.action = task[s].action /\ c.on = w
    BY <1>8
  <2> HIDE DEF f, c
  <2> QED
    BY <1>5, <2>1, <2>2, <2>3 DEF Good, StartPoints
<1>14. Good(task, ran, w, g)
  BY <1>5 DEF Good, StartPoints
<1>15. /\ \A x \in Slots : ~Holds(f, x) /\ (Holds(g, x) => Holds(Head(stack[w]), x))
       /\ \A h : ~Owns(f, h) /\ ~Owns(g, h)
       /\ f.at # "execTodo" /\ g.at = "execTodo" /\ g.task = s
       /\ ~Base(w, Head(stack[w]))
       /\ \A b : Sits(Head(stack[w]), b) => Sits(g, b)
       /\ Sits(f, g)
  <2>1. f.at = "user" /\ f.self = s /\ DOMAIN f.started = {} /\ g.at = "execTodo" /\ g.task = s
    OBVIOUS
  <2>2. Head(stack[w]).at = "execCall" /\ Head(stack[w]).task = s
    BY <1>2, <1>3
  <2> HIDE DEF f, g, s
  <2> QED
    BY <1>10, <2>1, <2>2 DEF Holds, Owns, Base, Sits, StartPoints, ExecPoints, BasePoints
<1> HIDE DEF f, g, s, c, a
<1>16. Safe(action, task, free, wqueue, stack', ran)
  BY <1>1, <1>5, <1>11, <1>12, <1>13, <1>14, <1>15, CallOn
<1> QED
  BY <1>2, <1>16, Untouched

\* The execution is over; there is no group to report to.
LEMMA ExecGroupStep ==
  ASSUME FInv, NEW w \in Workers, ExecGroup(w)
  PROVE  FInv'
<1>1. w \in Threads /\ Safe(action, task, free, wqueue, stack, ran)
  BY DEF Threads, FInv
<1>2. Top(w).at = "execGroup" /\ UNCHANGED <<memory, history>>
  BY DEF ExecGroup, At
<1>3. /\ Top(w) = Head(stack[w]) /\ Sits(Top(w), stack[w][2]) /\ Tail(stack[w])[1] = stack[w][2]
  BY <1>1, <1>2, Below DEF BasePoints
<1>4. Tail(stack[w])[1].at # "executed"
  BY <1>2, <1>3 DEF Sits, ExecPoints
<1>5. stack' = Executed(w, Top(w).last)
  BY NoObjects DEF ExecGroup
<1>6. stack' = [stack EXCEPT ![w] = Tail(@)]
  BY <1>4, <1>5 DEF Executed
<1>7. Safe(action, task, free, wqueue, stack', ran)
  BY <1>1, <1>2, <1>3, <1>6, Drop DEF BasePoints
<1> QED
  BY <1>2, <1>7, Untouched

\* The count of an action changes and nothing else of it.
LEMMA CountStep ==
  ASSUME FInv, NEW a \in Actions, NEW A2,
         \/ A2 = [action EXCEPT ![a].num_tasks = More(@)]
         \/ A2 = [action EXCEPT ![a].num_tasks = Less(@)]
  PROVE  /\ A2 \in [Actions -> [valid : BOOLEAN, enabled : BOOLEAN, num_tasks : Int]]
         /\ \A b \in Actions : A2[b].valid = action[b].valid
<1>1. action \in [Actions -> [valid : BOOLEAN, enabled : BOOLEAN, num_tasks : Int]]
  BY DEF FInv, Objects
<1>2. \A n \in Int : More(n) \in Int /\ Less(n) \in Int
  BY ActionsAssumption DEF More, Less
<1>3. More(action[a].num_tasks) \in Int /\ Less(action[a].num_tasks) \in Int
  BY <1>1, <1>2
<1>4. PICK x \in Int : A2 = [action EXCEPT ![a] = [@ EXCEPT !.num_tasks = x]]
  BY <1>3
<1>5. action[a] \in [valid : BOOLEAN, enabled : BOOLEAN, num_tasks : Int]
  BY <1>1
<1>6. /\ [action[a] EXCEPT !.num_tasks = x] \in [valid : BOOLEAN, enabled : BOOLEAN, num_tasks : Int]
      /\ [action[a] EXCEPT !.num_tasks = x].valid = action[a].valid
  BY <1>5
<1>7. A2[a] = [action[a] EXCEPT !.num_tasks = x] /\ DOMAIN A2 = Actions /\ \A b \in Actions \ {a} : A2[b] = action[b]
  BY <1>1, <1>4
<1> QED
  BY <1>1, <1>4, <1>6, <1>7

\* The task is no longer in flight.
LEMMA ExecCountStep ==
  ASSUME FInv, NEW w \in Workers, ExecCount(w)
  PROVE  FInv'
<1>1. w \in Threads /\ Safe(action, task, free, wqueue, stack, ran)
  BY DEF Threads, FInv
<1> DEFINE f == [at |-> "execGroup", task |-> Top(w).task, last |-> Top(w).last]
<1>2. /\ Top(w).at = "execCount" /\ UNCHANGED <<task, free, scheduling, group, objects, history>>
      /\ action' = [action EXCEPT ![Top(w).action].num_tasks = Less(@)]
      /\ stack' = [stack EXCEPT ![w] = <<f>> \o Tail(@)]
  BY DEF ExecCount, At, ReplaceTop
<1>3. Top(w) = Head(stack[w]) /\ Top(w) \in FrameSet
  BY <1>1, <1>2, Below DEF BasePoints
<1>4. Top(w) \in DoneFrames
  BY <1>2, <1>3, FrameKinds
<1>5. Top(w).task \in Slots /\ Top(w).action \in Actions /\ Top(w).last = TRUE
  BY <1>4 DEF DoneFrames
<1>6. f \in EndFrames
  BY <1>5 DEF EndFrames
<1>7. f \in FrameSet /\ f.at = "execGroup"
  BY <1>6 DEF FrameSet
<1> HIDE DEF f
<1>8. Good(task, ran, w, f) /\ (\A s : ~Holds(f, s)) /\ (\A h : ~Owns(f, h)) /\ f.at # "execTodo"
  BY <1>7, GoodIdle DEF HoldPoints, StartPoints
<1>9. ~Base(w, Head(stack[w])) /\ \A b : Sits(Head(stack[w]), b) => Sits(f, b)
  BY <1>2, <1>3, <1>7 DEF Base, Sits, BasePoints, StartPoints, ExecPoints
<1>10. /\ action' \in [Actions -> [valid : BOOLEAN, enabled : BOOLEAN, num_tasks : Int]]
       /\ \A b \in Actions : action'[b].valid = action[b].valid
  <2> DEFINE a == Top(w).action
             A2 == action'
  <2>1. a \in Actions /\ A2 = [action EXCEPT ![a].num_tasks = Less(@)]
    BY <1>2, <1>5
  <2> HIDE DEF a, A2
  <2>2. /\ A2 \in [Actions -> [valid : BOOLEAN, enabled : BOOLEAN, num_tasks : Int]]
        /\ \A b \in Actions : A2[b].valid = action[b].valid
    BY <2>1, CountStep, Zenon
  <2> QED
    BY <2>2 DEF A2
<1>11. Safe(action', task, free, wqueue, stack', ran)
  BY <1>1, <1>2, <1>7, <1>8, <1>9, <1>10, Swap
<1>12. Safe(action, task, free, wqueue, stack, ran)' /\ affine_task_counter' \in Nat
  BY <1>2, <1>11 DEF scheduling, history, FInv, Objects
<1> QED
  BY <1>2, <1>10, <1>12, Whole DEF scheduling, history, objects

-----------------------------------------------------------------------------
(* Waiting                                                                 *)

\* A worker that waits looks for other work.
LEMMA WaitHelpsStep ==
  ASSUME FInv, NEW t \in Threads, WaitHelps(t)
  PROVE  FInv'
<1>1. Safe(action, task, free, wqueue, stack, ran)
  BY DEF FInv
<1> DEFINE f == [at |-> "take", n |-> 0]
<1>2. /\ Top(t).at = "wait" /\ t \in Workers /\ UNCHANGED <<memory, history>>
      /\ stack' = [stack EXCEPT ![t] = <<f>> \o @]
  BY DEF WaitHelps, HelpsOut, At, PushFrame
<1>3. Top(t) = Head(stack[t])
  BY <1>2, Below DEF BasePoints
<1>4. f \in FrameSet /\ f.at = "take"
  <2>1. 0 \in 0..(Probes - 1)
    BY ProbesFact
  <2>2. f \in FrameSet
    BY <2>1, IdleFrames
  <2> QED
    BY <2>2
<1> HIDE DEF f
<1>5. Good(task, ran, t, f) /\ (\A s : ~Holds(f, s)) /\ (\A h : ~Owns(f, h))
  BY <1>4, GoodIdle DEF HoldPoints, StartPoints
<1>6. f.at # "execTodo" /\ Head(stack[t]).at # "execTodo" /\ Sits(f, Head(stack[t]))
  BY <1>2, <1>3, <1>4 DEF Sits, BasePoints, StartPoints, ExecPoints
<1>7. Safe(action, task, free, wqueue, stack', ran)
  BY <1>1, <1>2, <1>4, <1>5, <1>6, PushOn
<1> QED
  BY <1>2, <1>7, Untouched

\* A wait runs into its timeout.
LEMMA WaitTimeoutStep ==
  ASSUME FInv, NEW t \in Threads, WaitTimeout(t)
  PROVE  FInv'
<1>1. Safe(action, task, free, wqueue, stack, ran)
  BY DEF FInv
<1> DEFINE x == [op |-> "wait", of |-> Top(t).of, code |-> "TIMEOUT"]
<1>2. /\ Top(t).at = "wait" /\ UNCHANGED <<memory, ran>>
      /\ stack' = [stack EXCEPT ![t] = Tail(@)] /\ status' = [status EXCEPT ![t] = x]
  BY DEF WaitTimeout, Returns, At, PopFrame
<1>3. Head(stack[t]).at \notin BasePoints \cup {"user"}
  BY <1>2 DEF Top, BasePoints
<1>4. Safe(action, task, free, wqueue, stack', ran)
  BY <1>1, <1>2, <1>3, Drop
<1>5. x.code # "SUCCESS"
  OBVIOUS
<1> HIDE DEF x
<1> QED
  BY <1>2, <1>4, <1>5, Answered

\* A start without a slot fails.
LEMMA StartPoolEmptyStep ==
  ASSUME FInv, ForkJoin, NEW t \in Threads, StartPoolEmpty(t)
  PROVE  FInv'
<1> DEFINE x == [op |-> "start", of |-> NoHandle, code |-> "TASK_LIMIT"]
<1>1. InProgram(t) /\ UNCHANGED <<memory, ran>> /\ stack' = CallDone(t) /\ status' = [status EXCEPT ![t] = x]
  BY DEF StartPoolEmpty, Calls
<1>2. x.op # "wait"
  OBVIOUS
<1> HIDE DEF x
<1> QED
  BY <1>1, <1>2, CallDoneSafe, Answered

\* A handle the user code has: the current one of its slot is that of a task
\* that was scheduled.
LEMMA HeldHandle ==
  ASSUME FInv, NEW t \in Threads, NEW k \in Nat \ {0}, Top(t) \in FrameSet, Top(t).at = "user",
         Good(task, ran, t, Top(t)), ValidTask(StartedHandle(t, k))
  PROVE  LET h == StartedHandle(t, k) IN
         /\ h \in Handles /\ h.id \in Slots /\ h.tag = task[h.id].tag /\ Owns(Top(t), h)
         /\ task[h.id].state \in {"SCHEDULED", "RUNNING", "COMPLETED"}
<1> DEFINE h == StartedHandle(t, k)
           hs == Top(t).started
<1>1. h.id \in Slots /\ h.tag = task[h.id].tag
  BY DEF ValidTask
<1>2. h # NoHandle
  BY <1>1 DEF NoHandle, Slots
<1>3. k <= Len(hs) /\ h = hs[k]
  BY <1>2 DEF StartedHandle
<1>4. hs \in Seq(Handles)
  BY FrameKinds DEF MainFrames, BodyFrames
<1>5. k \in DOMAIN hs /\ h \in Handles
  BY <1>3, <1>4
<1>6. HandleOK(task, h)
  BY <1>3, <1>5 DEF Good
<1>7. Owns(Top(t), h)
  BY <1>3, <1>5 DEF Owns
<1> QED
  BY <1>1, <1>5, <1>6, <1>7 DEF HandleOK

\* A wait begins, or returns at once for a handle that is not valid.
LEMMA WaitStep ==
  ASSUME FInv, ForkJoin, NEW t \in Threads, Wait(t)
  PROVE  FInv'
<1>1. Safe(action, task, free, wqueue, stack, ran)
  BY DEF FInv
<1> DEFINE st == Statement(t)
           h == StartedHandle(t, st.nth)
<1>2. InProgram(t) /\ st.op = "wait" /\ UNCHANGED <<memory, ran>>
  BY DEF Wait, Calls
<1>3. /\ Top(t) \in FrameSet /\ Top(t) = Head(stack[t]) /\ Top(t).at = "user" /\ Good(task, ran, t, Top(t))
      /\ Joins(Top(t).prog, st)
  BY <1>2, StatementFacts
<1>4. st.nth \in Nat \ {0} /\ st.timed \in BOOLEAN
  BY <1>2, <1>3 DEF Joins
<1>5. CASE /\ ~ValidTask(h) /\ stack' = CallDone(t)
           /\ status' = [status EXCEPT ![t] = [op |-> "wait", of |-> h, code |-> "TASK_INVALID"]]
  <2> DEFINE x == [op |-> "wait", of |-> h, code |-> "TASK_INVALID"]
  <2>1. x.code # "SUCCESS" /\ status' = [status EXCEPT ![t] = x]
    BY <1>5
  <2> HIDE DEF x
  <2> QED
    BY <1>2, <1>5, <2>1, CallDoneSafe, Answered
<1>6. CASE /\ ValidTask(h) /\ UNCHANGED status
           /\ stack' = Call(t, [at |-> "wait", task |-> h.id, of |-> h, timed |-> st.timed])
  <2> DEFINE f == [at |-> "wait", task |-> h.id, of |-> h, timed |-> st.timed]
             g == Advanced(Top(t))
  <2>1. /\ h \in Handles /\ h.id \in Slots /\ h.tag = task[h.id].tag /\ Owns(Top(t), h)
        /\ task[h.id].state \in {"SCHEDULED", "RUNNING", "COMPLETED"}
    BY <1>3, <1>4, <1>6, HeldHandle
  <2>2. f \in WaitFrames
    <3> HIDE DEF h
    <3> QED
      BY <1>4, <2>1 DEF WaitFrames
  <2>3. f \in FrameSet /\ f.at = "wait" /\ f.task = h.id /\ f.of = h
    BY <2>2 DEF FrameSet
  <2>4. stack' = [stack EXCEPT ![t] = <<f, g>> \o Tail(@)]
    BY <1>3, <1>6 DEF Call
  <2>5. /\ g \in FrameSet /\ g.at = "user" /\ (\A x : Owns(g, x) <=> Owns(Head(stack[t]), x))
        /\ (\A s : ~Holds(g, s)) /\ Good(task, ran, t, g)
        /\ (Base(t, Head(stack[t])) => Base(t, g)) /\ \A b : Sits(Head(stack[t]), b) => Sits(g, b)
    BY <1>3, AdvancedFacts
  <2> HIDE DEF f, g, h
  <2>6. Good(task, ran, t, f)
    BY <2>1, <2>3 DEF Good, StartPoints
  <2>7. (\A s : ~Holds(f, s)) /\ (\A x : ~Owns(f, x)) /\ f.at # "execTodo" /\ g.at # "execTodo"
    BY <2>3, <2>5 DEF Holds, Owns, StartPoints
  <2>8. Sits(f, g)
    BY <1>3, <2>1, <2>3, <2>5 DEF Sits, StartPoints, ExecPoints, BasePoints
  <2>9. Safe(action, task, free, wqueue, stack', ran)
    BY <1>1, <2>3, <2>4, <2>5, <2>6, <2>7, <2>8, CallOn
  <2> QED
    BY <1>2, <1>6, <2>9, Untouched DEF history
<1> QED
  BY <1>5, <1>6 DEF Wait

-----------------------------------------------------------------------------
(* Starting                                                                *)

\* The start counts its task as one in flight.
LEMMA ScheduleCountStep ==
  ASSUME FInv, NEW t \in Threads, ScheduleCount(t)
  PROVE  FInv'
<1>1. Safe(action, task, free, wqueue, stack, ran)
  BY DEF FInv
<1> DEFINE s == Top(t).task
           a == task[s].action
           f == [Top(t) EXCEPT !.at = "schedulePush", !.action = a, !.to = TaskAffinity(s)]
<1>2. Top(t).at = "schedule" /\ UNCHANGED <<task, free, scheduling, group, objects, history>>
  BY DEF ScheduleCount, At
<1>3. Top(t) = Head(stack[t]) /\ Top(t) \in FrameSet /\ Good(task, ran, t, Top(t))
  BY <1>2, Below DEF BasePoints
<1>4. Top(t) \in StartFrames
  BY <1>2, <1>3, FrameKinds DEF StartPoints
<1>5. s \in Slots
  BY <1>4 DEF StartFrames
<1>6. /\ task[s].state = "SCHEDULED" /\ Top(t).ok /\ Top(t).instance = 0 /\ ~Ran(task, ran, s)
      /\ Top(t).of = [id |-> s, tag |-> task[s].tag] /\ task[s].id # 0
  BY <1>2, <1>3 DEF Good, StartPoints, Holds
<1>7. a \in Actions \cap Code /\ ValidAction(a) /\ task[s] \in TaskRecords(s)
  BY <1>5, <1>6, SlotFacts
<1>8. TaskAffinity(s) = Reach(a, task[s].job)
  <2>1. ~ValidQueue(task[s].queue)
    BY NoObjects
  <2> QED
    BY <2>1 DEF TaskAffinity, Reach, Both
<1>9. TaskAffinity(s) \in SUBSET Workers
  <2>1. Affinity[a] \subseteq Workers
    BY <1>7, ActionsAssumption
  <2> QED
    BY <1>8, <2>1 DEF Reach, Both
<1>10. f \in StartFrames
  <2> HIDE DEF a, s
  <2> QED
    BY <1>4, <1>7, <1>9 DEF StartFrames
<1>11. /\ f.at = "schedulePush" /\ f.action = a /\ f.to = Reach(a, task[s].job) /\ f.task = s
       /\ f.of = Top(t).of /\ f.ok = Top(t).ok /\ f.instance = Top(t).instance
  <2> HIDE DEF a
  <2> QED
    BY <1>4, <1>8 DEF StartFrames
<1>12. /\ stack' = [stack EXCEPT ![t] = <<f>> \o Tail(@)]
       /\ action' = [action EXCEPT ![a].num_tasks = More(@)]
  BY <1>7 DEF ScheduleCount, ReplaceTop
<1>13. f \in FrameSet
  BY <1>10 DEF FrameSet
<1>14. /\ action' \in [Actions -> [valid : BOOLEAN, enabled : BOOLEAN, num_tasks : Int]]
       /\ \A b \in Actions : action'[b].valid = action[b].valid
  <2> DEFINE A2 == action'
  <2>1. a \in Actions /\ A2 = [action EXCEPT ![a].num_tasks = More(@)]
    BY <1>7, <1>12
  <2> HIDE DEF a, A2
  <2>2. /\ A2 \in [Actions -> [valid : BOOLEAN, enabled : BOOLEAN, num_tasks : Int]]
        /\ \A b \in Actions : A2[b].valid = action[b].valid
    BY <2>1, CountStep, Zenon
  <2> QED
    BY <2>2 DEF A2
<1> HIDE DEF f
<1>15. Good(task, ran, t, f)
  BY <1>6, <1>11 DEF Good, StartPoints
<1>16. /\ \A x \in Slots : Holds(f, x) => Holds(Head(stack[t]), x)
       /\ \A h : Owns(f, h) => Owns(Head(stack[t]), h)
       /\ f.at # "execTodo" /\ f.at \in StartPoints
       /\ ~Base(t, Head(stack[t]))
       /\ \A b : Sits(Head(stack[t]), b) => Sits(f, b)
  <2>1. Head(stack[t]).at = "schedule" /\ Head(stack[t]).task = s /\ Head(stack[t]).of = f.of
    BY <1>2, <1>3, <1>11
  <2> HIDE DEF s
  <2> QED
    BY <1>11, <2>1 DEF Holds, Owns, Base, Sits, StartPoints, ExecPoints, BasePoints, MainFrames
<1>17. Safe(action', task, free, wqueue, stack', ran)
  BY <1>1, <1>12, <1>13, <1>14, <1>15, <1>16, Swap
<1>18. Safe(action, task, free, wqueue, stack, ran)' /\ affine_task_counter' \in Nat
  BY <1>2, <1>17 DEF scheduling, history, FInv, Objects
<1> QED
  BY <1>2, <1>14, <1>18, Whole DEF scheduling, history, objects

\* What frame f holds and owns belongs to nobody on the stacks S1.
Released(S1, T, Q, f) ==
  /\ \A s \in Slots : Holds(f, s) => Unheld(S1, Q, s)
  /\ \A s \in Slots : Owns(f, [id |-> s, tag |-> T[s].tag]) => Unowned(S1, [id |-> s, tag |-> T[s].tag])

\* The frames of S1 are those of S without the top of thread t.
Without(S, S1, t) ==
  \A u \in Threads : \A d \in 1..Len(S1[u]) :
    d \in 1..Len(S[u]) /\ Fm(S1[u], d) = Fm(S[u], d) /\ ~(u = t /\ d = Len(S[t]))

\* A top that is replaced is one that is dropped before another is pushed.
LEMMA Restacked ==
  ASSUME NEW S, NEW t \in DOMAIN S, NEW S1, S1 = [S EXCEPT ![t] = Tail(@)], NEW f
  PROVE  /\ [S1 EXCEPT ![t] = <<f>> \o @] = [S EXCEPT ![t] = <<f>> \o Tail(@)]
         /\ [S1 EXCEPT ![t] = <<f>> \o Tail(@)] = [S EXCEPT ![t] = <<f>> \o Tail(Tail(@))]
  OBVIOUS

\* What the top of a stack held and owned belongs to nobody once it is dropped.
LEMMA Dropped ==
  ASSUME FInv, NEW t \in Threads, Top(t).at \notin BasePoints \cup {"user"},
         NEW S1, S1 = [stack EXCEPT ![t] = Tail(@)]
  PROVE  /\ Safe(action, task, free, wqueue, S1, ran)
         /\ S1[t] = Tail(stack[t]) /\ Head(S1[t]) = stack[t][2]
         /\ t \in DOMAIN stack /\ Without(stack, S1, t) /\ Released(S1, task, wqueue, Top(t))
<1>1. Safe(action, task, free, wqueue, stack, ran) /\ DOMAIN stack = Threads
  BY DEF FInv, Safe
<1>2. /\ Top(t) = Head(stack[t]) /\ Top(t) = Fm(stack[t], Len(stack[t])) /\ Len(stack[t]) \in Nat \ {0}
      /\ stack[t] \in Seq(FrameSet) /\ stack[t] # <<>> /\ Head(Tail(stack[t])) = stack[t][2]
  BY Below
<1>3. S1[t] = Tail(stack[t]) /\ \A u \in Threads \ {t} : S1[u] = stack[u]
  BY <1>1
<1>4. Safe(action, task, free, wqueue, S1, ran)
  BY <1>1, <1>2, Drop
<1>5. ASSUME NEW u \in Threads, NEW d \in 1..Len(S1[u])
      PROVE  /\ d \in 1..Len(stack[u]) /\ Fm(S1[u], d) = Fm(stack[u], d)
             /\ ~(u = t /\ d = Len(stack[t]))
  <2>1. CASE u = t
    <3>1. Len(S1[t]) = Len(stack[t]) - 1 /\ \A c \in 1..(Len(stack[t]) - 1) : Fm(S1[t], c) = Fm(stack[t], c)
      BY <1>2, <1>3, Popped
    <3>2. d \in 1..(Len(stack[t]) - 1)
      BY <2>1, <3>1
    <3>3. d \in 1..Len(stack[t]) /\ d # Len(stack[t])
      BY <1>2, <3>2
    <3> QED
      BY <2>1, <3>1, <3>2, <3>3
  <2>2. CASE u # t
    BY <1>3, <2>2
  <2> QED
    BY <2>1, <2>2
<1>6. Len(stack[t]) \in 1..Len(stack[t])
  BY <1>2
<1>7. ASSUME NEW s \in Slots, Holds(Top(t), s) PROVE Unheld(S1, wqueue, s)
  <2>1. Holds(Fm(stack[t], Len(stack[t])), s)
    BY <1>2, <1>7
  <2>2. \A u \in Threads : \A d \in 1..Len(S1[u]) : ~Holds(Fm(S1[u], d), s)
    BY <1>1, <1>5, <1>6, <2>1, SMTT(40) DEF Safe, HeldOnce
  <2>3. \A q \in DOMAIN wqueue : \A k \in DOMAIN wqueue[q] : wqueue[q][k] # s
    BY <1>1, <1>6, <2>1 DEF Safe, QueuedFree
  <2> QED
    BY <2>2, <2>3 DEF Unheld
<1>8. ASSUME NEW s \in Slots, Owns(Top(t), [id |-> s, tag |-> task[s].tag])
      PROVE  Unowned(S1, [id |-> s, tag |-> task[s].tag])
  <2>1. Owns(Fm(stack[t], Len(stack[t])), [id |-> s, tag |-> task[s].tag])
    BY <1>2, <1>8
  <2> QED
    BY <1>1, <1>5, <1>6, <2>1, SMTT(40) DEF Safe, Owned, Unowned
<1> QED
  BY <1>1, <1>2, <1>3, <1>4, <1>5, <1>7, <1>8 DEF Without, Released

\* The start returns the handle to the user code.
LEMMA StartSucceedsStep ==
  ASSUME FInv, NEW t \in Threads, StartSucceeds(t)
  PROVE  FInv'
<1> DEFINE s == Top(t).task
           h == IF Attr[task[s].job].detached THEN NoHandle ELSE Top(t).of
           g == stack[t][2]
           f == [g EXCEPT !.started = Append(@, h)]
           S1 == [stack EXCEPT ![t] = Tail(@)]
           x == [op |-> "start", of |-> h, code |-> "SUCCESS"]
<1>1. /\ Top(t).at = "scheduled" /\ Top(t).ok /\ UNCHANGED <<memory, ran>>
      /\ stack' = [stack EXCEPT ![t] = <<f>> \o Tail(Tail(@))] /\ status' = [status EXCEPT ![t] = x]
  BY DEF StartSucceeds, Scheduled, At
<1>2. /\ Top(t) = Head(stack[t]) /\ Top(t) \in FrameSet /\ Good(task, ran, t, Top(t))
      /\ g \in FrameSet /\ Good(task, ran, t, g) /\ Sits(Top(t), g)
  BY <1>1, Below DEF BasePoints
<1>3. Top(t) \in StartFrames /\ g.at = "user"
  BY <1>1, <1>2, FrameKinds DEF StartPoints, Sits
<1>4. s \in Slots /\ Top(t).of \in Handles
  BY <1>3 DEF StartFrames
<1>5. Top(t).of = [id |-> s, tag |-> task[s].tag] /\ task[s].id # 0 /\ task[s].state # "PRENATAL"
  BY <1>1, <1>2 DEF Good, StartPoints
<1>6. task[s].state \in {"SCHEDULED", "RUNNING", "COMPLETED"}
  <2>1. task[s] \in TaskRecords(s) /\ task[s].state # "ERROR"
    BY <1>4, <1>5, SlotFacts
  <2>2. task[s].state \in {"ERROR", "SCHEDULED", "RUNNING", "COMPLETED", "PRENATAL"}
    BY <2>1 DEF TaskRecords
  <2> QED
    BY <1>5, <2>1, <2>2
<1>7. h \in Handles /\ HandleOK(task, h) /\ (h = NoHandle \/ h = [id |-> s, tag |-> task[s].tag])
  <2>1. CASE h = NoHandle
    BY <2>1, SizesAssumption DEF NoHandle, Handles, HandleOK, Slots
  <2>2. CASE h = Top(t).of
    <3>1. task[s].tag \in Nat
      BY <1>4, <1>5 DEF Handles
    <3> QED
      BY <1>4, <1>5, <1>6, <2>2, <3>1, SMTT(40) DEF HandleOK
  <2> QED
    BY <2>1, <2>2
<1> HIDE DEF h
<1>8. g \in MainFrames \/ g \in BodyFrames
  BY <1>2, <1>3, FrameKinds
<1>9. /\ f.at = "user" /\ f.started = Append(g.started, h) /\ g.started \in Seq(Handles)
      /\ (g \in MainFrames => f \in MainFrames) /\ (g \in BodyFrames => f \in BodyFrames)
      /\ (g \in BodyFrames => f.self = g.self /\ f.call = g.call)
      /\ (f \in BodyFrames => g \in BodyFrames)
  <2> HIDE DEF g
  <2>1. g.started \in Seq(Handles) /\ g.at = "user"
    BY <1>8 DEF MainFrames, BodyFrames
  <2>2. Append(g.started, h) \in Seq(Handles)
    BY <1>7, <2>1
  <2>3. CASE g \in MainFrames
    <3>1. f \in MainFrames /\ f.at = "user" /\ f.started = Append(g.started, h)
      BY <1>7, <2>2, <2>3 DEF MainFrames
    <3>2. f \notin BodyFrames /\ g \notin BodyFrames
      <4>1. f.prog \notin Actions /\ g.prog \notin Actions
        BY <2>3, <3>1 DEF MainFrames
      <4> QED
        BY <4>1 DEF BodyFrames
    <3> QED
      BY <2>1, <3>1, <3>2
  <2>4. CASE g \in BodyFrames
    <3>1. f \in BodyFrames /\ f.at = "user" /\ f.started = Append(g.started, h) /\ f.self = g.self /\ f.call = g.call
      BY <1>7, <2>2, <2>4 DEF BodyFrames
    <3>2. g \notin MainFrames
      <4>1. g.prog \in Actions
        BY <2>4 DEF BodyFrames
      <4> QED
        BY <4>1 DEF MainFrames
    <3> QED
      BY <2>1, <2>4, <3>1, <3>2
  <2> QED
    BY <1>8, <2>3, <2>4
<1>10. f \in FrameSet
  BY <1>8, <1>9 DEF FrameSet
<1> HIDE DEF f, g
<1>11. \A k \in DOMAIN f.started : f.started[k] = h \/ \E j \in DOMAIN g.started : f.started[k] = g.started[j]
  <2>1. \A k \in DOMAIN Append(g.started, h) :
          k \in 1..(Len(g.started) + 1) /\ (k \in DOMAIN g.started \/ k = Len(g.started) + 1)
    BY <1>9
  <2>2. /\ \A k \in DOMAIN g.started : Append(g.started, h)[k] = g.started[k]
        /\ Append(g.started, h)[Len(g.started) + 1] = h
    BY <1>9
  <2> QED
    BY <1>9, <2>1, <2>2
<1>12. Good(task, ran, t, f)
  <2>1. \A j \in DOMAIN g.started : HandleOK(task, g.started[j])
    BY <1>2, <1>3 DEF Good
  <2>2. \A k \in DOMAIN f.started : HandleOK(task, f.started[k])
    BY <1>7, <1>11, <2>1
  <2> QED
    BY <1>2, <1>3, <1>9, <2>2, SMTT(40) DEF Good, StartPoints
<1>13. /\ Safe(action, task, free, wqueue, S1, ran) /\ Head(S1[t]) = g
       /\ stack' = [S1 EXCEPT ![t] = <<f>> \o Tail(@)] /\ Released(S1, task, wqueue, Top(t))
  <2>1. Top(t).at \notin BasePoints \cup {"user"}
    BY <1>1 DEF BasePoints
  <2> HIDE DEF S1
  <2>2. S1 = [stack EXCEPT ![t] = Tail(@)]
    BY DEF S1
  <2>3. /\ Safe(action, task, free, wqueue, S1, ran) /\ Head(S1[t]) = stack[t][2]
        /\ Released(S1, task, wqueue, Top(t)) /\ t \in DOMAIN stack
    BY <2>1, <2>2, Dropped
  <2>4. [S1 EXCEPT ![t] = <<f>> \o Tail(@)] = [stack EXCEPT ![t] = <<f>> \o Tail(Tail(@))]
    BY <2>2, <2>3, Restacked
  <2> QED
    BY <1>1, <2>3, <2>4 DEF g
<1> HIDE DEF S1
<1>14. \A y : Owns(f, y) /\ y.id \in Slots => Unowned(S1, y) \/ Owns(Head(S1[t]), y)
  <2> SUFFICES ASSUME NEW y, Owns(f, y), y.id \in Slots PROVE Unowned(S1, y) \/ Owns(g, y)
    BY <1>13
  <2>1. PICK k \in DOMAIN f.started : f.started[k] = y
    BY <1>9 DEF Owns, StartPoints
  <2>2. CASE \E j \in DOMAIN g.started : y = g.started[j]
    BY <1>3, <2>2 DEF Owns
  <2>3. CASE y = h
    <3>1. h # NoHandle
      BY <2>3 DEF NoHandle, Slots
    <3>2. h = [id |-> s, tag |-> task[s].tag] /\ h = Top(t).of
      BY <1>5, <1>7, <3>1
    <3>3. Owns(Top(t), h)
      BY <1>1, <3>2 DEF Owns, StartPoints
    <3> QED
      BY <1>4, <1>13, <2>3, <3>2, <3>3 DEF Released
  <2> QED
    BY <1>11, <2>1, <2>2, <2>3
<1>15. /\ \A y \in Slots : ~Holds(f, y)
       /\ f.at # "execTodo" /\ f.at \in StartPoints \cup {"user", "wait"}
       /\ Base(t, Head(S1[t])) => Base(t, f)
       /\ \A b : Sits(Head(S1[t]), b) => Sits(f, b)
  <2>1. Head(S1[t]) = g /\ f.at = "user" /\ g.at = "user"
    BY <1>3, <1>9, <1>13
  <2>2. \A y : ~Holds(f, y)
    BY <2>1 DEF Holds
  <2>3. Base(t, g) => Base(t, f)
    BY <1>9, <2>1 DEF Base, BasePoints
  <2>4. \A b : Sits(g, b) => Sits(f, b)
    BY <1>9, <2>1 DEF Sits, StartPoints, ExecPoints, BasePoints
  <2> QED
    BY <2>1, <2>2, <2>3, <2>4
<1>16. Safe(action, task, free, wqueue, stack', ran)
  BY <1>10, <1>12, <1>13, <1>14, <1>15, Swap
<1>17. x.op # "wait"
  OBVIOUS
<1> HIDE DEF x
<1> QED
  BY <1>1, <1>16, <1>17, Answered

-----------------------------------------------------------------------------
(* The execution of a task changes the task                                *)

\* A worker that holds a task changes it and goes on with it.
LEMMA Works ==
  ASSUME FInv, NEW t \in Workers, Top(t).at \in {"exec", "execTodo", "execDone"},
         NEW s \in Slots, s = Top(t).task, NEW r2, NEW T2, T2 = [task EXCEPT ![s] = r2],
         GoesOn(task[s], r2), SlotOK(action, s, r2), r2.state = "COMPLETED" => Ran(task, ran, s),
         NEW f \in FrameSet, Good(T2, ran, t, f), f.at \in ExecPoints \ {"execTodo"}, f.task = s,
         stack' = ReplaceTop(t, f), task' = T2, UNCHANGED <<free, scheduling, action, group, objects, history>>
  PROVE  FInv'
<1> DEFINE S1 == [stack EXCEPT ![t] = Tail(@)]
<1>1. Top(t).at \notin BasePoints \cup {"user"} /\ t \in Threads
  BY DEF BasePoints, Threads
<1>2. Sits(Top(t), stack[t][2])
  BY <1>1, Below
<1> HIDE DEF S1
<1>3. S1 = [stack EXCEPT ![t] = Tail(@)]
  BY DEF S1
<1>4. /\ Safe(action, task, free, wqueue, S1, ran) /\ Head(S1[t]) = stack[t][2]
      /\ Released(S1, task, wqueue, Top(t)) /\ t \in DOMAIN stack
  BY <1>1, <1>3, Dropped
<1>5. Unheld(S1, wqueue, s)
  <2>1. Holds(Top(t), s)
    BY DEF Holds
  <2> QED
    BY <1>4, <2>1 DEF Released
<1>6. Safe(action, T2, free, wqueue, S1, ran)
  BY <1>4, <1>5, Progress
<1>7. stack' = [S1 EXCEPT ![t] = <<f>> \o @]
  BY <1>3, <1>4, Restacked DEF ReplaceTop
<1>8. (\A x \in Slots : Holds(f, x) => Unheld(S1, wqueue, x)) /\ (\A h : ~Owns(f, h))
  BY <1>5 DEF Holds, Owns, ExecPoints, StartPoints
<1>9. Head(S1[t]).at # "execTodo" /\ Sits(f, Head(S1[t])) /\ f.at # "execTodo"
  <2>1. Head(S1[t]).at \in {"loop", "wait"}
    BY <1>2, <1>4 DEF Sits, ExecPoints
  <2> QED
    BY <2>1 DEF Sits, ExecPoints, StartPoints, BasePoints
<1>10. Safe(action, T2, free, wqueue, stack', ran)
  BY <1>1, <1>6, <1>7, <1>8, <1>9, PushOn
<1>11. Safe(action, task, free, wqueue, stack, ran)' /\ affine_task_counter' \in Nat
  BY <1>10 DEF scheduling, history, FInv, Objects
<1>12. action' \in [Actions -> [valid : BOOLEAN, enabled : BOOLEAN, num_tasks : Int]]
  BY DEF FInv, Objects
<1> QED
  BY <1>11, <1>12, Whole DEF scheduling, history, objects

\* The context takes an instance number.
LEMMA ExecRunStep ==
  ASSUME FInv, NEW w \in Workers, ExecRun(w)
  PROVE  FInv'
<1> DEFINE s == Top(w).task
           r == task[s]
           r2 == [task[s] EXCEPT !.current = @ + 1, !.state = "RUNNING"]
           T2 == [task EXCEPT ![s] = r2]
           f == [at |-> "execCall", task |-> s, instance |-> task[s].current]
<1>1. /\ Top(w).at = "exec" /\ UNCHANGED <<free, scheduling, action, group, objects, history>>
      /\ task' = [task EXCEPT ![s].current = @ + 1, ![s].state = "RUNNING"]
      /\ stack' = ReplaceTop(w, f)
  BY DEF ExecRun, At
<1>2. w \in Threads /\ DOMAIN task = Slots
  BY DEF Threads, FInv, Safe
<1>3. Top(w) \in FrameSet /\ Good(task, ran, w, Top(w))
  BY <1>1, <1>2, Below DEF BasePoints
<1>4. s \in Slots
  BY <1>1, <1>3, FrameKinds DEF GotFrames
<1>5. r.state = "SCHEDULED" /\ May(w, r.action, r.job) /\ ~Ran(task, ran, s)
  BY <1>1, <1>3 DEF Good
<1>6. /\ r \in TaskRecords(s) /\ r.current = 0 /\ r.error = "SUCCESS" /\ r.todo = 1
      /\ SlotOK(action, s, r)
  BY <1>4, <1>5, SlotFacts DEF FInv, Safe
<1>7. task' = T2
  BY <1>2, <1>4, <1>1
<1>8. /\ r2 \in TaskRecords(s) /\ r2.state = "RUNNING" /\ r2.id = r.id /\ r2.tag = r.tag
      /\ r2.action = r.action /\ r2.job = r.job /\ r2.error = r.error /\ r2.todo = r.todo
  <2> HIDE DEF r
  <2>1. r2 = [r EXCEPT !.current = @ + 1, !.state = "RUNNING"]
    BY DEF r
  <2>2. r.current + 1 \in Nat
    BY <1>6
  <2> HIDE DEF r2
  <2> QED
    BY <1>6, <2>1, <2>2 DEF TaskRecords
<1>9. f \in FrameSet /\ f.at = "execCall" /\ f.task = s
  BY <1>4, <1>6 DEF FrameSet, CallFrames
<1>10. T2[s] = r2
  BY <1>2, <1>4
<1> HIDE DEF r, r2, T2, f, s
<1>11. GoesOn(task[s], r2) /\ SlotOK(action, s, r2) /\ r2.state # "COMPLETED"
  BY <1>5, <1>6, <1>8 DEF GoesOn, SlotOK, r
<1>12. ~Ran(T2, ran, s)
  BY <1>5, <1>8, <1>10 DEF Ran, r
<1>13. Good(T2, ran, w, f)
  BY <1>5, <1>6, <1>8, <1>9, <1>10, <1>12 DEF Good, StartPoints
<1>14. f.at \in ExecPoints \ {"execTodo"} /\ s = Top(w).task /\ T2 = [task EXCEPT ![s] = r2]
  BY <1>9 DEF ExecPoints, s, T2
<1> QED
  BY <1>1, <1>4, <1>7, <1>9, <1>11, <1>13, <1>14, Works

\* One instance less to do.
LEMMA ExecTodoStep ==
  ASSUME FInv, NEW w \in Workers, ExecTodo(w)
  PROVE  FInv'
<1> DEFINE s == Top(w).task
           r == task[s]
           r2 == [task[s] EXCEPT !.todo = MinusOne(@)]
           T2 == [task EXCEPT ![s] = r2]
           f == [at |-> "execDone", task |-> s, action |-> Top(w).action, last |-> task[s].todo = 1]
<1>1. /\ Top(w).at = "execTodo" /\ UNCHANGED <<free, scheduling, action, group, objects, history>>
      /\ task' = [task EXCEPT ![s].todo = MinusOne(@)]
      /\ stack' = ReplaceTop(w, f)
  BY DEF ExecTodo, At
<1>2. w \in Threads /\ DOMAIN task = Slots /\ Safe(action, task, free, wqueue, stack, ran)
  BY DEF Threads, FInv, Safe
<1>3. Top(w) \in FrameSet /\ Good(task, ran, w, Top(w)) /\ Top(w) = Head(stack[w])
  BY <1>1, <1>2, Below DEF BasePoints
<1>4. s \in Slots /\ Top(w).action \in Actions
  BY <1>1, <1>3, FrameKinds DEF TodoFrames
<1>5. r.state = "RUNNING" /\ r.todo = 1
  BY <1>1, <1>3 DEF Good
<1>6. r \in TaskRecords(s) /\ SlotOK(action, s, r) /\ r.id # 0
  BY <1>4, <1>5, SlotFacts DEF FInv, Safe
<1>7. task' = T2
  BY <1>1, <1>2, <1>4
<1>8. MinusOne(r.todo) = 0
  <2>1. r.job \in Jobs /\ Attr[r.job].instances = 1
    <3>1. Attr[r.job].instances = 1
      BY <1>4, <1>6, SlotFacts
    <3> HIDE DEF r
    <3> QED
      BY <1>6, <3>1 DEF TaskRecords
  <2>2. UIntMod \in Nat /\ UIntMod > 1
    BY <2>1, SizesAssumption
  <2> HIDE DEF r
  <2> QED
    BY <1>5, <2>2 DEF MinusOne
<1>9. /\ r2 \in TaskRecords(s) /\ r2.state = r.state /\ r2.id = r.id /\ r2.tag = r.tag
      /\ r2.action = r.action /\ r2.job = r.job
  <2> HIDE DEF r
  <2>1. r2 = [r EXCEPT !.todo = 0]
    BY <1>8 DEF r
  <2> HIDE DEF r2
  <2> QED
    BY <1>6, <2>1 DEF TaskRecords
<1>10. f \in FrameSet /\ f.at = "execDone" /\ f.task = s
  <2>1. f \in DoneFrames
    BY <1>4, <1>5 DEF DoneFrames
  <2> QED
    BY <2>1 DEF FrameSet
<1>11. T2[s] = r2
  BY <1>2, <1>4
<1>12. Ran(task, ran, s)
  BY <1>1, <1>2, <1>3, TopFacts
<1> HIDE DEF r, r2, T2, f, s
<1>13. GoesOn(task[s], r2) /\ SlotOK(action, s, r2)
  BY <1>5, <1>6, <1>9 DEF GoesOn, SlotOK, r
<1>14. Ran(T2, ran, s)
  BY <1>9, <1>11, <1>12 DEF Ran, r
<1>15. Good(T2, ran, w, f)
  BY <1>5, <1>9, <1>10, <1>11, <1>14 DEF Good, StartPoints
<1>16. f.at \in ExecPoints \ {"execTodo"} /\ s = Top(w).task /\ T2 = [task EXCEPT ![s] = r2]
  BY <1>10 DEF ExecPoints, s, T2
<1> QED
  BY <1>1, <1>4, <1>7, <1>10, <1>12, <1>13, <1>15, <1>16, Works

\* The task is completed.
LEMMA ExecDoneStep ==
  ASSUME FInv, NEW w \in Workers, ExecDone(w)
  PROVE  FInv'
<1> DEFINE s == Top(w).task
           r == task[s]
           r2 == [task[s] EXCEPT !.state = "COMPLETED"]
           T2 == [task EXCEPT ![s] = r2]
           f == [Top(w) EXCEPT !.at = "execCount"]
<1>1. /\ Top(w).at = "execDone" /\ UNCHANGED <<free, scheduling, action, group, objects, history>>
      /\ task' = IF Top(w).last THEN [task EXCEPT ![s].state = "COMPLETED"] ELSE task
      /\ stack' = ReplaceTop(w, f)
  BY DEF ExecDone, At
<1>2. w \in Threads /\ DOMAIN task = Slots
  BY DEF Threads, FInv, Safe
<1>3. Top(w) \in FrameSet /\ Good(task, ran, w, Top(w))
  BY <1>1, <1>2, Below DEF BasePoints
<1>4. Top(w) \in DoneFrames
  BY <1>1, <1>3, FrameKinds
<1>5. s \in Slots /\ Top(w).last = TRUE
  BY <1>4 DEF DoneFrames
<1>6. r.state = "RUNNING" /\ Ran(task, ran, s)
  BY <1>1, <1>3 DEF Good
<1>7. r \in TaskRecords(s) /\ SlotOK(action, s, r)
  BY <1>5, SlotFacts DEF FInv, Safe
<1>8. task' = T2
  BY <1>1, <1>2, <1>5
<1>9. /\ r2 \in TaskRecords(s) /\ r2.state = "COMPLETED" /\ r2.id = r.id /\ r2.tag = r.tag
      /\ r2.action = r.action /\ r2.job = r.job
  <2> HIDE DEF r
  <2>1. r2 = [r EXCEPT !.state = "COMPLETED"]
    BY DEF r
  <2> HIDE DEF r2
  <2> QED
    BY <1>7, <2>1 DEF TaskRecords
<1>10. f \in FrameSet /\ f.at = "execCount" /\ f.task = s
  <2>1. f \in DoneFrames /\ f.at = "execCount" /\ f.task = s
    BY <1>4 DEF DoneFrames
  <2> QED
    BY <2>1 DEF FrameSet
<1> HIDE DEF r, r2, T2, f, s
<1>11. GoesOn(task[s], r2) /\ SlotOK(action, s, r2)
  BY <1>6, <1>7, <1>9 DEF GoesOn, SlotOK, r
<1>12. Good(T2, ran, w, f)
  BY <1>10, GoodIdle DEF HoldPoints, StartPoints
<1>13. f.at \in ExecPoints \ {"execTodo"} /\ s = Top(w).task /\ T2 = [task EXCEPT ![s] = r2]
  BY <1>10 DEF ExecPoints, s, T2
<1> QED
  BY <1>1, <1>5, <1>6, <1>8, <1>10, <1>11, <1>12, <1>13, Works

\* The action function returns.
LEMMA BodyReturnsStep ==
  ASSUME FInv, NEW w \in Workers, BodyReturns(w)
  PROVE  FInv'
<1>1. /\ w \in Threads /\ Safe(action, task, free, wqueue, stack, ran)
      /\ Top(w).at = "user" /\ UNCHANGED <<memory, status>>
      /\ stack' = [stack EXCEPT ![w] = Tail(@)] /\ ran' = ran (+) SetToBag({Top(w).call})
  BY DEF Threads, FInv, BodyReturns, At, PopFrame
<1>2. /\ Top(w) = Head(stack[w]) /\ Top(w) \in FrameSet /\ Len(stack[w]) \in Nat \ {0}
      /\ Len(stack[w]) = 1 => Base(w, Top(w))
      /\ Len(stack[w]) > 1 => Sits(Top(w), Fm(stack[w], Len(stack[w]) - 1))
  BY <1>1, TopFacts DEF Top
<1>3. Top(w) \in BodyFrames
  <2> DEFINE n == Len(stack[w])
             g == Fm(stack[w], n - 1)
  <2>1. n = 1 => FALSE
    BY <1>1, <1>2 DEF Base, BasePoints
  <2>2. n > 1
    <3>1. n \in Nat \ {0}
      BY <1>2
    <3> HIDE DEF n
    <3> QED
      BY <2>1, <3>1
  <2>3. Sits(Top(w), g)
    BY <1>2, <2>2
  <2> HIDE DEF g
  <2> QED
    BY <1>1, <2>3 DEF Sits
<1>4. Safe(action, task, free, wqueue, stack', ran') /\ DOMAIN ran \subseteq DOMAIN ran'
  <2>1. Head(stack[w]).at = "user" /\ Head(stack[w]) \in BodyFrames
    BY <1>1, <1>3 DEF Top
  <2>2. ran' = WithCall(ran, Head(stack[w]).call)
    BY <1>1, Zenon DEF Top, WithCall
  <2>3. stack' = [stack EXCEPT ![w] = Tail(@)]
    BY <1>1
  <2>4. w \in Threads /\ Safe(action, task, free, wqueue, stack, ran)
    BY <1>1
  <2> DEFINE S2 == stack'
             R2 == ran'
  <2>5. S2 = [stack EXCEPT ![w] = Tail(@)] /\ R2 = WithCall(ran, Head(stack[w]).call)
    BY <2>2, <2>3
  <2> HIDE DEF S2, R2
  <2>6. Safe(action, task, free, wqueue, S2, R2)
    BY <2>1, <2>4, <2>5, BodyEnds
  <2>7. DOMAIN ran \subseteq DOMAIN R2
    BY <2>1, <2>4, <2>5, BodyEnds
  <2> QED
    BY <2>6, <2>7 DEF S2, R2
<1>5. Safe(action, task, free, wqueue, stack, ran)' /\ affine_task_counter' \in Nat
  BY <1>1, <1>4 DEF memory, scheduling, FInv, Objects
<1>6. action' \in [Actions -> [valid : BOOLEAN, enabled : BOOLEAN, num_tasks : Int]]
  BY <1>1 DEF FInv, Objects, memory
<1> QED
  BY <1>1, <1>4, <1>5, <1>6, Whole DEF memory, scheduling, objects

\* The action function sets the error code of its task.
LEMMA SetStatusStep ==
  ASSUME FInv, ForkJoin, NEW t \in Threads, SetStatus(t)
  PROVE  FInv'
<1> DEFINE st == Statement(t)
           s == Top(t).self
           n == Len(stack[t])
           T2 == [task EXCEPT ![s].error = st.code]
           f == Advanced(Top(t))
<1>1. /\ InProgram(t) /\ st.op = "setStatus" /\ task' = T2 /\ stack' = CallDone(t)
      /\ UNCHANGED <<free, scheduling, action, group, objects, history>>
  BY DEF SetStatus, Calls
<1>2. Safe(action, task, free, wqueue, stack, ran)
  BY DEF FInv
<1>3. /\ Top(t) \in FrameSet /\ Top(t) = Head(stack[t]) /\ Top(t).at = "user"
      /\ Top(t).prog \in Code /\ Top(t).i \in 1..Len(Program[Top(t).prog])
      /\ (Top(t).prog \in Actions <=> Top(t) \in BodyFrames)
      /\ Joins(Top(t).prog, st)
  BY <1>1, StatementFacts
<1>4. Top(t) \in BodyFrames
  BY <1>1, <1>3 DEF Joins
<1>5. s \in Slots
  BY <1>4 DEF BodyFrames
<1>6. st.code \in Errors
  <2>1. st = Program[Top(t).prog][Top(t).i]
    BY DEF Statement
  <2> DEFINE x == <<Top(t).prog, Top(t).i>>
  <2>2. x \in UNION {{p} \X (1..Len(Program[p])) : p \in Code}
    BY <1>3
  <2>3. Program[x[1]][x[2]] = st
    BY <2>1
  <2> HIDE DEF x, st
  <2> QED
    BY <1>1, <2>2, <2>3 DEF Errors
<1>7. n \in Nat \ {0} /\ n \in 1..Len(stack[t]) /\ Fm(stack[t], n) = Top(t)
  BY <1>2, <1>3, TopFacts
<1>8. n - 1 \in 1..Len(stack[t]) /\ Fm(stack[t], n - 1).at = "execTodo" /\ Fm(stack[t], n - 1).task = s
  BY <1>2, <1>3, <1>4, <1>7, BodyBelow
<1> HIDE DEF n, s, st
<1>9. T2 = [task EXCEPT ![s].error = st.code]
  OBVIOUS
<1> HIDE DEF T2
<1>10. Safe(action, T2, free, wqueue, stack, ran)
  BY <1>2, <1>5, <1>6, <1>8, <1>9, ErrorSet
<1>11. Good(T2, ran, t, Top(t))
  BY <1>3, <1>10, TopFacts
<1>12. /\ f \in FrameSet /\ f.at = "user" /\ (\A h : Owns(f, h) => Owns(Head(stack[t]), h))
       /\ (\A x : ~Holds(f, x)) /\ Good(T2, ran, t, f)
       /\ (Base(t, Head(stack[t])) => Base(t, f)) /\ \A b : Sits(Head(stack[t]), b) => Sits(f, b)
  BY <1>3, <1>11, AdvancedFacts
<1>13. stack' = [stack EXCEPT ![t] = <<f>> \o Tail(@)]
  BY <1>1 DEF CallDone, ReplaceTop
<1> HIDE DEF f
<1>14. f.at # "execTodo" /\ f.at \in StartPoints \cup {"user", "wait"}
  BY <1>12
<1>15. Safe(action, T2, free, wqueue, stack', ran)
  BY <1>10, <1>12, <1>13, <1>14, Swap
<1>16. Safe(action, task, free, wqueue, stack, ran)' /\ affine_task_counter' \in Nat
  BY <1>1, <1>15 DEF scheduling, history, FInv, Objects
<1>17. action' \in [Actions -> [valid : BOOLEAN, enabled : BOOLEAN, num_tasks : Int]]
  BY <1>1 DEF FInv, Objects
<1> QED
  BY <1>1, <1>16, <1>17, Whole DEF scheduling, history, objects

-----------------------------------------------------------------------------
(* Searching                                                               *)

\* Remainders and quotients of natural numbers.
LEMMA DivMod ==
  ASSUME NEW a \in Nat, NEW b \in Nat \ {0}
  PROVE  a % b \in 0..(b - 1) /\ a \div b \in Nat /\ a = b * (a \div b) + (a % b)
  BY Z3

\* A product grows with its factor.
LEMMA Grows ==
  ASSUME NEW q \in Nat, NEW b \in Nat \ {0}, NEW c \in Nat, q >= c
  PROVE  q * b >= c * b
  BY Z3

\* The quotient of a number below a product.
LEMMA DivBelow ==
  ASSUME NEW a \in Nat, NEW b \in Nat \ {0}, NEW c \in Nat, a < c * b
  PROVE  a \div b \in 0..(c - 1)
<1> DEFINE q == a \div b
<1>1. q \in Nat /\ a % b \in 0..(b - 1) /\ a = b * q + (a % b)
  BY DivMod
<1>2. q >= c => q * b >= c * b
  BY <1>1, Grows
<1> HIDE DEF q
<1>3. b * q = q * b /\ q * b \in Nat /\ c * b \in Nat
  BY <1>1
<1>4. q * b <= a
  BY <1>1, <1>3
<1>5. q < c
  BY <1>1, <1>2, <1>3, <1>4
<1>6. q \in 0..(c - 1)
  BY <1>1, <1>5
<1> QED
  BY <1>6 DEF q

\* A queue of a worker.
LEMMA QueueFact ==
  ASSUME NEW w \in Workers, NEW k \in 0..NumWorkers, NEW p \in Prios
  PROVE  /\ QueueOf(w, k, p) \in Workers \X {"private", "public"} \X Prios
         /\ QueueOf(w, k, p)[2] = "private" => QueueOf(w, k, p)[1] = w
<1>1. NumWorkers \in Nat \ {0}
  BY SizesAssumption
<1>2. CASE k = 0
  BY <1>2 DEF QueueOf
<1>3. CASE k # 0
  <2>1. w + k - 1 \in Nat
    BY <1>1, <1>3 DEF Workers
  <2>2. (w + k - 1) % NumWorkers \in Workers
    BY <1>1, <2>1, DivMod DEF Workers
  <2> QED
    BY <1>3, <2>2 DEF QueueOf
<1> QED
  BY <1>2, <1>3

\* The search looks into the queues there are, and into the private ones of its worker only.
LEMMA ProbeFact ==
  ASSUME NEW w \in Workers, NEW n \in 0..(Probes - 1)
  PROVE  /\ Probe(w, n) \in Workers \X {"private", "public"} \X Prios
         /\ Probe(w, n)[2] = "private" => Probe(w, n)[1] = w
<1>1. /\ NumWorkers \in Nat \ {0} /\ MaxPriorities \in Nat \ {0} /\ Mode \in {"VHPF", "LF"}
      /\ n \in Nat
  BY SizesAssumption, JobsAssumption
<1>2. n < MaxPriorities * (NumWorkers + 1)
  BY <1>1, ProbesFact DEF Probes
<1>3. CASE Mode = "VHPF"
  <2>1. NumWorkers + 1 \in Nat \ {0}
    BY <1>1
  <2>2. n % (NumWorkers + 1) \in 0..NumWorkers
    BY <1>1, <2>1, DivMod
  <2>3. n \div (NumWorkers + 1) \in Prios
    BY <1>1, <1>2, <2>1, DivBelow DEF Prios
  <2> DEFINE k == n % (NumWorkers + 1)
             p == n \div (NumWorkers + 1)
  <2>4. Probe(w, n) = QueueOf(w, k, p)
    BY <1>3 DEF Probe
  <2> HIDE DEF k, p
  <2> QED
    BY <2>2, <2>3, <2>4, QueueFact DEF k, p
<1>4. CASE Mode # "VHPF" /\ n < 2 * MaxPriorities
  <2> DEFINE k == n \div MaxPriorities
             p == n % MaxPriorities
  <2>1. k \in 0..1
    BY <1>1, <1>4, DivBelow
  <2>2. k \in 0..NumWorkers
    BY <1>1, <2>1
  <2>3. p \in Prios
    BY <1>1, DivMod DEF Prios
  <2>4. Probe(w, n) = QueueOf(w, k, p)
    BY <1>4 DEF Probe
  <2> HIDE DEF k, p
  <2> QED
    BY <2>2, <2>3, <2>4, QueueFact
<1>5. CASE Mode # "VHPF" /\ ~(n < 2 * MaxPriorities)
  <2> DEFINE m == n - 2 * MaxPriorities
             b == NumWorkers - 1
             k == 2 + (m % b)
             p == m \div b
  <2>1. m \in Nat
    BY <1>1, <1>5
  <2>2. m < MaxPriorities * b
    BY <1>1, <1>2
  <2>3. b \in Nat \ {0}
    <3>1. b = 0 => MaxPriorities * b = 0
      BY <1>1
    <3> QED
      BY <1>1, <2>1, <2>2, <3>1
  <2>4. Probe(w, n) = QueueOf(w, k, p)
    BY <1>5 DEF Probe
  <2> HIDE DEF m, b
  <2>5. m % b \in 0..(b - 1) /\ p \in Prios
    BY <1>1, <2>1, <2>2, <2>3, DivMod, DivBelow DEF Prios
  <2>6. k \in 0..NumWorkers
    <3> DEFINE r == m % b
    <3>1. r \in 0..(b - 1)
      BY <2>5
    <3> HIDE DEF r
    <3>2. 2 + r \in 0..NumWorkers
      BY <1>1, <3>1, <2>3 DEF b
    <3> QED
      BY <3>2 DEF r
  <2> HIDE DEF k, p
  <2> QED
    BY <2>4, <2>5, <2>6, QueueFact
<1> QED
  BY <1>3, <1>4, <1>5

\* A search finds a task.
LEMMA ProbeFindsStep ==
  ASSUME FInv, NEW t \in Threads, ProbeFinds(t)
  PROVE  FInv'
<1> DEFINE q  == Probe(t, Top(t).n)
           s  == Head(wqueue[q])
           Q2 == [wqueue EXCEPT ![q] = Tail(@)]
           f  == [at |-> "dispatch", task |-> s]
           g  == [at |-> "loop", n |-> 0]
           e  == [at |-> "exec", task |-> s]
<1>1. /\ t \in Workers /\ (Top(t).at = "loop" \/ Top(t).at = "take")
      /\ wqueue[q] # <<>> /\ wqueue' = Q2
      /\ UNCHANGED <<task, free, affine_task_counter, is_sleeping, action, group, objects, history>>
  BY DEF ProbeFinds, Searches, At
<1>2. stack' = [stack EXCEPT ![t] = Found(t, s) \o Tail(@)]
  BY DEF ProbeFinds
<1>3. Safe(action, task, free, wqueue, stack, ran)
  BY DEF FInv
<1>4. Top(t) = Head(stack[t]) /\ Top(t) \in FrameSet
  BY <1>3, TopFacts DEF Top
<1>5. Top(t).n \in 0..(Probes - 1)
  BY <1>1, <1>4, FrameKinds DEF SeekFrames
<1>6. /\ q \in Workers \X {"private", "public"} \X Prios
      /\ q[2] = "private" => q[1] = t
  BY <1>1, <1>5, ProbeFact
<1>7. q \in DOMAIN wqueue
  BY <1>3, <1>6 DEF Safe, WaitingOK
<1> HIDE DEF q
<1>8. /\ Safe(action, task, free, Q2, stack, ran) /\ s \in Slots /\ Unheld(stack, Q2, s)
      /\ Waits(task, ran, q, s)
  BY <1>1, <1>3, <1>7, Leaves
<1>9. task[s].state = "SCHEDULED" /\ ~Ran(task, ran, s) /\ May(t, task[s].action, task[s].job)
  BY <1>1, <1>6, <1>8 DEF Waits
<1> HIDE DEF s, Q2
<1>10. Safe(action, task, free, Q2, stack', ran)
  <2>1. CASE Top(t).at = "loop"
    <3>1. stack' = [stack EXCEPT ![t] = <<f, g>> \o Tail(@)]
      BY <1>2, <2>1 DEF Found, At
    <3>2. f \in FrameSet /\ g \in FrameSet
      BY <1>8, ProbesFact DEF FrameSet, GotFrames, SeekFrames
    <3>3. f.at = "dispatch" /\ f.task = s /\ g.at = "loop"
      OBVIOUS
    <3> HIDE DEF f, g
    <3>4. Good(task, ran, t, f)
      BY <1>9, <3>3 DEF Good, StartPoints
    <3>5. Good(task, ran, t, g) /\ (\A x : ~Holds(g, x)) /\ (\A h : ~Owns(g, h))
      BY <3>3, GoodIdle DEF HoldPoints, StartPoints
    <3>6. /\ \A x \in Slots : (Holds(f, x) => Unheld(stack, Q2, x)) /\ (Holds(g, x) => Holds(Head(stack[t]), x))
      BY <1>8, <3>3, <3>5 DEF Holds
    <3>7. \A h : h.id \in Slots => (Owns(f, h) => Unowned(stack, h)) /\ (Owns(g, h) => Owns(Head(stack[t]), h))
      BY <3>3, <3>5 DEF Owns, StartPoints
    <3>8. Sits(f, g)
      BY <3>3 DEF Sits, StartPoints, ExecPoints, BasePoints
    <3>9. Base(t, Head(stack[t])) => Base(t, g)
      BY <1>1, <3>3 DEF Base, BasePoints
    <3>10. \A b : Sits(Head(stack[t]), b) => Sits(g, b)
      BY <1>4, <2>1 DEF Sits, BasePoints
    <3>11. f.at # "execTodo" /\ g.at # "execTodo"
      BY <3>3
    <3> QED
      BY <1>1, <1>8, <3>1, <3>2, <3>4, <3>5, <3>6, <3>7, <3>8, <3>9, <3>10, <3>11, CallOn
  <2>2. CASE Top(t).at = "take"
    <3>1. stack' = [stack EXCEPT ![t] = <<e>> \o Tail(@)]
      BY <1>2, <2>2 DEF Found, At
    <3>2. e \in FrameSet
      BY <1>8 DEF FrameSet, GotFrames
    <3>3. e.at = "exec" /\ e.task = s
      OBVIOUS
    <3> HIDE DEF e
    <3>4. Good(task, ran, t, e)
      BY <1>9, <3>3 DEF Good, StartPoints
    <3>5. \A x \in Slots : Holds(e, x) => Unheld(stack, Q2, x) \/ Holds(Head(stack[t]), x)
      BY <1>8, <3>3 DEF Holds
    <3>6. \A h : Owns(e, h) /\ h.id \in Slots => Unowned(stack, h) \/ Owns(Head(stack[t]), h)
      BY <3>3 DEF Owns, StartPoints
    <3>7. e.at # "execTodo" /\ ~Base(t, Head(stack[t]))
      BY <1>1, <1>4, <2>2, <3>3 DEF Base, BasePoints
    <3>8. \A b : Sits(Head(stack[t]), b) => Sits(e, b)
      BY <1>4, <2>2, <3>3 DEF Sits, StartPoints, ExecPoints, BasePoints
    <3> QED
      BY <1>1, <1>8, <3>1, <3>2, <3>4, <3>5, <3>6, <3>7, <3>8, Swap
  <2> QED
    BY <1>1, <2>1, <2>2
<1>11. Safe(action, task, free, wqueue, stack, ran)' /\ affine_task_counter' \in Nat
  BY <1>1, <1>10 DEF history, FInv, Objects
<1>12. action' \in [Actions -> [valid : BOOLEAN, enabled : BOOLEAN, num_tasks : Int]]
  BY <1>1 DEF FInv, Objects
<1> QED
  BY <1>1, <1>11, <1>12, Whole DEF history, objects

-----------------------------------------------------------------------------
(* Scheduling                                                              *)

\* A set of natural numbers that is not empty has a least one.
LEMMA LeastOf ==
  ASSUME NEW X \in SUBSET Nat, X # {}
  PROVE  Min(X) \in X
<1>1. PICK n \in X : \A m \in X : ~ (<<m, n>> \in OpToRel(<, Nat))
  BY WFMin, NatLessThanWellFounded
<1>2. \A m \in X : ~ (m < n)
  BY <1>1 DEF OpToRel
<1>3. \A m \in X : n =< m
  BY <1>2
<1> QED
  BY <1>3 DEF Min

\* Going round from worker k, a worker of the set is met.
LEMMA FirstFromFact ==
  ASSUME NEW k \in Workers, NEW ws \in SUBSET Workers, ws # {}
  PROVE  FirstFrom(k, ws) \in ws
<1> DEFINE X == {d \in Workers : (k + d) % NumWorkers \in ws}
<1>1. NumWorkers \in Nat \ {0}
  BY SizesAssumption
<1>2. X \in SUBSET Nat
  BY <1>1 DEF Workers
<1>3. PICK w \in ws : TRUE
  OBVIOUS
<1>4. w \in Nat /\ w < NumWorkers /\ k \in Nat /\ k < NumWorkers
  BY <1>1, <1>3 DEF Workers
<1>5. X # {}
  <2>1. CASE w >= k
    <3>1. w - k \in Workers /\ k + (w - k) = w /\ w % NumWorkers = w
      BY <1>1, <1>4, <2>1 DEF Workers
    <3> QED
      BY <1>3, <3>1
  <2>2. CASE w < k
    <3> DEFINE d == w - k + NumWorkers
    <3>1. d \in Workers /\ k + d = w + NumWorkers /\ (w + NumWorkers) % NumWorkers = w
      BY <1>1, <1>4, <2>2 DEF Workers
    <3>2. (k + d) % NumWorkers \in ws
      BY <1>3, <3>1
    <3> QED
      BY <3>1, <3>2
  <2> QED
    BY <1>4, <2>1, <2>2
<1> HIDE DEF X
<1>6. Min(X) \in X
  BY <1>2, <1>5, LeastOf
<1>7. FirstFrom(k, ws) = (k + Min(X)) % NumWorkers
  BY DEF FirstFrom, X
<1> QED
  BY <1>6, <1>7 DEF X

\* A task goes to a public queue, or to the private queue of a worker that may run it.
LEMMA TargetFact ==
  ASSUME FInv, NEW s \in Slots, task[s].id = s, task[s].priority \in Prios,
         NEW ws \in SUBSET Workers, ws # {}
  PROVE  LET q == ScheduleTarget(s, 0, ws) IN
         /\ q \in Workers \X {"private", "public"} \X Prios
         /\ ws = Workers => q[2] = "public"
         /\ ws # Workers => q[2] = "private" /\ q[1] \in ws
<1> DEFINE c == affine_task_counter
           k == IF c < NumWorkers THEN c ELSE (c + 1) % NumWorkers
           p == task[s].priority
<1>1. NumWorkers \in Nat \ {0} /\ c \in Nat
  BY SizesAssumption DEF FInv, Objects
<1>2. k \in Workers
  BY <1>1, DivMod DEF Workers
<1>3. CASE ws = Workers
  <2>1. s + 0 \in Nat /\ (s + 0) % NumWorkers \in Workers
    BY <1>1, DivMod DEF Workers, Slots
  <2>2. ScheduleTarget(s, 0, ws) = <<(s + 0) % NumWorkers, "public", p>>
    BY <1>3 DEF ScheduleTarget
  <2> QED
    BY <1>3, <2>1, <2>2
<1>4. CASE ws # Workers
  <2>1. ScheduleTarget(s, 0, ws) = <<FirstFrom(k, ws), "private", p>>
    BY <1>4 DEF ScheduleTarget
  <2> HIDE DEF k
  <2>2. FirstFrom(k, ws) \in ws
    BY <1>2, FirstFromFact
  <2> QED
    BY <1>4, <2>1, <2>2
<1> QED
  BY <1>3, <1>4

\* The first frame of a stack changes its point.
LEMMA HeadChanged ==
  ASSUME NEW X, NEW st \in Seq(X), st # <<>>, NEW g
  PROVE  [st EXCEPT ![1] = g] = <<g>> \o Tail(st)
<1> DEFINE a == [st EXCEPT ![1] = g]
           b == <<g>> \o Tail(st)
<1>1. Len(st) \in Nat \ {0} /\ DOMAIN st = 1..Len(st)
  OBVIOUS
<1>2. DOMAIN a = 1..Len(st) /\ DOMAIN b = 1..Len(st)
  BY <1>1
<1>3. \A i \in 1..Len(st) : a[i] = b[i]
  BY <1>1
<1>4. a = [i \in 1..Len(st) |-> a[i]]
  BY <1>1
<1>5. b \in Seq(X \cup {g}) /\ Len(b) = Len(st)
  OBVIOUS
<1>6. b = [i \in 1..Len(st) |-> b[i]]
  <2> HIDE DEF b
  <2> QED
    BY <1>2, <1>5
<1> HIDE DEF a, b
<1>7. a = b
  BY <1>3, <1>4, <1>6
<1> QED
  BY <1>7 DEF a, b

\* One stack changes, and the point of the first frame of another one.
LEMMA Woken ==
  ASSUME NEW S, NEW t \in DOMAIN S, NEW w \in DOMAIN S, w # t, NEW x, NEW S1, S1 = [S EXCEPT ![t] = x],
         NEW g, [S1[w][1] EXCEPT !.at = "awake"] = g, NEW y, [S1[w] EXCEPT ![1] = g] = y
  PROVE  [S EXCEPT ![t] = x, ![w][1].at = "awake"] = [S1 EXCEPT ![w] = y]
  OBVIOUS

\* The task is pushed to the queue of a worker, who is woken up.
LEMMA SchedulePushStep ==
  ASSUME FInv, NEW t \in Threads, SchedulePush(t)
  PROVE  FInv'
<1> DEFINE s == Top(t).task
           q == ScheduleTarget(s, Top(t).instance, Top(t).to)
           w == q[1]
           pushed == HasRoom(wqueue[q])
           b == Top(t).ok /\ pushed
           m == [Top(t) EXCEPT !.at = "scheduled", !.ok = b, !.action = NoAction, !.to = {}]
           wakes == pushed /\ is_sleeping[w] /\ At(w, "waiting")
           mine == <<m>> \o Tail(stack[t])
           S1 == [stack EXCEPT ![t] = <<m>> \o Tail(@)]
<1>1. Top(t).at = "schedulePush" /\ UNCHANGED <<task, free, is_sleeping, group, objects, history>>
  BY DEF SchedulePush, At
<1>2. wqueue' = IF pushed THEN [wqueue EXCEPT ![q] = Append(@, s)] ELSE wqueue
  BY DEF SchedulePush
<1>3. action' = IF pushed THEN action ELSE [action EXCEPT ![Top(t).action].num_tasks = Less(@)]
  BY DEF SchedulePush
<1>4. affine_task_counter' = IF q[2] = "private" THEN CounterAfter(affine_task_counter)
                                                 ELSE affine_task_counter
  BY DEF SchedulePush
<1>5. stack' = IF wakes THEN [stack EXCEPT ![t] = mine, ![w][1].at = "awake"]
                        ELSE [stack EXCEPT ![t] = mine]
  BY DEF SchedulePush
<1>6. /\ Top(t) = Head(stack[t]) /\ Top(t) \in FrameSet /\ Good(task, ran, t, Top(t))
      /\ Sits(Top(t), stack[t][2])
  BY <1>1, Below DEF BasePoints
<1>7. Top(t) \in StartFrames
  BY <1>1, <1>6, FrameKinds DEF StartPoints
<1>8. s \in Slots /\ Top(t).to \in SUBSET Workers
  BY <1>7 DEF StartFrames
<1>9. /\ task[s].state = "SCHEDULED" /\ Top(t).ok /\ Top(t).instance = 0 /\ ~Ran(task, ran, s)
      /\ Top(t).of = [id |-> s, tag |-> task[s].tag] /\ task[s].id # 0
      /\ Top(t).action = task[s].action /\ Top(t).to = Reach(task[s].action, task[s].job)
  BY <1>1, <1>6 DEF Good, StartPoints, Holds
<1>10. /\ task[s].action \in Actions /\ task[s] \in TaskRecords(s) /\ task[s].id = s
  BY <1>8, <1>9, SlotFacts
<1>11. task[s].priority \in Prios
  BY <1>10 DEF TaskRecords
<1>12. Top(t).to # {}
  <2>1. 0 \in Workers
    BY SizesAssumption DEF Workers
  <2> QED
    BY <1>9, <2>1 DEF Reach
<1>13. /\ q \in Workers \X {"private", "public"} \X Prios
       /\ Top(t).to = Workers => q[2] = "public"
       /\ Top(t).to # Workers => q[2] = "private" /\ q[1] \in Top(t).to
  BY <1>8, <1>9, <1>10, <1>11, <1>12, TargetFact
<1> HIDE DEF q
<1>14. Waits(task, ran, q, s)
  <2>1. CASE Top(t).to = Workers
    <3>1. \A x \in Workers : May(x, task[s].action, task[s].job)
      BY <1>9, <2>1 DEF Reach, May
    <3> QED
      BY <1>9, <1>13, <2>1, <3>1 DEF Waits
  <2>2. CASE Top(t).to # Workers
    <3>1. May(q[1], task[s].action, task[s].job)
      BY <1>9, <1>13, <2>2 DEF Reach, May
    <3> QED
      BY <1>9, <1>13, <2>2, <3>1 DEF Waits
  <2> QED
    BY <2>1, <2>2
<1>15. q \in DOMAIN wqueue
  BY <1>13 DEF FInv, Safe, WaitingOK
<1>16. w \in Workers /\ w \in Threads
  BY <1>13 DEF Threads
<1>17. affine_task_counter' \in Nat
  BY <1>4, SizesAssumption DEF CounterAfter, FInv, Objects
<1>18. b \in BOOLEAN /\ (b <=> pushed) /\ (pushed <=> Len(wqueue[q]) < QueueLimit)
  BY <1>9 DEF HasRoom
<1> HIDE DEF b, pushed, w
<1>19. /\ m \in FrameSet /\ m.at = "scheduled" /\ m.task = s /\ m.of = Top(t).of /\ m.ok = b
  <2>1. m \in StartFrames /\ m.at = "scheduled" /\ m.task = s /\ m.of = Top(t).of /\ m.ok = b
    BY <1>7, <1>18 DEF StartFrames
  <2> QED
    BY <2>1 DEF FrameSet
<1> HIDE DEF m, s
<1>20. Good(task, ran, t, m)
  BY <1>8, <1>9, <1>19 DEF Good, StartPoints, Holds
<1>21. Head(stack[t]).at = "schedulePush" /\ Head(stack[t]).task = s /\ Head(stack[t]).of = m.of
  BY <1>1, <1>6, <1>19 DEF s
<1>22. /\ \A h : Owns(m, h) => Owns(Head(stack[t]), h)
       /\ \A x \in Slots : Holds(m, x) => Holds(Head(stack[t]), x)
       /\ m.at # "execTodo" /\ m.at \in StartPoints \cup {"user", "wait"}
       /\ ~Base(t, Head(stack[t]))
       /\ \A y : Sits(Head(stack[t]), y) => Sits(m, y)
  BY <1>19, <1>21 DEF Holds, Owns, Base, Sits, StartPoints, ExecPoints, BasePoints, MainFrames
<1>23. CASE ~pushed
  <2>1. action' = [action EXCEPT ![Top(t).action].num_tasks = Less(@)] /\ wqueue' = wqueue
    BY <1>2, <1>3, <1>23
  <2>2. /\ action' \in [Actions -> [valid : BOOLEAN, enabled : BOOLEAN, num_tasks : Int]]
        /\ \A a \in Actions : action'[a].valid = action[a].valid
    <3> DEFINE A2 == action'
               c == Top(t).action
    <3>1. c \in Actions /\ A2 = [action EXCEPT ![c].num_tasks = Less(@)]
      BY <1>9, <1>10, <2>1
    <3> HIDE DEF c, A2
    <3>2. /\ A2 \in [Actions -> [valid : BOOLEAN, enabled : BOOLEAN, num_tasks : Int]]
          /\ \A a \in Actions : A2[a].valid = action[a].valid
      BY <3>1, CountStep, Zenon
    <3> QED
      BY <3>2 DEF A2
  <2>3. stack' = [stack EXCEPT ![t] = <<m>> \o Tail(@)]
    BY <1>5, <1>23
  <2>4. Safe(action, task, free, wqueue, stack, ran)
    BY DEF FInv
  <2>5. Safe(action', task, free, wqueue, stack', ran)
    BY <1>19, <1>20, <1>22, <2>2, <2>3, <2>4, Swap
  <2>6. Safe(action, task, free, wqueue, stack, ran)'
    BY <1>1, <2>1, <2>5 DEF history
  <2> QED
    BY <1>1, <1>17, <2>2, <2>6, Whole DEF history, objects
<1>24. CASE pushed
  <2> DEFINE S0 == [stack EXCEPT ![t] = Tail(@)]
             Q2 == [wqueue EXCEPT ![q] = Append(@, s)]
             h  == [id |-> s, tag |-> task[s].tag]
  <2>1. action' = action /\ wqueue' = Q2
    BY <1>2, <1>3, <1>24
  <2>2. Top(t).at \notin BasePoints \cup {"user"}
    BY <1>1 DEF BasePoints
  <2>3. /\ Safe(action, task, free, wqueue, S0, ran) /\ Head(S0[t]) = stack[t][2]
        /\ t \in DOMAIN stack /\ Released(S0, task, wqueue, Top(t))
    BY <2>2, Dropped
  <2>4. S1 = [S0 EXCEPT ![t] = <<m>> \o @]
    BY <2>3, Restacked
  <2> HIDE DEF S0, Q2
  <2>5. Unheld(S0, wqueue, s) /\ Unowned(S0, h)
    <3>1. Holds(Top(t), s) /\ Owns(Top(t), h)
      BY <1>1, <1>9 DEF Holds, Owns, StartPoints, s
    <3> QED
      BY <1>8, <2>3, <3>1 DEF Released
  <2>6. Safe(action, task, free, Q2, S0, ran)
    BY <1>8, <1>14, <1>15, <1>18, <1>24, <2>3, <2>5, Enters DEF Q2
  <2>7. Sits(m, Head(S0[t])) /\ Head(S0[t]).at # "execTodo"
    <3>1. Sits(m, stack[t][2]) /\ stack[t][2].at = "user"
      BY <1>6, <1>19, <1>21, <1>22 DEF Sits, StartPoints
    <3> QED
      BY <2>3, <3>1
  <2>8. /\ \A x \in Slots : Holds(m, x) => Unheld(S0, Q2, x)
        /\ \A x : x.id \in Slots => (Owns(m, x) => Unowned(S0, x))
    <3>1. \A x : ~Holds(m, x)
      BY <1>18, <1>19, <1>24 DEF Holds
    <3>2. \A x : Owns(m, x) => x = h
      BY <1>9, <1>19 DEF Owns, StartPoints
    <3> QED
      BY <2>5, <3>1, <3>2
  <2> HIDE DEF S1
  <2>9. Safe(action, task, free, Q2, S1, ran)
    BY <1>19, <1>20, <1>22, <2>4, <2>6, <2>7, <2>8, PushOn
  <2>10. Safe(action, task, free, Q2, stack', ran)
    <3>1. CASE ~wakes
      BY <1>5, <2>9, <3>1 DEF S1
    <3>2. CASE wakes
      <4> DEFINE g == [at |-> "awake"]
      <4>1. w # t /\ Head(stack[w]).at = "waiting"
        BY <1>1, <3>2 DEF At, Top
      <4>2. S1[w] = stack[w] /\ DOMAIN S1 = Threads /\ DOMAIN stack = Threads
        BY <4>1, <2>9 DEF S1, FInv, Safe
      <4>3. S1[w] \in Seq(FrameSet) /\ S1[w] # <<>> /\ Head(S1[w]) \in FrameSet
        BY <1>16, <2>9, TopFacts
      <4>4. Head(S1[w]).at = "waiting" /\ S1[w][1] = Head(S1[w])
        BY <4>1, <4>2, <4>3
      <4>5. [S1[w][1] EXCEPT !.at = "awake"] = g
        <5>1. Head(S1[w]) \in SleepFrames
          BY <4>3, <4>4, FrameKinds
        <5> QED
          BY <4>4, <5>1 DEF SleepFrames
      <4>6. [S1[w] EXCEPT ![1] = g] = <<g>> \o Tail(S1[w])
        BY <4>3, HeadChanged
      <4>7. stack' = [stack EXCEPT ![t] = mine, ![w][1].at = "awake"]
        BY <1>5, <3>2
      <4>8. stack' = [S1 EXCEPT ![w] = <<g>> \o Tail(@)]
        <5>1. S1 = [stack EXCEPT ![t] = mine]
          BY DEF S1, mine
        <5> HIDE DEF mine, g
        <5> QED
          BY <1>16, <4>1, <4>2, <4>5, <4>6, <4>7, <5>1, Woken
      <4>9. g \in FrameSet /\ g.at = "awake"
        BY DEF FrameSet, SleepFrames
      <4> HIDE DEF g
      <4>10. Good(task, ran, w, g) /\ (\A x : ~Holds(g, x)) /\ (\A x : ~Owns(g, x))
        BY <4>9, GoodIdle DEF HoldPoints, StartPoints
      <4>11. /\ g.at # "execTodo" /\ Base(w, g)
             /\ \A y : Sits(Head(S1[w]), y) => Sits(g, y)
        BY <1>16, <4>4, <4>9 DEF Base, BasePoints, Sits
      <4> QED
        BY <1>16, <2>9, <4>8, <4>9, <4>10, <4>11, Swap
    <3> QED
      BY <3>1, <3>2
  <2>11. Safe(action, task, free, wqueue, stack, ran)'
    BY <1>1, <2>1, <2>10 DEF history
  <2>12. action' \in [Actions -> [valid : BOOLEAN, enabled : BOOLEAN, num_tasks : Int]]
    BY <2>1 DEF FInv, Objects
  <2> QED
    BY <1>1, <1>17, <2>11, <2>12, Whole DEF history, objects
<1> QED
  BY <1>23, <1>24

-----------------------------------------------------------------------------
(* Starting a task                                                         *)

\* The least of finitely many integers.
LEMMA LeastValue ==
  ASSUME NEW n \in Nat \ {0}, NEW c \in [1..n -> Int]
  PROVE  \E k \in 1..n : \A i \in 1..n : c[k] <= c[i]
<1> DEFINE rest == {m \in 1..n : ~ \E k \in 1..m : \A i \in 1..m : c[k] <= c[i]}
<1>0. n \in 1..n
  OBVIOUS
<1>1. SUFFICES ASSUME rest # {} PROVE FALSE
  <2>1. CASE n \in rest
    BY <2>1
  <2>2. CASE n \notin rest
    BY <1>0, <2>2
  <2> QED
    BY <2>1, <2>2
<1>2. rest \subseteq Nat
  OBVIOUS
<1> HIDE DEF rest
<1>3. PICK m \in rest : \A l \in rest : ~ (<<l, m>> \in OpToRel(<, Nat))
  BY <1>1, <1>2, WFMin, NatLessThanWellFounded
<1>4. \A l \in rest : ~ (l < m)
  BY <1>2, <1>3 DEF OpToRel
<1>5. m \in 1..n /\ ~ \E k \in 1..m : \A i \in 1..m : c[k] <= c[i]
  BY <1>3 DEF rest
<1>6. m # 1
  <2>1. \A i \in 1..1 : c[1] <= c[i]
    OBVIOUS
  <2> QED
    BY <1>5, <2>1
<1>7. m - 1 \in 1..n /\ m - 1 < m
  BY <1>5, <1>6
<1>8. m - 1 \notin rest
  BY <1>4, <1>7
<1>9. PICK k \in 1..(m - 1) : \A i \in 1..(m - 1) : c[k] <= c[i]
  BY <1>7, <1>8 DEF rest
<1>10. c[k] \in Int /\ c[m] \in Int /\ k \in 1..m
  BY <1>5, <1>7, <1>9
<1>11. \A i \in 1..m : i = m \/ i \in 1..(m - 1)
  BY <1>5
<1>12. CASE c[k] <= c[m]
  BY <1>5, <1>9, <1>10, <1>11, <1>12
<1>13. CASE c[m] < c[k]
  <2>1. ASSUME NEW i \in 1..m PROVE c[m] <= c[i]
    <3>1. CASE i = m
      BY <1>10, <3>1
    <3>2. CASE i \in 1..(m - 1)
      <4>1. c[i] \in Int /\ c[k] <= c[i]
        BY <1>5, <1>9, <3>2
      <4> QED
        BY <1>10, <1>13, <4>1
    <3> QED
      BY <1>11, <3>1, <3>2
  <2> QED
    BY <1>5, <2>1
<1> QED
  BY <1>10, <1>12, <1>13

\* The action a start chooses is one of the job's, if it is any.
LEMMA ChoiceFact ==
  ASSUME FInv, NEW j \in Jobs, \A k \in DOMAIN JobActions[j] : JobActions[j][k] \in Code,
         ValidAction(ChooseAction(j))
  PROVE  ChooseAction(j) \in Actions \cap Code
<1> DEFINE n == job[j].num_actions
           as == job[j].actions
           seen == {k \in 1..n : k = 1 \/ ValidAction(as[k])}
           count == [k \in seen |-> action[as[k]].num_tasks]
           V == {count[k] : k \in seen}
           least == Min(V)
           X == {k \in seen : count[k] = least}
<1>1. ChooseAction(j) = IF n = 0 THEN as[1] ELSE as[Min(X)]
  BY DEF ChooseAction
<1>2. /\ JobActions[j] \in Seq(Actions) /\ Len(JobActions[j]) <= MaxActions /\ MaxActions \in Nat \ {0}
      /\ NoAction \notin Actions
  BY ActionsAssumption, JobsAssumption
<1>3. /\ n = Len(JobActions[j]) /\ n \in Nat
      /\ \A k \in 1..MaxActions : as[k] = IF k <= Len(JobActions[j]) THEN JobActions[j][k] ELSE NoAction
  BY <1>2 DEF FInv, Objects
<1>4. ASSUME NEW k \in 1..n PROVE as[k] = JobActions[j][k] /\ as[k] \in Actions \cap Code
  <2>1. k \in 1..MaxActions /\ k <= Len(JobActions[j]) /\ k \in DOMAIN JobActions[j]
    BY <1>2, <1>3
  <2> QED
    BY <1>2, <1>3, <2>1
<1>5. CASE n = 0
  <2>1. as[1] = NoAction
    BY <1>2, <1>3, <1>5
  <2> QED
    BY <1>1, <1>2, <1>5, <2>1 DEF ValidAction
<1>6. CASE n # 0
  <2>1. ASSUME NEW k \in 1..n PROVE action[as[k]].num_tasks \in Int
    BY <1>4 DEF FInv, Objects
  <2>2. 1 \in 1..n /\ 1 \in seen /\ seen \subseteq 1..n
    BY <1>3, <1>6
  <2>3. \A k \in seen : count[k] \in Int
    BY <2>1, <2>2
  <2>4. PICK k \in seen : \A i \in seen : count[k] <= count[i]
    <3> DEFINE c == [k \in 1..n |-> IF k \in seen THEN count[k] ELSE count[1]]
    <3> HIDE DEF count, n, seen
    <3>1. c \in [1..n -> Int]
      BY <2>2, <2>3
    <3>2. PICK k \in 1..n : \A i \in 1..n : c[k] <= c[i]
      <4> HIDE DEF c
      <4> QED
        BY <1>3, <1>6, <3>1, LeastValue
    <3>3. \A i \in seen : c[i] = count[i] /\ c[k] <= count[i]
      BY <2>2, <3>2
    <3>4. CASE k \in seen
      BY <3>3, <3>4
    <3>5. CASE k \notin seen
      BY <2>2, <3>2, <3>3, <3>5
    <3> QED
      BY <3>4, <3>5
  <2> HIDE DEF count, n, as
  <2>5. count[k] \in V /\ \A v \in V : count[k] =< v
    BY <2>4
  <2>6. least \in V
    <3> HIDE DEF V
    <3> QED
      BY <2>5 DEF Min
  <2> HIDE DEF least
  <2>7. X # {} /\ X \in SUBSET Nat
    <3> HIDE DEF seen
    <3>1. PICK i \in seen : least = count[i]
      BY <2>6
    <3>2. i \in X
      BY <3>1
    <3>3. X \subseteq seen /\ 1..n \subseteq Nat
      BY <1>3
    <3> QED
      BY <2>2, <3>2, <3>3
  <2> HIDE DEF X
  <2>8. Min(X) \in X
    BY <2>7, LeastOf
  <2>9. Min(X) \in 1..n
    BY <2>2, <2>8 DEF X
  <2> QED
    BY <1>1, <1>4, <1>6, <2>9
<1> QED
  BY <1>5, <1>6

\* The record of a task that is started.
LEMMA NewTaskFact ==
  ASSUME FInv, NEW s \in Slots, NEW j \in Jobs, Attr[j].instances = 1,
         \A k \in DOMAIN JobActions[j] : JobActions[j][k] \in Code, NEW g,
         NEW r2, r2 = NewTask(task[s], s, j, g, NoQueue, Attr[j].priority)
  PROVE  /\ r2.id = s /\ r2.tag = task[s].tag /\ SlotOK(action, s, r2) /\ r2.state # "COMPLETED"
         /\ ValidAction(ChooseAction(j)) => r2.state = "SCHEDULED"
         /\ ~ValidAction(ChooseAction(j)) => r2.state = "PRENATAL"
<1> DEFINE a == IF ValidAction(ChooseAction(j)) THEN ChooseAction(j) ELSE NoAction
           e == IF ValidAction(ChooseAction(j)) THEN "SCHEDULED" ELSE "PRENATAL"
           p == Attr[j].priority
<1>1. ~ValidGroup(g) /\ ~ValidQueue(NoQueue)
  BY NoObjects
<1>2. task[s] \in TaskRecords(s) /\ p \in Prios
  BY SlotFacts, JobsAssumption
<1>3. /\ a \in (Actions \cap Code) \cup {NoAction} /\ e \in {"SCHEDULED", "PRENATAL"}
      /\ e = "SCHEDULED" => a # NoAction /\ action[a].valid
      /\ ValidAction(ChooseAction(j)) => e = "SCHEDULED"
      /\ ~ValidAction(ChooseAction(j)) => e = "PRENATAL"
  <2>1. CASE ValidAction(ChooseAction(j))
    <3>1. ChooseAction(j) \in Actions \cap Code
      BY <2>1, ChoiceFact
    <3> QED
      BY <2>1, <3>1, JobsAssumption DEF ValidAction
  <2>2. CASE ~ValidAction(ChooseAction(j))
    BY <2>2
  <2> QED
    BY <2>1, <2>2
<1>4. r2 = [TaskInitialize(task[s]) EXCEPT !.id = s, !.job = j, !.todo = 1, !.priority = p,
              !.group = NoGroup, !.queue = NoQueue, !.action = a, !.state = e]
  BY <1>1 DEF NewTask
<1> HIDE DEF a, e, p
<1>5. r2 = [id |-> s, tag |-> task[s].tag, state |-> e, todo |-> 1, current |-> 0,
            error |-> "SUCCESS", action |-> a, group |-> NoGroup, queue |-> NoQueue,
            priority |-> p, job |-> j]
  <2> DEFINE r == task[s]
             i == TaskInitialize(r)
  <2>1. r \in TaskRecords(s)
    BY <1>2
  <2> HIDE DEF r
  <2>2. /\ i = [i EXCEPT !.id = i.id] /\ i.tag = r.tag /\ i.current = 0 /\ i.error = "SUCCESS"
        /\ i \in [id : {0, s}, tag : Nat, state : {"ERROR"}, todo : {0, 1}, current : {0},
                  error : {"SUCCESS"}, action : {NoAction}, group : {NoGroup},
                  queue : {NoQueue}, priority : Prios, job : Jobs]
    BY <2>1 DEF TaskInitialize, TaskRecords
  <2>3. r2 = [i EXCEPT !.id = s, !.job = j, !.todo = 1, !.priority = p,
              !.group = NoGroup, !.queue = NoQueue, !.action = a, !.state = e]
    BY <1>4 DEF r
  <2> HIDE DEF i
  <2>4. r2 = [id |-> s, tag |-> i.tag, state |-> e, todo |-> 1, current |-> i.current,
            error |-> i.error, action |-> a, group |-> NoGroup, queue |-> NoQueue,
            priority |-> p, job |-> j]
    BY <2>2, <2>3
  <2> QED
    BY <2>2, <2>4 DEF r
<1>6. task[s].tag \in Nat /\ "SUCCESS" \in Errors
  BY <1>2 DEF TaskRecords, Errors
<1>7. r2 \in TaskRecords(s)
  BY <1>2, <1>3, <1>5, <1>6 DEF TaskRecords
<1>8. s # 0
  BY DEF Slots
<1> QED
  BY <1>3, <1>5, <1>7, <1>8 DEF SlotOK

\* The frame of a start.
LEMMA LaunchFact ==
  ASSUME FInv, NEW j \in Jobs, Attr[j].instances = 1, Head(free) \in Slots
  PROVE  LET s == Head(free)
             f == LaunchFrame(j) IN
         /\ f \in FrameSet /\ f.task = s /\ f.of = [id |-> s, tag |-> task[s].tag]
         /\ ValidAction(ChooseAction(j)) => f.at = "schedule" /\ f.ok = TRUE /\ f.instance = 0
         /\ ~ValidAction(ChooseAction(j)) => f.at = "scheduled" /\ f.ok = FALSE
<1> DEFINE s == Head(free)
           f == LaunchFrame(j)
<1>1. s \in Slots /\ task[s].tag \in Nat /\ s \in 0..MaxTasks
  BY SlotFacts, SizesAssumption DEF TaskRecords, Slots
<1> HIDE DEF f
<1> DEFINE h == [id |-> s, tag |-> task[s].tag]
<1>2. h \in Handles
  BY <1>1 DEF Handles
<1> HIDE DEF h
<1>3. CASE ValidAction(ChooseAction(j))
  <2>1. f = [at |-> "schedule", task |-> s, of |-> h, instance |-> 0, ok |-> TRUE,
             again |-> FALSE, action |-> NoAction, to |-> {}]
    BY <1>3 DEF LaunchFrame, ScheduleFrame, h, f
  <2>2. f \in StartFrames
    BY <1>1, <1>2, <2>1 DEF StartFrames
  <2>3. f \in FrameSet
    BY <2>2 DEF FrameSet
  <2>4. f.task = s /\ f.of = h /\ f.at = "schedule" /\ f.ok = TRUE /\ f.instance = 0
    BY <2>1
  <2>5. f \in FrameSet /\ f.task = s /\ f.of = [id |-> s, tag |-> task[s].tag]
    BY <2>3, <2>4 DEF h
  <2> QED
    BY <1>3, <2>4, <2>5 DEF f
<1>4. CASE ~ValidAction(ChooseAction(j))
  <2>1. f = [at |-> "scheduled", task |-> s, of |-> h, instance |-> 1, ok |-> FALSE,
             again |-> FALSE, action |-> NoAction, to |-> {}]
    <3> DEFINE k == ScheduleFrame(s, h, 0, ValidAction(ChooseAction(j)), FALSE)
    <3>1. f = [k EXCEPT !.at = "scheduled", !.instance = 1]
      BY <1>4 DEF LaunchFrame, h, f
    <3>2. k = [at |-> "schedule", task |-> s, of |-> h, instance |-> 0, ok |-> FALSE,
               again |-> FALSE, action |-> NoAction, to |-> {}]
      <4>1. ValidAction(ChooseAction(j)) = FALSE
        BY <1>4, Zenon DEF ValidAction
      <4> QED
        BY <4>1, Zenon DEF ScheduleFrame
    <3> HIDE DEF k
    <3> QED
      BY <3>1, <3>2
  <2>2. f \in StartFrames
    BY <1>1, <1>2, <2>1 DEF StartFrames
  <2>3. f \in FrameSet
    BY <2>2 DEF FrameSet
  <2>4. f.task = s /\ f.of = h /\ f.at = "scheduled" /\ f.ok = FALSE
    BY <2>1
  <2>5. f \in FrameSet /\ f.task = s /\ f.of = [id |-> s, tag |-> task[s].tag]
    BY <2>3, <2>4 DEF h
  <2> QED
    BY <1>4, <2>4, <2>5 DEF f
<1> QED
  BY <1>3, <1>4

\* A task is started in a fresh slot.
LEMMA StartStep ==
  ASSUME FInv, ForkJoin, NEW t \in Threads, Start(t)
  PROVE  FInv'
<1> DEFINE st == Statement(t)
           j  == st.job
           s  == Head(free)
           r2 == NewTask(task[s], s, j, st.group, NoQueue, Attr[j].priority)
           T2 == [task EXCEPT ![s] = r2]
           f  == LaunchFrame(j)
           g  == Advanced(Top(t))
           h  == [id |-> s, tag |-> task[s].tag]
           fine == ValidAction(ChooseAction(j))
<1>1. /\ InProgram(t) /\ st.op = "start" /\ free # <<>> /\ free' = Tail(free) /\ task' = T2
      /\ UNCHANGED <<scheduling, action, job, history>>
  BY DEF Start, Launch, Calls
<1>2. group' = group /\ queue' = queue
  <2>1. ~ValidGroup(st.group) /\ ~ValidQueue(NoQueue)
    BY NoObjects
  <2> QED
    BY <2>1 DEF Start, Launch
<1>3. Safe(action, task, free, wqueue, stack, ran)
  BY DEF FInv
<1>4. /\ Top(t) \in FrameSet /\ Top(t) = Head(stack[t]) /\ Top(t).at = "user"
      /\ Joins(Top(t).prog, st)
  BY <1>1, StatementFacts
<1>5. stack' = [stack EXCEPT ![t] = <<f, g>> \o Tail(@)]
  BY <1>4 DEF Start, Call
<1>6. /\ j \in Jobs /\ Attr[j].instances = 1
      /\ \A k \in DOMAIN JobActions[j] : JobActions[j][k] \in Code
  BY <1>1, <1>4 DEF Joins
<1>7. s \in Slots /\ task[s].id = 0
  <2>1. free \in Seq(Slots) /\ {free[k] : k \in DOMAIN free} = {x \in Slots : task[x].id = 0}
    BY <1>3 DEF Safe, Pool
  <2>2. s = free[1] /\ 1 \in DOMAIN free
    BY <1>1, <2>1
  <2> QED
    BY <2>1, <2>2
<1>8. Unheld(stack, wqueue, s) /\ Unowned(stack, h) /\ ~Ran(task, ran, s)
  BY <1>3, <1>7, FreeSlot
<1> HIDE DEF j, s, st
<1>9. /\ r2.id = s /\ r2.tag = task[s].tag /\ SlotOK(action, s, r2) /\ r2.state # "COMPLETED"
      /\ fine => r2.state = "SCHEDULED"
      /\ ~fine => r2.state = "PRENATAL"
  BY <1>6, <1>7, NewTaskFact
<1>10. /\ f \in FrameSet /\ f.task = s /\ f.of = h
       /\ fine => f.at = "schedule" /\ f.ok = TRUE /\ f.instance = 0
       /\ ~fine => f.at = "scheduled" /\ f.ok = FALSE
  BY <1>6, <1>7, LaunchFact DEF s
<1> HIDE DEF r2, f, fine
<1>11. Safe(action, T2, Tail(free), wqueue, stack, ran)
  <2>1. s = Head(free)
    BY DEF s
  <2> QED
    BY <1>1, <1>3, <1>9, <2>1, Birth
<1>12. T2[s] = r2
  BY <1>3, <1>7 DEF Safe
<1> HIDE DEF T2
<1>13. ~Ran(T2, ran, s)
  BY <1>8, <1>9, <1>12 DEF Ran
<1>14. Good(T2, ran, t, Top(t))
  BY <1>4, <1>11, TopFacts
<1>15. /\ g \in FrameSet /\ g.at = "user" /\ (\A x : Owns(g, x) => Owns(Head(stack[t]), x))
       /\ (\A x : ~Holds(g, x)) /\ Good(T2, ran, t, g)
       /\ (Base(t, Head(stack[t])) => Base(t, g)) /\ \A b : Sits(Head(stack[t]), b) => Sits(g, b)
  BY <1>4, <1>14, AdvancedFacts
<1> HIDE DEF g
<1>16. f.at \in {"schedule", "scheduled"}
  BY <1>10
<1>17. Good(T2, ran, t, f)
  <2>1. s # 0
    BY <1>7 DEF Slots
  <2>2. CASE fine
    BY <1>9, <1>10, <1>12, <1>13, <2>1, <2>2 DEF Good, StartPoints
  <2>3. CASE ~fine
    BY <1>9, <1>10, <1>12, <1>13, <2>1, <2>3 DEF Good, StartPoints
  <2> QED
    BY <2>2, <2>3
<1>18. \A x \in Slots : (Holds(f, x) => Unheld(stack, wqueue, x)) /\ (Holds(g, x) => Holds(Head(stack[t]), x))
  BY <1>8, <1>10, <1>15 DEF Holds
<1>19. \A x : x.id \in Slots => (Owns(f, x) => Unowned(stack, x)) /\ (Owns(g, x) => Owns(Head(stack[t]), x))
  BY <1>8, <1>10, <1>15, <1>16 DEF Owns
<1>20. Sits(f, g)
  BY <1>15, <1>16 DEF Sits, StartPoints, ExecPoints, BasePoints
<1>21. /\ f.at # "execTodo" /\ g.at # "execTodo" /\ f.at \in StartPoints \cup {"user", "wait"}
       /\ g.at \in StartPoints \cup {"user", "wait"}
  BY <1>15, <1>16 DEF StartPoints
<1>22. Safe(action, T2, Tail(free), wqueue, stack', ran)
  BY <1>5, <1>10, <1>11, <1>15, <1>17, <1>18, <1>19, <1>20, <1>21, CallOn
<1>23. Safe(action, task, free, wqueue, stack, ran)' /\ affine_task_counter' \in Nat
  BY <1>1, <1>22 DEF scheduling, history, FInv, Objects
<1>24. action' \in [Actions -> [valid : BOOLEAN, enabled : BOOLEAN, num_tasks : Int]]
  BY <1>1 DEF FInv, Objects
<1> QED
  BY <1>1, <1>2, <1>23, <1>24, Whole DEF scheduling, history

-----------------------------------------------------------------------------
(* Deleting a task                                                         *)

\* Nobody but the frame of user code on top of t has the handle.
Keeps(S, t, h) ==
  \A u \in Threads : \A d \in 1..Len(S[u]) : Owns(Fm(S[u], d), h) =>
    u = t /\ d = Len(S[t]) /\ Fm(S[u], d).at = "user"

\* A slot that nobody holds, whose handle one frame has that does not wait for
\* it, is not referred to.
LEMMA Forgotten ==
  ASSUME NEW A, NEW T, NEW F, NEW Q, NEW S, NEW R, Safe(A, T, F, Q, S, R), NEW s \in Slots,
         Unheld(S, Q, s), NEW t \in Threads, Keeps(S, t, [id |-> s, tag |-> T[s].tag]),
         NEW u \in Threads, NEW d \in 1..Len(S[u])
  PROVE  ~Refers(Fm(S[u], d), s)
<1> DEFINE f == Fm(S[u], d)
           h == [id |-> s, tag |-> T[s].tag]
<1>1. f \in FrameSet /\ Good(T, R, u, f)
  BY FrameFacts
<1>2. ~Holds(f, s) /\ (Owns(f, h) => f.at = "user")
  BY DEF Unheld, Keeps
<1>3. ASSUME f.at \in HoldPoints, f.task = s PROVE FALSE
  <2>1. f.at = "scheduled" /\ f.ok
    BY <1>2, <1>3 DEF Holds, HoldPoints, StartPoints
  <2>2. f.of = h
    BY <1>1, <1>3, <2>1 DEF Good, StartPoints
  <2>3. Owns(f, h)
    BY <2>1, <2>2 DEF Owns, StartPoints
  <2> QED
    BY <1>2, <2>1, <2>3
<1>4. ASSUME f.at = "wait", f.task = s PROVE FALSE
  <2>1. f \in WaitFrames
    BY <1>1, <1>4, FrameKinds
  <2>2. f.of \in Handles
    BY <2>1 DEF WaitFrames
  <2>3. f.of.id = s /\ f.of.tag = T[s].tag
    BY <1>1, <1>4 DEF Good
  <2>4. f.of = h
    <3> DEFINE x == f.of
    <3>1. x \in Handles /\ x.id = s /\ x.tag = T[s].tag
      BY <2>2, <2>3
    <3> HIDE DEF x
    <3>2. x = h
      BY <3>1 DEF Handles
    <3> QED
      BY <3>2 DEF x
  <2>5. d - 1 \in 1..Len(S[u]) /\ d \in Nat /\ Owns(Fm(S[u], d - 1), f.of)
    BY <1>4, WaitBelow
  <2>6. u = t /\ d - 1 = Len(S[t])
    BY <2>4, <2>5 DEF Keeps
  <2> QED
    BY <2>5, <2>6
<1>5. ASSUME f.at = "user", f \in BodyFrames, f.self = s PROVE FALSE
  <2>1. d - 1 \in 1..Len(S[u]) /\ Fm(S[u], d - 1).at = "execTodo" /\ Fm(S[u], d - 1).task = s
    BY <1>5, BodyBelow
  <2>2. Holds(Fm(S[u], d - 1), s)
    BY <2>1 DEF Holds
  <2> QED
    BY <2>1, <2>2 DEF Unheld
<1> HIDE DEF f
<1>6. ~Refers(f, s)
  BY <1>3, <1>4, <1>5 DEF Refers
<1> QED
  BY <1>6 DEF f

\* The record of a task that is deleted.
LEMMA DeletedFact ==
  ASSUME FInv, NEW s \in Slots, task[s].id # 0
  PROVE  LET r2 == DeletedTask(task[s]) IN
         r2.id = 0 /\ r2.tag = task[s].tag + 1 /\ SlotOK(action, s, r2)
<1> DEFINE r  == task[s]
           r2 == DeletedTask(r)
<1>1. r \in TaskRecords(s)
  BY SlotFacts
<1> HIDE DEF r
<1>2. /\ r2.id = 0 /\ r2.tag = r.tag + 1 /\ r2.state = "ERROR" /\ r2.error = "SUCCESS"
      /\ r2.action = NoAction /\ r2.group = NoGroup /\ r2.queue = NoQueue /\ r2.current = 0
      /\ r2.todo = r.todo /\ r2.priority = r.priority /\ r2.job = r.job
  BY <1>1 DEF DeletedTask, TaskInitialize, TaskRecords
<1>3. r2 \in TaskRecords(s)
  <2>1. "SUCCESS" \in Errors
    BY DEF Errors
  <2> DEFINE i == TaskInitialize(r)
  <2>2. i \in TaskRecords(s) /\ i.tag \in Nat
    BY <1>1, <2>1 DEF TaskInitialize, TaskRecords
  <2>3. r2 = [i EXCEPT !.id = 0, !.tag = @ + 1]
    BY DEF DeletedTask
  <2> HIDE DEF i, r2
  <2>4. r2 = [id |-> 0, tag |-> i.tag + 1, state |-> i.state, todo |-> i.todo, current |-> i.current,
              error |-> i.error, action |-> i.action, group |-> i.group, queue |-> i.queue,
              priority |-> i.priority, job |-> i.job]
    BY <2>2, <2>3 DEF TaskRecords
  <2> QED
    BY <2>2, <2>4 DEF TaskRecords
<1> HIDE DEF r2
<1>4. SlotOK(action, s, r2)
  BY <1>2, <1>3 DEF SlotOK
<1> QED
  BY <1>2, <1>4 DEF r, r2

\* A call that deletes a task comes back.
LEMMA DeleteStep ==
  ASSUME FInv, NEW t \in Threads, Top(t).at \notin BasePoints \cup {"user"}, NEW s \in Slots,
         task[s].id # 0, stack' = PopFrame(t),
         task' = [task EXCEPT ![s] = DeletedTask(@)], free' = FreeAfterDelete(s),
         UNCHANGED <<scheduling, action, ran>>,
         Unheld(stack', wqueue, s), Keeps(stack', t, [id |-> s, tag |-> task[s].tag])
  PROVE  Safe(action, task, free, wqueue, stack, ran)'
<1> DEFINE r2 == DeletedTask(task[s])
           S1 == stack'
           T2 == [task EXCEPT ![s] = r2]
<1>1. S1 = [stack EXCEPT ![t] = Tail(@)]
  BY DEF PopFrame
<1>2. Safe(action, task, free, wqueue, S1, ran)
  <2> HIDE DEF S1
  <2> QED
    BY <1>1, Dropped
<1>3. r2.id = 0 /\ r2.tag = task[s].tag + 1 /\ SlotOK(action, s, r2)
  BY DeletedFact
<1>4. Unheld(S1, wqueue, s) /\ Keeps(S1, t, [id |-> s, tag |-> task[s].tag])
  OBVIOUS
<1>5. task' = T2
  OBVIOUS
<1> HIDE DEF S1, r2
<1>6. \A u \in Threads : \A d \in 1..Len(S1[u]) : ~Refers(Fm(S1[u], d), s)
  BY <1>2, <1>4, Forgotten
<1>7. T2 = [task EXCEPT ![s] = r2]
  OBVIOUS
<1> HIDE DEF T2
<1>8. Safe(action, T2, Append(free, s), wqueue, S1, ran) /\ Len(free) < MaxTasks
  BY <1>2, <1>3, <1>4, <1>6, <1>7, Death
<1>9. free' = Append(free, s)
  <2>1. task[s].id = s
    BY SlotFacts
  <2> QED
    BY <1>8, <2>1 DEF FreeAfterDelete
<1>10. Safe(action, T2, free', wqueue, stack', ran)
  BY <1>8, <1>9 DEF S1
<1> QED
  BY <1>5, <1>10 DEF scheduling

\* A start that could not push the task deletes it.
LEMMA StartFailsStep ==
  ASSUME FInv, NEW t \in Threads, StartFails(t)
  PROVE  FInv'
<1> DEFINE s == Top(t).task
           h == [id |-> s, tag |-> task[s].tag]
           S1 == stack'
           x == [op |-> "start", of |-> NoHandle,
                 code |-> IF task[s].action = NoAction THEN "ACTION_INVALID" ELSE "TASK_LIMIT"]
<1>1. /\ Top(t).at = "scheduled" /\ ~Top(t).ok
      /\ task' = [task EXCEPT ![s] = DeletedTask(@)] /\ free' = FreeAfterDelete(s)
      /\ stack' = PopFrame(t) /\ status' = [status EXCEPT ![t] = x]
      /\ UNCHANGED <<scheduling, action, group, objects, ran>>
  BY DEF StartFails, Scheduled, At, Returns
<1>2. Top(t) \in FrameSet /\ Good(task, ran, t, Top(t))
  BY <1>1, Below DEF BasePoints
<1>3. s \in Slots
  BY <1>1, <1>2, FrameKinds DEF StartPoints, StartFrames
<1>4. task[s].id # 0 /\ Top(t).of = h
  BY <1>1, <1>2 DEF Good, StartPoints
<1>5. Holds(Top(t), s) /\ Owns(Top(t), h)
  BY <1>1, <1>4 DEF Holds, Owns, StartPoints
<1>6. Top(t).at \notin BasePoints \cup {"user"}
  BY <1>1 DEF BasePoints
<1>7. S1 = [stack EXCEPT ![t] = Tail(@)]
  BY <1>1 DEF PopFrame
<1> HIDE DEF S1, s
<1>8. Released(S1, task, wqueue, Top(t))
  BY <1>6, <1>7, Dropped
<1>9. Unheld(S1, wqueue, s) /\ Unowned(S1, h)
  BY <1>3, <1>5, <1>8 DEF Released
<1>10. Keeps(S1, t, h)
  BY <1>9 DEF Keeps, Unowned
<1>11. Safe(action, task, free, wqueue, stack, ran)'
  BY <1>1, <1>3, <1>4, <1>6, <1>9, <1>10, DeleteStep DEF S1
<1>12. Joined' /\ DOMAIN status' = Threads
  <2>1. x.op # "wait"
    OBVIOUS
  <2> HIDE DEF x
  <2> QED
    BY <1>1, <2>1 DEF FInv, Joined
<1> QED
  BY <1>1, <1>11, <1>12 DEF FInv, Objects, scheduling, objects

\* A wait for a task that is done deletes the task and returns its error code.
LEMMA WaitReturnsStep ==
  ASSUME FInv, NEW t \in Threads, WaitReturns(t)
  PROVE  FInv'
<1> DEFINE s == Top(t).task
           h == [id |-> s, tag |-> task[s].tag]
           n == Len(stack[t])
           S1 == stack'
           x == [op |-> "wait", of |-> Top(t).of, code |-> task[s].error]
<1>1. /\ Top(t).at = "wait" /\ ~Pending(s) /\ stack' = PopFrame(t)
      /\ status' = [status EXCEPT ![t] = x]
      /\ UNCHANGED <<scheduling, action, group, objects, ran>>
  BY DEF WaitReturns, At, Returns
<1>2. task' = [task EXCEPT ![s] = DeletedTask(@)] /\ free' = FreeAfterDelete(s)
  <2>1. ~ValidGroup(task[s].group)
    BY NoObjects
  <2> QED
    BY <2>1 DEF WaitReturns
<1>3. /\ Top(t) \in FrameSet /\ Good(task, ran, t, Top(t)) /\ n \in Nat /\ n > 1
      /\ Sits(Top(t), stack[t][2]) /\ stack[t][2] = Fm(stack[t], n - 1)
  BY <1>1, Below DEF BasePoints
<1>4. Top(t) \in WaitFrames
  BY <1>1, <1>3, FrameKinds
<1>5. s \in Slots /\ Top(t).of \in Handles
  BY <1>4 DEF WaitFrames
<1>6. Top(t).of.id = s /\ Top(t).of.tag = task[s].tag /\ task[s].state = "COMPLETED"
  BY <1>1, <1>3 DEF Good, Pending
<1>7. Top(t).of = h
  <2> DEFINE y == Top(t).of
  <2>1. y \in Handles /\ y.id = s /\ y.tag = task[s].tag
    BY <1>5, <1>6
  <2> HIDE DEF y, s
  <2>2. y = h
    BY <2>1 DEF Handles
  <2> QED
    BY <2>2 DEF y
<1>8. task[s].id # 0 /\ Ran(task, ran, s)
  <2>1. task[s].id # 0
    BY <1>5, <1>6, SlotFacts
  <2>2. DoneOK(task, ran)
    BY DEF FInv, Safe
  <2> QED
    BY <1>5, <1>6, <2>1, <2>2 DEF DoneOK
<1>9. Fm(stack[t], n - 1).at = "user" /\ Owns(Fm(stack[t], n - 1), h)
  BY <1>1, <1>3, <1>7 DEF Sits
<1>10. Top(t).at \notin BasePoints \cup {"user"}
  BY <1>1 DEF BasePoints
<1>11. S1 = [stack EXCEPT ![t] = Tail(@)]
  BY <1>1 DEF PopFrame
<1> HIDE DEF S1, s
<1>12. Safe(action, task, free, wqueue, S1, ran) /\ Without(stack, S1, t) /\ S1[t] = Tail(stack[t])
  BY <1>10, <1>11, Dropped
<1>13. Len(S1[t]) = n - 1
  <2>1. stack[t] \in Seq(FrameSet) /\ stack[t] # <<>>
    BY <1>10, Below
  <2> QED
    BY <1>12, <2>1
<1>14. Unheld(S1, wqueue, s)
  <2>1. ASSUME NEW u \in Threads, NEW d \in 1..Len(S1[u]), Holds(Fm(S1[u], d), s) PROVE FALSE
    <3>1. Good(task, ran, u, Fm(S1[u], d))
      BY <1>12, FrameFacts
    <3> DEFINE f == Fm(S1[u], d)
    <3>2. Good(task, ran, u, f) /\ Holds(f, s)
      BY <2>1, <3>1
    <3> HIDE DEF f
    <3> QED
      BY <1>6, <3>2 DEF Good, Holds, StartPoints
  <2>2. ASSUME NEW q \in DOMAIN wqueue, NEW k \in DOMAIN wqueue[q], wqueue[q][k] = s PROVE FALSE
    <3>1. Waits(task, ran, q, wqueue[q][k])
      BY DEF FInv, Safe, WaitingOK
    <3> QED
      BY <1>6, <2>2, <3>1 DEF Waits
  <2> QED
    BY <2>1, <2>2 DEF Unheld
<1>15. Keeps(S1, t, h)
  <2> SUFFICES ASSUME NEW u \in Threads, NEW d \in 1..Len(S1[u]), Owns(Fm(S1[u], d), h)
               PROVE  u = t /\ d = Len(S1[t]) /\ Fm(S1[u], d).at = "user"
    BY DEF Keeps
  <2>1. d \in 1..Len(stack[u]) /\ Fm(S1[u], d) = Fm(stack[u], d)
    BY <1>12 DEF Without
  <2>2. Owns(Fm(stack[u], d), h)
    BY <2>1
  <2>3. n - 1 \in 1..Len(stack[t])
    BY <1>3
  <2>4. Owned(task, stack)
    BY DEF FInv, Safe
  <2>5. u = t /\ d = n - 1
    BY <1>5, <1>9, <2>1, <2>2, <2>3, <2>4 DEF Owned
  <2> QED
    BY <1>9, <1>13, <2>1, <2>5
<1>16. Safe(action, task, free, wqueue, stack, ran)'
  BY <1>1, <1>2, <1>5, <1>8, <1>10, <1>14, <1>15, DeleteStep DEF S1
<1>17. Joined' /\ DOMAIN status' = Threads
  <2>1. x.of = h
    BY <1>7
  <2>2. PICK c \in DOMAIN ran : c.task = x.of
    BY <1>8, <2>1 DEF Ran
  <2>3. Joined /\ DOMAIN status = Threads
    BY DEF FInv
  <2> HIDE DEF x
  <2>4. \A u \in Threads : status'[u] = IF u = t THEN x ELSE status[u]
    BY <1>1, <2>3
  <2>5. ran' = ran
    BY <1>1
  <2> QED
    BY <1>1, <2>2, <2>3, <2>4, <2>5 DEF Joined
<1> QED
  BY <1>1, <1>16, <1>17 DEF FInv, Objects, scheduling, objects

-----------------------------------------------------------------------------
(* What a fork-join program does not do                                    *)

\* The calls of a fork-join program.
LEMMA CallFact ==
  ASSUME FInv, ForkJoin, NEW t \in Threads, NEW op, Calls(t, op)
  PROVE  op \in {"start", "wait", "setStatus"}
<1>1. InProgram(t) /\ Statement(t).op = op
  BY DEF Calls
<1>2. Joins(Top(t).prog, Statement(t))
  BY <1>1, StatementFacts
<1> QED
  BY <1>1, <1>2 DEF Joins

\* The points its threads are at.
LEMMA PointFact ==
  ASSUME FInv, NEW t \in Threads, NEW p, At(t, p)
  PROVE  p \in StartPoints \cup ExecPoints \cup BasePoints \cup {"user", "wait", "take", "dispatch"}
<1>1. Top(t) \in FrameSet
  BY TopFacts DEF FInv, Top
<1> QED
  BY <1>1, FramePoints DEF At

\* No group, queue or action is created, used or deleted.
LEMMA NoOtherCalls ==
  ASSUME FInv, ForkJoin, NEW t \in Threads
  PROVE  /\ ~Enqueue(t) /\ ~EnqueueStarts(t) /\ ~EnqueuePoolEmpty(t) /\ ~Cancel(t)
         /\ ~Create(t) /\ ~Delete(t) /\ ~GroupInvalid(t, "waitAll") /\ ~GroupInvalid(t, "waitAny")
         /\ ~WaitAll(t) /\ ~WaitAllReturns(t) /\ ~WaitAllTimeout(t) /\ ~WaitAllLooks(t)
         /\ ~WaitAllCollects(t) /\ ~WaitAllCounts(t) /\ ~WaitAllHelps(t)
         /\ ~WaitAny(t) /\ ~WaitAnyCompleted(t) /\ ~WaitAnyHelps(t) /\ ~WaitAnyTimeout(t)
         /\ ~WaitAnyCollects(t) /\ ~WaitAnyReturns(t)
<1>1. \A op : Calls(t, op) => op \in {"start", "wait", "setStatus"}
  BY CallFact
<1>2. /\ ~Calls(t, "enqueue") /\ ~Calls(t, "cancel") /\ ~Calls(t, "create") /\ ~Calls(t, "delete")
      /\ ~Calls(t, "waitAll") /\ ~Calls(t, "waitAny")
  BY <1>1
<1>3. \A p : At(t, p) => p \in StartPoints \cup ExecPoints \cup BasePoints
                                 \cup {"user", "wait", "take", "dispatch"}
  BY PointFact
<1>4. /\ ~At(t, "enqueue") /\ ~At(t, "all") /\ ~At(t, "allPop") /\ ~At(t, "allCount")
      /\ ~At(t, "any") /\ ~At(t, "anyCount")
  BY <1>3 DEF StartPoints, ExecPoints, BasePoints
<1>5. ~Enqueue(t) /\ ~EnqueueStarts(t) /\ ~EnqueuePoolEmpty(t) /\ ~Cancel(t)
  BY <1>2, <1>4, Zenon DEF Enqueue, EnqueueStarts, EnqueuePoolEmpty, Cancel
<1>6. ~Create(t) /\ ~Delete(t) /\ ~GroupInvalid(t, "waitAll") /\ ~GroupInvalid(t, "waitAny")
  BY <1>2, Zenon DEF Create, Delete, GroupInvalid
<1>7. /\ ~WaitAll(t) /\ ~WaitAllReturns(t) /\ ~WaitAllTimeout(t) /\ ~WaitAllLooks(t)
      /\ ~WaitAllCollects(t) /\ ~WaitAllCounts(t) /\ ~WaitAllHelps(t)
  BY <1>2, <1>4, Zenon DEF WaitAll, WaitAllReturns, WaitAllTimeout, WaitAllLooks, WaitAllCollects,
                           WaitAllCounts, WaitAllHelps
<1>8. /\ ~WaitAny(t) /\ ~WaitAnyCompleted(t) /\ ~WaitAnyHelps(t) /\ ~WaitAnyTimeout(t)
      /\ ~WaitAnyCollects(t) /\ ~WaitAnyReturns(t)
  BY <1>2, <1>4, Zenon DEF WaitAny, WaitAnyCompleted, WaitAnyHelps, WaitAnyTimeout, WaitAnyCollects,
                           WaitAnyReturns
<1> QED
  BY <1>5, <1>6, <1>7, <1>8

\* No queue or action is deleted, disabled or enabled.
LEMMA NoQueueStep ==
  ASSUME FInv, ForkJoin, NEW t \in Threads
  PROVE  ~QueueStep(t)
<1>1. \A op : Calls(t, op) => op \in {"start", "wait", "setStatus"}
  BY CallFact
<1>2. /\ \A op \in QueueOps : ~Calls(t, op)
      /\ \A op \in ActionOps : ~Calls(t, op)
      /\ ~Calls(t, "createQueue") /\ ~Calls(t, "createAction")
      /\ ~Calls(t, "deleteQueue") /\ ~Calls(t, "disableQueue") /\ ~Calls(t, "enableQueue")
      /\ ~Calls(t, "deleteAction") /\ ~Calls(t, "disableAction") /\ ~Calls(t, "enableAction")
  BY <1>1 DEF QueueOps, ActionOps
<1>3. \A p : At(t, p) => p \in StartPoints \cup ExecPoints \cup BasePoints
                                 \cup {"user", "wait", "take", "dispatch"}
  BY PointFact
<1>4. ~At(t, "process") /\ ~At(t, "drain") /\ ~At(t, "drained")
  BY <1>3 DEF StartPoints, ExecPoints, BasePoints
<1>5. ~VisitRing(t) /\ ~DrainHelps(t) /\ ~DrainTimeout(t) /\ ~DrainEnds(t) /\ ~DrainedReturns(t)
  BY <1>4, Zenon DEF VisitRing, DrainHelps, DrainTimeout, DrainEnds, DrainedReturns
<1>6. ~QueueInvalid(t) /\ ~ActionInvalid(t) /\ ~CreateQueue(t) /\ ~CreateAction(t)
  BY <1>2, Zenon DEF QueueInvalid, ActionInvalid, CreateQueue, CreateAction
<1>7. ~DeleteQueue(t) /\ ~DisableQueue(t) /\ ~EnableQueue(t)
  BY <1>2, Zenon DEF DeleteQueue, DisableQueue, EnableQueue
<1>8. ~DeleteAction(t) /\ ~DisableAction(t) /\ ~EnableAction(t)
  BY <1>2, Zenon DEF DeleteAction, DisableAction, EnableAction
<1> QED
  BY <1>5, <1>6, <1>7, <1>8 DEF QueueStep

\* A task has one instance.
LEMMA NoScheduleNext ==
  ASSUME FInv, NEW t \in Threads
  PROVE  ~ScheduleNext(t)
<1> SUFFICES ASSUME ScheduleNext(t) PROVE FALSE
  OBVIOUS
<1> DEFINE s == Top(t).task
<1>1. Top(t).at = "scheduled" /\ Top(t).instance + 1 < Attr[task[s].job].instances
  BY DEF ScheduleNext, At
<1>2. Top(t) \in FrameSet /\ Good(task, ran, t, Top(t))
  BY <1>1, Below DEF BasePoints
<1>3. Top(t) \in StartFrames
  BY <1>1, <1>2, FrameKinds DEF StartPoints
<1>4. s \in Slots /\ Top(t).instance \in {0, 1}
  BY <1>3 DEF StartFrames
<1>5. task[s].id # 0
  BY <1>1, <1>2 DEF Good, StartPoints
<1>6. Attr[task[s].job].instances = 1
  BY <1>4, <1>5, SlotFacts
<1> QED
  BY <1>1, <1>4, <1>6

\* A task that a worker takes is scheduled and has its action; it has no group and no queue.
LEMMA NoOtherDispatch ==
  ASSUME FInv, NEW w \in Workers
  PROVE  /\ ~DispatchCancelled(w) /\ ~DispatchOther(w) /\ ~DispatchRetained(w) /\ ~PutBack(w)
         /\ ~TellQueue(w) /\ ~ExecNoAction(w) /\ ~Report(w)
<1>1. w \in Threads
  BY DEF Threads
<1>2. At(w, "dispatch") => task[Top(w).task].state = "SCHEDULED"
  <2> SUFFICES ASSUME At(w, "dispatch") PROVE task[Top(w).task].state = "SCHEDULED"
    OBVIOUS
  <2>1. Top(w).at = "dispatch"
    BY DEF At
  <2>2. Good(task, ran, w, Top(w))
    BY <1>1, <2>1, Below DEF BasePoints
  <2> QED
    BY <2>1, <2>2 DEF Good
<1>3. ~DispatchCancelled(w) /\ ~DispatchOther(w) /\ ~DispatchRetained(w)
  BY <1>2 DEF DispatchCancelled, DispatchOther, DispatchRetained
<1>4. ~PutBack(w)
  <2> SUFFICES ASSUME PutBack(w) PROVE FALSE
    OBVIOUS
  <2>1. Top(w).at = "scheduled" /\ Top(w).again
    BY DEF PutBack, At
  <2>2. Top(w) \in FrameSet
    BY <1>1, <2>1, Below DEF BasePoints
  <2>3. Top(w) \in StartFrames
    BY <2>1, <2>2, FrameKinds DEF StartPoints
  <2> QED
    BY <2>1, <2>3 DEF StartFrames
<1>5. ~ExecNoAction(w)
  <2> SUFFICES ASSUME ExecNoAction(w) PROVE FALSE
    OBVIOUS
  <2>1. Top(w).at = "execCall" /\ ~ValidAction(task[Top(w).task].action)
    BY DEF ExecNoAction, At
  <2>2. Top(w) \in FrameSet /\ Good(task, ran, w, Top(w))
    BY <1>1, <2>1, Below DEF BasePoints
  <2>3. Top(w).task \in Slots
    BY <2>1, <2>2, FrameKinds DEF CallFrames
  <2>4. task[Top(w).task].state = "RUNNING"
    BY <2>1, <2>2 DEF Good
  <2> QED
    BY <2>1, <2>3, <2>4, SlotFacts
<1>6. \A p : At(w, p) => p \in StartPoints \cup ExecPoints \cup BasePoints
                                 \cup {"user", "wait", "take", "dispatch"}
  BY <1>1, PointFact
<1>7. ~At(w, "executed") /\ ~At(w, "report")
  BY <1>6 DEF StartPoints, ExecPoints, BasePoints
<1>8. ~TellQueue(w) /\ ~Report(w)
  BY <1>7, Zenon DEF TellQueue, Report
<1> QED
  BY <1>3, <1>4, <1>5, <1>8

-----------------------------------------------------------------------------
(* The beginning                                                           *)

\* The stacks at first.
LEMMA InitStacks ==
  ASSUME ForkJoin, NEW main \in Mains, NEW S,
         S = [t \in Threads |->
                IF t \in Workers THEN <<[at |-> "loop", n |-> 0]>>
                ELSE <<[at |-> "user", prog |-> main[t], i |-> 1, started |-> <<>>]>>],
         NEW t \in Threads
  PROVE  /\ Len(S[t]) = 1 /\ Fm(S[t], 1) \in FrameSet /\ StackOK(t, S[t])
         /\ IF t \in Workers THEN Fm(S[t], 1).at = "loop"
            ELSE Fm(S[t], 1).at = "user" /\ Fm(S[t], 1) \in MainFrames /\ Fm(S[t], 1).started = <<>>
<1> DEFINE f == IF t \in Workers THEN [at |-> "loop", n |-> 0]
                ELSE [at |-> "user", prog |-> main[t], i |-> 1, started |-> <<>>]
<1>1. S[t] = <<f>>
  OBVIOUS
<1>2. CASE t \in Workers
  <2>1. f = [at |-> "loop", n |-> 0]
    BY <1>2
  <2>2. f \in SeekFrames /\ f.at = "loop"
    BY <2>1, ProbesFact DEF SeekFrames
  <2>3. f \in FrameSet
    BY <2>2 DEF FrameSet
  <2> HIDE DEF f
  <2>4. Len(<<f>>) = 1 /\ Fm(<<f>>, 1) = f /\ <<f>> \in Seq(FrameSet)
    BY <2>3 DEF Fm
  <2>5. StackOK(t, S[t])
    BY <1>1, <1>2, <2>2, <2>4 DEF StackOK, Base, BasePoints
  <2> QED
    BY <1>1, <1>2, <2>2, <2>3, <2>4, <2>5
<1>3. CASE t \notin Workers
  <2>1. f = [at |-> "user", prog |-> main[t], i |-> 1, started |-> <<>>]
    BY <1>3
  <2>2. t \in Apps
    BY <1>3 DEF Threads
  <2>3. main[t] \in Code \ Actions
    BY <2>2 DEF ForkJoin
  <2>4. <<>> \in Seq(Handles)
    OBVIOUS
  <2>5. f \in MainFrames /\ f.at = "user" /\ f.started = <<>>
    BY <2>1, <2>3, <2>4 DEF MainFrames
  <2>6. f \in FrameSet
    BY <2>5 DEF FrameSet
  <2> HIDE DEF f
  <2>7. Len(<<f>>) = 1 /\ Fm(<<f>>, 1) = f /\ <<f>> \in Seq(FrameSet)
    BY <2>6 DEF Fm
  <2>8. StackOK(t, S[t])
    BY <1>1, <1>3, <2>5, <2>7 DEF StackOK, Base
  <2> QED
    BY <1>1, <1>3, <2>5, <2>6, <2>7, <2>8
<1> QED
  BY <1>2, <1>3

\* The first frames say nothing about tasks.
LEMMA FreshFrame ==
  ASSUME NEW T, NEW R, NEW t, NEW f \in FrameSet,
         f.at = "loop" \/ (f.at = "user" /\ f \in MainFrames /\ f.started = <<>>)
  PROVE  Good(T, R, t, f) /\ (\A s : ~Holds(f, s)) /\ (\A h : ~Owns(f, h)) /\ f.at # "execTodo"
<1>1. f \in MainFrames => f \notin BodyFrames
  BY DEF MainFrames, BodyFrames
<1>2. CASE f.at = "loop"
  BY <1>2, GoodIdle DEF HoldPoints, StartPoints
<1>3. CASE f.at = "user" /\ f \in MainFrames /\ f.started = <<>>
  <2>1. DOMAIN f.started = {}
    BY <1>3
  <2> QED
    BY <1>1, <1>3, <2>1 DEF Good, Holds, Owns, StartPoints
<1> QED
  BY <1>2, <1>3

\* The invariant holds at first.
LEMMA InitFInv ==
  ASSUME ForkJoin, Init
  PROVE  FInv
<1>1. PICK main \in Mains : stack = [t \in Threads |->
        IF t \in Workers THEN <<[at |-> "loop", n |-> 0]>>
        ELSE <<[at |-> "user", prog |-> main[t], i |-> 1, started |-> <<>>]>>]
  BY DEF Init
<1>2. DOMAIN ran = {}
  BY DEF Init, EmptyBag, SetToBag
<1>3. \A s : ~Ran(task, ran, s)
  BY <1>2 DEF Ran
<1>4. DOMAIN stack = Threads
  BY <1>1
<1>5. \A t \in Threads :
        /\ Len(stack[t]) = 1 /\ Fm(stack[t], 1) \in FrameSet /\ StackOK(t, stack[t])
        /\ IF t \in Workers THEN Fm(stack[t], 1).at = "loop"
           ELSE Fm(stack[t], 1).at = "user" /\ Fm(stack[t], 1) \in MainFrames /\ Fm(stack[t], 1).started = <<>>
  BY <1>1, InitStacks
<1>6. ASSUME NEW t \in Threads, NEW d \in 1..Len(stack[t])
      PROVE  /\ d = 1 /\ Good(task, ran, t, Fm(stack[t], d)) /\ (\A s : ~Holds(Fm(stack[t], d), s))
             /\ (\A h : ~Owns(Fm(stack[t], d), h)) /\ Fm(stack[t], d).at # "execTodo"
  <2>1. d = 1
    <3>1. Len(stack[t]) = 1
      BY <1>5
    <3> QED
      BY <3>1
  <2>2. \/ Fm(stack[t], 1).at = "loop"
        \/ Fm(stack[t], 1).at = "user" /\ Fm(stack[t], 1) \in MainFrames /\ Fm(stack[t], 1).started = <<>>
    BY <1>5
  <2> QED
    BY <1>5, <2>1, <2>2, FreshFrame
<1>7. ASSUME NEW s \in Slots PROVE SlotOK(action, s, task[s]) /\ task[s].id = 0 /\ task[s].state = "ERROR"
  <2> DEFINE j == CHOOSE j \in Jobs : TRUE
  <2>1. task[s] = [id |-> 0, tag |-> 0, state |-> "ERROR", todo |-> 0, current |-> 0,
        error |-> "SUCCESS", action |-> NoAction, group |-> NoGroup,
        queue |-> NoQueue, priority |-> 0, job |-> j]
    BY DEF Init
  <2>2. j \in Jobs
    BY ActionsAssumption
  <2>3. "SUCCESS" \in Errors /\ 0 \in Prios
    BY SizesAssumption DEF Errors, Prios
  <2> HIDE DEF j
  <2>4. task[s] \in TaskRecords(s)
    BY <2>1, <2>2, <2>3 DEF TaskRecords
  <2> QED
    BY <2>1, <2>4 DEF SlotOK
<1>8. DOMAIN task = Slots
  BY DEF Init
<1>9. Pool(task, free)
  <2>1. free = [k \in 1..MaxTasks |-> k] /\ MaxTasks \in Nat
    BY SizesAssumption DEF Init, Slots
  <2>2. free \in Seq(Slots) /\ Len(free) = MaxTasks /\ DOMAIN free = Slots
    BY <2>1 DEF Slots
  <2>3. \A k \in Slots : free[k] = k
    BY <2>1 DEF Slots
  <2>4. {free[k] : k \in DOMAIN free} = {s \in Slots : task[s].id = 0}
    BY <1>7, <2>2, <2>3
  <2>5. \A j, k \in DOMAIN free : free[j] = free[k] => j = k
    BY <2>2, <2>3
  <2>6. Len(free) <= MaxTasks
    BY <2>1, <2>2
  <2> QED
    BY <2>2, <2>4, <2>5, <2>6 DEF Pool
<1>10. /\ wqueue \in [Workers \X {"private", "public"} \X Prios -> Seq(Slots)]
       /\ \A q \in DOMAIN wqueue : wqueue[q] = <<>>
  BY DEF Init
<1>11. WaitingOK(task, ran, wqueue) /\ \A q \in DOMAIN wqueue : DOMAIN wqueue[q] = {}
  <2>1. \A q \in DOMAIN wqueue : DOMAIN wqueue[q] = {} /\ Len(wqueue[q]) <= QueueLimit
    BY <1>10, SizesAssumption
  <2> QED
    BY <1>10, <2>1 DEF WaitingOK
<1>12. /\ \A t \in Threads : TodoOK(task, ran, stack[t])
       /\ HeldOnce(stack) /\ QueuedFree(stack, wqueue) /\ Owned(task, stack)
  BY <1>6, ZenonT(40) DEF TodoOK, HeldOnce, QueuedFree, Owned
<1>13. RanOK(task, ran) /\ DoneOK(task, ran)
  BY <1>2, <1>7 DEF RanOK, DoneOK
<1>14. Safe(action, task, free, wqueue, stack, ran)
  BY <1>4, <1>5, <1>6, <1>7, <1>8, <1>9, <1>11, <1>12, <1>13 DEF Safe
<1>15. Joined /\ DOMAIN status = Threads
  BY DEF Init, Joined
<1>16. /\ \A g \in Groups : ~group[g].valid
       /\ \A q \in Queues : ~queue[q].valid
       /\ group \in [Groups -> [valid : BOOLEAN, num_tasks : Int, queue : {<<>>}]]
       /\ queue \in [Queues -> [valid : BOOLEAN, enabled : BOOLEAN, num_tasks : Int]]
  BY DEF Init
<1>17. action \in [Actions -> [valid : BOOLEAN, enabled : BOOLEAN, num_tasks : Int]]
  <2> DEFINE created(a) == \E j \in Jobs : \E k \in DOMAIN JobActions[j] : JobActions[j][k] = a
  <2>1. action = [a \in Actions |-> [valid |-> created(a), enabled |-> created(a), num_tasks |-> 0]]
    BY DEF Init
  <2>2. \A a \in Actions : created(a) \in BOOLEAN
    OBVIOUS
  <2> HIDE DEF created
  <2> QED
    BY <2>1, <2>2
<1>18. Objects
  BY <1>16, <1>17 DEF Objects, Init
<1> QED
  BY <1>14, <1>15, <1>18 DEF FInv

-----------------------------------------------------------------------------
(* Every step                                                              *)

\* A step of a worker keeps the invariant.
LEMMA WorkerKeeps ==
  ASSUME FInv, NEW w \in Workers, WorkerStep(w)
  PROVE  FInv'
<1>1. w \in Threads
  BY DEF Threads
<1>2. CASE ProbeFinds(w)
  BY <1>1, <1>2, ProbeFindsStep
<1>3. CASE ProbeFails(w)
  BY <1>3, ProbeFailsStep
<1>4. CASE FallAsleep(w) \/ WakeUp(w)
  BY <1>4, SleepSteps
<1>5. CASE StartWaiting(w) \/ WaitTimesOut(w)
  BY <1>5, IdleSteps
<1>6. CASE DispatchRun(w)
  BY <1>6, DispatchRunStep
<1>7. CASE ExecRun(w)
  BY <1>7, ExecRunStep
<1>8. CASE ExecCall(w)
  BY <1>8, ExecCallStep
<1>9. CASE BodyReturns(w)
  BY <1>9, BodyReturnsStep
<1>10. CASE ExecTodo(w)
  BY <1>10, ExecTodoStep
<1>11. CASE ExecDone(w)
  BY <1>11, ExecDoneStep
<1>12. CASE ExecCount(w)
  BY <1>12, ExecCountStep
<1>13. CASE ExecGroup(w)
  BY <1>13, ExecGroupStep
<1> QED
  BY <1>2, <1>3, <1>4, <1>5, <1>6, <1>7, <1>8, <1>9, <1>10, <1>11, <1>12, <1>13, NoOtherDispatch
     DEF WorkerStep

\* A call of the API keeps the invariant.
LEMMA CallKeeps ==
  ASSUME FInv, ForkJoin, NEW t \in Threads, CallStep(t)
  PROVE  FInv'
<1>1. CASE Start(t)
  BY <1>1, StartStep
<1>2. CASE StartPoolEmpty(t)
  BY <1>2, StartPoolEmptyStep
<1>3. CASE ScheduleCount(t)
  BY <1>3, ScheduleCountStep
<1>4. CASE SchedulePush(t)
  BY <1>4, SchedulePushStep
<1>5. CASE StartSucceeds(t)
  BY <1>5, StartSucceedsStep
<1>6. CASE StartFails(t)
  BY <1>6, StartFailsStep
<1>7. CASE Wait(t)
  BY <1>7, WaitStep
<1>8. CASE WaitHelps(t)
  BY <1>8, WaitHelpsStep
<1>9. CASE WaitTimeout(t)
  BY <1>9, WaitTimeoutStep
<1>10. CASE WaitReturns(t)
  BY <1>10, WaitReturnsStep
<1>11. CASE SetStatus(t)
  BY <1>11, SetStatusStep
<1> QED
  BY <1>1, <1>2, <1>3, <1>4, <1>5, <1>6, <1>7, <1>8, <1>9, <1>10, <1>11,
     NoOtherCalls, NoQueueStep, NoScheduleNext
     DEF CallStep

\* The invariant of the runtime under fork-join programs is inductive.
LEMMA NextKeeps ==
  ASSUME FInv, ForkJoin, [Next]_vars
  PROVE  FInv'
<1>1. CASE Next
  BY <1>1, WorkerKeeps, CallKeeps DEF Next
<1>2. CASE UNCHANGED vars
  BY <1>2 DEF vars, memory, scheduling, objects, history, FInv, Objects, Joined
<1> QED
  BY <1>1, <1>2

\* Slots, pool, stacks, queues and history fit together in every state of the
\* runtime under a fork-join program.
THEOREM ForkJoinInvariant ==
  ASSUME ForkJoin
  PROVE  Spec => []FInv
<1>1. Init => FInv
  BY InitFInv
<1>2. FInv /\ [Next]_vars => FInv'
  BY NextKeeps
<1> QED
  BY <1>1, <1>2, PTL DEF Spec

-----------------------------------------------------------------------------
(* What follows                                                            *)

\* The types of the shared state, for fork-join programs.
LEMMA Typed ==
  ASSUME FInv
  PROVE  TypeOK
<1>1. ASSUME NEW s \in Slots
      PROVE  /\ task[s].id \in 0..MaxTasks /\ task[s].tag \in Nat
             /\ task[s].state \in States
             /\ task[s].todo \in 0..(UIntMod - 1)
             /\ task[s].current \in Nat
             /\ task[s].action \in Actions \cup {NoAction}
             /\ task[s].group \in Groups \cup {NoGroup}
             /\ task[s].queue \in Queues \cup {NoQueue}
             /\ task[s].job \in Jobs
  <2>1. task[s] \in TaskRecords(s)
    BY SlotFacts
  <2>2. 0 \in 0..MaxTasks /\ s \in 0..MaxTasks
    BY SizesAssumption DEF Slots
  <2>3. 0 \in 0..(UIntMod - 1) /\ 1 \in 0..(UIntMod - 1)
    BY SizesAssumption
  <2> QED
    BY <2>1, <2>2, <2>3 DEF TaskRecords, States
<1>2. free \in Seq(0..MaxTasks) /\ Len(free) <= MaxTasks
  <2>1. free \in Seq(Slots) /\ Len(free) <= MaxTasks
    BY DEF FInv, Safe, Pool
  <2>2. Slots \subseteq 0..MaxTasks
    BY SizesAssumption DEF Slots
  <2>3. Seq(Slots) \subseteq Seq(0..MaxTasks)
    BY <2>2, SeqMonotonic
  <2> QED
    BY <2>1, <2>3
<1>3. \A q \in DOMAIN wqueue : wqueue[q] \in Seq(Slots) /\ Len(wqueue[q]) <= QueueLimit
  BY DEF FInv, Safe, WaitingOK
<1>4. /\ is_sleeping \in [Workers -> BOOLEAN] /\ affine_task_counter \in Nat
      /\ action \in [Actions -> [valid : BOOLEAN, enabled : BOOLEAN, num_tasks : Int]]
      /\ queue \in [Queues -> [valid : BOOLEAN, enabled : BOOLEAN, num_tasks : Int]]
  BY DEF FInv, Objects
<1>5. \A j \in Jobs : job[j].num_actions \in 0..MaxActions
  <2>1. \A j \in Jobs : job[j].num_actions = Len(JobActions[j])
    BY DEF FInv, Objects
  <2>2. \A j \in Jobs : Len(JobActions[j]) \in 0..MaxActions
    BY ActionsAssumption, JobsAssumption
  <2> QED
    BY <2>1, <2>2
<1>6. ASSUME NEW g \in Groups
      PROVE  /\ group[g].valid \in BOOLEAN /\ group[g].num_tasks \in Int
             /\ group[g].queue \in Seq(Slots) /\ Len(group[g].queue) <= QueueLimit
  <2>1. group[g] \in [valid : BOOLEAN, num_tasks : Int, queue : {<<>>}]
    BY DEF FInv, Objects
  <2>2. <<>> \in Seq(Slots) /\ Len(<<>>) <= QueueLimit
    BY SizesAssumption
  <2> QED
    BY <2>1, <2>2
<1>7. \A t \in Threads : stack[t] # <<>>
  BY TopFacts DEF FInv
<1> QED
  BY <1>1, <1>2, <1>3, <1>4, <1>5, <1>6, <1>7 DEF TypeOK

\* Every task that ran did so once, where it might; a wait comes after it.
LEMMA RanRight ==
  ASSUME FInv
  PROVE  RunsOnce /\ AffinityRespected /\ JoinIsComplete
<1>1. RanOK(task, ran)
  BY DEF FInv, Safe
<1>2. ASSUME NEW c \in DOMAIN ran
      PROVE  /\ ran[c] = 1 /\ c.instance = 0 /\ Attr[c.job].instances = 1
             /\ May(c.on, c.action, c.job) /\ \A d \in CallsOf(c.task) : d = c
  <2>1. c \in Calling
    BY <1>1 DEF RanOK
  <2>2. c.instance = 0
    BY <2>1 DEF Calling
  <2>3. \A d \in CallsOf(c.task) : d = c
    BY <1>1 DEF RanOK, CallsOf
  <2> QED
    BY <1>1, <2>2, <2>3 DEF RanOK
<1>3. RunsOnce
  BY <1>2 DEF RunsOnce
<1>4. AffinityRespected
  BY <1>2 DEF AffinityRespected, May, Both
<1>5. JoinIsComplete
  <2> SUFFICES ASSUME NEW t \in Threads, status[t].op = "wait", status[t].code = "SUCCESS"
               PROVE  AllRan(status[t].of)
    BY DEF JoinIsComplete
  <2> DEFINE h == status[t].of
  <2>1. PICK c \in DOMAIN ran : c.task = h
    BY DEF FInv, Joined
  <2> HIDE DEF h
  <2>2. c \in CallsOf(h)
    BY <2>1 DEF CallsOf
  <2>3. \A d \in CallsOf(h) : d.instance = 0
    BY <1>2 DEF CallsOf
  <2>4. {d.instance : d \in CallsOf(h)} = {0}
    BY <2>2, <2>3
  <2>5. 0..(Attr[c.job].instances - 1) = {0}
    BY <1>2
  <2>6. AllRan(h)
    BY <2>2, <2>4, <2>5 DEF AllRan
  <2> QED
    BY <2>6 DEF h
<1> QED
  BY <1>3, <1>4, <1>5

\* A task whose body or bookkeeping is going on is running; one that is about to be run is scheduled.
LEMMA BusyFact ==
  ASSUME FInv, NEW t \in Threads, Top(t).at \in {"exec", "execTodo", "execDone"}
  PROVE  Top(t).task \in Slots /\ task[Top(t).task].state # "COMPLETED"
<1>1. Top(t) \in FrameSet /\ Good(task, ran, t, Top(t))
  BY Below DEF BasePoints
<1>2. Top(t).task \in Slots
  BY <1>1, FrameKinds DEF GotFrames, TodoFrames, DoneFrames
<1>3. task[Top(t).task].state # "COMPLETED"
  BY <1>1 DEF Good
<1> QED
  BY <1>2, <1>3

\* No step changes a completed task, except its deletion.
LEMMA StaysFinal ==
  ASSUME FInv, ForkJoin, [Next]_vars, NEW s \in Slots, task[s].state = "COMPLETED"
  PROVE  task'[s] = task[s] \/ task'[s].tag # task[s].tag
<1>1. DOMAIN task = Slots
  BY DEF FInv, Safe
<1>2. CASE UNCHANGED task
  BY <1>2
<1>3. ASSUME NEW x \in Slots, NEW r, task[x].state # "COMPLETED" \/ r.tag # task[x].tag,
             task' = [task EXCEPT ![x] = r]
      PROVE  task'[s] = task[s] \/ task'[s].tag # task[s].tag
  BY <1>1, <1>3
<1>4. ASSUME NEW w \in Workers, ExecRun(w) \/ ExecTodo(w) \/ ExecDone(w)
      PROVE  task'[s] = task[s] \/ task'[s].tag # task[s].tag
  <2> DEFINE x == Top(w).task
  <2>1. w \in Threads
    BY DEF Threads
  <2>2. Top(w).at \in {"exec", "execTodo", "execDone"}
    BY <1>4 DEF ExecRun, ExecTodo, ExecDone, At
  <2>3. x \in Slots /\ task[x].state # "COMPLETED"
    BY <2>1, <2>2, BusyFact
  <2>4. x # s
    BY <2>3
  <2>5. CASE ExecRun(w)
    <3>1. task' = [task EXCEPT ![x].current = @ + 1, ![x].state = "RUNNING"]
      BY <2>5 DEF ExecRun
    <3> HIDE DEF x
    <3> QED
      BY <1>1, <2>3, <2>4, <3>1
  <2>6. CASE ExecTodo(w)
    <3>1. task' = [task EXCEPT ![x].todo = MinusOne(@)]
      BY <2>6 DEF ExecTodo
    <3> HIDE DEF x
    <3> QED
      BY <1>1, <2>3, <2>4, <3>1
  <2>7. CASE ExecDone(w)
    <3>1. task' = [task EXCEPT ![x].state = "COMPLETED"] \/ task' = task
      BY <2>7 DEF ExecDone
    <3> HIDE DEF x
    <3> QED
      BY <1>1, <2>3, <2>4, <3>1
  <2> QED
    BY <1>4, <2>5, <2>6, <2>7
<1>5. ASSUME NEW w \in Workers, WorkerStep(w)
      PROVE  UNCHANGED task \/ ExecRun(w) \/ ExecTodo(w) \/ ExecDone(w)
  BY <1>5, NoOtherDispatch
     DEF WorkerStep, memory, ProbeFinds, ProbeFails, FallAsleep, StartWaiting, WaitTimesOut, WakeUp,
         DispatchRun, ExecCall, BodyReturns, ExecCount, ExecGroup
<1>6. ASSUME NEW t \in Threads, CallStep(t)
      PROVE  UNCHANGED task \/ Start(t) \/ StartFails(t) \/ WaitReturns(t) \/ SetStatus(t)
  BY <1>6, NoOtherCalls, NoQueueStep, NoScheduleNext
     DEF CallStep, memory, StartPoolEmpty, ScheduleCount, SchedulePush, StartSucceeds, Wait,
         WaitHelps, HelpsOut, WaitTimeout
<1>7. ASSUME NEW t \in Threads, Start(t)
      PROVE  task'[s] = task[s] \/ task'[s].tag # task[s].tag
  <2> DEFINE x == Head(free)
             st == Statement(t)
             r == NewTask(task[x], x, st.job, st.group, NoQueue, Attr[st.job].priority)
  <2>1. free # <<>> /\ task' = [task EXCEPT ![x] = r]
    BY <1>7 DEF Start, Launch
  <2>2. free \in Seq(Slots) /\ {free[k] : k \in DOMAIN free} = {y \in Slots : task[y].id = 0}
    BY DEF FInv, Safe, Pool
  <2>3. x = free[1] /\ 1 \in DOMAIN free
    BY <2>1, <2>2
  <2>4. x \in Slots /\ task[x].id = 0
    BY <2>2, <2>3
  <2>5. task[x].state # "COMPLETED"
    BY <2>4, SlotFacts
  <2> HIDE DEF x, r
  <2> QED
    BY <1>3, <2>1, <2>4, <2>5
<1>8. ASSUME NEW t \in Threads, StartFails(t) \/ WaitReturns(t)
      PROVE  task'[s] = task[s] \/ task'[s].tag # task[s].tag
  <2> DEFINE x == Top(t).task
             r == DeletedTask(task[x])
  <2>1. ~ValidGroup(task[x].group)
    BY NoObjects
  <2>2. task' = [task EXCEPT ![x] = r] /\ Top(t).at \in {"scheduled", "wait"}
    BY <1>8, <2>1 DEF StartFails, WaitReturns, Scheduled, At
  <2>3. Top(t) \in FrameSet /\ Good(task, ran, t, Top(t))
    BY <2>2, Below DEF BasePoints
  <2>4. x \in Slots /\ task[x].state # "ERROR"
    <3>1. x \in Slots
      BY <2>2, <2>3, FrameKinds DEF StartPoints, StartFrames, WaitFrames
    <3>2. Top(t).at = "scheduled" => task[x].id # 0
      BY <2>3 DEF Good, StartPoints
    <3>3. Top(t).at = "wait" => task[x].state # "ERROR"
      BY <2>3 DEF Good
    <3> QED
      BY <2>2, <3>1, <3>2, <3>3, SlotFacts
  <2>5. r.tag = task[x].tag + 1 /\ task[x].tag \in Nat
    <3>1. task[x].id # 0 /\ task[x] \in TaskRecords(x)
      BY <2>4, SlotFacts
    <3>2. r.tag = task[x].tag + 1
      BY <2>4, <3>1, DeletedFact
    <3> QED
      BY <3>1, <3>2 DEF TaskRecords
  <2>6. r.tag # task[x].tag
    BY <2>5
  <2> HIDE DEF x, r
  <2> QED
    BY <1>3, <2>2, <2>4, <2>6
<1>9. ASSUME NEW t \in Threads, SetStatus(t)
      PROVE  task'[s] = task[s] \/ task'[s].tag # task[s].tag
  <2> DEFINE x == Top(t).self
             n == Len(stack[t])
             g == Fm(stack[t], n - 1)
  <2>1. /\ InProgram(t) /\ Statement(t).op = "setStatus"
        /\ task' = [task EXCEPT ![x].error = Statement(t).code]
    BY <1>9 DEF SetStatus, Calls
  <2>2. /\ Top(t) \in FrameSet /\ Top(t) = Head(stack[t]) /\ Top(t).at = "user"
        /\ (Top(t).prog \in Actions <=> Top(t) \in BodyFrames) /\ Joins(Top(t).prog, Statement(t))
    BY <2>1, StatementFacts
  <2>3. Top(t) \in BodyFrames
    BY <2>1, <2>2 DEF Joins
  <2>4. Safe(action, task, free, wqueue, stack, ran)
    BY DEF FInv
  <2>5. n \in Nat \ {0} /\ n \in 1..Len(stack[t]) /\ Fm(stack[t], n) = Top(t)
    BY <2>2, <2>4, TopFacts
  <2>6. n - 1 \in 1..Len(stack[t]) /\ g.at = "execTodo" /\ g.task = x
    BY <2>2, <2>3, <2>4, <2>5, BodyBelow
  <2>7. Good(task, ran, t, g)
    BY <2>4, <2>6, FrameFacts
  <2>8. task[x].state = "RUNNING" /\ x \in Slots
    BY <2>3, <2>6, <2>7 DEF Good, BodyFrames
  <2>9. x # s
    BY <2>8
  <2> HIDE DEF x
  <2> QED
    BY <1>1, <2>1, <2>8, <2>9
<1>10. CASE UNCHANGED vars
  BY <1>2, <1>10 DEF vars, memory
<1> QED
  BY <1>2, <1>4, <1>5, <1>6, <1>7, <1>8, <1>9, <1>10 DEF Next

-----------------------------------------------------------------------------
(* The theorems                                                            *)

\* The types of the runtime's state hold under every fork-join program, for any
\* number of workers, application threads and slots, and any limit of the queues.
THEOREM ForkJoinTypes ==
  ASSUME ForkJoin
  PROVE  Spec => []TypeOK
<1>1. FInv => TypeOK
  BY Typed
<1> QED
  BY <1>1, ForkJoinInvariant, PTL

\* The pool of task slots stays sound: embb_mtapi_task_delete gives a slot back
\* once, and mtapi_task_start gets none that is in use, whichever worker runs
\* the task and however the waits nest.
THEOREM ForkJoinPool ==
  ASSUME ForkJoin
  PROVE  Spec => []PoolSound
<1>1. FInv => PoolSound
  BY DEF FInv, Safe, Pool, PoolSound
<1> QED
  BY <1>1, ForkJoinInvariant, PTL

\* No task is run twice, although workers take bare pointers out of each
\* other's queues and the slots are used again.
THEOREM ForkJoinRunsOnce ==
  ASSUME ForkJoin
  PROVE  Spec => []RunsOnce
<1>1. FInv => RunsOnce
  BY RanRight
<1> QED
  BY <1>1, ForkJoinInvariant, PTL

\* mtapi_task_wait reports success only after the action function has returned.
THEOREM ForkJoinJoins ==
  ASSUME ForkJoin
  PROVE  Spec => []JoinIsComplete
<1>1. FInv => JoinIsComplete
  BY RanRight
<1> QED
  BY <1>1, ForkJoinInvariant, PTL

\* A restricted task runs on a worker of its affinity: the scheduler puts it into
\* a private queue of such a worker, and nobody steals from private queues.
THEOREM ForkJoinAffinity ==
  ASSUME ForkJoin
  PROVE  Spec => []AffinityRespected
<1>1. FInv => AffinityRespected
  BY RanRight
<1> QED
  BY <1>1, ForkJoinInvariant, PTL

\* A completed task is not changed until it is deleted: what mtapi_task_wait
\* reads is final.
THEOREM ForkJoinFinal ==
  ASSUME ForkJoin
  PROVE  Spec => CompletedIsFinal
<1>1. FInv /\ [Next]_vars =>
        [\A s \in Slots : task[s].state = "COMPLETED" =>
           task'[s] = task[s] \/ task'[s].tag # task[s].tag]_vars
  BY StaysFinal
<1> QED
  BY <1>1, ForkJoinInvariant, PTL DEF Spec, CompletedIsFinal
=============================================================================
