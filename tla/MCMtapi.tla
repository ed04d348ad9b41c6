------------------------------ MODULE MCMtapi -------------------------------
(* Scenarios for the MTAPI runtime: jobs, actions, the programs of the     *)
(* application threads and the bodies of the action functions.             *)
EXTENDS MtapiRuntime, TLC

CONSTANTS app1, app2, g1, g2, q1, q2

Start1(j)       == [op |-> "start", job |-> j, group |-> NoGroup]
StartIn(j, g)   == [op |-> "start", job |-> j, group |-> g]
WaitFor(k)      == [op |-> "wait", nth |-> k, timed |-> FALSE]
WaitBriefly(k)  == [op |-> "wait", nth |-> k, timed |-> TRUE]
CancelIt(k)     == [op |-> "cancel", nth |-> k]
CreateG(g)      == [op |-> "create", group |-> g]
DeleteG(g)      == [op |-> "delete", group |-> g]
AllOf(g)        == [op |-> "waitAll", group |-> g, timed |-> FALSE]
AllBriefly(g)   == [op |-> "waitAll", group |-> g, timed |-> TRUE]
AnyOf(g)        == [op |-> "waitAny", group |-> g, timed |-> FALSE]
AnyBriefly(g)   == [op |-> "waitAny", group |-> g, timed |-> TRUE]
FailWith(e)     == [op |-> "setStatus", code |-> e]

Enqueue1(q)     == [op |-> "enqueue", queue |-> q]
On(o, x)        == [op |-> o, of |-> x, timed |-> FALSE]
Briefly(o, x)   == [op |-> o, of |-> x, timed |-> TRUE]

\* Attributes of a task: priority, instances, detached, affinity.
Plain         == [priority |-> 0, instances |-> 1, detached |-> FALSE, affinity |-> Workers]
Times(n)      == [Plain EXCEPT !.instances = n]

\* Actions: a leaf does nothing, a parent starts a leaf and waits for it, a
\* grouper does so through a group, a failing one sets an error, a pinned one
\* may run on worker 0 only.  Jobs have the names of their actions, but for
\* "either", which has two, and the ones that start a leaf with attributes.
TheActions == {"leaf", "leaf2", "parent", "grouper", "failing", "pinned", "closer", "extra"}
TheJobs    == {"leaf", "parent", "grouper", "failing", "pinned", "twice", "pair",
               "closer", "fail2", "either", "detached", "none"}

TheJobActions == [j \in TheJobs |->
  CASE j = "either" -> <<"leaf", "leaf2">>
    [] j \in {"twice", "detached"} -> <<"leaf">>
    [] j = "fail2" -> <<"failing">>
    [] j = "pair" -> <<"pinned">>
    [] j = "none" -> <<>>
    [] OTHER -> <<j>>]
TheAffinity == [a \in TheActions |-> IF a = "pinned" THEN {0} ELSE Workers]
TheAttr == [j \in TheJobs |->
  CASE j \in {"twice", "fail2", "pair"} -> Times(2)
    [] j = "detached" -> [Plain EXCEPT !.detached = TRUE]
    [] j \in {"either", "pinned"} -> [Plain EXCEPT !.priority = MaxPriorities - 1]
    [] OTHER -> Plain]

Bodies == [a \in TheActions |->
  CASE a = "parent"  -> <<Start1("leaf"), WaitFor(1)>>
    [] a = "grouper" -> <<CreateG(g2), StartIn("leaf", g2), AnyOf(g2), AnyOf(g2)>>
    [] a = "closer"  -> <<On("createQueue", q2), Enqueue1(q2), Briefly("disableQueue", q2)>>
    [] a = "failing" -> <<FailWith("ACTION_FAILED")>>
    [] OTHER -> <<>>]

\* The job of an action; "leaf2" and "extra" are the actions that come and go.
TheActionJob == [a \in TheActions |->
  IF a \in {"leaf2", "extra"} THEN "either" ELSE a]

\* Queue q1 is ordered and keeps its tasks while it is disabled, q2 does neither.
TheQueueAttr == [q \in {q1, q2} |->
  IF q = q1 THEN [job |-> "leaf", priority |-> 0, ordered |-> TRUE, retain |-> TRUE,
                  worker |-> NumWorkers - 1]
            ELSE [job |-> "twice", priority |-> MaxPriorities - 1, ordered |-> FALSE,
                  retain |-> FALSE, worker |-> 0]]

\* What the application threads run.
Scripts ==
  [idle      |-> <<>>,
   \* Fork and join; a task that may run by one of two actions.
   join      |-> <<Start1("parent"), WaitFor(1)>>,
   fork      |-> <<Start1("either"), WaitBriefly(1), Start1("parent"), WaitFor(2),
                   WaitFor(1)>>,
   \* Several instances, failing ones, a pinned task.
   instances |-> <<Start1("twice"), Start1("pinned"), WaitFor(1), WaitFor(2),
                   Start1("fail2"), WaitFor(3), AllOf(g1)>>,
   \* A group with a task that uses a group of its own and a failing task.
   groups    |-> <<CreateG(g1), StartIn("grouper", g1), StartIn("failing", g1),
                   AnyBriefly(g1), AllBriefly(g1), AnyOf(g1)>>,
   \* A group that is deleted while its tasks run.
   deletes   |-> <<CreateG(g1), StartIn("leaf", g1), StartIn("parent", g1), DeleteG(g1),
                   WaitFor(1), WaitFor(2)>>,
   \* A queue that gets full in the middle of a start, a task that is cancelled.
   overloads |-> <<CreateG(g1), DeleteG(g1), DeleteG(g1), Start1("pair"), Start1("pair"),
                   CancelIt(1), Start1("leaf"), WaitFor(1)>>,
   \* An ordered queue; a queue that is disabled, enabled and deleted.
   ordered   |-> <<On("createQueue", q1), Enqueue1(q1), Enqueue1(q1), Enqueue1(q1),
                   WaitFor(1), WaitFor(2), On("deleteQueue", q1), Enqueue1(q1)>>,
   pauses    |-> <<On("createQueue", q2), Enqueue1(q2), Briefly("disableQueue", q2), Enqueue1(q2),
                   On("enableQueue", q2), WaitFor(1), Briefly("deleteQueue", q2),
                   On("disableQueue", q2)>>,
   \* A task that disables a queue and helps out meanwhile; a detached task.
   closes    |-> <<Start1("closer"), WaitFor(1), Start1("detached")>>,
   \* Tasks that are retained.
   retains   |-> <<On("createQueue", q1), Enqueue1(q1), On("disableQueue", q1),
                   On("enableQueue", q1), WaitFor(1)>>,
   \* Actions are created, disabled and deleted while a job uses them.
   actions   |-> <<Start1("either"), On("createAction", "extra"), Start1("either"),
                   On("deleteAction", "leaf2"), WaitFor(1), WaitFor(2), On("deleteAction", "leaf2"),
                   Start1("none")>>,
   switches  |-> <<Start1("either"), Briefly("disableAction", "leaf"), On("enableAction", "leaf"),
                   WaitFor(1)>>]

TheProgram == [p \in DOMAIN Scripts \cup TheActions |->
                 IF p \in TheActions THEN Bodies[p] ELSE Scripts[p]]

-----------------------------------------------------------------------------
(* Which scripts run together                                              *)

Run(p, q) == [a \in Apps |-> IF a = app1 THEN p ELSE q]

\* Forks and joins beside a task of two actions; several instances.
TaskMains     == {Run("fork", "idle"), Run("instances", "idle"), Run("groups", "idle"),
                  Run("deletes", "idle")}
\* More waits than workers.
WaitMains     == {Run("groups", "idle"), Run("join", "join")}
\* Queues and actions that come and go, a full pool, cancelled and detached tasks.
QueueMains    == {Run("ordered", "idle"), Run("pauses", "idle"), Run("retains", "idle"),
                  Run("actions", "idle"), Run("switches", "idle"), Run("overloads", "idle"),
                  Run("closes", "idle")}

-----------------------------------------------------------------------------
(* The scripts "fork" and "join" belong to the class of programs that the  *)
(* theorems of module ForkJoinProofs are about.                            *)

ForkJoins == INSTANCE ForkJoinFrames
               WITH Mains <- {Run("fork", "idle"), Run("join", "join"), Run("fork", "join")},
                    Code  <- {"fork", "join", "idle", "parent", "leaf", "leaf2", "failing"}

ASSUME ForkJoinScripts == ForkJoins!ForkJoin
=============================================================================
