\* Two workers, nested waits and groups, several instances, two priorities, slots that are used again.
SPECIFICATION Spec
CONSTANTS
  app1 = app1  app2 = app2  g1 = g1  g2 = g2  q1 = q1  q2 = q2
  Groups = {g1, g2}
  Queues = {q1, q2}
  QueueAttr <- TheQueueAttr
  ActionJob <- TheActionJob
  MaxActions = 3
  NoQueue = NoQueue
  Actions <- TheActions
  Jobs <- TheJobs
  JobActions <- TheJobActions
  Affinity <- TheAffinity
  Attr <- TheAttr
  Program <- TheProgram
  NoAction = NoAction
  NoGroup = NoGroup
  UIntMod = 16
  CountLimit = 6
  NumWorkers = 2
  Apps = {app1}
  MaxTasks = 3
  QueueLimit = 2
  MaxPriorities = 2
  Mode = "LF"
  Mains <- TaskMains
  Contention = FALSE
INVARIANTS InstancesAccounted ActionCount PoolSound RunsOnce JoinIsComplete AffinityRespected
  CollectableAreDone GroupCount
PROPERTIES CompletedIsFinal ReportsToLiveGroup
