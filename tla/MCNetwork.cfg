\* Requests and results over two connections and both ways.
SPECIFICATION FairSpec
CONSTANTS
  app1 = app1  app2 = app2  app3 = app3
  Apps = {app1, app2, app3}
  Nodes <- TheNodes
  Actions <- TheActions
  Home <- TheHome
  Remote <- TheRemote
  AppNode <- TheAppNode
  Programs <- ThePrograms
  MaxTasks = 2
  MaxServed = 2
  MaxConnections = 2
  NoAction = NoAction
  NoLock = NoLock
INVARIANTS RightAnswer
PROPERTY EveryRequestAnswered
CHECK_DEADLOCK FALSE
