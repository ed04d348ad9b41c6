\* One remote task and its wait.
SPECIFICATION FairSpec
CONSTANTS
  app1 = app1  app2 = app2  app3 = app3
  Apps = {app1, app2, app3}
  Nodes <- TheNodes
  Actions <- TheActions
  Home <- TheHome
  Remote <- TheRemote
  AppNode <- TheAppNode
  Programs <- OneTask
  MaxTasks = 2
  MaxServed = 2
  MaxConnections = 2
  NoAction = NoAction
  NoLock = NoLock
PROPERTY WaitsReturn
CHECK_DEADLOCK FALSE
