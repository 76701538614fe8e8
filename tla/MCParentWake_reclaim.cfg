SPECIFICATION WakeSpec
CONSTANTS
  t1 = t1  t2 = t2  c1 = c1  c2 = c2  web = web  feishu = feishu  sub = sub
  None = None
  Task <- TwoTasks
  Coordinator <- TwoTeams
  Chat <- WebAndSub
  WebChat <- WebOnly
  SocketChat <- WebAndSub
  FileList <- NoFiles
  TaskSlots = 1
  CoordinatorSlots = 1
  AgentsMax = 1
  MaxRevision = 8
  BusLen = 3
  OutLen = 2
  MaxEvents = 2
  Faults <- NoFaults
CHECK_DEADLOCK FALSE
PROPERTIES ReclaimedWasResumed
