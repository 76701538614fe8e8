SPECIFICATION FairWakeSpec
CONSTANTS
  t1 = t1  t2 = t2  c1 = c1  c2 = c2  web = web  feishu = feishu  sub = sub
  None = None
  Task <- OneTask
  Coordinator <- OneTeam
  Chat <- Feishu
  WebChat <- Feishu
  SocketChat <- NoChat
  FileList <- NoFiles
  TaskSlots = 1
  CoordinatorSlots = 1
  AgentsMax = 1
  MaxRevision = 7
  BusLen = 2
  OutLen = 2
  MaxEvents = 1
  Faults <- NoFaults
CHECK_DEADLOCK FALSE
PROPERTIES GateFollowsReply
