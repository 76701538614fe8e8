SPECIFICATION WakeSpec
CONSTANTS
  t1 = t1  t2 = t2  c1 = c1  c2 = c2  web = web  feishu = feishu  sub = sub
  None = None
  Task <- OneTask
  Coordinator <- OneTeam
  Chat <- WebOnly
  WebChat <- WebOnly
  SocketChat <- WebOnly
  FileList <- NoFiles
  TaskSlots = 1
  CoordinatorSlots = 1
  AgentsMax = 1
  MaxRevision = 7
  BusLen = 1
  OutLen = 2
  MaxEvents = 3
  Faults <- ClientFaults
CHECK_DEADLOCK FALSE
INVARIANTS ResumeNotForgotten
