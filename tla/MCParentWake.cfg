SPECIFICATION FairWakeSpec
CONSTANTS
  t1 = t1  t2 = t2  c1 = c1  c2 = c2  web = web  feishu = feishu  sub = sub
  None = None
  Task <- OneTask
  Coordinator <- OneTeam
  Chat <- WebOnly
  WebChat <- WebOnly
  SocketChat <- WebOnly
  FileList <- NoFiles
  TaskSlots = 1
  CoordinatorSlots = 1
  AgentsMax = 1
  MaxRevision = 8
  BusLen = 4
  OutLen = 4
  MaxEvents = 2
  Faults <- AllFaults
CHECK_DEADLOCK FALSE
INVARIANTS EntriesPinned ResumeNotForgotten ConsumedWasEnqueued
PROPERTIES Spec ResumedOnce ChatIsResumed GateFollowsReply
