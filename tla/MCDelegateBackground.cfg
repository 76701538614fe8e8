SPECIFICATION BackgroundSpec
CONSTANTS
  t1 = t1  t2 = t2  t3 = t3  c1 = c1  c2 = c2  web = web
  k1 = k1  k2 = k2  fileA = fileA  fileB = fileB
  None = None
  Task <- ThreeTasks
  Coordinator <- TwoTeams
  Chat <- OneChat
  WebChat <- OneChat
  FileList <- NestedFiles
  Key <- Keys
  Batch <- Batches
  Effective <- Worth
  TaskSlots = 2
  CoordinatorSlots = 2
  AgentsMax = 3
  MaxRevision = 60
  Limits <- OneTight
INVARIANTS StartedAfterDependencies NothingOrphaned LimitsKept ApprovedNotNested
PROPERTIES ReadyIsStarted
