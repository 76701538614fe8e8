SPECIFICATION Spec
CONSTANTS
  t1 = t1  t2 = t2  c1 = c1  c2 = c2
  web = web
  None = None
  Task <- TwoTasks
  Coordinator <- TwoCoordinators
  Chat <- OneChat
  WebChat <- OneChat
  FileList <- NoFiles
  TaskSlots = 2
  CoordinatorSlots = 1
  AgentsMax = 2
  MaxRevision = 7
SYMMETRY StoreSymmetry
CHECK_DEADLOCK FALSE
INVARIANTS TypeOK OwnerConsistent ProjectionCurrent TerminalMeansEnded
PROPERTIES NoActiveTaskDropped ChangeAnnounced
