SPECIFICATION WaitSpec
CONSTANTS
  a = a  b = b  w1 = w1  w2 = w2  Loop = Loop
  Chat <- TwoChats
  Worker <- OneWorker
  ParentOf <- ParentA
  Second = {1}
  InboundLen = 2
  DeferMax = 1
  MaxSaid = 2
  MaxRequests = 2
CHECK_DEADLOCK FALSE
INVARIANTS AnswerReachesWaiter
