SPECIFICATION FairChatSpec
CONSTANTS
    a = a  b = b  w1 = w1
    Loop = Loop
    Chat <- TwoChats
    Worker <- OneWorker
    ParentOf <- ParentA
    Second = {1}
    InboundLen = 2
    DeferMax = 1
    MaxSaid = 2
    MaxRequests = 2
    Chats = {a, b}
    LongIds = {}
    CutId = cut
    Messages <- UpTo9
    Sizes = {"short", "over"}
    ProtectFirst = 1
    ProtectLast = 2
    Trigger = 6
    Window = 9
    MaxPasses = 2
    JobSlots = 1
    CoreDepth = 2
    Races = FALSE
    InitialLength <- FiveAndThree
    MaxDeletes = 1
    MaxDeaths = 1
CHECK_DEADLOCK FALSE
INVARIANTS EveryMessageOnce AnswerStaysInChat
PROPERTIES QueuedIsSettled  SeqsStayNew RequestIsServed
