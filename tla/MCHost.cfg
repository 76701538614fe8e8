SPECIFICATION HostSpec
CONSTANTS
    Callers = {loop}
    Overlap = FALSE
    MaxTime = 5
    Ids = {j1, j2, j3}
    Requests <- MCRequests
    DefaultTarget = TRUE
    MaxJobs = 2
    FileLimit = 2
    QueueLen = 1
    DayLength = 2
    MaxCrashes = 1
    note = note  plan = plan
    Paths = {note, plan}
    Absent = Absent
    Huge = Huge
    Texts <- MCTexts
    Patches <- MCPatches
    Ranges <- MCRanges
    LastSecond = 3
    SameSecond = FALSE
    RingSize = 2
    PrintSlots = 1
    PrintLife = 1
    Initial <- MCInitial
    MaxCalls = 3
    MaxFaults = 1
    Chats = {x}
    Fds = {1, 2, 3}
    MaxClients = 2
    Outbound = out
    Senders = {out}
    MaxReplies = 2
CHECK_DEADLOCK FALSE
INVARIANTS   TableMatchesSockets OneClientPerChat ReplyInOnePlace
PROPERTIES NothingElseVanishes FiresOnSchedule  NoBlindEdit
SYMMETRY Symmetric
