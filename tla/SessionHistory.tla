--------------------------- MODULE SessionHistory ---------------------------
(***************************************************************************)
(* The history of a chat: a turn sends its messages to the memory core,    *)
(* which appends them to the chat's file; when the file is long, a worker  *)
(* of its own has the middle summarised and writes the file anew. Locks on *)
(* the file make reading, appending and writing one step each; but opening *)
(* it for writing empties it first, without the lock. A message is its     *)
(* number in the order of sending, its seq and its size; a line that is    *)
(* too long to be read is left out of the file it is in.                   *)
(***************************************************************************)
EXTENDS ChatMessages, SequencesExt

CONSTANTS
    LongIds,         \* chats whose id has 32 characters or more
    CutId,           \* what is left of such an id: no chat's
    Sizes,           \* "short"; "big": compressed on its own account; "over": too long a line to be read
    Trigger,         \* compress_trigger_msgs
    Window,          \* how many messages are read: session_max_msgs, AGENT_MAX_HISTORY
    MaxPasses,       \* COMPRESS_MAX_PASSES
    JobSlots,        \* COMPRESS_QUEUE_MAX
    CoreDepth,       \* CORE_QUEUE_DEPTH
    Races,           \* may a chat change between the last look and the writing?
    InitialLength,   \* how many messages each file has at the start
    MaxDeletes,      \* bound: how often a user deletes a session
    MaxDeaths        \* bound: how often the process dies

ASSUME HistoryAssumption ==
    /\ LongIds \subseteq Chats /\ CutId \notin Chats
    /\ InitialLength \in [Chats -> Nat]
    /\ {Trigger, Window, MaxPasses, JobSlots, CoreDepth} \subseteq Nat \ {0}
    /\ Races \in BOOLEAN

VARIABLES
    files,      \* session_<chat>.jsonl, the lines that can be read
    memory,     \* the memory core's queue
    saver,      \* the agent loop's place in saving a turn
    jobs,       \* s_jobs
    worker,     \* locals of the compression worker
    sent,       \* the model's own: the number of the last message
    told,       \* the model's own: messages a summary was made of
    owed,       \* the model's own: chats whose compression was asked for and not begun
    deletes, deaths

historyVars == <<files, memory, saver, jobs, worker, sent, told, owed, deletes, deaths>>

NoJob == [chat |-> "", queued |-> FALSE, running |-> FALSE, rerun |-> FALSE]
Resting == [at |-> "wait", chat |-> "", pass |-> 0, seen |-> <<>>, result |-> <<>>]
NotSaving == [at |-> "no", chat |-> ""]

-----------------------------------------------------------------------------
(* Reading                                                                 *)

\* The last messages of a file, as many as are ever read.
History(file) == SubSeq(file, IF Len(file) > Window THEN Len(file) - Window + 1 ELSE 1, Len(file))

NextSeq_Count(file) == Len(file) + 1

NextSeq(file) == IF file = <<>> THEN 1 ELSE Last(file).seq + 1

\* A line longer than the buffer falls apart, and all who read skip it.
Appended(file, task) ==
    IF task.size = "over" THEN file
    ELSE Append(file, [id |-> task.id, seq |-> NextSeq(file), size |-> task.size])

MinNeeded == ProtectFirst + ProtectLast + 2

Needed(seen) ==
    /\ Len(seen) >= MinNeeded
    /\ Len(seen) >= Trigger \/ \E k \in DOMAIN seen : seen[k].size = "big"

Middle(seen) == SubSeq(seen, ProtectFirst + 1, Len(seen) - ProtectLast)

Compacted_Short(seen, latest) ==
    SubSeq(seen, 1, ProtectFirst) \o SubSeq(seen, Len(seen) - ProtectLast + 1, Len(seen))
      \o SubSeq(latest, Len(seen) + 2, Len(latest))

\* The start and the end of what was summarised, and what came since.
Compacted(seen, latest) ==
    SubSeq(seen, 1, ProtectFirst) \o SubSeq(seen, Len(seen) - ProtectLast + 1, Len(seen))
      \o SubSeq(latest, Len(seen) + 1, Len(latest))

Numbers(entries) == {entries[k].id : k \in DOMAIN entries}

-----------------------------------------------------------------------------
(* The table of jobs                                                       *)

\* What a slot keeps of a chat's id.
Kept(c) == IF c \in LongIds THEN CutId ELSE c

SlotOf(c) == {k \in 1..JobSlots : jobs[k].chat = c}
FreeSlot == {k \in 1..JobSlots : jobs[k].chat = ""}
Lowest(set) == CHOOSE k \in set : \A i \in set : k <= i

Scheduled_NoRerun(c) ==
    LET found == SlotOf(c)
        k == Lowest(IF found # {} THEN found ELSE FreeSlot)
    IN  IF found \cup FreeSlot = {} THEN jobs
        ELSE [jobs EXCEPT ![k].chat = Kept(c), ![k].queued = ~jobs[k].running]

\* A chat is queued once; while its job runs, it is to run again; no slot, no job.
Scheduled(c) ==
    LET found == SlotOf(c)
        k == Lowest(IF found # {} THEN found ELSE FreeSlot)
    IN  IF found \cup FreeSlot = {} THEN jobs
        ELSE [jobs EXCEPT ![k].chat = Kept(c),
                          ![k].rerun = @ \/ jobs[k].running,
                          ![k].queued = @ \/ ~jobs[k].running]

ScheduleIfNeeded(c) ==
    IF Needed(History(files[c]))
    THEN jobs' = Scheduled(c) /\ owed' = IF SlotOf(c) \cup FreeSlot = {} THEN owed ELSE owed \cup {c}
    ELSE UNCHANGED <<jobs, owed>>

\* The job is over: it runs again, or its slot is free.
Finished(name) ==
    [k \in 1..JobSlots |->
        IF SlotOf(name) = {} \/ k # Lowest(SlotOf(name)) THEN jobs[k]
        ELSE IF jobs[k].rerun THEN [jobs[k] EXCEPT !.rerun = FALSE, !.queued = TRUE, !.running = FALSE]
        ELSE NoJob]

-----------------------------------------------------------------------------
(* Saving a turn: the agent loop and the memory core                       *)

\* May the chat's file be changed from outside the worker?
Settled(c) == Races \/ worker.chat # c \/ worker.at \notin {"open", "write"}
MayDelete(c) == Races \/ worker.chat # c

\* A task is queued, or dropped after a second in front of a full queue.
Sent(task) == IF Len(memory) < CoreDepth THEN Append(memory, task) ELSE memory

SaveTask(c, z) == [type |-> "save", chat |-> c, id |-> sent + 1, size |-> z]

SaveMessage(c) ==
    /\ saver.at = "no"
    /\ sent + 2 \in Messages
    /\ \E z \in Sizes : memory' = Sent(SaveTask(c, z))
    /\ sent' = sent + 1
    /\ saver' = [at |-> "reply", chat |-> c]
    /\ UNCHANGED <<files, jobs, worker, told, owed, deletes, deaths>>

SaveReply ==
    /\ saver.at = "reply"
    /\ \E z \in Sizes : memory' = Sent(SaveTask(saver.chat, z))
    /\ sent' = sent + 1
    /\ saver' = [saver EXCEPT !.at = "schedule"]
    /\ UNCHANGED <<files, jobs, worker, told, owed, deletes, deaths>>

\* The loop looks at the file, which may not have the turn's messages yet.
ScheduleAfterSave ==
    /\ saver.at = "schedule"
    /\ ScheduleIfNeeded(saver.chat)
    /\ saver' = [saver EXCEPT !.at = "request"]
    /\ UNCHANGED <<files, memory, worker, sent, told, deletes, deaths>>

\* A turn without an error asks the memory core to look again.
RequestCompression ==
    /\ saver.at = "request"
    /\ \/ memory' = Sent([type |-> "compress", chat |-> saver.chat, id |-> 0, size |-> "short"])
       \/ UNCHANGED memory
    /\ saver' = NotSaving
    /\ UNCHANGED <<files, jobs, worker, sent, told, owed, deletes, deaths>>

CoreAppends ==
    /\ memory # <<>>
    /\ LET task == Head(memory)
       IN  /\ task.type = "save"
           /\ Settled(task.chat)
           /\ files' = [files EXCEPT ![task.chat] = Appended(@, task)]
    /\ memory' = Tail(memory)
    /\ UNCHANGED <<saver, jobs, worker, sent, told, owed, deletes, deaths>>

CoreSchedules ==
    /\ memory # <<>>
    /\ Head(memory).type = "compress"
    /\ ScheduleIfNeeded(Head(memory).chat)
    /\ memory' = Tail(memory)
    /\ UNCHANGED <<files, saver, worker, sent, told, deletes, deaths>>

-----------------------------------------------------------------------------
(* The compression worker                                                  *)

\* A name that was cut is no chat's: its file does not exist.
FileOf(name) == IF name \in Chats THEN files[name] ELSE <<>>

PickJob ==
    /\ worker.at = "wait"
    /\ \E k \in 1..JobSlots :
         /\ jobs[k].queued
         /\ \A i \in 1..(k - 1) : ~jobs[i].queued
         /\ jobs' = [jobs EXCEPT ![k].queued = FALSE, ![k].running = TRUE]
         /\ worker' = [Resting EXCEPT !.at = "look", !.chat = jobs[k].chat, !.pass = 1]
    /\ UNCHANGED <<files, memory, saver, sent, told, owed, deletes, deaths>>

LookAtHistory ==
    /\ worker.at = "look"
    /\ LET seen == History(FileOf(worker.chat))
       IN  worker' = IF worker.pass <= MaxPasses /\ Needed(seen)
                     THEN [worker EXCEPT !.at = "summary", !.seen = seen]
                     ELSE [worker EXCEPT !.at = "done"]
    /\ owed' = IF worker.pass = 1 THEN owed \ {worker.chat} ELSE owed
    /\ UNCHANGED <<files, memory, saver, jobs, sent, told, deletes, deaths>>

\* The middle messages are summarised, by the model or by a line that says how
\* many they are; what the file of the summary held before is gone.
WriteSummary ==
    /\ worker.at = "summary"
    /\ told' = [told EXCEPT ![worker.chat] = @ \cup Numbers(Middle(worker.seen))]
    /\ worker' = [worker EXCEPT !.at = "latest"]
    /\ UNCHANGED <<files, memory, saver, jobs, sent, owed, deletes, deaths>>

\* After the facts have been collected as well, the file is read once more.
ReadLatest ==
    /\ worker.at = "latest"
    /\ LET latest == History(files[worker.chat])
       IN  worker' = IF Len(worker.seen) > MinNeeded
                     THEN [worker EXCEPT !.at = "open", !.result = Compacted(worker.seen, latest)]
                     ELSE [worker EXCEPT !.at = "done"]
    /\ UNCHANGED <<files, memory, saver, jobs, sent, told, owed, deletes, deaths>>

\* Opening the file for writing empties it, before the lock is taken.
OpenHistory ==
    /\ worker.at = "open"
    /\ files' = [files EXCEPT ![worker.chat] = <<>>]
    /\ worker' = [worker EXCEPT !.at = "write"]
    /\ UNCHANGED <<memory, saver, jobs, sent, told, owed, deletes, deaths>>

\* What was appended since then is overwritten.
WriteHistory ==
    /\ worker.at = "write"
    /\ files' = [files EXCEPT ![worker.chat] = worker.result]
    /\ worker' = [worker EXCEPT !.at = "look", !.pass = @ + 1, !.seen = <<>>, !.result = <<>>]
    /\ UNCHANGED <<memory, saver, jobs, sent, told, owed, deletes, deaths>>

FinishJob ==
    /\ worker.at = "done"
    /\ jobs' = Finished(worker.chat)
    /\ worker' = Resting
    /\ UNCHANGED <<files, memory, saver, sent, told, owed, deletes, deaths>>

-----------------------------------------------------------------------------
(* Surroundings                                                            *)

\* Over HTTP, or when the session's id is planned for a new task: three files go.
ClearSession(c) ==
    /\ deletes < MaxDeletes
    /\ MayDelete(c)
    /\ files[c] # <<>>
    /\ files' = [files EXCEPT ![c] = <<>>]
    /\ deletes' = deletes + 1
    /\ UNCHANGED <<memory, saver, jobs, worker, sent, told, owed, deaths>>

\* The process dies and starts again: the files are all that is left.
Die ==
    /\ deaths < MaxDeaths
    /\ deaths' = deaths + 1
    /\ memory' = <<>>
    /\ saver' = NotSaving
    /\ jobs' = [k \in 1..JobSlots |-> NoJob]
    /\ worker' = Resting
    /\ owed' = {}
    /\ UNCHANGED <<files, sent, told, deletes>>

\* Files left by an earlier process, of messages numbered from one.
HistoryInit ==
    /\ files = [c \in Chats |-> [k \in 1..InitialLength[c] |-> [id |-> k, seq |-> k, size |-> "short"]]]
    /\ sent \in {InitialLength[c] : c \in Chats}
    /\ \A c \in Chats : InitialLength[c] <= sent
    /\ memory = <<>>
    /\ saver = NotSaving
    /\ jobs = [k \in 1..JobSlots |-> NoJob]
    /\ worker = Resting
    /\ told = [c \in Chats |-> {}]
    /\ owed = {}
    /\ deletes = 0
    /\ deaths = 0

TurnSaves == (\E c \in Chats : SaveMessage(c)) \/ SaveReply \/ ScheduleAfterSave \/ RequestCompression
MemoryCore == CoreAppends \/ CoreSchedules
Compression == PickJob \/ LookAtHistory \/ WriteSummary \/ ReadLatest \/ OpenHistory \/ WriteHistory \/ FinishJob

HistoryNext == TurnSaves \/ MemoryCore \/ Compression \/ (\E c \in Chats : ClearSession(c)) \/ Die

HistorySpec == HistoryInit /\ [][HistoryNext]_historyVars
FairHistorySpec == HistorySpec /\ WF_historyVars(Compression)

-----------------------------------------------------------------------------
(* Properties                                                              *)

\* What a chat's file holds; while it is written anew, what it will hold.
Content(c) == IF worker.at = "write" /\ worker.chat = c THEN worker.result ELSE files[c]
Log(c) == [k \in DOMAIN Content(c) |-> Content(c)[k].id]
Seqs(c) == [k \in DOMAIN Content(c) |-> Content(c)[k].seq]
LastSeq(c) == IF Content(c) = <<>> THEN 0 ELSE Last(Content(c)).seq

ChatLog == INSTANCE ChatLog WITH log <- [c \in Chats |-> Log(c)]

\* Appending, compressing and rewriting by three threads implement the history a
\* chat is promised: in order, nothing twice, nothing lost but middle messages
\* that were given to the summary ("compress middle messages into a summary").
ImplementsChatLog == ChatLog!LogSpec

Cleared(c) == (deletes' # deletes /\ files'[c] = <<>>) \/ deaths' # deaths

\* Clients ask for what is newer than a seq they have seen: unless the session is
\* deleted, the highest seq of a file does not sink, whatever is appended, compressed
\* and written anew, and no two lines that can be read share one.
SeqsStayNew ==
    [][\A c \in Chats :
          ~Cleared(c) => LastSeq(c)' >= LastSeq(c) /\ ChatLog!Ordered(Seqs(c)')]_historyVars

\* A request to compress a session that was accepted, also one that comes while the
\* session is being compressed, leads to a new look at its history.
RequestIsServed == \A c \in Chats : c \in owed ~> c \notin owed

=============================================================================
