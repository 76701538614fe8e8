# daima-agent: models and proofs

TLA+ models of the parts of daima-agent whose correctness rests on several
threads, on bounded queues and on the order of messages, the TLC runs that check
them, and machine-checked proofs of what matters most. Paths below are relative
to the repository; `PROJECT.json` gives the lines of the code behind every
definition.

## The system

daima-agent is an agent host in C. Channels (websocket, Feishu, voice, vector,
pet) put messages on one *inbound queue*. One thread, the *agent loop*, takes
them off and runs a *turn* for each: it asks a language model, runs the tools the
model calls, asks again, and puts a reply on the *outbound queue*, which another
thread hands to the channels. A tool may *delegate*: tasks go into a *task
store*, background workers run them as subagents, and the *parent wake* manager
tells the chat they came from how they progress and end.

Threads: the agent loop, the outbound dispatcher, the websocket thread (one, with
`select` over its clients), one thread for each running background task, the three
cores behind `core_ipc`, a compression worker, cron, heartbeat and the protocol
threads of the other channels.

### Inventory

| Component | State it keeps | Operations | Who calls it | Module |
|---|---|---|---|---|
| delegate task store, `kernel/tooling/delegate/delegate_task_{store,projection,query,runtime}.c` | 64 task records, 16 coordinators with a projection of their tasks, a revision counter, all under one mutex | plan, start, attach, claim, block, complete, fail; start a coordinator (or take over a finished one); wake bookkeeping; snapshots that refresh | loop, workers, outbound thread, websocket thread | `DelegateStore` |
| parent wake, `delegate_parent_wake.c` | a table of pending wakes, recent activity per chat, a mutex of its own | poll (drain, flush), replay to a reconnecting client, record activity | loop; websocket and outbound threads | `ParentWake` |
| cancel table, `kernel/cancel.c` | 32 slots of chat, generation, flag; a thread-local binding | begin a turn, request a stop, query | loop, workers, websocket thread, HTTP layer | `CancelTokens` |
| agent turn, `kernel/turn/`, `kernel/loop.c` | the turn's locals; the directive of each chat | take a message, interview, directive, rounds of model and tools, forced answers, verification, reply | loop; workers for subagents | `AgentTurn` |
| message bus, `ipc/bus.c`, over `drivers/platform/os.c` | two bounded queues | push with a timeout of one second, pop | everybody | in each module that uses it |
| interactive requests, `kernel/interactive.c` | nothing but the waiter's locals | ask, wait on the inbound queue | loop, workers | `InteractiveWait` |
| background delegation, `drivers/tool/tool_delegate_{runtime,dispatch,dependency,background,lifecycle}.c` | sequence numbers | plan a team, launch what is ready, run a worker | loop, workers | `DelegateBackground` |
| websocket gateway, `drivers/channel/gateway/ws_client.c`, `arch/host/ws_server_host.c` | a table and a list of clients, saved replies | accept, read a frame, bind, drop, ping, send, save, restore | server's thread; senders | `WsClients`; messages in `AgentTurn`, `InteractiveWait`, `ParentWake` |
| session store, `drivers/memory/session_store_file.c`, memory core `kernel/core/`, `ipc/core_ipc.c` | a file per chat, a queue of 32 | append, load, rewrite, clear | loop, memory core, worker | `SessionHistory`, `ChatLog` |
| compression, `kernel/context/context_{ops,compress}.c` | job slots, a summary per chat | schedule, summarise, merge, write anew | its worker, loop, memory core | `SessionHistory` |
| cron and heartbeat, `kernel/time/timer.c` | a table of jobs without a lock, its file | add, remove, scan, fire, save, load | cron thread, tools | `Cron` |
| file tools, `drivers/tool/tool_{files,file_mutations,file_checkpoint,safe_edit}*.c` | prints of what was read, a ring of checkpoints, files | read, add, update, delete, restore | loop, workers | `FileEdits` |
| turn context, `kernel/turn/turn_context.c` | snapshots of turns, pending request, consumed resumes | save, load, set, clear | loop, wake | what the wake manager reads, in `ParentWake` |
| model fallback, `drivers/llm/model_fallback.c` | cooldown of models | call a chain of providers | turn | what the turn sees, in `AgentTurn` |
| robot and voice channels, `drivers/channel/` | a pipe to a child process, what was read ahead of it, audio | call, poll, speak | loop, protocol threads | none |
| registry, router, transcript, HR, work items, configuration, payloads | files and text | | | none |

### What is hard here

- The loop's flush works on a *snapshot* of a coordinator while workers, the
  outbound thread and clients change it: each call takes the store's mutex anew.
- What a coordinator shows is a *copy* of its task records that every write has to
  refresh; slots are reused.
- A resume is pushed first and recorded after, may be put off, and the queue it
  goes to may be full.
- A stop may come before, in or after any step of a turn, or be meant for the turn
  before; the table of tokens evicts and its generations wrap.
- A subagent run inside a tool overwrites the thread's binding.
- Waits for answers pop the queue the loop itself serves.
- Replies, messages and put-aside messages are dropped by full queues.
- The history of a chat is read, summarised for minutes and then rewritten, while
  messages are appended; the file is emptied when it is opened, before its lock.
- The table of timers has no lock, and its file is emptied before it is written.
- An edit is a checkpoint, an emptied file and a written file: three steps that a
  full disk or a crash can part.
- The websocket thread walks a linked list and gives its lock back in the middle;
  senders use pointers found under a lock they no longer hold; numbers of closed
  sockets are given out again.

`PROJECT.json` lists each hazard at its line, with the properties aimed at it or
the reason none is.

### What makes each part correct

- *Task store*: records and coordinators agree; what is shown is current; an end
  that is shown is an end; taking over a slot drops nothing active; whatever
  changes visibly is announced; at most one of two implement tasks with nested
  file lists is approved.
- *Parent wake*: the store is used within its contract; a chat is resumed after
  its tasks have ended, once, if it was put off; no slot still needed is taken;
  the gate opens after the chat's own reply.
- *Turn and cancel*: a turn reads as cancelled exactly when it was stopped; it is
  wound up soon after; silence was asked for; a directive that succeeded does not
  run again; every queued message is settled.
- *Waits*: no message is doubled or kept; no answer crosses chats.
- *Background delegation*: no more tasks are launched than each of three limits
  allows; a task runs only after the ones it depends on are done; a task that is
  ready is launched in the end, and one that runs is never left without a worker.
- *History of a chat*: in order, nothing twice, and only middle messages leave it,
  after they were summarised; new lines have new seqs; a request to compress is
  served.
- *Cron*: a job fires once for each due time, also after a restart; it leaves the
  table for no other job's sake; the file is the table.
- *File tools*: what an edit replaces is kept; restoring undoes the last edit; what
  changed since it was read is not overwritten blindly.
- *Websocket gateway*: clients in use and open sockets match; one client for a
  chat; a reply is in one place; the server's thread comes round to its pings.

## The modules

`DelegateStore` - the task store. Variables `records`, `coordinators`, `slots`,
`revisionSeq` are the code's tables; `spent` is the sequence number of ids. Every
function that takes `s_delegate_mutex` and changes something is one action,
refreshes included (`Projected`, `RefreshIfNeeded`). `Next` is the most general
client that keeps the calling contract: ids are fresh, a task is attached to the
coordinator it was planned for, only a worker reports on a claimed task.
Contents of results and prompts are reduced to what the projection tells apart:
blocker, request, effective output, the list of files. `poll_coordinator` has no
caller and is left out.

`ParentWake` EXTENDS it - the wake manager, with the loop, the workers, the
outbound thread, replay and the client as far as they meet it. `agent.at` is the
loop's place within `flush_pending_snapshot`; each store call is a step of its
own, so other threads come between any two. Its abstract specification is
`DelegateStore!Spec` itself: the run `wake` checks that everything the
wake manager and its neighbours do with the store is a step of it. The retry
timer and the two-second activity window are steps of time. Launching is reduced
to claiming a queued task. A message of a user and the record of activity it
leaves are one step.

`CancelTokens` - the table of `cancel.c`, as operators over its slots.
`AgentTurn` EXTENDS it - the loop as it runs turns. `turn.at` is the place in
`agent_turn_run`; before each step the code reads the token the model does.
`turn.wanted` and `turn.late` are the model's own: whether a client has stopped
the turn since it began, and what it has done since. What the model answers,
which tools it calls and what they return are free choices.

`InteractiveWait` - asking and waiting. `wait[a]` holds the locals of
`channel_runtime_wait_interactive_reply` for each thread; `requests[r].got`,
which prompt the accepted answer was typed for, is the model's own.

`DelegateBackground` EXTENDS `DelegateStore` - how tasks get to run. `loop` is the
agent loop with the locals of planning and launching, one step for each taking of
the store's mutex: it counts what runs (`Count`), copies the coordinator (`Copy`),
counts again for the chat (`CheckCaps`), decides on all three (`Pick`), and starts
a thread (`ScheduleChild`), which may fail. `worker[t]` is that thread: the
preflight tool and its question to the user, the turn, and the report. `graph` is
what the request said of a task: key, dependencies, preflight. The wake manager
appears by what it records when a team has ended (`WakeEnds`: the chat was told, the
resume was queued), two steps between which a poll may stop and after which a slot is
free; the rest of it is `ParentWake`'s. `worker[t].asked` is the model's own: tasks that wait for the user
are not counted by the code, so `LimitsKept` has to leave them out.

`ChatLog` - the abstract specification of a chat's history: a message is said at
its end (`Say`), messages go into a summary (`Tell`), unprotected messages that
did leave it (`Compress`), or all do (`Delete`). `SessionHistory` implements it:
`saver` is the loop saving a turn, `memory` the memory core's queue, `jobs` and
`worker` the table of compression jobs and the locals of `context_compress`.
`worker.seen` is the history it began with, `worker.result` what it will write;
the refinement mapping `Log` reads that while the file is emptied for writing.
`files` holds the lines that can be read: one that is longer than the buffer is
skipped by all readers, the search for the last seq included, so appending it
(`Appended`) changes nothing. `told` and `owed` are the model's own. `ChatMessages` declares what both speak of.

`Cron` - the timer service. `slots` past `count` hold what is left over, as the
array does; `cron` and `tool[c]` are the locals of the thread that scans and of
the tools, and each wait or write is a step between which the others run.
`lastFire` is the model's own. `FileEdits` - the file tools, `call[c]` being the
locals of a call; texts are sequences of lines. `seen` and `replaced` are the
model's own. Both EXTEND `HostClock`, which is time and who calls.

`WsClients` - the gateway. `clients` and `list` are the array and the list through
it, `sockets` what each number stands for, `server` the locals of the one thread
that accepts, reads and pings, `sender[t]` those of a thread in
`ws_server_send`, `saved` the replies kept for absent clients. `server.next` is
the saved successor of the walk; a successor that has left the list is its own
successor (`list_del` of this library), which is `server.at = "circle"`. The keepalive
notes down numbers under the lock and pings or removes them one by one afterwards
(`Keepalive`, `Ping`, `Expel`), senders coming between.

`DelegateStoreProofs`, `ParentWakeProofs`, `DelegateBackgroundProofs`, `AgentTurnProofs`,
`ChatLogProofs`, `ChatsProofs` (of `InteractiveWait` and `SessionHistory`), `HostProofs` (of
`Cron` and `FileEdits`), `WsClientsProofs` - theorems and proofs. `MC*` - the instances for TLC. `MCChats` and `MCHost` each
check modules that share nothing by one run: `part`, chosen at the start, says
whose behaviour it is.

## The runs

| Run | Instance | Shows |
|---|---|---|
| `store_reclaim` | 2 tasks, 2 teams, 1 slot for teams, revisions to 7 | The store's invariants and action properties, with a start that has to take over or is refused. |
| `wake` | 1 task, 1 team, 2 events of disconnecting, failing sends, asking, cancelling; fairness | The wake manager refines the store, pins the slots it needs, forgets no resume, repeats none; the chat is resumed, and the gate follows the reply. |
| `wake_reclaim` | 2 teams of 2 chats, one a subagent session, 1 slot | A slot is taken over only after the chat was resumed. |
| `wake_bus_full` | queue of one | **Violation**: a resume refused by a full queue without a client is forgotten. |
| `wake_other_channel` | a Feishu chat | **Violation**: the gate never opens off the websocket. |
| `turn` | 2 chats, 3 messages, a stop, a directive, 2 rounds, 3 calls, 2 providers, generations to 3 | All properties of the turn, the generation wrapping included. |
| `chats` | waits: loop and worker, 2 chats, 2 messages, 2 requests under one id, queue of 2, room for 1 aside. History: 2 chats of 5 and 3 messages, 9 in all, one job slot, one deletion, one crash | Conservation of messages, answers stay in their chat, everything queued is settled; the history implements `ChatLog`, seqs stay new, requests are served. |
| `wait_stolen` | the waits | **Violation**: the loop drops the answer a worker waits for. |
| `background` | 3 tasks, 2 teams, a table of 2 records, batches of one, two and three, single tasks, each limit in turn the tight one | Dependencies, limits, nothing left behind, nested files approved once, and whatever is ready is launched. |
| `background_stuck` | 2 tasks, 1 team | **Violation**: a child of a failed task stays queued for ever. |
| `host_services` | timers: 3 ids, room for 2 jobs, 5 moments of days of 2, one crash. Files: 2 paths, one too large to be read, 3 calls, one fault. Gateway: 1 chat, 3 sockets, 2 clients, 2 replies | Timers fire on schedule and are saved; edits are kept, undone and never blind; clients, sockets and replies match. |
| `clients_circle` | 1 chat, 3 sockets, 2 clients, nobody sends; fairness | **Violation**: the walk of the server's thread never ends. |

Five runs refute a statement of the repository's own documentation:

1. *A forgotten resume* (`delegate_parent_wake.c:919`). With no client, the end is
   recorded as notified, then the push is refused, and the entry is cleared
   although the module calls itself a queue that retries.
2. *The gate off the websocket* (`channel_runtime.c:63`). Gating should "follow
   persisted parent replies, not only live websocket delivery"; it follows
   websocket messages only.
3. *A stolen answer* (`interactive.h:42`). The wait is to last until the time is
   up or the answer is in; the loop may take the answer first and drop it.
4. *A child that stays queued* (`tool_delegate_dependency.c:249`). Children are to
   be "queued until dependencies finish" (`tool_delegate.c:55`); only a dependency
   that is done counts, so behind a failed one they wait for ever, and with them the
   end of the team.
5. *The endless walk* (`ws_client.c:1137`). A keepalive check is to be made every
   second; when a second window names the chat of the client the walk was to go on
   with, the walk goes round on it for ever, with the table's lock held.

### Bounds, and why they are enough

Every counter that grows (revisions, generations, messages, requests, events,
calls, crashes) has a bound among the CONSTANTS. One slot with two teams forces
the takeover and the refusal; two tasks are what an overlap, an order of ends and a
mixed status need; a third only adds a task that behaves like one of the two. The
generation wraps at 3, past zero, within three messages and a stop. Two rounds
distinguish "first", "last" and "limit reached"; three calls, one before, in and
after a subagent. A queue of one or two fills up, and an array of one overflows. Two
events allow a client to go and come back, or a send to fail in between.
`MaxRevision` cuts off behaviours that announce more changes than the instance needs
to reach the end of a team and one further change; where a bound could keep a liveness
property from being reached the run's bound was raised until larger values no
longer changed which actions fire. Two batches of up to three children
in a table of two records make one be given up half way while another runs; one
tight limit at a time shows each to hold by itself, since together the smallest
hides the others. `background` never reaches its `MaxRevision`: every behaviour of
three tasks ends or goes round below it.

A history of five messages is one short of the trigger of six, so that one turn
starts a compression while the next turn's messages arrive during it; nine messages
fill the window of nine, and a line too long to be read shortens it. One job slot and
two chats make one of them wait for or lose its slot. A table of two jobs and a third
id fill it; five moments of days of two make a weekly job pass a day it is not for.
One crash at any step is enough, since what a second finds is again a file and
nothing else. Three calls are an edit, another file's edit or a reading, and a
restoring; one print and a ring of two both overflow. Three sockets and two slots
let a number, and a slot, be used again while a sender still holds it.

Symmetry is used in runs without liveness only.

### Fairness

`FairWakeSpec`: the agent loop and the outbound thread are threads that never
stop, and time goes on (retries fall due, activity windows end). Workers and
clients are *not* fair: a task may run for ever and a client stay away, and the
liveness properties say what follows once tasks have ended. `FairTurnSpec`: the
loop, since each request and tool has a timeout; the websocket thread's push,
which takes a second at most. `FairWaitSpec`: the loop and the waiting threads;
that 180 seconds pass is strong fairness of `Expire`, because the clock is tested
after every message but not in every state. `BackgroundSpec`: the loop, and every
worker, because whatever a worker waits for (the model, a tool, the user's
password) ends with an answer or a timeout. `FairHistorySpec`: the compression
worker, whose requests to the model time out; neither the loop nor the memory core
need be fair for `RequestIsServed`. `FairWsSpec`: the server's thread, as long as it
is not in the endless walk, where nothing of it is enabled. In `FairChatSpec` the
conditions are those of the part that runs.

## Proofs

TLAPS checks these for all values of the constants.

*Task store* (`DelegateStoreProofs`, from `StoreAssumption`). The inductive
invariant `StoreInv` joins `TypeOK`, `OwnerConsistent` and `ProjectionCurrent`
with two parts none of them can do without: `KnownIds` (what is in use was handed
out, so a fresh id is nowhere) and `RevisionOrder` (revisions in use lie below the
counter, so a new one is recorded as sent by no delivery). Every action is shown to
be an `Approve`, a `Projected` refresh or a write over them; lemmas say what those
keep. Then: `TypeCorrect`, `OwnersAgree`, `ShownIsCurrent`, `EndedWhenTerminal`
(a status is an end only if no view is open, and views are current),
`ReclaimSafe` and `ChangesAreAnnounced` (every step leaves what is shown as it was
or bumps the revision with the flag). `ApprovalsApart` is `ApprovedNotNested`. Which
tasks are approved is defined by recursion along the agents, so it has first to be shown
that there is such a choice at all: the least agent at which a partial choice could not
be carried on gives the contradiction (`TakenInOrder`, `ApprovedByRule`). Then
`ApproveParts`: a refresh parts the tasks of the coordinators it refreshes and leaves
those of the others as they were, which holds because a task has one owner.

*Parent wake* (`ParentWakeProofs`, from `WakeAssumption` too). `TheStoreIsObeyed` is the
refinement of `DelegateStore!Spec`: each of the 30 steps is one of the store's or leaves
the store alone, so its theorems hold of the composition. It needs to be known that what
a flush read of its coordinator some steps ago still holds where the store demands it.
`WakeInv` therefore adds to `StoreInv`: an entry pins its coordinator, at the latest
when the poll has marked it (`Pinned`); what is in the loop's hands has an entry or is
live (`HandOK`); an end that was read is still an end, what was notified stays notified
(`RecOK`); an entry that owes a resume belongs to a coordinator notified and not resumed
(`OwedOK`); what is queued or consumed was recorded, or is by the next step (`QueueOK`);
a replay holds a revision that was handed out (`ReplayOK`). The lemmas `...IsGentle` say
that no step of another thread takes an end back. From it follow `EntriesStayPinned`,
`OnlyRecordedIsConsumed` and `PushedOnce`. By the way it shows that the check against
consumed resumes (`delegate_parent_wake.c:159`) never drops one: whatever is consumed was
recorded, and what is recorded is sorted out before.

`NotForgottenWithRoom` and `ReclaimedWithRoom` assume `[]BusHasRoom`: when a resume is
pushed whose failure is not retried, the inbound queue has room. That is no assumption
on a constant but the very condition the finding `wake_bus_full` shows to be needed: the
code does forget the resume when the queue is full there. In the runs `wake` and
`wake_reclaim` the queue is never full at that place. `LookedAfter` is what has to be
inductive under it: who was notified is resumed or has an entry, and the flush settles
an entry only when nobody is to be resumed.

*Background delegation* (`DelegateBackgroundProofs`, from `BackgroundAssumption` too).
`OrderOfBatches` is `StartedAfterDependencies`, `NobodyOrphaned` is `NothingOrphaned`.
Every step of the loop and of the workers is an operation of the store, so `StoreInv`
is kept. `BackgroundInv` adds what the loop holds at each place (`LoopOK`), that the
task it is about to start was started by it and by nobody before (`LaunchOK`), and
that the copy a launch decides on, old as it may be, shows only tasks of the
coordinator and takes none for done that is not (`CopyOK`). An old copy errs on the
safe side only because a task that is done stays done until its coordinator leaves the
table, which the loop itself does, between launches; `OrderKept` is the lemma that says
which changes keep the order.

`TheStoreIsKept` is the refinement of `DelegateStore!Spec`, the most general client that
keeps the table's calling contract: each step of the loop and of the workers is one of
the store's or leaves the store alone (`StepOfStore`). That the ids are fresh, the team
of a launch is in the table and the task in hand is a task follows from `BackgroundInv`;
counting for a chat also needs that every team in the table has one, which every step of
the store keeps (`TeamsKeepChats`). So the store's theorems hold of the composition:
`ApprovalsStayApart` (`ApprovedNotNested`), `LaunchedKeepTheirRecords`
(`NoActiveTaskDropped`) and `LaunchesAreAnnounced` (`ChangeAnnounced`).

`PlacesAreKept` is `LimitsKept`. Its invariant, `LimitsInv`, says in what way the
launcher may be wrong. A count or a copy it made earlier may show more running tasks
than there are by now, never fewer, as nobody but the loop starts a task of a batch
(`BudgetOK` for the count over all, `RoomOK` for team and chat, where the task just
claimed stands apart: it takes the place found free). `WorkersOK` is why a task may not
come back unseen: a record is blocked only if its worker has asked the user, which
takes it out of the property, or if its preflight tool has just ended, and a worker that
clears a blocker it did not ask for has none to clear. `TableFits` makes all counts
finite. Most steps are `Steady`: they let no task take a place and move none to another
team. The four steps of a launch are `CountLimits`, `CopyLimits`, `CapsLimits` and
`PickLimits`. What the caps count, views of an agent list, is at least what is to be
bounded, because a current coordinator shows who holds a place (`HeldAreShown`).

*Turn and cancel* (`AgentTurnProofs`, from the assumptions of the two modules).
`TurnTypeCorrect` and `BindingSound` hold for any number of slots. `CancelSound`
and `SilenceSound` assume `EnoughSlots`, a slot for each chat that has turns: with
fewer, the turn that lost its slot reads as not cancelled (the comment at
`cancel.c:119` says the opposite of a slot that does not exist). The inductive
invariant is `CancelInv`: the slots are distinct and none is evicted (`SlotsOK`), and
the token of a turn that holds one is the generation of its chat's slot as long as the
turn is wanted, and is flagged or overtaken when it is not (`TokenInv`); `SilenceInv`
carries this to the end of the turn, where the token is no longer looked at, and
`EarlyInv` says that nothing is unwanted before it has begun.

`StopNoticed` goes on from there and bounds what a turn does after a stop. `LateInv` says for each place in the turn how much may be late there: nothing
at the places entered right after a look at the token (by `CancelSound` the look
would have ended a stopped turn); at the others at most what the code does between
two looks, which is a whole fallback chain, all calls of one answer, or two forced
answers and a verification. It needs `EnoughSlots` as well. `DirectiveRunsOnce` does
not: `DirectiveInv` says that no directive is stored for two chats, that one that has
succeeded is stored only while its own turn is about to clear it, and that the one
being run has not succeeded.

*Waits* (`ChatsProofs`, from `WaitAssumption`). `AnswersStayInChat`: no
answer crosses chats or types, for any number of threads, messages and requests,
whatever ids coincide; `WaitTypeCorrect`. An accepted answer only matches the
request's *id* and the chat it was sent to; that it was typed for a prompt in that
very chat rests on where answers come from. `WaitInv` therefore says of each message
anywhere on its way (in the queue, aside, in hand) that it names the chat its
request was shown in or the session that asked (`Known`), of each request that a
session asks in its parent's chat only (`RequestsOK`), and of each wait that its
request is the thread's own (`WaitsOK`). `MessagesAreOnce`: the queue, the
arrays and the hands are so many lines, and every step takes the first message off
one line, puts one that is on none at the end of one, or does both; `TakeOnce` and
`PutOnce` say what that leaves of messages that lie on the lines once (`OnceInv`).

*History* (`ChatLogProofs`, from `ChatAssumption`; `ChatsProofs`, from
`HistoryAssumption` too). `HistoryStaysInOrder` and `WhatLeavesIsTold` hold of
`ChatLog`, by lemmas on what appending to and cutting from an ordered sequence leaves.
`ChatIsKept` is the refinement, which gives `SessionHistory` both. It assumes
`NumberedFromOne` (messages have the numbers from one, those in the files too),
`~Races` (see below) and `[]ReadAsAWhole`: no file ever outgrows what is read of it.
A longer one really loses its oldest lines without a summary, since only what was read
is written back. The invariant `HistoryInv` says that numbers rise along each file and
stay below what the memory core's queue has yet to write (`FilesOK`, `QueueOK`), and,
for each place of the worker (`WorkerOK`), that what it saw is still the beginning of
the file, that the middle of it is in the summary, and that its result is the file as
it is without that middle. `CompactedIs` is the lemma behind the last, on the three
subsequences the code joins. `SeqsAreNew` has the same assumptions and adds `SeqInv`,
that seqs rise along what a file holds or will hold: an appended line goes above the
last one, and the middle that is cut never reaches the last one.

*Timers* (`HostProofs`, from `RequestAssumption` and `CronAssumption`). All three
assume `~Overlap`, without which the scan's index is shifted under it.
`JobsAreSaved`, which also needs a full table to fit the file that is loaded, and
`OnlyTheirOwn` rest on `JobsInv`: the threads are inside the service one at a time
(`OneAtATime`), the job being sent is still the one at the scan's index (`ScanOK`), and
the file is the table unless somebody has changed it (`FileOK`). `OncePerTime` rests
on `ScheduleInv`: the table and the file hold each id once, and every job, but the one
just sent, waits for a time after the one it was sent for last (`Ahead`), in memory
and, should the process die, in the file. `NextLocalFits` is the arithmetic of the next time on
given weekdays, for any length of the day.

*File tools* (`HostProofs`, from `FileAssumption`). `EditsAreKept` assumes
`~Overlap` and `~SameSecond`; `KeptInv` follows the replaced text from the checkpoint
being written, through a failure or crash at any step, to the ring. `EditsAreNotBlind`
needs neither: `PrintInv` says that a path counts as remembered only while its slot
still holds its print; that no more paths than slots do is shown by counting.
`RestoringUndoes` has the assumptions of `EditsAreKept` and adds `UndoInv`: the last
record of a path in the ring is of the text that was replaced last or, where a call is
about to write, of the one it is about to replace; a restoring under way carries the
former. `OneRecordMore` is the arithmetic of a ring that has gone round. That no path
is called `Absent`, what an empty slot of the ring names, is an assumption.

*Gateway* (`WsClientsProofs`, from `ClientsAssumption`). One invariant, `WsInv`, of four
parts. `TableInv`: the list has the clients in use, each once, and open numbers and
clients in use match but for what the server's thread has in its hand (`Held`: a number
taken and not yet listed, one whose client was evicted or found to be a duplicate and that
is not yet closed). It is kept because only that thread takes numbers and lists clients,
while all others remove by number, under the lock, what has the number by then. `ChatInv`:
at the moment of binding no other client has the chat, although senders removed clients
during the walk that looked for duplicates. `ReplyInv`: for each reply, that it is in no
two places. `PointersOK`: who uses a client has one. `OffEffect` and the lemmas after it
say what taking from and adding to the list leaves, `WsInvariant` holds them together, and
`TheTableMatchesSockets`, `NoTwoClientsOfAChat` and `RepliesInOnePlace` follow.

Only model-checked: all liveness (`ChatIsResumed`, `GateFollowsReply`,
`EveryMessageSettled`, `QueuedIsSettled`, `ReadyIsStarted`, `RequestIsServed`), which
is out of the prover's reach as is ENABLED. Every safety invariant and action property
of the passing runs is a theorem, under the assumptions named above.

## What is left out

- *Turn.* The interview of `AgentTurn` always ends in its questions being the reply;
  waiting for the answer is `InteractiveWait`'s. Running out of memory, which drops a
  message without a word (`turn_entry.c:695`), is not modelled, nor is a delegate
  message whose snapshot cannot be parsed and which gets a turn of its own. The table
  of 16 directives that evicts its oldest, and directives cut at 4096 bytes, are left
  out. So are the HR commands of `loop.c` and `turn_resume.c`, whose task nobody
  sends. The retry that forces tool-less text in a delegate's own session happens in
  subagents only, which `AgentTurn` has as one call. A stop that comes before the turn
  has begun, while its message waits, stops nothing (`turn_pipeline.c:116`); a
  directive stored between the load and the clear of the turn under way is cleared
  unrun (`turn_pipeline.c:76`): the code's behaviour, in the model, and claimed by no
  property.
- *Wake and store.* Without a client a late reply of the parent may re-enter the
  terminal path (`delegate_parent_wake.c:752`), a later bump of the revision re-flush an
  entry (`:909`), and a team that ends without output be retried for ever (`:956`): in
  the model, claimed by no property. The store's mutex is created lazily without a lock
  (`delegate_task_store.c:30`): taken to exist.
- *Waits.* A subagent inside the loop's own turn does not ask: its prompt would go to a
  session no client shows. Messages put aside return behind later ones
  (`interactive.c:203`): in the model; no property claims an order.
- *Background delegation.* A queued record never vanishes or is of an unknown kind
  (both unreachable), and what a worker says is reduced to its list of files and
  whether it is worth reporting. A task that goes on after it waited for the user may
  exceed the limits (`delegate_task_query.c:396`), which `LimitsKept` leaves out.
- *History.* `Races = FALSE` keeps appends and deletions away from the time between the
  worker's last look and its writing, where the file is emptied without the lock and
  what comes in is lost; `LongIds` is empty, since an id of 32 characters is cut in the
  table of jobs and its compression never happens. A later summary replaces the one
  before: `told` counts a message as summarised once it was.
- *Cron.* `Overlap = FALSE` keeps the tools and the scan apart: with both, the scan goes
  on with an index that the tools shift. A file over 8192 bytes is read as no jobs
  (`FileLimit`). The heartbeat only posts its prompt.
- *Files.* `SameSecond = FALSE` leaves out two checkpoints of a path in one second, the
  second of which writes over the first; `Overlap = FALSE` two calls at once, which
  share the last-read record and the ring without a lock. Files over 32 KB are deleted
  after an empty checkpoint was saved, which `ReplacedIsKept` leaves out.
- *Gateway.* Time; a client that begins a request or a frame and does not finish it,
  for which the thread waits without a limit; SIGPIPE, which nothing catches; uploads,
  pet actions, HTTP and the wire format. A number closed by a sender while the server's
  thread selects on it ends that thread (`server.at = "ended"`): in the model, claimed
  by no property, as is a reply that reaches another chat's client because the slot was
  used again. The run has the outbound thread as the one sender; the module takes any.
- *Not modelled.* Robot and voice channels: the link to a child process reads ahead of
  what `select` sees, and timeouts restart with each line; a model of it would need the
  byte stream that all others abstract from. Work items, todo lists and memory
  files: text that one thread rewrites. Registry, router and HR: scoring of text.
  Synchronous delegation and repository batches: how a request is split is text
  heuristics, and the subagent itself is a call in `AgentTurn`. Prompts, wire formats,
  HTTP, Feishu, configuration, skills, libraries: no state that several steps share,
  or state of the host. These are most of the lines of the repository.

## Plan

1. `DelegateStore` and its proofs. Done.
2. `ParentWake` over it, and its proofs (see 10). Done.
3. `CancelTokens`, `AgentTurn` and their proofs. Done.
4. `InteractiveWait` and its proofs. Done.
5. `DelegateBackground` over `DelegateStore`, and its proofs, the refinement of
   `DelegateStore!Spec` among them. Done; left: one composition of the launcher with all
   of `ParentWake`, which TLC could not check on an instance of use.
6. `ChatLog`, `SessionHistory` and the proof that the one implements the other. Done.
7. `Cron`, `FileEdits`, with crash and restart, and their proofs. Done.
8. `WsClients` and its proofs. Done; left: uploads, and the registry, router and transcript as far as
   they keep tables.
9. `TurnContext` (snapshots, consumed resumes, eviction), the robot link, work items.
   Not begun.
10. Proofs over `ParentWake`. Done.
