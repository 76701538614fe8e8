-------------------------- MODULE DelegateBackground --------------------------
(***************************************************************************)
(* How delegated tasks get to run (drivers/tool/tool_delegate_runtime.c,   *)
(* _dispatch.c, _dependency.c, _background.c and _lifecycle.c), over the   *)
(* task store.                                                             *)
(*                                                                         *)
(* One thread, the agent loop, launches: a turn that delegates a batch     *)
(* plans its tasks and launches those that are ready, and each pass of the *)
(* loop launches one more of each coordinator.  Every launched task has a  *)
(* worker, a thread of its own, which reports to the store.  A launch      *)
(* counts what runs, copies the coordinator, counts what runs for the      *)
(* chat and claims a task, taking the store's mutex anew each time.        *)
(***************************************************************************)
EXTENDS DelegateStore

CONSTANTS
  Key,             \* the task_keys of a batch
  Batch,           \* the batches a turn may delegate
  Effective,       \* whether the output of a worker is worth reporting
  Limits           \* how the limits on launching may be configured

\* DELEGATE_BG_MAX_CONCURRENCY, _PER_COORDINATOR and _PER_PARENT
Limit == [all : Nat \ {0}, coordinator : Nat \ {0}, parent : Nat \ {0}]
Child == [key : Key, needs : SUBSET Key, implement : BOOLEAN, preflight : BOOLEAN]

ASSUME BackgroundAssumption ==
  /\ Batch \subseteq Seq(Child) \ {<<>>}
  /\ Effective \subseteq BOOLEAN
  /\ Limits \subseteq Limit
  /\ \A b \in Batch : Len(b) <= AgentsMax

VARIABLES
  limits,  \* the environment's limits, which do not change
  graph,   \* task_key, depends_on and preflight_tool of each record
  loop,    \* what the agent loop is doing, and its local variables
  worker   \* the worker thread of each task

backgroundVars == <<storeVars, limits, graph, loop, worker>>

Single == [key |-> None, needs |-> {}, implement |-> FALSE, preflight |-> FALSE]

\* children: what is left of the batch.  todo: coordinators the poll has yet
\* to look at.  running, agents, i: what launching read, and how far it got.
AtPoll == [at |-> "poll", children |-> <<>>, todo |-> {}, cur |-> None, task |-> None,
           single |-> FALSE, running |-> 0, agents |-> <<>>, i |-> 1]

\* asked: the worker has shown itself blocked on the user at some time.
NoWorker == [at |-> "none", asked |-> FALSE]

Goto(at) == loop' = [loop EXCEPT !.at = at]
Cur == loop.cur
FreshTask == CHOOSE t \in Task \ spent : TRUE
FreshCoordinator == CHOOSE c \in Coordinator \ spent : TRUE

-----------------------------------------------------------------------------
(* A turn delegates.                                                       *)

\* tool_delegate_run_background_coordinator: the table may be full.
BeginBatch(chat, batch) ==
  /\ loop.at = "message"
  /\ Coordinator \ spent # {} /\ Cardinality(Task \ spent) >= Len(batch)
  /\ \/ /\ \/ StartInFreeSlot(FreshCoordinator, chat)
           \/ StartByReclaim(FreshCoordinator, chat)
        /\ loop' = [loop EXCEPT !.at = "plan", !.children = batch, !.cur = FreshCoordinator]
     \/ StartRefused /\ loop' = AtPoll
  /\ UNCHANGED <<limits, graph, worker>>

\* ... plans the next child; when the table of records is full it gives up,
\* leaving the children already attached to the poll.
PlanChild ==
  /\ loop.at = "plan" /\ Task \ spent # {}
  /\ LET child == Head(loop.children)
         t     == FreshTask
     IN  IF Cardinality(LiveTasks) < TaskSlots
         THEN /\ Plan(Cur, t, child.implement)
              /\ graph' = [graph EXCEPT ![t] = child]
              /\ loop' = [loop EXCEPT !.at = "attach", !.task = t]
         ELSE loop' = AtPoll /\ UNCHANGED <<storeVars, graph>>
  /\ UNCHANGED <<limits, worker>>

\* (faulty) gives up on the batch between planning a child and attaching it
AttachChild_GivesUp ==
  /\ loop.at = "attach"
  /\ UNCHANGED storeVars
  /\ loop' = AtPoll
  /\ UNCHANGED <<limits, graph, worker>>

\* ... and attaches it; after the last one it launches.
AttachChild ==
  /\ loop.at = "attach"
  /\ AttachTask(Cur, loop.task)
  /\ loop' = [loop EXCEPT !.children = Tail(@), !.task = None,
                          !.at = IF Len(loop.children) = 1 THEN "count" ELSE "plan"]
  /\ UNCHANGED <<limits, graph, worker>>

\* tool_delegate_run_background_subagent: a task of no batch is run at once.
BeginSingle ==
  /\ loop.at = "message" /\ Task \ spent # {}
  /\ Start(FreshTask, FALSE)
  /\ graph' = [graph EXCEPT ![FreshTask] = Single]
  /\ loop' = [loop EXCEPT !.at = "schedule_single", !.task = FreshTask]
  /\ UNCHANGED <<limits, worker>>

\* tool_delegate_schedule_background_subagent; no thread to be had fails
\* the task.
Schedule(t, then) ==
  \/ /\ worker' = [worker EXCEPT ![t] =
           [NoWorker EXCEPT !.at = IF graph[t].preflight THEN "preflight" ELSE "turn"]]
     /\ loop' = then
     /\ UNCHANGED storeVars
  \/ /\ Fail(t)
     /\ loop' = [loop EXCEPT !.at = IF loop.at = "schedule" THEN "pick" ELSE "poll",
                             !.task = None, !.i = IF loop.at = "schedule" THEN @ + 1 ELSE 1]
     /\ UNCHANGED worker

ScheduleSingle ==
  /\ loop.at = "schedule_single"
  /\ Schedule(loop.task, AtPoll)
  /\ UNCHANGED <<limits, graph>>

-----------------------------------------------------------------------------
(* The poll (delegate_lifecycle_poll_runtime).                             *)

\* The coordinator of cs in the lowest slot; the poll takes them in this order.
NextInSlots(cs) == slots[First({s \in Slot : slots[s] \in cs})]

\* (faulty) looks only at coordinators with a task that runs
ToScan_Running ==
  {c \in ActiveCoordinators : /\ coordinators[c].status = "running"
                              /\ CountView(coordinators[c], "queued") > 0}

\* delegate_lifecycle_should_scan_coordinator
ToScan == {c \in ActiveCoordinators : CountView(coordinators[c], "queued") > 0}

\* delegate_task_store_list_active_coordinators, and those worth a look; a
\* turn that delegates comes between two polls, if there is a message.
PollLists ==
  /\ loop.at \in {"poll", "message"}
  /\ loop' = [AtPoll EXCEPT !.at = "next", !.todo = ToScan]
  /\ UNCHANGED <<storeVars, limits, graph, worker>>

NextCoordinator ==
  /\ loop.at = "next"
  /\ LET c == NextInSlots(loop.todo)
     IN  loop' = IF loop.todo = {} THEN [AtPoll EXCEPT !.at = "wake"]
                 ELSE [AtPoll EXCEPT !.at = "copy", !.cur = c,
                                     !.todo = loop.todo \ {c}, !.single = TRUE,
                                     !.running = Cardinality(RunningTasks)]
  /\ UNCHANGED <<storeVars, limits, graph, worker>>

\* delegate_parent_wake_poll, by what it records when a coordinator has ended:
\* that its chat was told and then, in the web client, that the resume was
\* queued, after which the slot may be taken.  A poll may stop between the two,
\* as when the queue is full.  The rest of the poll is ParentWake's.
WakeEnds(c) ==
  /\ loop.at = "wake"
  /\ c \in Live /\ Terminal(coordinators[c])
  /\ \/ ~coordinators[c].notified /\ MarkCompletionNotified(c)
     \/ /\ coordinators[c].chat \in WebChat /\ ~coordinators[c].resumeEnqueued
        /\ MarkParentResumeEnqueued(c)
  /\ UNCHANGED <<limits, graph, loop, worker>>

WakeOver ==
  /\ loop.at = "wake"
  /\ Goto("message")
  /\ UNCHANGED <<storeVars, limits, graph, worker>>

-----------------------------------------------------------------------------
(* Launching: the tasks of a new batch until none is ready                 *)
(* (tool_delegate_launch_ready_background_subagents), or one task          *)
(* (tool_delegate_launch_one_ready_background_subagent).                   *)

\* delegate_task_store_running_count, before each task of a batch
Count ==
  /\ loop.at = "count"
  /\ loop' = [loop EXCEPT !.at = "copy", !.running = Cardinality(RunningTasks), !.i = 1]
  /\ UNCHANGED <<storeVars, limits, graph, worker>>

\* delegate_task_store_snapshot_coordinator
Copy ==
  /\ loop.at = "copy"
  /\ SnapshotCoordinator(Cur)
  /\ loop' = [loop EXCEPT !.at = "caps", !.agents = coordinators'[Cur].agents]
  /\ UNCHANGED <<limits, graph, worker>>

\* This launch is over.
Launched == IF loop.single THEN [AtPoll EXCEPT !.at = "next", !.todo = loop.todo] ELSE AtPoll

ViewsOf(agents, view) == {i \in DOMAIN agents : agents[i].view = view}
RunningOf(chat) ==
  {p \in OfChat(chat) \X (1 .. AgentsMax) :
     p[2] \in ViewsOf(coordinators'[p[1]].agents, "running")}

\* (faulty) takes the tasks of the copied coordinator for those of the chat
CheckCaps_Coordinator ==
  /\ loop.at = "caps"
  /\ SnapshotParent(coordinators[Cur].chat)
  /\ IF Cardinality(ViewsOf(loop.agents, "running")) >= First({limits.parent, limits.coordinator})
     THEN loop' = Launched
     ELSE Goto("pick")
  /\ UNCHANGED <<limits, graph, worker>>

\* The caps of the chat, counted now, and of the coordinator, as copied.
CheckCaps ==
  /\ loop.at = "caps"
  /\ SnapshotParent(coordinators[Cur].chat)
  /\ IF \/ Cardinality(RunningOf(coordinators[Cur].chat)) >= limits.parent
        \/ Cardinality(ViewsOf(loop.agents, "running")) >= limits.coordinator
     THEN loop' = Launched
     ELSE Goto("pick")
  /\ UNCHANGED <<limits, graph, worker>>

\* (faulty) a dependency is over once it has ended
DependenciesSatisfied_Ended(agents, t) ==
  \A k \in graph[t].needs :
    \E i \in ViewsOf(agents, "done") \cup ViewsOf(agents, "error") :
      graph[agents[i].task].key = k

\* tool_delegate_coordinator_dependencies_satisfied, in the copy
DependenciesSatisfied(agents, t) ==
  \A k \in graph[t].needs : \E i \in ViewsOf(agents, "done") : graph[agents[i].task].key = k

Candidates ==
  {i \in ViewsOf(loop.agents, "queued") :
     i >= loop.i /\ DependenciesSatisfied(loop.agents, loop.agents[i].task)}

\* The first candidate is claimed; without one, or without budget, the
\* launch is over.
Pick ==
  /\ loop.at = "pick"
  /\ IF Candidates = {} \/ loop.running >= limits.all
     THEN loop' = Launched /\ UNCHANGED storeVars
     ELSE LET i == First(Candidates)
          IN  /\ ClaimQueuedTask(loop.agents[i].task)
              /\ loop' = [loop EXCEPT !.at = "schedule", !.task = loop.agents[i].task,
                                      !.i = i]
  /\ UNCHANGED <<limits, graph, worker>>

\* A batch looks for another task, the poll turns to the next coordinator.
ScheduleChild ==
  /\ loop.at = "schedule"
  /\ Schedule(loop.task,
       IF loop.single THEN Launched ELSE [AtPoll EXCEPT !.at = "count", !.cur = Cur])
  /\ UNCHANGED <<limits, graph>>

-----------------------------------------------------------------------------
(* The workers (background_subagent_task).                                 *)

WorkerIs(t, w) == worker' = [worker EXCEPT ![t] = w] /\ UNCHANGED <<limits, graph, loop>>
WorkerGoes(t, at) == WorkerIs(t, [worker[t] EXCEPT !.at = at])

\* The preflight tool runs; it may have to ask for a password, which shows
\* the task blocked (channel_runtime_request_sudo) ...
PreflightAsks(t) ==
  /\ worker[t].at = "preflight"
  /\ SetPendingRequest(t)
  /\ WorkerIs(t, [at |-> "asking", asked |-> TRUE])

\* ... and goes on when it is given, refused or late.  The step is recorded.
PreflightRan(t) ==
  /\ worker[t].at \in {"preflight", "asking"}
  /\ AppendSession(t)
  /\ WorkerGoes(t, "preflight_end")

\* A tool without its password leaves the task blocked, and the turn is
\* skipped unless the tool may fail; any other result unblocks it.
PreflightEnds(t) ==
  /\ worker[t].at = "preflight_end"
  /\ \/ ClearBlocked(t) /\ \E at \in {"turn", "fail"} : WorkerGoes(t, at)
     \/ MarkBlocked(t) /\ \E at \in {"turn", "complete"} : WorkerGoes(t, at)

\* The turn; a tool of it may ask, too, and nothing unblocks the task then.
TurnAsks(t) ==
  /\ worker[t].at = "turn" /\ ~records[t].request
  /\ SetPendingRequest(t)
  /\ WorkerIs(t, [worker[t] EXCEPT !.asked = TRUE])

\* What the turn has to say, if anything, is appended to the session.
TurnEnds(t) ==
  /\ worker[t].at = "turn"
  /\ AppendSession(t) \/ UNCHANGED storeVars
  /\ \E at \in {"complete", "fail"} : WorkerGoes(t, at)

\* Only the prompt of an implement task asks for the files it touched.
Reported(t) == IF records[t].implement THEN FileList ELSE {<<>>}

WorkerEnds(t) ==
  /\ worker[t].at \in {"complete", "fail"}
  /\ IF worker[t].at = "fail" THEN Fail(t)
     ELSE \E files \in Reported(t), effective \in Effective : Complete(t, files, effective)
  /\ WorkerIs(t, NoWorker)

-----------------------------------------------------------------------------
BackgroundInit ==
  /\ Init
  /\ limits \in Limits
  /\ graph = [t \in Task |-> Single]
  /\ loop = AtPoll
  /\ worker = [t \in Task |-> NoWorker]

LoopStep ==
  \/ PollLists \/ NextCoordinator \/ WakeOver
  \/ \E c \in Coordinator : WakeEnds(c)
  \/ \E chat \in Chat, batch \in Batch : BeginBatch(chat, batch)
  \/ PlanChild \/ AttachChild \/ BeginSingle \/ ScheduleSingle
  \/ Count \/ Copy \/ CheckCaps \/ Pick \/ ScheduleChild

WorkerStep(t) ==
  \/ PreflightAsks(t) \/ PreflightRan(t) \/ PreflightEnds(t)
  \/ TurnAsks(t) \/ TurnEnds(t) \/ WorkerEnds(t)

BackgroundNext == LoopStep \/ \E t \in Task : WorkerStep(t)

\* The loop keeps going round, and every worker gets to run: whatever it
\* waits for (the model, a tool, the user) ends with a result or a timeout.
BackgroundSpec ==
  /\ BackgroundInit /\ [][BackgroundNext]_backgroundVars
  /\ WF_backgroundVars(LoopStep)
  /\ \A t \in Task : WF_backgroundVars(WorkerStep(t))

-----------------------------------------------------------------------------
(* Properties.                                                             *)

\* A task of a batch starts only after, for each key it depends on, a task
\* with that key is done, and no failure counts as done; the launcher
\* decides this on a copy of the coordinator it made two steps earlier.
StartedAfterDependencies ==
  \A c \in Live : \A t \in Agents(c) :
    records[t].status # "queued"
      => \A k \in graph[t].needs :
           \E u \in Agents(c) : graph[u].key = k /\ records[u].status = "done"

\* Nothing is left behind: a running task has a live worker, or the loop is
\* about to start one, and a queued one is shown by its coordinator, or
\* about to be.  A task that broke this would never end, nor its
\* coordinator, whose slot is then lost for good.
NothingOrphaned ==
  \A t \in Task :
    /\ records[t].status = "running"
         => worker[t].at # "none" \/ (loop.task = t /\ loop.at \in {"schedule", "schedule_single"})
    /\ records[t].status = "queued"
         => Attached(t) \/ (loop.task = t /\ loop.at = "attach")
    /\ worker[t].at # "none" => records[t].status = "running"

\* The tasks of batches that run and never had to ask the user stay within
\* each of the three limits.  (One that asks is not counted while it waits,
\* and its place may be taken before it goes on; a task of no batch is not
\* held back at all.)
LimitsKept ==
  LET held(S) == Cardinality({t \in S : /\ ViewOf(records[t]) = "running"
                                        /\ records[t].coordinator # None
                                        /\ ~worker[t].asked})
  IN  /\ held(Task) <= limits.all
      /\ \A c \in Live : held(Agents(c)) <= limits.coordinator
      /\ \A chat \in Chat : held(UNION {Agents(c) : c \in OfChat(chat)}) <= limits.parent

\* A task whose dependencies are all done is started at some time, however
\* the limits and the other coordinators hold it back, and also when the
\* batch it came with was given up half way.
Ready(t) ==
  /\ records[t].status = "queued" /\ Attached(t)
  /\ DependenciesSatisfied(coordinators[records[t].coordinator].agents, t)
ReadyIsStarted == \A t \in Task : Ready(t) ~> records[t].status # "queued"

\* delegate_task describes a staged batch as one that "may keep children
\* queued until dependencies finish": a child leaves the queue at some time
\* after a task of each key it depends on has finished, in whatever way.
DependenciesFinished(t) ==
  /\ records[t].status = "queued" /\ Attached(t)
  /\ \A k \in graph[t].needs :
       \E u \in Agents(records[t].coordinator) : graph[u].key = k /\ Ended(records[u])
QueuedUntilDependenciesFinish ==
  \A t \in Task : DependenciesFinished(t) ~> records[t].status # "queued"
===============================================================================
