------------------------ MODULE DelegateBackgroundProofs ------------------------
(***************************************************************************)
(* How tasks get to run, for every number of tasks, coordinators, batches  *)
(* and limits: no task is orphaned, and none is started before those it    *)
(* depends on are done.  The table keeps StoreInv under every step of the  *)
(* loop and of the workers; what the launcher read before it claims a task *)
(* stays true long enough (CopyOK), as only the loop itself starts tasks   *)
(* and a task that is done stays done.  Loop and workers are a client of   *)
(* the store that keeps its contract (TheStoreIsKept), and stay within the *)
(* limits on what runs (PlacesAreKept).                                    *)
(***************************************************************************)
EXTENDS DelegateBackground, DelegateStoreProofs

-----------------------------------------------------------------------------
(* What a step of the table does to the status of the tasks and to what    *)
(* the coordinators show.                                                  *)

SameTeams ==
  /\ Live' = Live
  /\ \A c \in Live : Agents(c)' = Agents(c) /\ coordinators'[c].chat = coordinators[c].chat

\* Two records that are shown alike and have the same owner.
Alike(r, s) ==
  /\ r.status = s.status /\ r.coordinator = s.coordinator
  /\ r.blocker = s.blocker /\ r.request = s.request

\* No task changes, but those of T.
SameRecords(T) == \A u \in Task \ T : Alike(records'[u], records[u])

\* t alone changes, and has this status then.
Becomes(t, status) ==
  StoreInv' /\ SameTeams /\ SameRecords({t}) /\ records'[t].status = status

LEMMA WriteEffect ==
  ASSUME StoreInv, NEW t \in Task, NEW r \in TaskRecord, Write(t, r), StoreInv'
  PROVE  Becomes(t, r.status) /\ Alike(records'[t], r)
<1> DEFINE recs == [records EXCEPT ![t] = r]
<1>1. /\ recs \in [Task -> TaskRecord] /\ recs[t] = r
      /\ \A u \in Task \ {t} : recs[u] = records[u]
      /\ coordinators \in [Coordinator -> CoordinatorRecord]
  BY DEF StoreInv, TypeOK
<1>2. /\ records' = Approve(recs, {r.coordinator} \cap Live) /\ slots' = slots
      /\ coordinators' = [c \in Coordinator |->
            IF c \in {r.coordinator} \cap Live THEN Bump(Projected(recs, coordinators[c]))
                                               ELSE coordinators[c]]
  BY DEF Write
<1> HIDE DEF recs
<1>3. \A u \in Task : Alike(records'[u], recs[u])
  BY <1>1, <1>2, ApproveKeeps DEF Alike
<1>4. Live' = Live
  BY <1>2 DEF Live
<1>5. ASSUME NEW c \in Live
      PROVE  Agents(c)' = Agents(c) /\ coordinators'[c].chat = coordinators[c].chat
  <2>1. c \in Coordinator /\ coordinators[c] \in CoordinatorRecord
    BY <1>1 DEF Live
  <2> DEFINE co == Projected(recs, coordinators[c])
  <2>2. /\ co \in CoordinatorRecord /\ co.chat = coordinators[c].chat
        /\ SameTasks(co.agents, coordinators[c].agents)
    BY <1>1, <2>1, ProjectedShows, ProjectedType
  <2>3. coordinators'[c] = Bump(co) \/ coordinators'[c] = coordinators[c]
    BY <1>2, <2>1
  <2> HIDE DEF co
  <2>4. Bump(co).agents = co.agents /\ Bump(co).chat = co.chat
    BY <2>2 DEF Bump, CoordinatorRecord
  <2>5. /\ SameTasks(coordinators'[c].agents, coordinators[c].agents)
        /\ coordinators'[c].chat = coordinators[c].chat
    BY <2>2, <2>3, <2>4 DEF SameTasks
  <2> QED
    BY <2>5, SameAgents
<1>6. \A u \in Task \ {t} : Alike(records'[u], records[u])
  BY <1>1, <1>3
<1>7. records'[t].status = r.status /\ Alike(records'[t], r)
  BY <1>1, <1>3 DEF Alike
<1> QED
  BY <1>4, <1>5, <1>6, <1>7 DEF Becomes, SameTeams, SameRecords, Alike

\* The updates of one task, by what they leave it as.
LEMMA UpdateEffect ==
  ASSUME StoreInv, NEW t \in Task
  PROVE  /\ ClaimQueuedTask(t) => Becomes(t, "running")
         /\ Fail(t) => Becomes(t, "failed")
         /\ \A files \in FileList, effective \in BOOLEAN :
              Complete(t, files, effective) => Becomes(t, "done") \/ Becomes(t, "failed")
         /\ MarkBlocked(t) \/ ClearBlocked(t) \/ SetPendingRequest(t) \/ AppendSession(t)
              => Becomes(t, "running")
<1>1. records[t] \in TaskRecord
  BY DEF StoreInv, TypeOK
<1>2. ASSUME TaskUpdate(t) PROVE StoreInv'
  BY <1>2, TaskUpdateKeeps
<1>3. ASSUME ClaimQueuedTask(t) PROVE Becomes(t, "running")
  <2> DEFINE r == [records[t] EXCEPT !.status = "running"]
  <2>1. r \in TaskRecord /\ r.status = "running" /\ Write(t, r) /\ TaskUpdate(t)
    BY <1>1, <1>3 DEF ClaimQueuedTask, TaskRecord, TaskStatus, TaskUpdate
  <2> HIDE DEF r
  <2>2. Becomes(t, r.status)
    BY <1>2, <2>1, WriteEffect
  <2> QED
    BY <2>1, <2>2
<1>4. ASSUME Fail(t) PROVE Becomes(t, "failed")
  <2> DEFINE r == [records[t] EXCEPT !.status = "failed", !.blocker = TRUE, !.request = FALSE]
  <2>1. r \in TaskRecord /\ r.status = "failed" /\ Write(t, r) /\ TaskUpdate(t)
    BY <1>1, <1>4 DEF Fail, TaskRecord, TaskStatus, TaskUpdate
  <2> HIDE DEF r
  <2>2. Becomes(t, r.status)
    BY <1>2, <2>1, WriteEffect
  <2> QED
    BY <2>1, <2>2
<1>5. ASSUME NEW files \in FileList, NEW effective \in BOOLEAN, Complete(t, files, effective)
      PROVE  Becomes(t, "done") \/ Becomes(t, "failed")
  <2> DEFINE r == [records[t] EXCEPT
                     !.status = IF records[t].blocker THEN "failed" ELSE "done",
                     !.effective = effective, !.files = files,
                     !.approved = files # <<>>, !.request = FALSE]
  <2>1. r \in TaskRecord /\ r.status \in {"done", "failed"} /\ Write(t, r) /\ TaskUpdate(t)
    BY <1>1, <1>5 DEF Complete, TaskRecord, TaskStatus, TaskUpdate
  <2> HIDE DEF r
  <2>2. Becomes(t, r.status)
    BY <1>2, <2>1, WriteEffect
  <2> QED
    BY <2>1, <2>2
<1>6. ASSUME MarkBlocked(t) \/ ClearBlocked(t) \/ SetPendingRequest(t) \/ AppendSession(t)
      PROVE  Becomes(t, "running")
  <2>1. \E r \in TaskRecord : r.status = "running" /\ Write(t, r)
    <3>1. CASE MarkBlocked(t)
      <4>1. [records[t] EXCEPT !.status = "running", !.blocker = TRUE] \in
              {r \in TaskRecord : r.status = "running"}
        BY <1>1 DEF TaskRecord, TaskStatus
      <4> QED
        BY <3>1, <4>1 DEF MarkBlocked
    <3>2. CASE ClearBlocked(t)
      <4>1. records[t].status = "running"
        BY <3>2 DEF ClearBlocked
      <4>2. [records[t] EXCEPT !.blocker = FALSE, !.request = FALSE] \in
              {r \in TaskRecord : r.status = "running"}
        BY <1>1, <4>1 DEF TaskRecord
      <4> QED
        BY <3>2, <4>2 DEF ClearBlocked
    <3>3. CASE SetPendingRequest(t)
      <4>1. records[t].status = "running"
        BY <3>3 DEF SetPendingRequest
      <4>2. [records[t] EXCEPT !.request = TRUE] \in {r \in TaskRecord : r.status = "running"}
        BY <1>1, <4>1 DEF TaskRecord
      <4> QED
        BY <3>3, <4>2 DEF SetPendingRequest
    <3>4. CASE AppendSession(t)
      BY <1>1, <3>4 DEF AppendSession
    <3> QED
      BY <1>6, <3>1, <3>2, <3>3, <3>4
  <2> QED
    BY <1>2, <1>6, <2>1, WriteEffect DEF TaskUpdate
<1> QED
  BY <1>3, <1>4, <1>5, <1>6

\* A planned or a started task is new: no coordinator shows it.
LEMMA NewTaskEffect ==
  ASSUME StoreInv, NEW t \in Task
  PROVE  /\ \A c \in Coordinator, implement \in BOOLEAN :
              Plan(c, t, implement)
                => Becomes(t, "queued") /\ Alike(records'[t], NewRecord("queued", c, implement))
         /\ \A implement \in BOOLEAN :
              Start(t, implement)
                => Becomes(t, "running") /\ records'[t] = NewRecord("running", None, implement)
         /\ t \notin spent => ~Attached(t) /\ records[t].status = "free"
<1>1. ASSUME NEW c \in Coordinator, NEW implement \in BOOLEAN, Plan(c, t, implement)
      PROVE  Becomes(t, "queued") /\ Alike(records'[t], NewRecord("queued", c, implement))
  <2>1. /\ NewRecord("queued", c, implement) \in TaskRecord
        /\ NewRecord("queued", c, implement).status = "queued"
    BY StoreAssumption DEF NewRecord, FreeRecord, TaskRecord, TaskStatus
  <2>2. Write(t, NewRecord("queued", c, implement)) /\ StoreInv'
    BY <1>1, PlanKeeps DEF Plan
  <2>3. /\ Becomes(t, NewRecord("queued", c, implement).status)
        /\ Alike(records'[t], NewRecord("queued", c, implement))
    BY <2>1, <2>2, WriteEffect
  <2> QED
    BY <2>1, <2>3
<1>2. ASSUME NEW implement \in BOOLEAN, Start(t, implement)
      PROVE  Becomes(t, "running") /\ records'[t] = NewRecord("running", None, implement)
  <2>1. NewRecord("running", None, implement).status = "running"
    BY DEF NewRecord, FreeRecord
  <2>2. StoreInv'
    BY <1>2, StartKeeps
  <2>3. SameTeams
    BY <1>2 DEF Start, SameTeams, Live, Agents
  <2> QED
    BY <1>2, <2>1, <2>2, <2>3 DEF Start, Becomes, SameRecords, Alike, StoreInv, TypeOK
<1>3. ASSUME t \notin spent PROVE ~Attached(t) /\ records[t].status = "free"
  BY <1>3 DEF StoreInv, KnownIds, OwnerConsistent, Attached, Agents
<1> QED
  BY <1>1, <1>2, <1>3

LEMMA ReadEffect ==
  ASSUME StoreInv, ReadStep
  PROVE  StoreInv' /\ SameTeams /\ SameRecords({})
<1>1. PICK cs, cleared \in SUBSET Live :
        /\ UNCHANGED <<slots, revisionSeq, spent>>
        /\ records' = Approve(records, cs)
        /\ coordinators' = [c \in Coordinator |->
             IF c \in cleared THEN [Refreshed(cs, c) EXCEPT !.changed = FALSE]
                              ELSE Refreshed(cs, c)]
  BY ReadKeeps
<1>2. StoreInv'
  BY ReadKeeps
<1>3. /\ records \in [Task -> TaskRecord]
      /\ coordinators \in [Coordinator -> CoordinatorRecord]
  BY DEF StoreInv, TypeOK
<1>4. SameRecords({})
  BY <1>1, <1>3, ApproveKeeps DEF SameRecords, Alike
<1>5. Live' = Live
  BY <1>1 DEF Live
<1>6. ASSUME NEW c \in Live
      PROVE  Agents(c)' = Agents(c) /\ coordinators'[c].chat = coordinators[c].chat
  <2>1. c \in Coordinator /\ coordinators[c] \in CoordinatorRecord
    BY <1>3 DEF Live
  <2>2. /\ Refreshed(cs, c) \in CoordinatorRecord
        /\ SameTasks(Refreshed(cs, c).agents, coordinators[c].agents)
        /\ Refreshed(cs, c).chat = coordinators[c].chat
    BY <1>3, <2>1, ProjectedShows, ProjectedType DEF Refreshed, SameTasks
  <2>3. /\ coordinators'[c].agents = Refreshed(cs, c).agents
        /\ coordinators'[c].chat = Refreshed(cs, c).chat
    BY <1>1, <2>1, <2>2 DEF CoordinatorRecord
  <2> QED
    BY <2>2, <2>3, SameAgents
<1> QED
  BY <1>2, <1>4, <1>5, <1>6 DEF SameTeams

\* Attaching adds one task to one coordinator.
LEMMA AttachEffect ==
  ASSUME StoreInv, NEW t \in Task, NEW c \in Coordinator, AttachTask(c, t)
  PROVE  /\ StoreInv' /\ SameRecords({}) /\ Live' = Live
         /\ records[t].status = "queued" /\ c \in Live
         /\ \A d \in Live : /\ Agents(d)' = IF d = c THEN Agents(d) \cup {t} ELSE Agents(d)
                            /\ coordinators'[d].chat = coordinators[d].chat
         /\ Len(coordinators[c].agents) < AgentsMax
<1> DEFINE old == coordinators[c].agents
           new == Append(old, [task |-> t, view |-> ViewOf(records[t])])
           co  == [coordinators[c] EXCEPT !.agents = new]
           pco == Projected(records, co)
<1>1. /\ c \in Live /\ records[t].status = "queued"
      /\ coordinators' = [coordinators EXCEPT ![c] = Bump(pco)]
      /\ slots' = slots
  BY DEF AttachTask
<1>2. /\ records \in [Task -> TaskRecord] /\ coordinators[c] \in CoordinatorRecord
      /\ coordinators \in [Coordinator -> CoordinatorRecord] /\ old \in Seq(AgentView)
  BY DEF StoreInv, TypeOK, CoordinatorRecord
<1>3. [task |-> t, view |-> ViewOf(records[t])] \in AgentView
  BY <1>2, ViewOfType DEF AgentView
<1>4. /\ new \in Seq(AgentView) /\ Len(new) = Len(old) + 1
      /\ \A i \in 1 .. Len(old) : new[i] = old[i]
      /\ new[Len(old) + 1].task = t
      /\ Len(old) \in Nat /\ DOMAIN old = 1 .. Len(old) /\ DOMAIN new = 1 .. (Len(old) + 1)
  BY <1>2, <1>3, AppendProperties, LenProperties
<1>5. {new[i].task : i \in DOMAIN new} = {old[i].task : i \in DOMAIN old} \cup {t}
  <2>1. DOMAIN new = DOMAIN old \cup {Len(old) + 1} /\ \A i \in DOMAIN old : new[i] = old[i]
    BY <1>4
  <2> HIDE DEF new, old
  <2> QED
    BY <1>4, <2>1
<1>6. Agents(c) = {old[i].task : i \in DOMAIN old}
  BY DEF Agents
<1> HIDE DEF new, old
<1>7. co \in CoordinatorRecord /\ co.agents = new /\ co.chat = coordinators[c].chat
  BY <1>2, <1>4 DEF CoordinatorRecord
<1> HIDE DEF co
<1>8. pco \in CoordinatorRecord /\ SameTasks(pco.agents, new) /\ pco.chat = co.chat
  BY <1>2, <1>7, ProjectedType, ProjectedShows
<1> HIDE DEF pco
<1>9. coordinators'[c].agents = pco.agents /\ coordinators'[c].chat = pco.chat
  BY <1>1, <1>2, <1>8 DEF Bump, CoordinatorRecord
<1>10. Agents(c)' = Agents(c) \cup {t}
  <2>1. Agents(c)' = {pco.agents[i].task : i \in DOMAIN pco.agents}
    BY <1>9 DEF Agents
  <2>2. {pco.agents[i].task : i \in DOMAIN pco.agents} = {new[i].task : i \in DOMAIN new}
    BY <1>8 DEF SameTasks
  <2> QED
    BY <1>5, <1>6, <2>1, <2>2
<1>11. \A d \in Live : d # c => Agents(d)' = Agents(d) /\ coordinators'[d] = coordinators[d]
  BY <1>1, <1>2 DEF Agents, Live
<1>12. SameRecords({})
  <2> DEFINE X == ApprovedAfterAttach(c, t)
  <2>1. records' = [u \in Task |->
                    IF u \in Agents(c) \cup {t} /\ records[u].status # "free"
                    THEN [records[u] EXCEPT !.approved = u \in X] ELSE records[u]]
    BY DEF AttachTask, ApprovedAfterAttach
  <2> HIDE DEF X
  <2> QED
    BY <1>2, <2>1 DEF SameRecords, Alike, TaskRecord
<1>13. Live' = Live
  BY <1>1 DEF Live
<1>14. StoreInv'
  BY AttachKeeps
<1> QED
  BY <1>1, <1>7, <1>8, <1>9, <1>10, <1>11, <1>12, <1>13, <1>14 DEF AttachTask

\* A new coordinator shows nothing; the one it may replace leaves the table
\* with records of tasks that have ended.
LEMMA BeginEffect ==
  ASSUME StoreInv, NEW c \in Coordinator, NEW chat \in Chat,
         StartInFreeSlot(c, chat) \/ StartByReclaim(c, chat)
  PROVE  /\ StoreInv' /\ c \in Live' /\ c \notin Live
         /\ Agents(c)' = {} /\ coordinators'[c].chat = chat
         /\ \A d \in Live' : d # c => /\ d \in Live /\ Agents(d)' = Agents(d)
                                      /\ coordinators'[d].chat = coordinators[d].chat
         /\ \A d \in Live : d \in Live' \/ \A t \in Agents(d) : Ended(records[t])
         /\ \A t \in Task : \/ Alike(records'[t], records[t])
                            \/ Ended(records[t]) /\ records'[t] = FreeRecord
<1>1. coordinators'[c].agents = <<>> /\ coordinators'[c].chat = chat
  <2>1. coordinators'[c] = NewCoordinator(chat, revisionSeq)
    BY DEF StartInFreeSlot, StartByReclaim, StoreInv, TypeOK
  <2>2. NewCoordinator(chat, revisionSeq).chat = chat
    BY DEF NewCoordinator
  <2> QED
    BY <2>1, <2>2, NewCoordinatorType DEF StoreInv
<1>2. Agents(c)' = {}
  BY <1>1, EmptySeq DEF Agents
<1>3. CASE StartInFreeSlot(c, chat)
  <2>1. /\ records' = records /\ Live' = Live \cup {c} /\ c \notin Live /\ StoreInv'
        /\ \A d \in Coordinator : d # c => coordinators'[d] = coordinators[d]
    BY <1>3, StartFreeKeeps
  <2>2. \A d \in Live' : d # c => /\ d \in Live /\ Agents(d)' = Agents(d)
                                  /\ coordinators'[d].chat = coordinators[d].chat
    BY <2>1 DEF Agents, Live
  <2> QED
    BY <1>1, <1>2, <2>1, <2>2 DEF Alike
<1>4. CASE StartByReclaim(c, chat)
  <2>1. PICK victim \in Live :
          /\ Live' = (Live \ {victim}) \cup {c} /\ c \notin Live
          /\ \A t \in Agents(victim) : Ended(records[t])
          /\ \A d \in Live : d # victim => coordinators'[d] = Refreshed(Scanned, d)
          /\ StoreInv'
    BY <1>4, ReclaimKeeps
  <2>2. ASSUME NEW d \in Live, d # victim
        PROVE  Agents(d)' = Agents(d) /\ coordinators'[d].chat = coordinators[d].chat
    <3>1. /\ coordinators[d] \in CoordinatorRecord
          /\ records \in [Task -> TaskRecord]
      BY DEF Live, StoreInv, TypeOK
    <3>2. /\ SameTasks(Refreshed(Scanned, d).agents, coordinators[d].agents)
          /\ Refreshed(Scanned, d).chat = coordinators[d].chat
      BY <3>1, ProjectedShows, ProjectedType DEF Refreshed, SameTasks
    <3> QED
      BY <2>1, <2>2, <3>2, SameAgents
  <2>3. ASSUME NEW t \in Task
        PROVE  \/ Alike(records'[t], records[t])
               \/ Ended(records[t]) /\ records'[t] = FreeRecord
    <3> DEFINE recs == Approve(records, Scanned)
    <3>1. Alike(recs[t], records[t])
      BY ApproveKeeps DEF StoreInv, TypeOK, Alike
    <3>2. \/ records'[t] = recs[t]
          \/ Ended(recs[t]) /\ records'[t] = FreeRecord
      BY <1>4 DEF StartByReclaim
    <3> HIDE DEF recs
    <3> QED
      BY <3>1, <3>2 DEF Ended, Alike
  <2> QED
    BY <1>1, <1>2, <2>1, <2>2, <2>3
<1> QED
  BY <1>3, <1>4

LEMMA WakeEffect ==
  ASSUME StoreInv, NEW c \in Coordinator, WakeEnds(c)
  PROVE  StoreInv' /\ SameTeams /\ SameRecords({})
<1>1. \E co : /\ coordinators' = [coordinators EXCEPT ![c] = co]
              /\ \/ co = [coordinators[c] EXCEPT !.notified = TRUE]
                 \/ co = [coordinators[c] EXCEPT !.resumeEnqueued = TRUE]
  BY DEF WakeEnds, MarkCompletionNotified, MarkParentResumeEnqueued, SetCoordinator
<1>2. MarkStep(c)
  BY DEF WakeEnds, MarkStep
<1>3. /\ records' = records /\ slots' = slots /\ StoreInv'
      /\ \A d \in Coordinator : Shown(coordinators'[d]) = Shown(coordinators[d])
  BY <1>2, MarkKeeps
<1>4. coordinators \in [Coordinator -> CoordinatorRecord] /\ Live \subseteq Coordinator
  BY DEF StoreInv, TypeOK, Live
<1>5. \A d \in Coordinator : coordinators'[d].chat = coordinators[d].chat
  BY <1>1, <1>4 DEF CoordinatorRecord
<1>6. \A d \in Coordinator : coordinators'[d].agents = coordinators[d].agents
  BY <1>3 DEF Shown
<1>7. Live' = Live
  BY <1>3 DEF Live
<1>8. \A d \in Live : Agents(d)' = Agents(d) /\ coordinators'[d].chat = coordinators[d].chat
  BY <1>4, <1>5, <1>6 DEF Agents
<1> QED
  BY <1>3, <1>7, <1>8 DEF SameTeams, SameRecords, Alike

\* A coordinator that is up to date shows each task that has a record as it is.
LEMMA ProjectedView ==
  ASSUME NEW recs \in [Task -> TaskRecord], NEW co \in CoordinatorRecord, co = Projected(recs, co),
         NEW i \in DOMAIN co.agents, recs[co.agents[i].task].status # "free"
  PROVE  co.agents[i].task \in Task /\ co.agents[i].view = ViewOf(recs[co.agents[i].task])
<1> DEFINE agents == co.agents
           shown  == [agents[i] EXCEPT !.view = ViewOf(recs[agents[i].task])]
<1>1. agents \in Seq(AgentView)
  BY DEF CoordinatorRecord
<1>2. agents[i] \in AgentView
  BY <1>1, ElementOfSeq, LenProperties
<1>3. agents[i] = ShownAgents(recs, agents)[i]
  BY ProjectedType
<1>4. ShownAgents(recs, agents)[i] = shown
  BY DEF ShownAgents, FoundIn
<1> HIDE DEF agents
<1>5. agents[i].task \in Task /\ shown.view = ViewOf(recs[agents[i].task])
  BY <1>2 DEF AgentView
<1> HIDE DEF shown
<1>6. agents[i].view = ViewOf(recs[agents[i].task])
  BY <1>3, <1>4, <1>5
<1> QED
  BY <1>5, <1>6 DEF agents

-----------------------------------------------------------------------------
(* The order of the tasks.                                                 *)

\* What t depends on is done, in c.
Satisfied(c, t) ==
  \A k \in graph[t].needs : \E u \in Agents(c) : graph[u].key = k /\ records[u].status = "done"

\* The order holds as long as nobody leaves the queue unsatisfied, and no
\* task of a coordinator is redefined, taken away or undone.
LEMMA OrderKept ==
  ASSUME StartedAfterDependencies,
         \A c \in Live' : \A t \in Agents(c)' :
           \/ records'[t].status = "queued"
           \/ /\ c \in Live /\ t \in Agents(c)
              /\ records[t].status # "queued" \/ Satisfied(c, t),
         \A c \in Live : c \in Live' =>
           \A u \in Agents(c) : /\ u \in Agents(c)' /\ graph'[u] = graph[u]
                                /\ records[u].status = "done" => records'[u].status = "done"
  PROVE  StartedAfterDependencies'
<1> SUFFICES ASSUME NEW c \in Live', NEW t \in Agents(c)', records'[t].status # "queued",
                    NEW k \in graph'[t].needs
             PROVE  \E u \in Agents(c)' : graph'[u].key = k /\ records'[u].status = "done"
  BY DEF StartedAfterDependencies
<1>1. c \in Live /\ t \in Agents(c) /\ Satisfied(c, t)
  BY DEF StartedAfterDependencies, Satisfied
<1>2. PICK u \in Agents(c) : graph[u].key = k /\ records[u].status = "done"
  BY <1>1 DEF Satisfied
<1> QED
  BY <1>1, <1>2

\* One that has left the queue may go on.
LEMMA OrderKeptByOne ==
  ASSUME StoreInv, StartedAfterDependencies, NEW t \in Task, NEW status, Becomes(t, status),
         records[t].status \notin {"done", "queued"} \/ status = records[t].status,
         \A u \in Task : Attached(u) => graph'[u] = graph[u]
  PROVE  StartedAfterDependencies'
<1>1. \A c \in Live : \A u \in Agents(c) : u \in Task /\ Attached(u)
  BY ShownTasks DEF StoreInv, Agents, Attached, Live
<1>2. \A u \in Task : u # t => records'[u].status = records[u].status
  BY DEF Becomes, SameRecords, Alike
<1>3. Live' = Live /\ (\A c \in Live : Agents(c)' = Agents(c)) /\ records'[t].status = status
  BY DEF Becomes, SameTeams
<1> QED
  BY <1>1, <1>2, <1>3, OrderKept

LEMMA OrderKeptByNone ==
  ASSUME StoreInv, StartedAfterDependencies, SameTeams, SameRecords({}), graph' = graph
  PROVE  StartedAfterDependencies'
<1>1. \A c \in Live : \A u \in Agents(c) : u \in Task
  BY ShownTasks DEF StoreInv, Agents, Live
<1>2. \A u \in Task : records'[u].status = records[u].status
  BY DEF SameRecords, Alike
<1> QED
  BY <1>1, <1>2, OrderKept DEF SameTeams

-----------------------------------------------------------------------------
(* The inductive invariant.                                                *)

WorkerState ==
  [at : {"none", "preflight", "asking", "preflight_end", "turn", "complete", "fail"},
   asked : BOOLEAN]

Shapes ==
  /\ DOMAIN loop = DOMAIN AtPoll
  /\ worker \in [Task -> WorkerState]
  /\ DOMAIN graph = Task

\* What the loop holds at each of its places.
LoopOK ==
  /\ loop.todo \subseteq Live
  /\ loop.at \in {"wake", "message"} => loop.todo = {}
  /\ loop.at \in {"plan", "attach"} => loop.children \in Seq(Child) \ {<<>>}
  /\ loop.at \in {"plan", "attach", "count", "copy", "caps", "pick", "schedule"} => Cur \in Live
  /\ loop.at = "attach" => loop.task \in Task

\* The task the loop is about to start was started for the first time.
LaunchOK ==
  loop.at \in {"schedule", "schedule_single"}
    => loop.task \in Task /\ records[loop.task].status = "running" /\ worker[loop.task].at = "none"

\* What the launcher copied may be old, but a task it takes for done is done.
CopyOK ==
  loop.at \in {"caps", "pick", "schedule"}
    => /\ loop.agents \in Seq(AgentView)
       /\ \A i \in DOMAIN loop.agents :
            /\ loop.agents[i].task \in Agents(Cur)
            /\ loop.agents[i].view = "done" => records[loop.agents[i].task].status = "done"

BackgroundInv ==
  /\ StoreInv /\ Shapes /\ LoopOK /\ LaunchOK /\ CopyOK
  /\ NothingOrphaned /\ StartedAfterDependencies

LEMMA BackgroundInitInv ==
  ASSUME BackgroundInit PROVE BackgroundInv
<1>1. StoreInv
  BY InitInv DEF BackgroundInit
<1>2. Live = {} /\ \A t \in Task : records[t].status = "free"
  BY StoreAssumption DEF BackgroundInit, Init, Live, FreeRecord
<1>3. loop.at = "poll" /\ loop.todo = {} /\ \A t \in Task : worker[t].at = "none"
  BY DEF BackgroundInit, AtPoll, NoWorker
<1>4. Shapes
  BY DEF BackgroundInit, Shapes, NoWorker, WorkerState
<1> QED
  BY <1>1, <1>2, <1>3, <1>4 DEF BackgroundInv, LoopOK, LaunchOK, CopyOK, NothingOrphaned,
                                StartedAfterDependencies

\* The copy stays good as long as the launcher keeps it and nothing it shows
\* is undone.
LEMMA CopyKept ==
  ASSUME CopyOK, loop.at \in {"caps", "pick", "schedule"}, Cur \in Live, SameTeams,
         loop'.agents = loop.agents, loop'.cur = loop.cur,
         \A u \in Agents(Cur) : records[u].status = "done" => records'[u].status = "done"
  PROVE  CopyOK'
<1>1. Agents(Cur)' = Agents(Cur)
  <2>1. PICK c \in Live : c = loop.cur
    BY DEF Cur
  <2>2. /\ Agents(c)' = {coordinators'[c].agents[i].task : i \in DOMAIN coordinators'[c].agents}
        /\ Agents(c)' = Agents(c)
    BY DEF SameTeams, Agents
  <2>3. Agents(Cur)' = {coordinators'[c].agents[i].task : i \in DOMAIN coordinators'[c].agents}
    BY <2>1 DEF Agents, Cur
  <2>4. Agents(Cur) = Agents(c)
    BY <2>1 DEF Cur
  <2> QED
    BY <2>2, <2>3, <2>4
<1> QED
  BY <1>1 DEF CopyOK

-----------------------------------------------------------------------------
(* The workers.                                                            *)

\* A worker reports on its own task, which runs until the worker ends.
WorkerEffect(t) ==
  /\ StoreInv' /\ SameTeams /\ SameRecords({t})
  /\ records'[t].status \in {"running", "done", "failed"}
  /\ worker' \in [Task -> WorkerState]
  /\ \A u \in Task \ {t} : worker'[u] = worker[u]
  /\ worker'[t].at # "none" <=> records'[t].status = "running"
  /\ UNCHANGED <<graph, loop>>

\* The worker of t goes on.
Runs(t) == \E w \in WorkerState : w.at # "none" /\ WorkerIs(t, w)

LEMMA WorkerRuns ==
  ASSUME NEW t \in Task, worker[t] \in WorkerState
  PROVE  /\ \A at \in {"preflight", "asking", "preflight_end", "turn", "complete", "fail"} :
              WorkerGoes(t, at) => Runs(t)
         /\ WorkerIs(t, [at |-> "asking", asked |-> TRUE]) => Runs(t)
         /\ worker[t].at # "none" /\ WorkerIs(t, [worker[t] EXCEPT !.asked = TRUE]) => Runs(t)
<1>1. ASSUME NEW at \in {"preflight", "asking", "preflight_end", "turn", "complete", "fail"},
             WorkerGoes(t, at)
      PROVE  Runs(t)
  <2> DEFINE w == [worker[t] EXCEPT !.at = at]
  <2>1. w \in WorkerState /\ w.at # "none"
    BY DEF WorkerState
  <2>2. WorkerIs(t, w)
    BY <1>1 DEF WorkerGoes
  <2> QED
    BY <2>1, <2>2 DEF Runs
<1>2. ASSUME WorkerIs(t, [at |-> "asking", asked |-> TRUE]) PROVE Runs(t)
  <2>1. [at |-> "asking", asked |-> TRUE] \in {w \in WorkerState : w.at # "none"}
    BY DEF WorkerState
  <2> QED
    BY <1>2, <2>1 DEF Runs
<1>3. ASSUME worker[t].at # "none", WorkerIs(t, [worker[t] EXCEPT !.asked = TRUE])
      PROVE  Runs(t)
  <2>1. [worker[t] EXCEPT !.asked = TRUE] \in {w \in WorkerState : w.at # "none"}
    BY <1>3 DEF WorkerState
  <2> QED
    BY <1>3, <2>1 DEF Runs
<1> QED
  BY <1>1, <1>2, <1>3

LEMMA TableStutters ==
  ASSUME StoreInv, UNCHANGED storeVars
  PROVE  StoreInv' /\ SameTeams /\ SameRecords({})
<1>1. StoreInv'
  BY NextKeeps
<1> QED
  BY <1>1 DEF storeVars, SameTeams, SameRecords, Alike, Live, Agents

LEMMA WorkerDoes ==
  ASSUME BackgroundInv, NEW t \in Task, WorkerStep(t)
  PROVE  records[t].status = "running" /\ worker[t].at # "none" /\ WorkerEffect(t)
<1>1. /\ StoreInv /\ worker \in [Task -> WorkerState] /\ worker[t] \in WorkerState
      /\ worker[t].at # "none" => records[t].status = "running"
  BY DEF BackgroundInv, Shapes, NothingOrphaned
<1>2. worker[t].at # "none" /\ records[t].status = "running"
  BY <1>1 DEF WorkerStep, PreflightAsks, PreflightRan, PreflightEnds, TurnAsks, TurnEnds,
              WorkerEnds
<1>3. ASSUME Becomes(t, "running"), Runs(t) PROVE WorkerEffect(t)
  <2>1. PICK w \in WorkerState : w.at # "none" /\ WorkerIs(t, w)
    BY <1>3 DEF Runs
  <2>2. /\ worker' = [worker EXCEPT ![t] = w] /\ UNCHANGED <<graph, loop>>
    BY <2>1 DEF WorkerIs
  <2> QED
    BY <1>1, <1>3, <2>1, <2>2 DEF WorkerEffect, Becomes
<1>4. ASSUME NEW status \in {"done", "failed"}, Becomes(t, status), WorkerIs(t, NoWorker)
      PROVE  WorkerEffect(t)
  <2>1. NoWorker \in WorkerState /\ NoWorker.at = "none"
    BY DEF NoWorker, WorkerState
  <2>2. /\ worker' = [worker EXCEPT ![t] = NoWorker] /\ UNCHANGED <<graph, loop>>
    BY <1>4 DEF WorkerIs
  <2> QED
    BY <1>1, <1>4, <2>1, <2>2 DEF WorkerEffect, Becomes
<1>5. CASE PreflightAsks(t)
  <2>1. Becomes(t, "running")
    BY <1>1, <1>5, UpdateEffect DEF PreflightAsks
  <2>2. Runs(t)
    BY <1>1, <1>5, WorkerRuns DEF PreflightAsks
  <2> QED
    BY <1>2, <1>3, <2>1, <2>2
<1>6. CASE PreflightRan(t)
  <2>1. Becomes(t, "running")
    BY <1>1, <1>6, UpdateEffect DEF PreflightRan
  <2>2. Runs(t)
    BY <1>1, <1>6, WorkerRuns DEF PreflightRan
  <2> QED
    BY <1>2, <1>3, <2>1, <2>2
<1>7. CASE PreflightEnds(t)
  <2>1. Becomes(t, "running")
    BY <1>1, <1>7, UpdateEffect DEF PreflightEnds
  <2>2. Runs(t)
    BY <1>1, <1>7, WorkerRuns DEF PreflightEnds
  <2> QED
    BY <1>2, <1>3, <2>1, <2>2
<1>8. CASE TurnAsks(t)
  <2>1. Becomes(t, "running")
    BY <1>1, <1>8, UpdateEffect DEF TurnAsks
  <2>2. Runs(t)
    BY <1>1, <1>2, <1>8, WorkerRuns DEF TurnAsks
  <2> QED
    BY <1>2, <1>3, <2>1, <2>2
<1>9. CASE TurnEnds(t)
  <2>1. Becomes(t, "running")
    <3>1. CASE UNCHANGED storeVars
      BY <1>1, <1>2, <3>1, TableStutters DEF storeVars, Becomes, SameRecords, Alike
    <3>2. CASE AppendSession(t)
      BY <1>1, <3>2, UpdateEffect
    <3> QED
      BY <1>9, <3>1, <3>2 DEF TurnEnds
  <2>2. Runs(t)
    BY <1>1, <1>9, WorkerRuns DEF TurnEnds
  <2> QED
    BY <1>2, <1>3, <2>1, <2>2
<1>10. CASE WorkerEnds(t)
  <2>1. Becomes(t, "done") \/ Becomes(t, "failed")
    <3>1. CASE Fail(t)
      BY <1>1, <3>1, UpdateEffect
    <3>2. ASSUME NEW files \in Reported(t), NEW effective \in Effective,
                 Complete(t, files, effective)
          PROVE  Becomes(t, "done") \/ Becomes(t, "failed")
      <4>1. files \in FileList /\ effective \in BOOLEAN
        BY StoreAssumption, BackgroundAssumption DEF Reported
      <4> QED
        BY <1>1, <3>2, <4>1, UpdateEffect
    <3> QED
      BY <1>10, <3>1, <3>2 DEF WorkerEnds
  <2>2. WorkerIs(t, NoWorker)
    BY <1>10 DEF WorkerEnds
  <2> QED
    BY <1>2, <1>4, <2>1, <2>2
<1> QED
  BY <1>2, <1>5, <1>6, <1>7, <1>8, <1>9, <1>10 DEF WorkerStep

LEMMA WorkerKeeps ==
  ASSUME BackgroundInv, NEW t \in Task, WorkerStep(t)
  PROVE  BackgroundInv'
<1>1. records[t].status = "running" /\ worker[t].at # "none" /\ WorkerEffect(t)
  BY WorkerDoes
<1>2. /\ StoreInv' /\ Live' = Live /\ graph' = graph /\ loop' = loop
      /\ \A u \in Task \ {t} : records'[u].status = records[u].status /\ worker'[u] = worker[u]
      /\ records'[t].status \in {"running", "done", "failed"}
      /\ worker'[t].at # "none" <=> records'[t].status = "running"
      /\ \A c \in Live : Agents(c)' = Agents(c)
  BY <1>1 DEF WorkerEffect, SameTeams, SameRecords, Alike
<1>3. Shapes'
  BY <1>1, <1>2 DEF BackgroundInv, Shapes, WorkerEffect, AtPoll
<1>4. LoopOK'
  BY <1>2 DEF BackgroundInv, LoopOK, Cur
<1>5. LaunchOK'
  <2>1. loop.at \in {"schedule", "schedule_single"} => loop.task # t
    BY <1>1 DEF BackgroundInv, LaunchOK
  <2> QED
    BY <1>2, <2>1 DEF BackgroundInv, LaunchOK
<1>6. \A c \in Live : \A u \in Agents(c) : u \in Task
  BY ShownTasks DEF BackgroundInv, StoreInv, Agents, Live
<1>7. \A u \in Task : records[u].status = "done" => records'[u].status = "done"
  BY <1>1, <1>2
<1>8. CopyOK'
  <2>1. CASE loop.at \in {"caps", "pick", "schedule"}
    <3>1. Cur \in Live /\ CopyOK /\ SameTeams
      BY <1>1, <2>1 DEF BackgroundInv, LoopOK, WorkerEffect
    <3> QED
      BY <1>2, <1>6, <1>7, <2>1, <3>1, CopyKept
  <2>2. CASE loop.at \notin {"caps", "pick", "schedule"}
    BY <1>2, <2>2 DEF CopyOK
  <2> QED
    BY <2>1, <2>2
<1>9. NothingOrphaned'
  <2> SUFFICES ASSUME NEW u \in Task
               PROVE  /\ records'[u].status = "running"
                           => \/ worker'[u].at # "none"
                              \/ loop'.task = u /\ loop'.at \in {"schedule", "schedule_single"}
                      /\ records'[u].status = "queued"
                           => Attached(u)' \/ (loop'.task = u /\ loop'.at = "attach")
                      /\ worker'[u].at # "none" => records'[u].status = "running"
    BY DEF NothingOrphaned
  <2>1. Attached(u) => Attached(u)'
    BY <1>2 DEF Attached
  <2> QED
    BY <1>2, <2>1 DEF BackgroundInv, NothingOrphaned
<1>10. StartedAfterDependencies'
  <2>1. Becomes(t, records'[t].status)
    BY <1>1 DEF WorkerEffect, Becomes
  <2> QED
    BY <1>1, <1>2, <2>1, OrderKeptByOne DEF BackgroundInv
<1> QED
  BY <1>2, <1>3, <1>4, <1>5, <1>8, <1>9, <1>10 DEF BackgroundInv

-----------------------------------------------------------------------------
(* The steps of the loop that start no task and add none.                  *)

LEMMA QuietLoop ==
  ASSUME BackgroundInv, StoreInv', SameTeams, SameRecords({}), UNCHANGED <<graph, worker>>,
         loop.at \notin {"attach", "schedule", "schedule_single"},
         loop'.at \notin {"schedule", "schedule_single"},
         DOMAIN loop' = DOMAIN loop, LoopOK', CopyOK'
  PROVE  BackgroundInv'
<1>1. /\ \A u \in Task : records'[u].status = records[u].status
      /\ \A u \in Task : Attached(u)' <=> Attached(u)
  BY DEF SameRecords, Alike, SameTeams, Attached
<1>2. NothingOrphaned'
  BY <1>1 DEF BackgroundInv, NothingOrphaned
<1>3. StartedAfterDependencies'
  BY OrderKeptByNone DEF BackgroundInv
<1>4. Shapes'
  BY DEF BackgroundInv, Shapes, AtPoll
<1> QED
  BY <1>2, <1>3, <1>4 DEF BackgroundInv, LaunchOK

\* A step that leaves the table alone.
LEMMA LoopAlone ==
  ASSUME BackgroundInv, UNCHANGED <<storeVars, graph, worker>>,
         loop.at \notin {"attach", "schedule", "schedule_single"},
         loop'.at \notin {"schedule", "schedule_single"},
         DOMAIN loop' = DOMAIN loop, LoopOK', CopyOK'
  PROVE  BackgroundInv'
BY TableStutters, QuietLoop DEF BackgroundInv

LEMMA PollListsKeeps ==
  ASSUME BackgroundInv, PollLists PROVE BackgroundInv'
<1>1. /\ loop'.at = "next" /\ loop'.todo = ToScan /\ DOMAIN loop' = DOMAIN loop
      /\ loop.at \in {"poll", "message"}
  BY DEF PollLists, AtPoll, BackgroundInv, Shapes
<1>2. UNCHANGED <<storeVars, graph, worker>>
  BY DEF PollLists
<1>3. ToScan \subseteq Live /\ Live' = Live
  BY <1>2 DEF ToScan, ActiveCoordinators, storeVars, Live
<1>4. LoopOK' /\ CopyOK'
  BY <1>1, <1>3 DEF LoopOK, CopyOK
<1> QED
  BY <1>1, <1>2, <1>4, LoopAlone

LEMMA NextInSlotsIsIn ==
  ASSUME NEW cs \in SUBSET Live, cs # {}
  PROVE  NextInSlots(cs) \in cs
<1>1. {s \in Slot : slots[s] \in cs} # {}
  BY DEF Live
<1>2. First({s \in Slot : slots[s] \in cs}) \in {s \in Slot : slots[s] \in cs}
  BY <1>1, FirstIsIn
<1> QED
  BY <1>2 DEF NextInSlots

LEMMA NextCoordinatorKeeps ==
  ASSUME BackgroundInv, NextCoordinator PROVE BackgroundInv'
<1> DEFINE c == NextInSlots(loop.todo)
<1>1. loop.at = "next" /\ UNCHANGED <<storeVars, graph, worker>>
  BY DEF NextCoordinator
<1>2. Live' = Live /\ loop.todo \subseteq Live
  BY <1>1 DEF BackgroundInv, LoopOK, storeVars, Live
<1>3. CASE loop.todo = {}
  <2>1. loop'.at = "wake" /\ loop'.todo = {} /\ DOMAIN loop' = DOMAIN loop
    BY <1>3 DEF NextCoordinator, AtPoll, BackgroundInv, Shapes
  <2>2. LoopOK' /\ CopyOK'
    BY <2>1 DEF LoopOK, CopyOK
  <2> QED
    BY <1>1, <2>1, <2>2, LoopAlone
<1>4. CASE loop.todo # {}
  <2>1. loop' = [AtPoll EXCEPT !.at = "copy", !.cur = c, !.todo = loop.todo \ {c},
                               !.single = TRUE, !.running = Cardinality(RunningTasks)]
    BY <1>4 DEF NextCoordinator
  <2>2. c \in Live
    BY <1>2, <1>4, NextInSlotsIsIn
  <2> HIDE DEF c
  <2>3. /\ loop'.at = "copy" /\ loop'.todo = loop.todo \ {c} /\ loop'.cur = c
        /\ DOMAIN loop' = DOMAIN loop
    BY <2>1 DEF AtPoll, BackgroundInv, Shapes
  <2>4. LoopOK' /\ CopyOK'
    BY <1>2, <2>2, <2>3 DEF LoopOK, CopyOK, Cur
  <2> QED
    BY <1>1, <2>3, <2>4, LoopAlone
<1> QED
  BY <1>3, <1>4

LEMMA WakeOverKeeps ==
  ASSUME BackgroundInv, WakeOver PROVE BackgroundInv'
<1>1. loop.at = "wake" /\ UNCHANGED <<storeVars, graph, worker>>
  BY DEF WakeOver
<1>2. /\ loop'.at = "message" /\ loop'.todo = loop.todo /\ DOMAIN loop' = DOMAIN loop
      /\ loop.todo = {}
  BY <1>1 DEF WakeOver, Goto, BackgroundInv, Shapes, LoopOK, AtPoll
<1>3. LoopOK' /\ CopyOK'
  BY <1>2 DEF LoopOK, CopyOK
<1> QED
  BY <1>1, <1>2, <1>3, LoopAlone

LEMMA CountKeeps ==
  ASSUME BackgroundInv, Count PROVE BackgroundInv'
<1>1. loop.at = "count" /\ UNCHANGED <<storeVars, graph, worker>>
  BY DEF Count
<1>2. /\ loop'.at = "copy" /\ loop'.todo = loop.todo /\ loop'.cur = loop.cur
      /\ DOMAIN loop' = DOMAIN loop /\ loop.todo \subseteq Live /\ loop.cur \in Live
  BY <1>1 DEF Count, BackgroundInv, Shapes, LoopOK, Cur, AtPoll
<1>3. Live' = Live
  BY <1>1 DEF storeVars, Live
<1>4. LoopOK' /\ CopyOK'
  BY <1>2, <1>3 DEF LoopOK, CopyOK, Cur
<1> QED
  BY <1>1, <1>2, <1>4, LoopAlone

LEMMA WakeEndsKeeps ==
  ASSUME BackgroundInv, NEW c \in Coordinator, WakeEnds(c) PROVE BackgroundInv'
<1>1. loop.at = "wake" /\ UNCHANGED <<loop, graph, worker>>
  BY DEF WakeEnds
<1>2. StoreInv' /\ SameTeams /\ SameRecords({})
  BY WakeEffect DEF BackgroundInv
<1>3. LoopOK' /\ CopyOK'
  BY <1>1, <1>2 DEF BackgroundInv, LoopOK, CopyOK, SameTeams
<1> QED
  BY <1>1, <1>2, <1>3, QuietLoop

\* The copy is made of views that are not older than the records.
LEMMA CopyKeeps ==
  ASSUME BackgroundInv, Copy PROVE BackgroundInv'
<1>1. /\ loop.at = "copy" /\ UNCHANGED <<graph, worker>> /\ SnapshotCoordinator(Cur)
      /\ loop' = [loop EXCEPT !.at = "caps", !.agents = coordinators'[Cur].agents]
  BY DEF Copy
<1>2. Cur \in Live /\ loop.todo \subseteq Live
  BY <1>1 DEF BackgroundInv, LoopOK
<1>3. ReadStep
  BY <1>1, <1>2 DEF SnapshotCoordinator, ReadStep, Live
<1>4. StoreInv' /\ SameTeams /\ SameRecords({})
  BY <1>3, ReadEffect DEF BackgroundInv
<1>5. /\ loop'.at = "caps" /\ loop'.agents = coordinators'[Cur].agents
      /\ loop'.cur = loop.cur /\ loop'.todo = loop.todo /\ DOMAIN loop' = DOMAIN loop
  BY <1>1 DEF BackgroundInv, Shapes, AtPoll
<1>6. LoopOK'
  BY <1>2, <1>4, <1>5 DEF LoopOK, Cur, SameTeams
<1>7. CopyOK'
  <2>1. PICK c \in Live : c = loop.cur /\ c \in Live' /\ c \in Coordinator
    BY <1>2, <1>4 DEF Cur, SameTeams, Live
  <2> DEFINE agents == coordinators'[c].agents
  <2>2. /\ coordinators'[c] \in CoordinatorRecord /\ agents \in Seq(AgentView)
        /\ records' \in [Task -> TaskRecord]
    BY <1>4, <2>1 DEF StoreInv, TypeOK, CoordinatorRecord
  <2>3. ASSUME NEW i \in DOMAIN agents
        PROVE  /\ agents[i].task \in Agents(c)'
               /\ agents[i].view = "done" => records'[agents[i].task].status = "done"
    <3>1. agents # <<>>
      BY <2>2, LenProperties, EmptySeq
    <3>2. /\ coordinators'[c] = Projected(records', coordinators'[c])
          /\ records'[agents[i].task].status # "free"
      BY <1>4, <2>1, <3>1 DEF StoreInv, ProjectionCurrent, OwnerConsistent
    <3>3. agents[i].task \in Task /\ agents[i].view = ViewOf(records'[agents[i].task])
      BY <2>2, <3>2, ProjectedView
    <3> QED
      BY <2>2, <3>3 DEF Agents, ViewOf, TaskRecord, TaskStatus
  <2>4. loop'.agents = agents /\ loop'.cur = c
    BY <1>5, <2>1 DEF Cur
  <2>5. Agents(Cur)' = Agents(c)'
    BY <2>4 DEF Agents, Cur
  <2> HIDE DEF agents
  <2> QED
    BY <2>2, <2>3, <2>4, <2>5 DEF CopyOK
<1> QED
  BY <1>1, <1>4, <1>5, <1>6, <1>7, QuietLoop

LEMMA LaunchedShape ==
  ASSUME BackgroundInv
  PROVE  /\ Launched.at \in {"poll", "next"} /\ Launched.todo \subseteq Live
         /\ DOMAIN Launched = DOMAIN loop
BY DEF BackgroundInv, Shapes, LoopOK, Launched, AtPoll

LEMMA CheckCapsKeeps ==
  ASSUME BackgroundInv, CheckCaps PROVE BackgroundInv'
<1>1. /\ loop.at = "caps" /\ UNCHANGED <<graph, worker>>
      /\ SnapshotParent(coordinators[Cur].chat)
      /\ loop' = Launched \/ Goto("pick")
  BY DEF CheckCaps
<1>2. ReadStep
  BY <1>1 DEF SnapshotParent, ReadStep, OfChat, Live
<1>3. StoreInv' /\ SameTeams /\ SameRecords({})
  BY <1>2, ReadEffect DEF BackgroundInv
<1>4. CASE loop' = Launched
  <2>1. LoopOK' /\ CopyOK'
    BY <1>3, <1>4, LaunchedShape DEF LoopOK, CopyOK, SameTeams
  <2> QED
    BY <1>1, <1>3, <1>4, <2>1, LaunchedShape, QuietLoop
<1>5. CASE Goto("pick")
  <2>1. /\ loop'.at = "pick" /\ loop'.agents = loop.agents /\ loop'.cur = loop.cur
        /\ loop'.todo = loop.todo /\ DOMAIN loop' = DOMAIN loop
    BY <1>5 DEF Goto, BackgroundInv, Shapes, AtPoll
  <2>2. Cur \in Live /\ LoopOK'
    BY <1>1, <1>3, <2>1 DEF BackgroundInv, LoopOK, Cur, SameTeams
  <2>3. \A u \in Agents(Cur) : records[u].status = "done" => records'[u].status = "done"
    BY <1>3, <2>2, ShownTasks DEF SameRecords, Alike, BackgroundInv, StoreInv, Agents, Live
  <2>4. CopyOK'
    BY <1>1, <1>3, <2>1, <2>2, <2>3, CopyKept DEF BackgroundInv
  <2> QED
    BY <1>1, <1>3, <2>1, <2>2, <2>4, QuietLoop
<1> QED
  BY <1>1, <1>4, <1>5

-----------------------------------------------------------------------------
(* The steps of the loop that add a task or start one.                     *)

LEMMA FreshIsNew ==
  /\ Task \ spent # {} => FreshTask \in Task /\ FreshTask \notin spent
  /\ Coordinator \ spent # {} => FreshCoordinator \in Coordinator /\ FreshCoordinator \notin spent
BY DEF FreshTask, FreshCoordinator

LEMMA AtPollKeeps ==
  ASSUME BackgroundInv, StoreInv', SameTeams, SameRecords({}), UNCHANGED <<graph, worker>>,
         loop.at \notin {"attach", "schedule", "schedule_single"}, loop' = AtPoll
  PROVE  BackgroundInv'
<1>1. loop'.at = "poll" /\ loop'.todo = {} /\ DOMAIN loop' = DOMAIN loop
  BY DEF AtPoll, BackgroundInv, Shapes
<1>2. LoopOK' /\ CopyOK'
  BY <1>1 DEF LoopOK, CopyOK
<1> QED
  BY <1>1, <1>2, QuietLoop

LEMMA BeginBatchKeeps ==
  ASSUME BackgroundInv, NEW chat \in Chat, NEW batch \in Batch, BeginBatch(chat, batch)
  PROVE  BackgroundInv'
<1>0. PICK c \in Coordinator : c = FreshCoordinator
  BY FreshIsNew DEF BeginBatch
<1>1. /\ loop.at = "message" /\ UNCHANGED <<graph, worker>>
      /\ StoreInv
  BY DEF BeginBatch, BackgroundInv
<1>2. CASE StartRefused /\ loop' = AtPoll
  <2>1. StoreInv' /\ SameTeams /\ SameRecords({})
    BY <1>1, <1>2, ReadEffect DEF ReadStep
  <2> QED
    BY <1>1, <1>2, <2>1, AtPollKeeps
<1>3. CASE /\ StartInFreeSlot(c, chat) \/ StartByReclaim(c, chat)
           /\ loop' = [loop EXCEPT !.at = "plan", !.children = batch, !.cur = c]
  <2>1. /\ StoreInv' /\ c \in Live' /\ c \notin Live
        /\ Agents(c)' = {}
        /\ \A d \in Live' : d # c => d \in Live /\ Agents(d)' = Agents(d)
        /\ \A d \in Live : d \in Live' \/ \A t \in Agents(d) : Ended(records[t])
        /\ \A t \in Task : \/ records'[t].status = records[t].status
                           \/ Ended(records[t]) /\ records'[t].status = "free"
    BY <1>1, <1>3, BeginEffect DEF Alike, FreeRecord
  <2>2. /\ loop'.at = "plan" /\ loop'.children = batch /\ loop'.cur = c
        /\ loop'.todo = {} /\ DOMAIN loop' = DOMAIN loop
    BY <1>1, <1>3 DEF BackgroundInv, Shapes, LoopOK, AtPoll
  <2>3. Shapes'
    BY <1>1, <2>2 DEF BackgroundInv, Shapes, AtPoll
  <2>4. batch \in Seq(Child) \ {<<>>}
    BY BackgroundAssumption
  <2>5. LoopOK' /\ LaunchOK' /\ CopyOK'
    BY <2>1, <2>2, <2>4 DEF LoopOK, LaunchOK, CopyOK, Cur
  <2>6. NothingOrphaned'
    <3> SUFFICES ASSUME NEW t \in Task
                 PROVE  /\ records'[t].status = "running" => worker'[t].at # "none"
                        /\ records'[t].status = "queued" => Attached(t)'
                        /\ worker'[t].at # "none" => records'[t].status = "running"
      BY DEF NothingOrphaned
    <3>1. /\ records[t].status = "running" => worker[t].at # "none"
          /\ records[t].status = "queued" => Attached(t)
          /\ worker[t].at # "none" => records[t].status = "running"
      BY <1>1 DEF BackgroundInv, NothingOrphaned
    <3>2. ASSUME records[t].status = "queued" PROVE Attached(t)'
      <4>1. PICK d \in Live : t \in Agents(d)
        BY <3>1, <3>2 DEF Attached
      <4>2. d \in Live' /\ d # c
        BY <2>1, <3>2, <4>1 DEF Ended
      <4>3. t \in Agents(d)'
        BY <2>1, <4>1, <4>2
      <4> QED
        BY <4>2, <4>3 DEF Attached
    <3> QED
      BY <1>1, <2>1, <3>1, <3>2 DEF Ended
  <2>7. StartedAfterDependencies'
    <3>1. ASSUME NEW d \in Live', NEW t \in Agents(d)'
          PROVE  records'[t].status = records[t].status
      <4>1. PICK i \in DOMAIN coordinators'[d].agents : t = coordinators'[d].agents[i].task
        BY DEF Agents
      <4>2. records'[t].status # "free"
        BY <2>1, <4>1 DEF StoreInv, OwnerConsistent
      <4>3. d \in Live /\ t \in Agents(d)
        BY <2>1
      <4>4. t \in Task
        BY <1>1, <4>3, ShownTasks DEF StoreInv, Agents, Live
      <4> QED
        BY <2>1, <4>2, <4>4
    <3> QED
      BY <1>1, <2>1, <3>1, OrderKept DEF BackgroundInv
  <2> QED
    BY <2>1, <2>3, <2>5, <2>6, <2>7 DEF BackgroundInv
<1> QED
  BY <1>0, <1>2, <1>3 DEF BeginBatch

LEMMA AttachChildKeeps ==
  ASSUME BackgroundInv, AttachChild PROVE BackgroundInv'
<1>0. PICK t \in Task, c \in Coordinator : t = loop.task /\ c = loop.cur
  BY DEF AttachChild, BackgroundInv, LoopOK, Cur, Live
<1>1. /\ loop.at = "attach" /\ UNCHANGED <<graph, worker>> /\ StoreInv
      /\ AttachTask(c, t)
      /\ loop.children \in Seq(Child) \ {<<>>} /\ loop.todo \subseteq Live
  BY <1>0 DEF AttachChild, BackgroundInv, LoopOK, Cur
<1>2. /\ StoreInv' /\ SameRecords({}) /\ Live' = Live
      /\ records[t].status = "queued" /\ c \in Live
      /\ \A d \in Live : Agents(d)' = IF d = c THEN Agents(d) \cup {t} ELSE Agents(d)
  BY <1>1, AttachEffect
<1>3. /\ loop'.at = IF Len(loop.children) = 1 THEN "count" ELSE "plan"
      /\ loop'.children = Tail(loop.children) /\ loop'.cur = c /\ loop'.todo = loop.todo
      /\ DOMAIN loop' = DOMAIN loop
  BY <1>0 DEF AttachChild, BackgroundInv, Shapes, AtPoll
<1>4. loop'.at = "plan" => loop'.children \in Seq(Child) \ {<<>>}
  <2> DEFINE rest == Tail(loop.children)
  <2>1. rest \in Seq(Child) /\ Len(rest) = Len(loop.children) - 1
    BY <1>1, HeadTailProperties
  <2>2. loop'.children = rest
    BY <1>3
  <2> HIDE DEF rest
  <2>3. Len(loop.children) \in Nat
    BY <1>1, LenProperties
  <2>4. rest = <<>> => Len(loop.children) = 1
    BY <2>1, <2>3, EmptySeq
  <2> QED
    BY <1>3, <2>1, <2>2, <2>4
<1>5. LoopOK' /\ LaunchOK' /\ CopyOK'
  BY <1>1, <1>2, <1>3, <1>4 DEF LoopOK, LaunchOK, CopyOK, Cur
<1>6. Shapes'
  BY <1>1, <1>3 DEF BackgroundInv, Shapes, AtPoll
<1>7. \A u \in Task : /\ records'[u].status = records[u].status
                      /\ (Attached(u) \/ u = t) => Attached(u)'
  BY <1>2 DEF SameRecords, Alike, Attached
<1>8. NothingOrphaned'
  <2> SUFFICES ASSUME NEW u \in Task
               PROVE  /\ records'[u].status = "running" => worker'[u].at # "none"
                      /\ records'[u].status = "queued" => Attached(u)'
                      /\ worker'[u].at # "none" => records'[u].status = "running"
    BY DEF NothingOrphaned
  <2>1. /\ records[u].status = "running" => worker[u].at # "none"
        /\ records[u].status = "queued" => Attached(u) \/ u = t
        /\ worker[u].at # "none" => records[u].status = "running"
    BY <1>0, <1>1 DEF BackgroundInv, NothingOrphaned
  <2> QED
    BY <1>1, <1>7, <2>1
<1>9. StartedAfterDependencies'
  <2>1. \A d \in Live : \A u \in Agents(d) : u \in Task
    BY <1>1, ShownTasks DEF StoreInv, Agents, Live
  <2>2. \A d \in Live' : \A u \in Agents(d)' :
          records'[u].status = "queued" \/ (d \in Live /\ u \in Agents(d)
                                            /\ (records[u].status # "queued" \/ Satisfied(d, u)))
    <3> SUFFICES ASSUME NEW d \in Live', NEW u \in Agents(d)', records'[u].status # "queued"
                 PROVE  d \in Live /\ u \in Agents(d) /\ records[u].status # "queued"
      OBVIOUS
    <3>1. d \in Live /\ u \in Agents(d) \cup {t}
      BY <1>2
    <3>2. u \in Task /\ u # t
      BY <1>2, <1>7, <2>1, <3>1
    <3> QED
      BY <1>7, <3>1, <3>2
  <2>3. \A d \in Live : \A u \in Agents(d) :
          u \in Agents(d)' /\ (records[u].status = "done" => records'[u].status = "done")
    BY <1>2, <1>7, <2>1
  <2> QED
    BY <1>1, <1>2, <2>2, <2>3, OrderKept DEF BackgroundInv
<1> QED
  BY <1>2, <1>5, <1>6, <1>8, <1>9 DEF BackgroundInv

\* A new task is queued until it is attached, or launched at once.
LEMMA NewTaskKeeps ==
  ASSUME BackgroundInv, NEW t \in Task, t \notin spent, NEW status, Becomes(t, status),
         UNCHANGED worker, DOMAIN graph' = Task,
         \A u \in Task \ {t} : graph'[u] = graph[u],
         loop.at \in {"plan", "message"}, DOMAIN loop' = DOMAIN loop, loop'.task = t,
         loop'.todo = loop.todo, loop'.cur = loop.cur, loop'.children = loop.children,
         \/ status = "queued" /\ loop.at = "plan" /\ loop'.at = "attach"
         \/ status = "running" /\ loop'.at = "schedule_single"
  PROVE  BackgroundInv'
<1>1. /\ StoreInv /\ ~Attached(t) /\ records[t].status = "free" /\ worker[t].at = "none"
  BY NewTaskEffect DEF BackgroundInv, NothingOrphaned
<1>2. /\ StoreInv' /\ Live' = Live /\ records'[t].status = status
      /\ \A u \in Task \ {t} : records'[u].status = records[u].status
      /\ \A u \in Task : Attached(u)' <=> Attached(u)
  BY DEF Becomes, SameTeams, SameRecords, Alike, Attached
<1>3. Shapes'
  BY DEF BackgroundInv, Shapes, AtPoll
<1>4. LoopOK' /\ LaunchOK' /\ CopyOK'
  BY <1>1, <1>2 DEF BackgroundInv, LoopOK, LaunchOK, CopyOK, Cur
<1>5. NothingOrphaned'
  BY <1>1, <1>2 DEF BackgroundInv, NothingOrphaned
<1>6. StartedAfterDependencies'
  <2>1. \A u \in Task : Attached(u) => graph'[u] = graph[u]
    BY <1>1
  <2> QED
    BY <1>1, <2>1, OrderKeptByOne DEF BackgroundInv
<1> QED
  BY <1>2, <1>3, <1>4, <1>5, <1>6 DEF BackgroundInv

LEMMA PlanChildKeeps ==
  ASSUME BackgroundInv, PlanChild PROVE BackgroundInv'
<1> DEFINE child == Head(loop.children)
           t     == FreshTask
<1>1. /\ loop.at = "plan" /\ UNCHANGED worker /\ StoreInv
      /\ t \in Task /\ t \notin spent /\ DOMAIN graph = Task /\ Cur \in Coordinator
  BY FreshIsNew DEF PlanChild, BackgroundInv, Shapes, LoopOK, Live
<1>2. CASE Cardinality(LiveTasks) < TaskSlots
  <2>1. /\ Plan(Cur, t, child.implement) /\ graph' = [graph EXCEPT ![t] = child]
        /\ loop' = [loop EXCEPT !.at = "attach", !.task = t]
    BY <1>2 DEF PlanChild
  <2>2. child \in Child
    BY <1>1, HeadTailProperties DEF BackgroundInv, LoopOK
  <2>3. child.implement \in BOOLEAN
    BY <2>2 DEF Child
  <2> HIDE DEF child, t
  <2>4. Becomes(t, "queued")
    BY <1>1, <2>1, <2>3, NewTaskEffect
  <2>5. /\ loop'.at = "attach" /\ loop'.task = t /\ loop'.todo = loop.todo
        /\ loop'.cur = loop.cur /\ loop'.children = loop.children /\ DOMAIN loop' = DOMAIN loop
    BY <2>1 DEF BackgroundInv, Shapes, AtPoll
  <2>6. DOMAIN graph' = Task /\ \A u \in Task \ {t} : graph'[u] = graph[u]
    BY <1>1, <2>1
  <2> QED
    BY <1>1, <2>4, <2>5, <2>6, NewTaskKeeps
<1>3. CASE ~(Cardinality(LiveTasks) < TaskSlots)
  <2>1. loop' = AtPoll /\ UNCHANGED <<storeVars, graph>>
    BY <1>3 DEF PlanChild
  <2> QED
    BY <1>1, <2>1, TableStutters, AtPollKeeps
<1> QED
  BY <1>2, <1>3

LEMMA BeginSingleKeeps ==
  ASSUME BackgroundInv, BeginSingle PROVE BackgroundInv'
<1> DEFINE t == FreshTask
<1>1. /\ loop.at = "message" /\ UNCHANGED worker /\ StoreInv
      /\ t \in Task /\ t \notin spent /\ DOMAIN graph = Task
      /\ Start(t, FALSE) /\ graph' = [graph EXCEPT ![t] = Single]
      /\ loop' = [loop EXCEPT !.at = "schedule_single", !.task = t]
  BY FreshIsNew DEF BeginSingle, BackgroundInv, Shapes
<1> HIDE DEF t
<1>2. Becomes(t, "running")
  BY <1>1, NewTaskEffect
<1>3. /\ loop'.at = "schedule_single" /\ loop'.task = t /\ loop'.todo = loop.todo
      /\ loop'.cur = loop.cur /\ loop'.children = loop.children /\ DOMAIN loop' = DOMAIN loop
  BY <1>1 DEF BackgroundInv, Shapes, AtPoll
<1>4. DOMAIN graph' = Task /\ \A u \in Task \ {t} : graph'[u] = graph[u]
  BY <1>1
<1> QED
  BY <1>1, <1>2, <1>3, <1>4, NewTaskKeeps

\* The worker is started, or the task has failed.
LEMMA ScheduleKeeps ==
  ASSUME BackgroundInv, loop.at \in {"schedule", "schedule_single"}, NEW then,
         Schedule(loop.task, then), graph' = graph,
         DOMAIN then = DOMAIN loop, then.at \in {"poll", "next", "count"},
         then.todo \subseteq Live, then.at = "count" => then.cur \in Live
  PROVE  BackgroundInv'
<1>0. PICK t \in Task : t = loop.task
  BY DEF BackgroundInv, LaunchOK
<1>1. /\ StoreInv /\ records[t].status = "running" /\ worker[t].at = "none"
      /\ worker \in [Task -> WorkerState]
  BY <1>0 DEF BackgroundInv, LaunchOK, Shapes
<1>2. CASE /\ UNCHANGED storeVars /\ loop' = then
           /\ worker' = [worker EXCEPT ![t] =
                [NoWorker EXCEPT !.at = IF graph[t].preflight THEN "preflight" ELSE "turn"]]
  <2>1. StoreInv' /\ SameTeams /\ SameRecords({})
    BY <1>1, <1>2, TableStutters
  <2>2. /\ worker' \in [Task -> WorkerState] /\ worker'[t].at # "none"
        /\ \A u \in Task \ {t} : worker'[u] = worker[u]
    <3> DEFINE w == [NoWorker EXCEPT !.at = IF graph[t].preflight THEN "preflight" ELSE "turn"]
    <3>1. w \in WorkerState /\ w.at # "none"
      BY DEF NoWorker, WorkerState
    <3>2. worker' = [worker EXCEPT ![t] = w]
      BY <1>2
    <3> HIDE DEF w
    <3> QED
      BY <1>1, <3>1, <3>2
  <2>3. Shapes' /\ LoopOK' /\ LaunchOK' /\ CopyOK'
    BY <1>2, <2>1, <2>2 DEF BackgroundInv, Shapes, LoopOK, LaunchOK, CopyOK, SameTeams, Cur, AtPoll
  <2>4. \A u \in Task : records'[u].status = records[u].status /\ (Attached(u)' <=> Attached(u))
    BY <2>1 DEF SameRecords, Alike, SameTeams, Attached
  <2>5. NothingOrphaned'
    <3> SUFFICES ASSUME NEW u \in Task
                 PROVE  /\ records'[u].status = "running" => worker'[u].at # "none"
                        /\ records'[u].status = "queued" => Attached(u)'
                        /\ worker'[u].at # "none" => records'[u].status = "running"
      BY DEF NothingOrphaned
    <3>1. /\ records[u].status = "running" => worker[u].at # "none" \/ u = t
          /\ records[u].status = "queued" => Attached(u)
          /\ worker[u].at # "none" => records[u].status = "running"
      BY <1>0 DEF BackgroundInv, NothingOrphaned
    <3> QED
      BY <1>1, <2>2, <2>4, <3>1
  <2>6. StartedAfterDependencies'
    BY <1>1, <2>1, OrderKeptByNone DEF BackgroundInv
  <2> QED
    BY <2>1, <2>3, <2>5, <2>6 DEF BackgroundInv
<1>3. CASE /\ Fail(t) /\ UNCHANGED worker
           /\ loop' = [loop EXCEPT !.at = IF loop.at = "schedule" THEN "pick" ELSE "poll",
                                   !.task = None,
                                   !.i = IF loop.at = "schedule" THEN @ + 1 ELSE 1]
  <2>1. Becomes(t, "failed")
    BY <1>1, <1>3, UpdateEffect
  <2>2. /\ StoreInv' /\ SameTeams /\ records'[t].status = "failed"
        /\ \A u \in Task \ {t} : records'[u].status = records[u].status
        /\ \A u \in Task : Attached(u)' <=> Attached(u)
    BY <2>1 DEF Becomes, SameRecords, Alike, SameTeams, Attached
  <2>3. /\ loop'.at = IF loop.at = "schedule" THEN "pick" ELSE "poll"
        /\ loop'.todo = loop.todo /\ loop'.cur = loop.cur /\ loop'.agents = loop.agents
        /\ DOMAIN loop' = DOMAIN loop
    BY <1>3 DEF BackgroundInv, Shapes, AtPoll
  <2>4. Shapes' /\ LoopOK' /\ LaunchOK'
    BY <1>3, <2>2, <2>3 DEF BackgroundInv, Shapes, LoopOK, LaunchOK, SameTeams, Cur, AtPoll
  <2>5. CopyOK'
    <3>1. CASE loop.at = "schedule"
      <4>1. Cur \in Live /\ CopyOK
        BY <3>1 DEF BackgroundInv, LoopOK
      <4>2. \A u \in Agents(Cur) : records[u].status = "done" => records'[u].status = "done"
        BY <1>1, <2>2, <4>1, ShownTasks DEF StoreInv, Agents, Live
      <4> QED
        BY <2>2, <2>3, <3>1, <4>1, <4>2, CopyKept
    <3>2. CASE loop.at # "schedule"
      BY <2>3, <3>2 DEF CopyOK
    <3> QED
      BY <3>1, <3>2
  <2>6. NothingOrphaned'
    <3> SUFFICES ASSUME NEW u \in Task
                 PROVE  /\ records'[u].status = "running" => worker'[u].at # "none"
                        /\ records'[u].status = "queued" => Attached(u)'
                        /\ worker'[u].at # "none" => records'[u].status = "running"
      BY DEF NothingOrphaned
    <3>1. /\ records[u].status = "running" => worker[u].at # "none" \/ u = t
          /\ records[u].status = "queued" => Attached(u)
          /\ worker[u].at # "none" => records[u].status = "running"
      BY <1>0 DEF BackgroundInv, NothingOrphaned
    <3> QED
      BY <1>1, <1>3, <2>2, <3>1
  <2>7. StartedAfterDependencies'
    BY <1>1, <2>1, OrderKeptByOne DEF BackgroundInv
  <2> QED
    BY <2>2, <2>4, <2>5, <2>6, <2>7 DEF BackgroundInv
<1> QED
  BY <1>0, <1>2, <1>3 DEF Schedule

LEMMA ScheduleSingleKeeps ==
  ASSUME BackgroundInv, ScheduleSingle PROVE BackgroundInv'
<1>1. DOMAIN AtPoll = DOMAIN loop /\ AtPoll.at = "poll" /\ AtPoll.todo \subseteq Live
  BY DEF BackgroundInv, Shapes, AtPoll
<1> QED
  BY <1>1, ScheduleKeeps DEF ScheduleSingle

LEMMA ScheduleChildKeeps ==
  ASSUME BackgroundInv, ScheduleChild PROVE BackgroundInv'
<1> DEFINE count == [AtPoll EXCEPT !.at = "count", !.cur = Cur]
           after == IF loop.single THEN Launched ELSE count
<1>0. PICK then : then = after
  OBVIOUS
<1>1. /\ loop.at = "schedule" /\ Schedule(loop.task, then) /\ graph' = graph /\ Cur \in Live
  BY <1>0 DEF ScheduleChild, BackgroundInv, LoopOK
<1>2. /\ DOMAIN count = DOMAIN loop /\ count.at = "count" /\ count.todo = {} /\ count.cur = Cur
  BY DEF BackgroundInv, Shapes, AtPoll
<1> HIDE DEF count
<1>3. /\ DOMAIN then = DOMAIN loop /\ then.at \in {"poll", "next", "count"}
      /\ then.todo \subseteq Live
      /\ then.at = "count" => then.cur \in Live
  BY <1>0, <1>1, <1>2, LaunchedShape
<1> QED
  BY <1>1, <1>3, ScheduleKeeps

\* The task that is claimed is one the copy shows, with what it depends on
\* shown as done.
LEMMA PickKeeps ==
  ASSUME BackgroundInv, Pick PROVE BackgroundInv'
<1>1. /\ loop.at = "pick" /\ UNCHANGED <<graph, worker>> /\ StoreInv
      /\ Cur \in Live /\ CopyOK /\ loop.todo \subseteq Live
  BY DEF Pick, BackgroundInv, LoopOK
<1>2. CASE loop' = Launched /\ UNCHANGED storeVars
  <2>1. Live' = Live
    BY <1>2 DEF storeVars, Live
  <2>2. LoopOK' /\ CopyOK'
    BY <1>2, <2>1, LaunchedShape DEF LoopOK, CopyOK
  <2> QED
    BY <1>1, <1>2, <2>2, LaunchedShape, LoopAlone
<1>3. CASE /\ Candidates # {}
           /\ ClaimQueuedTask(loop.agents[First(Candidates)].task)
           /\ loop' = [loop EXCEPT !.at = "schedule", !.i = First(Candidates),
                                   !.task = loop.agents[First(Candidates)].task]
  <2>0. PICK c \in Live : c = Cur
    BY <1>1
  <2>1. First(Candidates) \in Candidates
    <3>1. /\ Len(loop.agents) \in Nat /\ DOMAIN loop.agents = 1 .. Len(loop.agents)
      BY <1>1, LenProperties DEF CopyOK
    <3>2. Candidates \subseteq DOMAIN loop.agents
      BY DEF Candidates, ViewsOf
    <3> QED
      BY <1>3, <3>1, <3>2, FirstUpTo
  <2>2. PICK i \in DOMAIN loop.agents :
          i = First(Candidates) /\ DependenciesSatisfied(loop.agents, loop.agents[i].task)
    BY <2>1 DEF Candidates, ViewsOf
  <2>3. PICK t \in Agents(c) : t = loop.agents[i].task
    BY <1>1, <2>0, <2>2 DEF CopyOK
  <2>4. t \in Task
    BY <1>1, ShownTasks DEF StoreInv, Agents, Live
  <2>5. ClaimQueuedTask(t) /\ records[t].status = "queued"
    BY <1>3, <2>2, <2>3 DEF ClaimQueuedTask
  <2>6. Becomes(t, "running")
    BY <1>1, <2>4, <2>5, UpdateEffect
  <2>7. /\ StoreInv' /\ SameTeams /\ records'[t].status = "running" /\ Live' = Live
        /\ \A u \in Task \ {t} : records'[u].status = records[u].status
        /\ \A u \in Task : Attached(u)' <=> Attached(u)
    BY <2>6 DEF Becomes, SameRecords, Alike, SameTeams, Attached
  <2>8. /\ loop'.at = "schedule" /\ loop'.task = t /\ loop'.todo = loop.todo
        /\ loop'.cur = loop.cur /\ loop'.agents = loop.agents /\ DOMAIN loop' = DOMAIN loop
    BY <1>3, <2>2, <2>3 DEF BackgroundInv, Shapes, AtPoll
  <2>9. worker[t].at = "none"
    BY <2>4, <2>5 DEF BackgroundInv, NothingOrphaned
  <2>10. Shapes' /\ LoopOK' /\ LaunchOK'
    BY <1>1, <2>4, <2>7, <2>8, <2>9 DEF BackgroundInv, Shapes, LoopOK, LaunchOK, Cur, AtPoll
  <2>11. \A d \in Live : \A u \in Agents(d) :
           /\ u \in Task /\ u \in Agents(d)'
           /\ records[u].status = "done" => records'[u].status = "done"
    <3>1. \A d \in Live : \A u \in Agents(d) : u \in Task
      BY <1>1, ShownTasks DEF StoreInv, Agents, Live
    <3> QED
      BY <2>5, <2>7, <3>1 DEF SameTeams
  <2>12. CopyOK'
    <3>1. \A u \in Agents(Cur) : records[u].status = "done" => records'[u].status = "done"
      BY <1>1, <2>11
    <3> QED
      BY <1>1, <2>7, <2>8, <3>1, CopyKept
  <2>13. NothingOrphaned'
    <3> SUFFICES ASSUME NEW u \in Task
                 PROVE  /\ records'[u].status = "running" => worker'[u].at # "none" \/ u = t
                        /\ records'[u].status = "queued" => Attached(u)'
                        /\ worker'[u].at # "none" => records'[u].status = "running"
      BY <2>8 DEF NothingOrphaned
    <3>1. /\ records[u].status = "running" => worker[u].at # "none"
          /\ records[u].status = "queued" => Attached(u)
          /\ worker[u].at # "none" => records[u].status = "running"
      BY <1>1 DEF BackgroundInv, NothingOrphaned
    <3> QED
      BY <1>1, <2>7, <2>9, <3>1
  <2>14. Satisfied(c, t)
    <3> SUFFICES ASSUME NEW k \in graph[t].needs
                 PROVE  \E u \in Agents(c) : graph[u].key = k /\ records[u].status = "done"
      BY DEF Satisfied
    <3>1. PICK j \in ViewsOf(loop.agents, "done") : graph[loop.agents[j].task].key = k
      BY <2>2, <2>3 DEF DependenciesSatisfied
    <3>2. /\ loop.agents[j].task \in Agents(c)
          /\ records[loop.agents[j].task].status = "done"
      BY <1>1, <2>0, <3>1 DEF CopyOK, ViewsOf
    <3> QED
      BY <3>1, <3>2
  <2>15. \A d \in Live : t \in Agents(d) => d = c
    BY <1>1 DEF StoreInv, OwnerConsistent, Agents
  <2>16. StartedAfterDependencies'
    <3>1. \A d \in Live' : \A u \in Agents(d)' :
            \/ records'[u].status = "queued"
            \/ /\ d \in Live /\ u \in Agents(d)
               /\ records[u].status # "queued" \/ Satisfied(d, u)
      <4> SUFFICES ASSUME NEW d \in Live', NEW u \in Agents(d)', records'[u].status # "queued"
                   PROVE  /\ d \in Live /\ u \in Agents(d)
                          /\ records[u].status # "queued" \/ Satisfied(d, u)
        OBVIOUS
      <4>1. d \in Live /\ u \in Agents(d)
        BY <2>7 DEF SameTeams
      <4>2. CASE u = t
        BY <2>14, <2>15, <4>1, <4>2
      <4>3. CASE u # t
        BY <2>7, <2>11, <4>1, <4>3
      <4> QED
        BY <4>1, <4>2, <4>3
    <3> QED
      BY <1>1, <2>11, <3>1, OrderKept DEF BackgroundInv
  <2> QED
    BY <2>7, <2>10, <2>12, <2>13, <2>16 DEF BackgroundInv
<1> QED
  BY <1>2, <1>3 DEF Pick

-----------------------------------------------------------------------------
(* The theorems.                                                           *)

LEMMA BackgroundNextKeeps ==
  ASSUME BackgroundInv, [BackgroundNext]_backgroundVars
  PROVE  BackgroundInv'
<1>1. CASE LoopStep
  BY <1>1, PollListsKeeps, NextCoordinatorKeeps, WakeOverKeeps, WakeEndsKeeps, BeginBatchKeeps,
     PlanChildKeeps, AttachChildKeeps, BeginSingleKeeps, ScheduleSingleKeeps, CountKeeps,
     CopyKeeps, CheckCapsKeeps, PickKeeps, ScheduleChildKeeps DEF LoopStep
<1>2. ASSUME NEW t \in Task, WorkerStep(t) PROVE BackgroundInv'
  BY <1>2, WorkerKeeps
<1>3. CASE UNCHANGED backgroundVars
  <2>1. UNCHANGED <<storeVars, graph, loop, worker>>
    BY <1>3 DEF backgroundVars
  <2>2. StoreInv' /\ SameTeams /\ SameRecords({})
    BY <2>1, TableStutters DEF BackgroundInv
  <2>3. Shapes' /\ LoopOK' /\ LaunchOK'
    BY <2>1, <2>2 DEF BackgroundInv, Shapes, LoopOK, LaunchOK, SameTeams, SameRecords, Alike, storeVars, Cur
  <2>4. CopyOK'
    BY <2>1 DEF BackgroundInv, CopyOK, storeVars, Agents, Cur
  <2>5. NothingOrphaned'
    BY <2>1 DEF BackgroundInv, NothingOrphaned, storeVars, Attached, Live, Agents
  <2>6. StartedAfterDependencies'
    BY <2>1, <2>2, OrderKeptByNone DEF BackgroundInv
  <2> QED
    BY <2>2, <2>3, <2>4, <2>5, <2>6 DEF BackgroundInv
<1> QED
  BY <1>1, <1>2, <1>3 DEF BackgroundNext

\* What the two theorems below need of every state.
THEOREM BackgroundInvariant == BackgroundSpec => []BackgroundInv
<1>1. BackgroundInit => BackgroundInv
  BY BackgroundInitInv
<1>2. BackgroundInv /\ [BackgroundNext]_backgroundVars => BackgroundInv'
  BY BackgroundNextKeeps
<1> QED
  BY <1>1, <1>2, PTL DEF BackgroundSpec

\* No task runs without a worker, no queued one is shown by nobody, and no
\* worker reports on a task that does not run, whatever fails on the way.
THEOREM NobodyOrphaned == BackgroundSpec => []NothingOrphaned
<1>1. BackgroundInv => NothingOrphaned
  BY DEF BackgroundInv
<1> QED
  BY <1>1, BackgroundInvariant, PTL

\* The order of a batch is kept, although the launcher decides on a copy.
THEOREM OrderOfBatches == BackgroundSpec => []StartedAfterDependencies
<1>1. BackgroundInv => StartedAfterDependencies
  BY DEF BackgroundInv
<1> QED
  BY <1>1, BackgroundInvariant, PTL

-----------------------------------------------------------------------------
(* The loop and the workers as a client of the store.                      *)

\* Every coordinator in the table belongs to a chat.
TeamsHaveChats == \A c \in Live : coordinators[c].chat \in Chat

LEMMA TeamsKeepChats ==
  ASSUME StoreInv, TeamsHaveChats, [Next]_storeVars
  PROVE  TeamsHaveChats'
<1>1. ASSUME SameTeams PROVE TeamsHaveChats'
  BY <1>1 DEF SameTeams, TeamsHaveChats
<1>2. ASSUME NEW t \in Task,
             \/ \E c \in Coordinator, implement \in BOOLEAN : Plan(c, t, implement)
             \/ \E implement \in BOOLEAN : Start(t, implement)
             \/ TaskUpdate(t)
      PROVE  TeamsHaveChats'
  <2>1. \E status : Becomes(t, status)
    BY <1>2, NewTaskEffect, UpdateEffect DEF TaskUpdate
  <2> QED
    BY <1>1, <2>1 DEF Becomes
<1>3. ASSUME NEW t \in Task, NEW c \in Coordinator, AttachTask(c, t) PROVE TeamsHaveChats'
  BY <1>3, AttachEffect DEF TeamsHaveChats
<1>4. ASSUME ReadStep PROVE TeamsHaveChats'
  BY <1>1, <1>4, ReadEffect
<1>5. ASSUME slots' = slots, \A d \in Coordinator : coordinators'[d].chat = coordinators[d].chat
      PROVE  TeamsHaveChats'
  BY <1>5 DEF TeamsHaveChats, Live
<1>6. coordinators \in [Coordinator -> CoordinatorRecord]
  BY DEF StoreInv, TypeOK
<1>7. ASSUME NEW c \in Coordinator, MarkStep(c) PROVE TeamsHaveChats'
  <2>1. \E co : SetCoordinator(c, co) /\ co.chat = coordinators[c].chat
    <3>1. coordinators[c] \in CoordinatorRecord
      BY <1>6
    <3>2. CASE MarkCompletionNotified(c)
      BY <3>1, <3>2 DEF MarkCompletionNotified, CoordinatorRecord
    <3>3. CASE MarkParentResumeEnqueued(c)
      BY <3>1, <3>3 DEF MarkParentResumeEnqueued, CoordinatorRecord
    <3>4. ASSUME NEW revision, MarkVisibleRevisionSent(c, revision)
          PROVE  \E co : SetCoordinator(c, co) /\ co.chat = coordinators[c].chat
      BY <3>1, <3>4 DEF MarkVisibleRevisionSent, CoordinatorRecord
    <3>5. ASSUME NEW state, MarkWake(c, state)
          PROVE  \E co : SetCoordinator(c, co) /\ co.chat = coordinators[c].chat
      BY <3>1, <3>5 DEF MarkWake, CoordinatorRecord
    <3> QED
      BY <1>7, <3>2, <3>3, <3>4, <3>5 DEF MarkStep
  <2>2. slots' = slots /\ \A d \in Coordinator : coordinators'[d].chat = coordinators[d].chat
    BY <1>6, <2>1 DEF SetCoordinator
  <2> QED
    BY <1>5, <2>2
<1>8. ASSUME NEW chat \in Chat, MarkParentResponseSent(chat) PROVE TeamsHaveChats'
  <2>1. slots' = slots /\ \A d \in Coordinator : coordinators'[d].chat = coordinators[d].chat
    BY <1>6, <1>8 DEF MarkParentResponseSent, CoordinatorRecord
  <2> QED
    BY <1>5, <2>1
<1>9. ASSUME NEW c \in Coordinator, NEW chat \in Chat,
             StartInFreeSlot(c, chat) \/ StartByReclaim(c, chat)
      PROVE  TeamsHaveChats'
  BY <1>9, BeginEffect DEF TeamsHaveChats
<1>10. CASE UNCHANGED storeVars
  BY <1>5, <1>10 DEF storeVars
<1> QED
  BY <1>2, <1>3, <1>4, <1>7, <1>8, <1>9, <1>10, StepKinds DEF TableStep

\* Every step of the loop and of the workers is an operation of the store,
\* asked for by its rules, or leaves the store alone.
LEMMA StepOfStore ==
  ASSUME BackgroundInv, TeamsHaveChats, [BackgroundNext]_backgroundVars
  PROVE  [Next]_storeVars
<1>1. /\ loop.at \in {"plan", "attach", "copy", "caps"} => Cur \in Live /\ Cur \in Coordinator
      /\ loop.at = "attach" => loop.task \in Task
      /\ loop.at \in {"schedule", "schedule_single"} => loop.task \in Task
  BY DEF BackgroundInv, LoopOK, LaunchOK, Live
<1>2. ASSUME NEW chat \in Chat, NEW batch \in Batch, BeginBatch(chat, batch) PROVE Next
  BY <1>2, FreshIsNew DEF BeginBatch, Next, CoordinatorStep
<1>3. CASE PlanChild
  <2>1. Head(loop.children) \in Child
    BY <1>3, HeadTailProperties DEF PlanChild, BackgroundInv, LoopOK
  <2>2. Head(loop.children).implement \in BOOLEAN
    BY <2>1 DEF Child
  <2> QED
    BY <1>1, <1>3, <2>2, FreshIsNew DEF PlanChild, Next, TaskStep
<1>4. CASE AttachChild
  BY <1>1, <1>4 DEF AttachChild, Next, TaskStep
<1>5. CASE BeginSingle
  BY <1>5, FreshIsNew DEF BeginSingle, Next, TaskStep
<1>6. CASE ScheduleSingle \/ ScheduleChild
  BY <1>1, <1>6 DEF ScheduleSingle, ScheduleChild, Schedule, Next, TaskStep
<1>7. CASE Copy
  BY <1>1, <1>7 DEF Copy, Next, CoordinatorStep
<1>8. CASE CheckCaps
  <2>1. coordinators[Cur].chat \in Chat
    BY <1>1, <1>8 DEF CheckCaps, TeamsHaveChats
  <2> QED
    BY <1>8, <2>1 DEF CheckCaps, Next, CoordinatorStep
<1>9. CASE Pick
  <2>1. \A t : ClaimQueuedTask(t) => t \in Task
    BY ShownTasks DEF ClaimQueuedTask, Attached, BackgroundInv, StoreInv, Agents, Live
  <2> QED
    BY <1>9, <2>1 DEF Pick, Next, TaskStep
<1>10. CASE PollLists \/ NextCoordinator \/ WakeOver \/ Count
  BY <1>10 DEF PollLists, NextCoordinator, WakeOver, Count
<1>11. ASSUME NEW t \in Task, WorkerStep(t) PROVE [Next]_storeVars
  <2>1. \A files \in Reported(t), effective \in Effective :
          files \in FileList /\ effective \in BOOLEAN
    BY StoreAssumption, BackgroundAssumption DEF Reported
  <2>2. TaskUpdate(t) \/ UNCHANGED storeVars
    BY <1>11, <2>1 DEF WorkerStep, PreflightAsks, PreflightRan, PreflightEnds, TurnAsks, TurnEnds,
                       WorkerEnds, TaskUpdate
  <2> QED
    BY <2>2 DEF TaskUpdate, Next, TaskStep
<1>12. ASSUME NEW c \in Coordinator, WakeEnds(c) PROVE Next
  BY <1>12 DEF WakeEnds, Next, CoordinatorStep
<1>13. CASE UNCHANGED backgroundVars
  BY <1>13 DEF backgroundVars
<1> QED
  BY <1>2, <1>3, <1>4, <1>5, <1>6, <1>7, <1>8, <1>9, <1>10, <1>11, <1>12, <1>13
     DEF BackgroundNext, LoopStep

\* The launcher and the workers implement the store's most general client:
\* whatever the loop and the threads do, in whatever order, they keep the
\* calling contract Next states.  They never plan or start an id twice, attach
\* a task to a team it was not planned for, claim or report on a task that is
\* not theirs, or notify a parent of a team that has not ended.
THEOREM TheStoreIsKept == BackgroundSpec => Spec
<1>1. BackgroundInit => Init /\ TeamsHaveChats
  BY StoreAssumption DEF BackgroundInit, Init, TeamsHaveChats, Live
<1>2. BackgroundInv /\ TeamsHaveChats /\ [BackgroundNext]_backgroundVars => [Next]_storeVars
  BY StepOfStore
<1>3. BackgroundInv /\ TeamsHaveChats /\ [Next]_storeVars => TeamsHaveChats'
  BY TeamsKeepChats DEF BackgroundInv
<1> QED
  BY <1>1, <1>2, <1>3, BackgroundInvariant, PTL DEF BackgroundSpec, Spec

\* So what is proved of every client of the store holds of them: a team is
\* dropped only when its tasks have ended, a task that has not keeps the record
\* its worker reports on, and whatever a team newly shows is announced.
THEOREM LaunchedKeepTheirRecords == BackgroundSpec => NoActiveTaskDropped
  BY TheStoreIsKept, ReclaimSafe, PTL

THEOREM LaunchesAreAnnounced == BackgroundSpec => ChangeAnnounced
  BY TheStoreIsKept, ChangesAreAnnounced, PTL

\* Workers that end in any order have their files approved as if one after the
\* other: no two approved lists of a coordinator are nested.
THEOREM ApprovalsStayApart == BackgroundSpec => []ApprovedNotNested
  BY TheStoreIsKept, ApprovalsApart, PTL

-----------------------------------------------------------------------------
(* The limits.                                                             *)

\* LimitsKept counts the tasks that hold a place.
Holds(t) ==
  /\ ViewOf(records[t]) = "running"
  /\ records[t].coordinator # None
  /\ ~worker[t].asked
Held(S) == {t \in S : Holds(t)}
TasksOf(chat) == UNION {Agents(c) : c \in OfChat(chat)}

HeldWithin ==
  /\ Cardinality(Held(Task)) <= limits.all
  /\ \A c \in Live : Cardinality(Held(Agents(c))) <= limits.coordinator
  /\ \A chat \in Chat : Cardinality(Held(TasksOf(chat))) <= limits.parent

LEMMA LimitsAreHeldWithin ==
  (LimitsKept <=> HeldWithin) /\ (LimitsKept' <=> HeldWithin')
BY DEF LimitsKept, HeldWithin, Held, Holds, TasksOf

\* The tables are finite, and a record that is free belongs to nobody.
TableFits ==
  /\ IsFiniteSet(LiveTasks)
  /\ \A t \in Task : records[t].status = "free" => records[t].coordinator = None
  /\ \A c \in Live : Cardinality(Agents(c)) <= AgentsMax

\* A task whose worker has not asked the user yet is not blocked, until its
\* preflight tool has given up.
AskedNothing(t) ==
  ~worker[t].asked /\ worker[t].at \in {"none", "preflight", "preflight_end"}

WorkersOK ==
  \A t \in Task :
    /\ worker[t].at = "none" => ~worker[t].asked
    /\ worker[t].at = "asking" => worker[t].asked
    /\ Active(records[t]) /\ AskedNothing(t) => ~records[t].blocker /\ ~records[t].request

\* The task just started is not among those the launcher counted.
Claimed == IF loop.at = "schedule" THEN {loop.task} ELSE {}

\* What the launcher counted may be too much by now, never too little: nobody
\* but itself starts a task that can hold a place.
BudgetOK ==
  /\ loop.at \in {"copy", "caps", "pick", "schedule"}
       => loop.running \in Nat /\ Cardinality(Held(Task \ Claimed)) <= loop.running
  /\ loop.at = "schedule" => loop.running < limits.all

RoomOK ==
  /\ loop.at = "caps" =>
       Held(Agents(Cur) \ Claimed)
         \subseteq {loop.agents[i].task : i \in ViewsOf(loop.agents, "running")}
  /\ loop.at \in {"pick", "schedule"} =>
       /\ Cardinality(Held(Agents(Cur) \ Claimed)) < limits.coordinator
       /\ Cardinality(Held(TasksOf(coordinators[Cur].chat) \ Claimed)) < limits.parent

LimitsInv ==
  limits \in Limit /\ TableFits /\ WorkersOK /\ BudgetOK /\ RoomOK /\ HeldWithin

LEMMA Fewer ==
  ASSUME NEW S, IsFiniteSet(S), NEW T \in SUBSET S
  PROVE  /\ IsFiniteSet(T) /\ Cardinality(T) <= Cardinality(S)
         /\ Cardinality(T) \in Nat /\ Cardinality(S) \in Nat
BY FS_Subset, FS_CardinalityType

LEMMA OneMore ==
  ASSUME NEW S, IsFiniteSet(S), NEW x, NEW T \in SUBSET (S \cup {x})
  PROVE  /\ Cardinality(T) <= Cardinality(S) + 1
         /\ Cardinality(T) \in Nat /\ Cardinality(S) \in Nat
<1>1. /\ IsFiniteSet(S \cup {x}) /\ Cardinality(S) \in Nat
      /\ Cardinality(S \cup {x}) <= Cardinality(S) + 1
  <2>1. Cardinality(S) \in Nat
    BY FS_CardinalityType
  <2>2. /\ IsFiniteSet(S \cup {x})
        /\ Cardinality(S \cup {x}) = IF x \in S THEN Cardinality(S) ELSE Cardinality(S) + 1
    BY FS_AddElement
  <2> QED
    BY <2>1, <2>2
<1>2. /\ Cardinality(T) <= Cardinality(S \cup {x})
      /\ Cardinality(T) \in Nat /\ Cardinality(S \cup {x}) \in Nat
  BY <1>1, Fewer
<1> QED
  BY <1>1, <1>2

\* A task that holds a place has a record that runs; there are finitely many.
LEMMA HeldIsFinite ==
  ASSUME StoreInv, TableFits
  PROVE  /\ IsFiniteSet(RunningTasks) /\ Held(Task) \subseteq RunningTasks
         /\ IsFiniteSet(Held(Task))
         /\ \A c \in Live : Agents(c) \subseteq Task
         /\ \A chat : TasksOf(chat) \subseteq Task
<1>1. IsFiniteSet(RunningTasks)
  <2>1. RunningTasks \subseteq LiveTasks
    BY DEF RunningTasks, LiveTasks
  <2> QED
    BY <2>1, Fewer DEF TableFits
<1>2. ASSUME NEW t \in Task, Holds(t) PROVE t \in RunningTasks
  <2>1. records[t].status \in TaskStatus
    BY DEF StoreInv, TypeOK, TaskRecord
  <2>2. records[t].status = "running"
    BY <1>2, <2>1 DEF Holds, TableFits, ViewOf, TaskStatus
  <2> QED
    BY <1>2, <2>2 DEF Holds, RunningTasks
<1>3. Held(Task) \subseteq RunningTasks
  BY <1>2 DEF Held
<1>4. \A c \in Live : Agents(c) \subseteq Task
  BY ShownTasks DEF StoreInv, Agents, Live
<1> QED
  BY <1>1, <1>3, <1>4, Fewer DEF TasksOf, OfChat

\* No task takes a place, and none moves to another team or chat.
Calm ==
  /\ \A t \in Task : Holds(t)' => Holds(t)
  /\ \A c \in Live' : \A t \in Agents(c)' :
       Holds(t)' => /\ c \in Live /\ t \in Agents(c)
                    /\ coordinators'[c].chat = coordinators[c].chat

Steady == Calm /\ TableFits' /\ WorkersOK'

LEMMA RecordsFit ==
  ASSUME TableFits, NEW T \in SUBSET Task, IsFiniteSet(T),
         \A u \in Task \ T : Alike(records'[u], records[u]) \/ records'[u] = FreeRecord,
         \A u \in T : records'[u].status # "free",
         \A c \in Live' : \/ c \in Live /\ Agents(c)' = Agents(c)
                          \/ Cardinality(Agents(c)') <= AgentsMax
  PROVE  TableFits'
<1>1. IsFiniteSet(LiveTasks')
  <2>1. LiveTasks' \subseteq LiveTasks \cup T
    BY DEF LiveTasks, Alike, FreeRecord
  <2>2. IsFiniteSet(LiveTasks \cup T)
    BY FS_Union DEF TableFits
  <2> QED
    BY <2>1, <2>2, Fewer
<1>2. \A t \in Task : records'[t].status = "free" => records'[t].coordinator = None
  BY DEF TableFits, Alike, FreeRecord
<1>3. \A c \in Live' : Cardinality(Agents(c)') <= AgentsMax
  BY DEF TableFits
<1> QED
  BY <1>1, <1>2, <1>3 DEF TableFits

LEMMA ViewsAlike ==
  ASSUME NEW r, NEW s, Alike(r, s)
  PROVE  ViewOf(r) = ViewOf(s)
BY DEF Alike, ViewOf

\* A step that leaves the records and the workers alone.
LEMMA StillSteady ==
  ASSUME StoreInv, TableFits, WorkersOK, SameTeams, SameRecords({}), worker' = worker
  PROVE  Steady
<1>1. \A t \in Task : Alike(records'[t], records[t])
  BY DEF SameRecords
<1>2. \A t \in Task : Holds(t)' <=> Holds(t)
  <2> SUFFICES ASSUME NEW t \in Task PROVE Holds(t)' <=> Holds(t)
    OBVIOUS
  <2>1. ViewOf(records'[t]) = ViewOf(records[t])
    BY <1>1, ViewsAlike
  <2>2. records'[t].coordinator = records[t].coordinator
    BY <1>1 DEF Alike
  <2> QED
    BY <2>1, <2>2 DEF Holds
<1>3. Calm
  BY <1>2, HeldIsFinite DEF Calm, SameTeams
<1>4. TableFits'
  BY <1>1, RecordsFit, FS_EmptySet DEF SameTeams
<1>5. WorkersOK'
  BY <1>1 DEF WorkersOK, AskedNothing, Alike, Active
<1> QED
  BY <1>3, <1>4, <1>5 DEF Steady

\* A new task is queued, or of no team.
LEMMA NewSteady ==
  ASSUME StoreInv, TableFits, WorkersOK, NothingOrphaned, NEW t \in Task, NEW status,
         Becomes(t, status), status # "free", records[t].status = "free", worker' = worker,
         ~records'[t].blocker, ~records'[t].request,
         status = "queued" \/ records'[t].coordinator = None
  PROVE  Steady
<1>1. \A u \in Task \ {t} : Alike(records'[u], records[u])
  BY DEF Becomes, SameRecords
<1>2. SameTeams /\ records'[t].status = status
  BY DEF Becomes
<1>3. ~ Holds(t)'
  BY <1>2 DEF Holds, ViewOf
<1>4. \A u \in Task : Holds(u)' => Holds(u)
  <2> SUFFICES ASSUME NEW u \in Task, u # t, Holds(u)' PROVE Holds(u)
    BY <1>3
  <2>1. ViewOf(records'[u]) = ViewOf(records[u])
    BY <1>1, ViewsAlike
  <2>2. records'[u].coordinator = records[u].coordinator
    BY <1>1 DEF Alike
  <2> QED
    BY <2>1, <2>2 DEF Holds
<1>5. Calm
  BY <1>2, <1>4, HeldIsFinite DEF Calm, SameTeams
<1>6. TableFits'
  <2>1. IsFiniteSet({t}) /\ {t} \in SUBSET Task /\ \A u \in {t} : records'[u].status # "free"
    BY <1>2, FS_Singleton
  <2> QED
    BY <1>1, <1>2, <2>1, RecordsFit DEF SameTeams
<1>7. WorkersOK'
  <2>1. \A u \in Task : u # t => Alike(records'[u], records[u])
    BY <1>1
  <2> QED
    BY <2>1 DEF WorkersOK, AskedNothing, Alike, Active
<1> QED
  BY <1>5, <1>6, <1>7 DEF Steady

LEMMA AttachSteady ==
  ASSUME StoreInv, TableFits, WorkersOK, NEW t \in Task, NEW c \in Coordinator, AttachTask(c, t),
         worker' = worker
  PROVE  Steady
<1>1. /\ SameRecords({}) /\ Live' = Live /\ records[t].status = "queued" /\ c \in Live
      /\ \A d \in Live : /\ Agents(d)' = IF d = c THEN Agents(d) \cup {t} ELSE Agents(d)
                         /\ coordinators'[d].chat = coordinators[d].chat
      /\ Len(coordinators[c].agents) < AgentsMax
  BY AttachEffect
<1>2. \A u \in Task : Alike(records'[u], records[u])
  BY <1>1 DEF SameRecords
<1>3. \A u \in Task : Holds(u)' <=> Holds(u)
  <2> SUFFICES ASSUME NEW u \in Task PROVE Holds(u)' <=> Holds(u)
    OBVIOUS
  <2>1. ViewOf(records'[u]) = ViewOf(records[u])
    BY <1>2, ViewsAlike
  <2>2. records'[u].coordinator = records[u].coordinator
    BY <1>2 DEF Alike
  <2> QED
    BY <2>1, <2>2 DEF Holds
<1>4. ~Holds(t)
  BY <1>1 DEF Holds, ViewOf
<1>5. Calm
  BY <1>1, <1>3, <1>4, HeldIsFinite DEF Calm
<1>6. Cardinality(Agents(c)') <= AgentsMax
  <2> DEFINE agents == coordinators[c].agents
             shows == [i \in 1 .. Len(agents) |-> agents[i].task]
  <2>1. Len(agents) \in Nat /\ DOMAIN agents = 1 .. Len(agents)
    BY ShownTasks, LenProperties DEF StoreInv
  <2>2. IsFiniteSet(1 .. Len(agents)) /\ Cardinality(1 .. Len(agents)) = Len(agents)
    BY <2>1, FS_Interval
  <2>3. Agents(c) = {agents[i].task : i \in 1 .. Len(agents)}
    BY <2>1 DEF Agents
  <2> HIDE DEF agents
  <2>4. shows \in Surjection(1 .. Len(agents), Agents(c))
    BY <2>3 DEF Surjection
  <2>5. IsFiniteSet(Agents(c)) /\ Cardinality(Agents(c)) <= Len(agents)
    BY <2>2, <2>4, FS_Surjection
  <2>6. Agents(c)' = Agents(c) \cup {t}
    BY <1>1
  <2>7. /\ Cardinality(Agents(c)') <= Cardinality(Agents(c)) + 1
        /\ Cardinality(Agents(c)') \in Nat /\ Cardinality(Agents(c)) \in Nat
    BY <2>5, <2>6, OneMore
  <2> QED
    BY <1>1, <2>1, <2>5, <2>7, StoreAssumption DEF agents
<1>7. TableFits'
  BY <1>1, <1>2, <1>6, RecordsFit, FS_EmptySet
<1>8. WorkersOK'
  BY <1>2 DEF WorkersOK, AskedNothing, Alike, Active
<1> QED
  BY <1>5, <1>7, <1>8 DEF Steady

LEMMA BeginSteady ==
  ASSUME StoreInv, TableFits, WorkersOK, NEW c \in Coordinator, NEW chat \in Chat,
         StartInFreeSlot(c, chat) \/ StartByReclaim(c, chat), worker' = worker
  PROVE  Steady
<1>1. /\ Agents(c)' = {}
      /\ \A d \in Live' : d # c => /\ d \in Live /\ Agents(d)' = Agents(d)
                                   /\ coordinators'[d].chat = coordinators[d].chat
      /\ \A t \in Task : \/ Alike(records'[t], records[t])
                         \/ Ended(records[t]) /\ records'[t] = FreeRecord
  BY BeginEffect
<1>2. \A u \in Task : Holds(u)' => Holds(u)
  <2> SUFFICES ASSUME NEW u \in Task, Holds(u)' PROVE Holds(u)
    OBVIOUS
  <2>1. records'[u] # FreeRecord
    BY DEF Holds, FreeRecord
  <2>2. Alike(records'[u], records[u])
    BY <1>1, <2>1
  <2>3. ViewOf(records'[u]) = ViewOf(records[u])
    BY <2>2, ViewsAlike
  <2>4. records'[u].coordinator = records[u].coordinator
    BY <2>2 DEF Alike
  <2> QED
    BY <2>3, <2>4 DEF Holds
<1>3. Calm
  BY <1>1, <1>2, HeldIsFinite DEF Calm
<1>4. TableFits'
  <2>1. Cardinality(Agents(c)') <= AgentsMax
    BY <1>1, FS_EmptySet, StoreAssumption
  <2>2. \A d \in Live' : \/ d \in Live /\ Agents(d)' = Agents(d)
                         \/ Cardinality(Agents(d)') <= AgentsMax
    BY <1>1, <2>1
  <2>3. IsFiniteSet({}) /\ {} \in SUBSET Task
    BY FS_EmptySet
  <2>4. \A u \in Task \ {} : Alike(records'[u], records[u]) \/ records'[u] = FreeRecord
    BY <1>1
  <2> QED
    BY <2>2, <2>3, <2>4, RecordsFit
<1>5. WorkersOK'
  <2>1. ~Active(FreeRecord)
    BY DEF Active, FreeRecord
  <2>2. \A t \in Task : Active(records'[t]) => Alike(records'[t], records[t])
    BY <1>1, <2>1
  <2> QED
    BY <2>2 DEF WorkersOK, AskedNothing, Alike, Active
<1> QED
  BY <1>3, <1>4, <1>5 DEF Steady

\* What the reports of a worker leave of the record of its task.
LEMMA ReportEffect ==
  ASSUME StoreInv, NEW t \in Task
  PROVE  /\ ClaimQueuedTask(t) => Alike(records'[t], [records[t] EXCEPT !.status = "running"])
         /\ AppendSession(t) => Alike(records'[t], records[t])
         /\ MarkBlocked(t) => records'[t].blocker
         /\ ClearBlocked(t) => records'[t].coordinator = records[t].coordinator
<1>1. records[t] \in TaskRecord
  BY DEF StoreInv, TypeOK
<1>2. ASSUME TaskUpdate(t), NEW r \in TaskRecord, Write(t, r) PROVE Alike(records'[t], r)
  BY <1>2, TaskUpdateKeeps, WriteEffect
<1>3. ASSUME ClaimQueuedTask(t)
      PROVE  Alike(records'[t], [records[t] EXCEPT !.status = "running"])
  <2>1. [records[t] EXCEPT !.status = "running"] \in TaskRecord
    BY <1>1 DEF TaskRecord, TaskStatus
  <2> QED
    BY <1>2, <1>3, <2>1 DEF ClaimQueuedTask, TaskUpdate
<1>4. ASSUME AppendSession(t) PROVE Alike(records'[t], records[t])
  BY <1>1, <1>2, <1>4 DEF AppendSession, TaskUpdate
<1>5. ASSUME MarkBlocked(t) PROVE records'[t].blocker
  <2> DEFINE r == [records[t] EXCEPT !.status = "running", !.blocker = TRUE]
  <2>1. r \in TaskRecord /\ r.blocker = TRUE
    BY <1>1 DEF TaskRecord, TaskStatus
  <2>2. Write(t, r) /\ TaskUpdate(t)
    BY <1>5 DEF MarkBlocked, TaskUpdate
  <2> HIDE DEF r
  <2>3. Alike(records'[t], r)
    BY <1>2, <2>1, <2>2
  <2>4. records'[t].blocker = r.blocker
    BY <2>3 DEF Alike
  <2> QED
    BY <2>1, <2>4
<1>6. ASSUME ClearBlocked(t) PROVE records'[t].coordinator = records[t].coordinator
  <2> DEFINE r == [records[t] EXCEPT !.blocker = FALSE, !.request = FALSE]
  <2>1. r \in TaskRecord /\ r.coordinator = records[t].coordinator
    BY <1>1 DEF TaskRecord
  <2>2. Write(t, r) /\ TaskUpdate(t)
    BY <1>6 DEF ClearBlocked, TaskUpdate
  <2> HIDE DEF r
  <2>3. Alike(records'[t], r)
    BY <1>2, <2>1, <2>2
  <2> QED
    BY <2>1, <2>3 DEF Alike
<1> QED
  BY <1>3, <1>4, <1>5, <1>6

\* A worker takes a place for its task only where it had one, unless it has
\* asked the user.
LEMMA WorkerHolds ==
  ASSUME BackgroundInv, WorkersOK, NEW t \in Task, WorkerStep(t)
  PROVE  /\ Holds(t)' => Holds(t)
         /\ worker'[t].at = "none" => ~worker'[t].asked
         /\ worker'[t].at = "asking" => worker'[t].asked
         /\ Active(records'[t]) /\ AskedNothing(t)' => ~records'[t].blocker /\ ~records'[t].request
<1> DEFINE Goal == /\ Holds(t)' => Holds(t)
                   /\ worker'[t].at = "none" => ~worker'[t].asked
                   /\ worker'[t].at = "asking" => worker'[t].asked
                   /\ Active(records'[t]) /\ AskedNothing(t)'
                        => ~records'[t].blocker /\ ~records'[t].request
<1>1. /\ StoreInv /\ worker \in [Task -> WorkerState] /\ worker[t] \in WorkerState
      /\ records[t].status = "running" /\ worker[t].at # "none"
      /\ WorkerEffect(t)
  BY WorkerDoes DEF BackgroundInv, Shapes
<1>2. /\ worker[t].at = "asking" => worker[t].asked
      /\ AskedNothing(t) => ~records[t].blocker /\ ~records[t].request
  BY <1>1 DEF WorkersOK, Active
<1>3. ASSUME NEW at, WorkerGoes(t, at)
      PROVE  worker'[t].at = at /\ worker'[t].asked = worker[t].asked
  BY <1>1, <1>3 DEF WorkerGoes, WorkerIs, WorkerState
<1>4. ASSUME Alike(records'[t], records[t]), worker'[t].asked = worker[t].asked
      PROVE  Holds(t)' => Holds(t)
  <2>1. ViewOf(records'[t]) = ViewOf(records[t]) /\ records'[t].coordinator = records[t].coordinator
    BY <1>4, ViewsAlike DEF Alike
  <2> QED
    BY <1>4, <2>1 DEF Holds
<1>5. CASE PreflightAsks(t) \/ TurnAsks(t)
  <2>1. worker'[t].asked /\ worker'[t].at # "none"
    BY <1>1, <1>5 DEF PreflightAsks, TurnAsks, WorkerIs, WorkerState
  <2> QED
    BY <2>1 DEF Holds, AskedNothing
<1>6. CASE PreflightRan(t)
  <2>1. /\ Alike(records'[t], records[t]) /\ worker[t].at \in {"preflight", "asking"}
        /\ worker'[t].at = "preflight_end" /\ worker'[t].asked = worker[t].asked
    BY <1>1, <1>3, <1>6, ReportEffect DEF PreflightRan
  <2>2. AskedNothing(t)' => AskedNothing(t)
    BY <1>2, <2>1 DEF AskedNothing
  <2> QED
    BY <1>2, <1>4, <2>1, <2>2 DEF Alike
<1>7. CASE PreflightEnds(t)
  <2>1. /\ worker[t].at = "preflight_end" /\ worker'[t].at \in {"turn", "fail", "complete"}
        /\ worker'[t].asked = worker[t].asked
        /\ records'[t].coordinator = records[t].coordinator \/ records'[t].blocker
    BY <1>1, <1>3, <1>7, ReportEffect DEF PreflightEnds
  <2>2. ASSUME Holds(t)' PROVE Holds(t)
    <3>1. AskedNothing(t)
      BY <2>1, <2>2 DEF Holds, AskedNothing
    <3>2. ViewOf(records[t]) = "running"
      BY <1>1, <1>2, <3>1 DEF ViewOf
    <3>3. ~records'[t].blocker
      <4>1. records'[t].status \in {"running", "done", "failed"}
        BY <1>1 DEF WorkerEffect
      <4> QED
        BY <2>2, <4>1 DEF Holds, ViewOf
    <3> QED
      BY <2>1, <2>2, <3>2, <3>3 DEF Holds
  <2> QED
    BY <2>1, <2>2 DEF AskedNothing
<1>8. CASE TurnEnds(t)
  <2>1. Alike(records'[t], records[t])
    BY <1>1, <1>8, ReportEffect DEF TurnEnds, storeVars, Alike
  <2>2. worker'[t].at \in {"complete", "fail"} /\ worker'[t].asked = worker[t].asked
    BY <1>3, <1>8 DEF TurnEnds
  <2> QED
    BY <1>4, <2>1, <2>2 DEF AskedNothing
<1>9. CASE WorkerEnds(t)
  <2>1. worker'[t].at = "none" /\ ~worker'[t].asked
    BY <1>1, <1>9 DEF WorkerEnds, WorkerIs, NoWorker
  <2>2. records'[t].status \in {"done", "failed"}
    BY <1>1, <2>1 DEF WorkerEffect
  <2> QED
    BY <2>1, <2>2 DEF Holds, ViewOf, Active
<1> QED
  BY <1>5, <1>6, <1>7, <1>8, <1>9 DEF WorkerStep

LEMMA WorkerSteady ==
  ASSUME BackgroundInv, TableFits, WorkersOK, NEW t \in Task, WorkerStep(t)
  PROVE  Steady
<1>1. /\ StoreInv /\ SameTeams /\ records'[t].status # "free"
      /\ \A u \in Task \ {t} : worker'[u] = worker[u] /\ Alike(records'[u], records[u])
  BY WorkerDoes DEF WorkerEffect, SameRecords, BackgroundInv
<1>2. \A u \in Task : Holds(u)' => Holds(u)
  <2> SUFFICES ASSUME NEW u \in Task, u # t, Holds(u)' PROVE Holds(u)
    BY WorkerHolds
  <2>1. ViewOf(records'[u]) = ViewOf(records[u]) /\ records'[u].coordinator = records[u].coordinator
    BY <1>1, ViewsAlike DEF Alike
  <2> QED
    BY <1>1, <2>1 DEF Holds
<1>3. Calm
  BY <1>1, <1>2, HeldIsFinite DEF Calm, SameTeams
<1>4. TableFits'
  <2>1. IsFiniteSet({t}) /\ {t} \in SUBSET Task /\ \A u \in {t} : records'[u].status # "free"
    BY <1>1, FS_Singleton
  <2> QED
    BY <1>1, <2>1, RecordsFit DEF SameTeams
<1>5. WorkersOK'
  <2> SUFFICES ASSUME NEW u \in Task, u # t
               PROVE  /\ worker'[u].at = "none" => ~worker'[u].asked
                      /\ worker'[u].at = "asking" => worker'[u].asked
                      /\ Active(records'[u]) /\ AskedNothing(u)'
                           => ~records'[u].blocker /\ ~records'[u].request
    BY WorkerHolds DEF WorkersOK, Active
  <2> QED
    BY <1>1 DEF WorkersOK, AskedNothing, Alike, Active
<1> QED
  BY <1>3, <1>4, <1>5 DEF Steady

\* A calm step keeps every count within its limit.
LEMMA CalmKeepsWithin ==
  ASSUME BackgroundInv, LimitsInv, Calm, limits' = limits
  PROVE  HeldWithin'
<1>1. /\ IsFiniteSet(Held(Task))
      /\ \A c \in Live : Agents(c) \subseteq Task
      /\ \A chat : TasksOf(chat) \subseteq Task
  BY HeldIsFinite DEF BackgroundInv, LimitsInv
<1>2. HeldWithin /\ limits.coordinator \in Nat /\ limits.parent \in Nat /\ limits.all \in Nat
  BY DEF LimitsInv, Limit
<1>3. Cardinality(Held(Task)') <= limits.all
  <2>1. Held(Task)' \subseteq Held(Task)
    BY DEF Calm, Held
  <2>2. /\ Cardinality(Held(Task)') <= Cardinality(Held(Task))
        /\ Cardinality(Held(Task)') \in Nat /\ Cardinality(Held(Task)) \in Nat
    BY <1>1, <2>1, Fewer
  <2> QED
    BY <1>2, <2>2 DEF HeldWithin
<1>4. ASSUME NEW c \in Live' PROVE Cardinality(Held(Agents(c))') <= limits.coordinator
  <2>1. CASE c \in Live
    <3>1. IsFiniteSet(Held(Agents(c)))
      <4>1. Held(Agents(c)) \subseteq Held(Task)
        BY <1>1, <2>1 DEF Held
      <4> QED
        BY <1>1, <4>1, Fewer
    <3>2. Held(Agents(c))' \subseteq Held(Agents(c))
      BY <1>1, <2>1 DEF Calm, Held
    <3>3. /\ Cardinality(Held(Agents(c))') <= Cardinality(Held(Agents(c)))
          /\ Cardinality(Held(Agents(c))') \in Nat /\ Cardinality(Held(Agents(c))) \in Nat
      BY <3>1, <3>2, Fewer
    <3> QED
      BY <1>2, <2>1, <3>3 DEF HeldWithin
  <2>2. CASE c \notin Live
    <3>1. Held(Agents(c))' = {}
      BY <2>2 DEF Calm, Held
    <3> QED
      BY <1>2, <3>1, FS_EmptySet
  <2> QED
    BY <2>1, <2>2
<1>5. ASSUME NEW chat \in Chat PROVE Cardinality(Held(TasksOf(chat))') <= limits.parent
  <2>1. Held(TasksOf(chat)) \subseteq Held(Task)
    BY <1>1 DEF Held
  <2>2. Held(TasksOf(chat))' \subseteq Held(TasksOf(chat))
    <3> SUFFICES ASSUME NEW t \in TasksOf(chat)', Holds(t)' PROVE t \in TasksOf(chat) /\ Holds(t)
      BY DEF Held
    <3>1. PICK c \in Live' : t \in Agents(c)' /\ coordinators'[c].chat = chat
      BY DEF TasksOf, OfChat
    <3>2. c \in Live /\ t \in Agents(c) /\ coordinators[c].chat = chat
      BY <3>1 DEF Calm
    <3> QED
      BY <1>1, <3>2 DEF Calm, TasksOf, OfChat
  <2>3. IsFiniteSet(Held(TasksOf(chat)))
    BY <1>1, <2>1, Fewer
  <2>4. /\ Cardinality(Held(TasksOf(chat))') <= Cardinality(Held(TasksOf(chat)))
        /\ Cardinality(Held(TasksOf(chat))') \in Nat /\ Cardinality(Held(TasksOf(chat))) \in Nat
    BY <2>2, <2>3, Fewer
  <2> QED
    BY <1>2, <2>4 DEF HeldWithin
<1> QED
  BY <1>3, <1>4, <1>5 DEF HeldWithin

\* ... and so does the rest if the loop is nowhere in a launch.
LEMMA SteadyAway ==
  ASSUME BackgroundInv, LimitsInv, Steady, limits' = limits,
         loop'.at \notin {"copy", "caps", "pick", "schedule"}
  PROVE  LimitsInv'
BY CalmKeepsWithin DEF LimitsInv, Steady, BudgetOK, RoomOK

\* A launch that goes on counts no task it did not count before, but the one
\* it claims.
LEMMA BudgetGoesOn ==
  ASSUME BackgroundInv, LimitsInv,
         loop.at \in {"copy", "caps", "pick", "schedule"}, loop'.running = loop.running,
         loop'.at = "schedule" => loop'.running < limits'.all,
         \A t \in Task : Holds(t)' => t \in Claimed' \/ (Holds(t) /\ t \notin Claimed)
  PROVE  BudgetOK'
<1>1. PICK T : T = Claimed
  OBVIOUS
<1>2. PICK U : U = Claimed'
  OBVIOUS
<1>3. Held(Task \ U)' \subseteq Held(Task \ T) /\ Held(Task \ T) \subseteq Held(Task)
  BY <1>1, <1>2 DEF Held
<1>4. IsFiniteSet(Held(Task \ T))
  BY <1>3, HeldIsFinite, Fewer DEF BackgroundInv, LimitsInv
<1>5. /\ Cardinality(Held(Task \ U)') <= Cardinality(Held(Task \ T))
      /\ Cardinality(Held(Task \ U)') \in Nat /\ Cardinality(Held(Task \ T)) \in Nat
  BY <1>3, <1>4, Fewer
<1>6. Cardinality(Held(Task \ T)) <= loop.running /\ loop.running \in Nat
  BY <1>1 DEF LimitsInv, BudgetOK
<1>7. Cardinality(Held(Task \ U)') <= loop'.running /\ loop'.running \in Nat
  BY <1>5, <1>6
<1> QED
  BY <1>2, <1>7 DEF BudgetOK

LEMMA RoomGoesOn ==
  ASSUME BackgroundInv, LimitsInv, SameTeams, limits' = limits,
         loop.at \in {"copy", "caps", "pick", "schedule"}, loop'.cur = loop.cur,
         loop'.at \in {"pick", "schedule"} => loop.at \in {"pick", "schedule"},
         loop'.at = "caps" => loop.at = "caps" /\ loop'.agents = loop.agents,
         \A t \in Task : Holds(t)' => t \in Claimed' \/ (Holds(t) /\ t \notin Claimed)
  PROVE  RoomOK'
<1>1. PICK c \in Live : c = Cur
  BY DEF BackgroundInv, LoopOK
<1>2. PICK T : T = Claimed
  OBVIOUS
<1>3. PICK U : U = Claimed'
  OBVIOUS
<1>4. PICK chat : chat = coordinators[c].chat
  OBVIOUS
<1>5. /\ Cur' = c /\ c \in Live' /\ Agents(c)' = Agents(c) /\ coordinators'[c].chat = chat
      /\ TasksOf(chat)' = TasksOf(chat)
  BY <1>1, <1>4 DEF SameTeams, TasksOf, OfChat, Cur
<1>6. Agents(c) \subseteq Task /\ TasksOf(chat) \subseteq Task /\ IsFiniteSet(Held(Task))
  BY HeldIsFinite DEF BackgroundInv, LimitsInv
<1>7. /\ Held(Agents(c) \ U)' \subseteq Held(Agents(c) \ T)
      /\ Held(TasksOf(chat) \ U)' \subseteq Held(TasksOf(chat) \ T)
  BY <1>2, <1>3, <1>5, <1>6 DEF Held
<1>8. CASE loop'.at = "caps"
  <2>1. Held(Agents(c) \ T) \subseteq
          {loop.agents[i].task : i \in ViewsOf(loop.agents, "running")}
    BY <1>1, <1>2, <1>8 DEF LimitsInv, RoomOK
  <2>2. Held(Agents(c) \ U)' \subseteq
          {loop'.agents[i].task : i \in ViewsOf(loop'.agents, "running")}
    BY <1>7, <1>8, <2>1
  <2> QED
    BY <1>3, <1>5, <1>8, <2>2 DEF RoomOK
<1>9. CASE loop'.at \in {"pick", "schedule"}
  <2>1. /\ Cardinality(Held(Agents(c) \ T)) < limits.coordinator
        /\ Cardinality(Held(TasksOf(chat) \ T)) < limits.parent
        /\ limits.coordinator \in Nat /\ limits.parent \in Nat
    BY <1>1, <1>2, <1>4, <1>9 DEF LimitsInv, RoomOK, Limit
  <2>2. IsFiniteSet(Held(Agents(c) \ T)) /\ IsFiniteSet(Held(TasksOf(chat) \ T))
    <3>1. Held(Agents(c) \ T) \subseteq Held(Task) /\ Held(TasksOf(chat) \ T) \subseteq Held(Task)
      BY <1>6 DEF Held
    <3> QED
      BY <1>6, <3>1, Fewer
  <2>3. /\ Cardinality(Held(Agents(c) \ U)') <= Cardinality(Held(Agents(c) \ T))
        /\ Cardinality(Held(Agents(c) \ U)') \in Nat /\ Cardinality(Held(Agents(c) \ T)) \in Nat
    BY <1>7, <2>2, Fewer
  <2>4. /\ Cardinality(Held(TasksOf(chat) \ U)') <= Cardinality(Held(TasksOf(chat) \ T))
        /\ Cardinality(Held(TasksOf(chat) \ U)') \in Nat
        /\ Cardinality(Held(TasksOf(chat) \ T)) \in Nat
    BY <1>7, <2>2, Fewer
  <2>5. /\ Cardinality(Held(Agents(c) \ U)') < limits.coordinator
        /\ Cardinality(Held(TasksOf(chat) \ U)') < limits.parent
    BY <2>1, <2>3, <2>4
  <2> QED
    BY <1>3, <1>5, <1>9, <2>5 DEF RoomOK
<1> QED
  BY <1>8, <1>9 DEF RoomOK

LEMMA SteadyHere ==
  ASSUME BackgroundInv, LimitsInv, Steady, SameTeams, limits' = limits, loop' = loop
  PROVE  LimitsInv'
<1>1. CASE loop.at \notin {"copy", "caps", "pick", "schedule"}
  BY <1>1, SteadyAway
<1>2. CASE loop.at \in {"copy", "caps", "pick", "schedule"}
  <2>1. Claimed' = Claimed
    BY DEF Claimed
  <2>2. BudgetOK' /\ RoomOK'
    <3>1. loop.at = "schedule" => loop.running < limits.all
      BY DEF LimitsInv, BudgetOK
    <3>2. \A t \in Task : Holds(t)' => t \in Claimed' \/ (Holds(t) /\ t \notin Claimed)
      BY <2>1 DEF Steady, Calm
    <3> QED
      BY <1>2, <3>1, <3>2, BudgetGoesOn, RoomGoesOn
  <2> QED
    BY <2>2, CalmKeepsWithin DEF LimitsInv, Steady
<1> QED
  BY <1>1, <1>2

\* The loop starts a worker for the task it has claimed, or fails the task.
LEMMA ScheduleSteady ==
  ASSUME BackgroundInv, TableFits, WorkersOK, loop.at \in {"schedule", "schedule_single"},
         NEW then, Schedule(loop.task, then)
  PROVE  /\ Steady
         /\ \/ loop' = then
            \/ /\ SameTeams /\ \A t \in Task : t = loop.task => ~Holds(t)'
               /\ loop' = [loop EXCEPT !.at = IF loop.at = "schedule" THEN "pick" ELSE "poll",
                             !.task = None, !.i = IF loop.at = "schedule" THEN @ + 1 ELSE 1]
<1>0. PICK t \in Task : t = loop.task
  BY DEF BackgroundInv, LaunchOK
<1>1. /\ StoreInv /\ records[t].status = "running" /\ worker[t].at = "none"
      /\ ~worker[t].asked /\ worker \in [Task -> WorkerState]
  BY <1>0 DEF BackgroundInv, LaunchOK, Shapes, WorkersOK
<1>2. ASSUME NEW at \in {"preflight", "turn"},
             worker' = [worker EXCEPT ![t] = [NoWorker EXCEPT !.at = at]], UNCHANGED storeVars
      PROVE  Steady
  <2>1. /\ SameTeams /\ SameRecords({}) /\ \A u \in Task : records'[u] = records[u]
    BY <1>1, <1>2, TableStutters DEF storeVars
  <2>2. worker'[t] = [at |-> at, asked |-> FALSE] /\ \A u \in Task \ {t} : worker'[u] = worker[u]
    BY <1>1, <1>2 DEF NoWorker
  <2>3. \A u \in Task : Holds(u)' => Holds(u)
    BY <1>1, <2>1, <2>2 DEF Holds
  <2>4. Calm
    BY <1>1, <2>1, <2>3, HeldIsFinite DEF Calm, SameTeams
  <2>5. TableFits'
    BY <2>1, RecordsFit, FS_EmptySet DEF SameTeams, SameRecords
  <2>6. WorkersOK'
    <3>1. AskedNothing(t) /\ ~records'[t].blocker /\ ~records'[t].request
      BY <1>1, <2>1 DEF WorkersOK, AskedNothing, Active
    <3> QED
      BY <2>1, <2>2, <3>1 DEF WorkersOK, AskedNothing, Active
  <2> QED
    BY <2>4, <2>5, <2>6 DEF Steady
<1>3. ASSUME Fail(t), UNCHANGED worker PROVE Steady /\ SameTeams /\ ~Holds(t)'
  <2>1. Becomes(t, "failed")
    BY <1>1, <1>3, UpdateEffect
  <2>2. /\ SameTeams /\ records'[t].status = "failed"
        /\ \A u \in Task : u # t => Alike(records'[u], records[u])
    BY <2>1 DEF Becomes, SameRecords
  <2>3. ~Holds(t)'
    BY <2>2 DEF Holds, ViewOf
  <2>4. \A u \in Task : Holds(u)' => Holds(u)
    <3> SUFFICES ASSUME NEW u \in Task, u # t, Holds(u)' PROVE Holds(u)
      BY <2>3
    <3>1. ViewOf(records'[u]) = ViewOf(records[u]) /\ records'[u].coordinator = records[u].coordinator
      BY <2>2, ViewsAlike DEF Alike
    <3> QED
      BY <1>3, <3>1 DEF Holds
  <2>5. Calm
    BY <1>1, <2>2, <2>4, HeldIsFinite DEF Calm, SameTeams
  <2>6. TableFits'
    <3>1. IsFiniteSet({t}) /\ {t} \in SUBSET Task /\ \A u \in {t} : records'[u].status # "free"
      BY <1>1, <2>2, FS_Singleton
    <3> QED
      BY <2>2, <3>1, RecordsFit DEF SameTeams
  <2>7. WorkersOK'
    BY <1>3, <2>2 DEF WorkersOK, AskedNothing, Alike, Active
  <2> QED
    BY <2>2, <2>3, <2>5, <2>6, <2>7 DEF Steady
<1> QED
  BY <1>0, <1>2, <1>3 DEF Schedule

\* The steps that leave the loop outside of a launch.
LEMMA AwayLimits ==
  ASSUME BackgroundInv, LimitsInv
  PROVE  /\ PollLists \/ WakeOver \/ (NextCoordinator /\ loop.todo = {}) => LimitsInv'
         /\ \A chat \in Chat, batch \in Batch : BeginBatch(chat, batch) => LimitsInv'
         /\ PlanChild \/ AttachChild \/ BeginSingle \/ ScheduleSingle => LimitsInv'
<1>0. "at" \in DOMAIN loop /\ AtPoll.at = "poll"
  BY DEF BackgroundInv, Shapes, AtPoll
<1>1. StoreInv /\ TableFits /\ WorkersOK /\ NothingOrphaned
  BY DEF BackgroundInv, LimitsInv
<1>2. CASE PollLists \/ WakeOver \/ (NextCoordinator /\ loop.todo = {})
  <2>1. UNCHANGED storeVars /\ worker' = worker /\ limits' = limits
    BY <1>2 DEF PollLists, WakeOver, NextCoordinator
  <2>2. loop'.at \in {"next", "message", "wake"}
    <3>1. CASE WakeOver
      BY <3>1 DEF WakeOver, Goto, BackgroundInv, Shapes, AtPoll
    <3> QED
      BY <1>2, <3>1 DEF PollLists, NextCoordinator, AtPoll
  <2>3. Steady
    BY <1>1, <2>1, TableStutters, StillSteady
  <2> QED
    BY <2>1, <2>2, <2>3, SteadyAway
<1>3. ASSUME NEW chat \in Chat, NEW batch \in Batch, BeginBatch(chat, batch) PROVE LimitsInv'
  <2>1. worker' = worker /\ limits' = limits /\ loop.at = "message"
    BY <1>3 DEF BeginBatch
  <2>2. loop'.at \in {"plan", "poll"}
    BY <1>0, <1>3 DEF BeginBatch
  <2>3. CASE StartRefused
    <3>1. SameTeams /\ SameRecords({})
      BY <1>1, <2>3, ReadEffect DEF ReadStep
    <3> QED
      BY <1>1, <2>1, <2>2, <3>1, StillSteady, SteadyAway
  <2>4. CASE \/ StartInFreeSlot(FreshCoordinator, chat) \/ StartByReclaim(FreshCoordinator, chat)
    <3>1. FreshCoordinator \in Coordinator
      BY <1>3, FreshIsNew DEF BeginBatch
    <3>2. Steady
      BY <1>1, <2>1, <2>4, <3>1, BeginSteady
    <3> QED
      BY <2>1, <2>2, <3>2, SteadyAway
  <2> QED
    BY <1>3, <2>3, <2>4 DEF BeginBatch
<1>4. CASE PlanChild
  <2>1. worker' = worker /\ limits' = limits /\ loop'.at \in {"attach", "poll"}
    BY <1>0, <1>4 DEF PlanChild
  <2>2. CASE UNCHANGED storeVars
    BY <1>1, <2>1, <2>2, TableStutters, StillSteady, SteadyAway
  <2>3. CASE Plan(Cur, FreshTask, Head(loop.children).implement)
    <3> DEFINE implement == Head(loop.children).implement
    <3>1. Head(loop.children) \in Child /\ Cur \in Coordinator
      BY <1>4, HeadTailProperties DEF PlanChild, BackgroundInv, LoopOK, Live
    <3>2. implement \in BOOLEAN
      BY <3>1 DEF Child
    <3>3. FreshTask \in Task /\ FreshTask \notin spent
      BY <1>4, FreshIsNew DEF PlanChild
    <3> HIDE DEF implement
    <3>4. /\ Becomes(FreshTask, "queued") /\ records[FreshTask].status = "free"
          /\ Alike(records'[FreshTask], NewRecord("queued", Cur, implement))
      BY <1>1, <2>3, <3>1, <3>2, <3>3, NewTaskEffect DEF implement
    <3>5. ~records'[FreshTask].blocker /\ ~records'[FreshTask].request
      BY <3>4 DEF Alike, NewRecord, FreeRecord
    <3>6. Steady
      BY <1>1, <2>1, <3>3, <3>4, <3>5, NewSteady
    <3> QED
      BY <2>1, <3>6, SteadyAway
  <2> QED
    BY <1>4, <2>2, <2>3 DEF PlanChild
<1>5. CASE AttachChild
  <2>1. /\ worker' = worker /\ limits' = limits /\ loop'.at \in {"count", "plan"}
        /\ Cur \in Coordinator /\ loop.task \in Task /\ AttachTask(Cur, loop.task)
    BY <1>5 DEF AttachChild, BackgroundInv, Shapes, AtPoll, LoopOK, Live
  <2> QED
    BY <1>1, <2>1, AttachSteady, SteadyAway
<1>6. CASE BeginSingle
  <2>1. /\ worker' = worker /\ limits' = limits /\ loop'.at = "schedule_single"
        /\ Start(FreshTask, FALSE)
    BY <1>6 DEF BeginSingle, BackgroundInv, Shapes, AtPoll
  <2>2. FreshTask \in Task /\ FreshTask \notin spent
    BY <1>6, FreshIsNew DEF BeginSingle
  <2>3. /\ Becomes(FreshTask, "running") /\ records[FreshTask].status = "free"
        /\ records'[FreshTask] = NewRecord("running", None, FALSE)
    BY <1>1, <2>1, <2>2, NewTaskEffect
  <2>4. /\ ~records'[FreshTask].blocker /\ ~records'[FreshTask].request
        /\ records'[FreshTask].coordinator = None
    BY <2>3 DEF NewRecord, FreeRecord
  <2>5. Steady
    BY <1>1, <2>1, <2>2, <2>3, <2>4, NewSteady
  <2> QED
    BY <2>1, <2>5, SteadyAway
<1>7. CASE ScheduleSingle
  <2>1. /\ Schedule(loop.task, AtPoll) /\ limits' = limits /\ loop.at = "schedule_single"
    BY <1>7 DEF ScheduleSingle
  <2>2. Steady
    BY <1>1, <2>1, ScheduleSteady
  <2>3. loop'.at = "poll"
    BY <1>0, <2>1 DEF Schedule
  <2> QED
    BY <2>1, <2>2, <2>3, SteadyAway
<1> QED
  BY <1>2, <1>3, <1>4, <1>5, <1>6, <1>7

-----------------------------------------------------------------------------
(* The launch itself.                                                      *)

\* Whoever holds a place is shown running, among the first AgentsMax views.
HeldShown ==
  \A c \in Live : \A t \in Agents(c) : Holds(t) =>
    \E i \in ViewsOf(coordinators[c].agents, "running") :
      i \in 1 .. AgentsMax /\ coordinators[c].agents[i].task = t

LEMMA HeldAreShown == StoreInv /\ TableFits => HeldShown
<1> SUFFICES ASSUME StoreInv, TableFits, NEW c \in Live, NEW t \in Agents(c), Holds(t)
             PROVE  \E i \in ViewsOf(coordinators[c].agents, "running") :
                      i \in 1 .. AgentsMax /\ coordinators[c].agents[i].task = t
  BY DEF HeldShown
<1> DEFINE agents == coordinators[c].agents
<1>1. /\ coordinators[c] \in CoordinatorRecord /\ records \in [Task -> TaskRecord]
      /\ agents \in Seq(AgentView)
  BY ShownTasks DEF StoreInv, TypeOK, Live
<1>2. Len(agents) \in Nat /\ DOMAIN agents = 1 .. Len(agents)
  BY <1>1, LenProperties
<1>3. PICK i \in DOMAIN agents : agents[i].task = t
  BY DEF Agents
<1>4. \A j, k \in DOMAIN agents : agents[j].task = agents[k].task => j = k
  BY DEF StoreInv, OwnerConsistent
<1>5. coordinators[c] = Projected(records, coordinators[c])
  BY <1>2, <1>3 DEF StoreInv, ProjectionCurrent
<1>6. records[t].status # "free"
  BY <1>3 DEF StoreInv, OwnerConsistent
<1>7. agents[i].view = "running"
  BY <1>1, <1>3, <1>5, <1>6, ProjectedView DEF Holds
<1>8. Len(agents) <= AgentsMax
  <2> DEFINE shows == [j \in 1 .. Len(agents) |-> agents[j].task]
  <2>1. Agents(c) = {agents[j].task : j \in 1 .. Len(agents)}
    BY <1>2 DEF Agents
  <2>2. IsFiniteSet(1 .. Len(agents)) /\ Cardinality(1 .. Len(agents)) = Len(agents)
    BY <1>2, FS_Interval
  <2> HIDE DEF agents
  <2>3. shows \in Bijection(1 .. Len(agents), Agents(c))
    BY <1>2, <1>4, <2>1 DEF Bijection, Injection, Surjection, IsInjective
  <2>4. Cardinality(Agents(c)) = Len(agents)
    BY <2>2, <2>3, FS_Bijection DEF ExistsBijection
  <2> QED
    BY <2>4 DEF TableFits
<1>9. i \in 1 .. AgentsMax
  BY <1>2, <1>3, <1>8, StoreAssumption
<1> QED
  BY <1>3, <1>7, <1>9 DEF ViewsOf

LEMMA HeldAreShownNext == StoreInv' /\ TableFits' => HeldShown'
BY HeldAreShown, PTL

\* The launcher counts all that run.
LEMMA CountLimits ==
  ASSUME BackgroundInv, LimitsInv, Count \/ (NextCoordinator /\ loop.todo # {})
  PROVE  LimitsInv'
<1>1. /\ UNCHANGED storeVars /\ worker' = worker /\ limits' = limits
      /\ loop'.at = "copy" /\ loop'.running = Cardinality(RunningTasks)
  BY DEF Count, NextCoordinator, BackgroundInv, Shapes, AtPoll
<1>2. Steady
  BY <1>1, TableStutters, StillSteady DEF BackgroundInv, LimitsInv
<1>3. BudgetOK'
  <2>1. /\ IsFiniteSet(RunningTasks) /\ Held(Task) \subseteq RunningTasks
    BY HeldIsFinite DEF BackgroundInv, LimitsInv
  <2>2. Held(Task)' \subseteq RunningTasks
    BY <1>2, <2>1 DEF Steady, Calm, Held
  <2>3. Cardinality(Held(Task)') <= loop'.running /\ loop'.running \in Nat
    BY <1>1, <2>1, <2>2, Fewer
  <2>4. Claimed' = {} /\ Held(Task \ {})' = Held(Task)'
    BY <1>1 DEF Claimed, Held
  <2> QED
    BY <1>1, <2>3, <2>4 DEF BudgetOK
<1>4. RoomOK'
  BY <1>1 DEF RoomOK
<1> QED
  BY <1>1, <1>2, <1>3, <1>4, CalmKeepsWithin DEF LimitsInv, Steady

\* It copies a coordinator that shows who holds a place.
LEMMA CopyLimits ==
  ASSUME BackgroundInv, LimitsInv, Copy
  PROVE  LimitsInv'
<1>1. /\ ReadStep /\ worker' = worker /\ limits' = limits /\ loop.at = "copy"
      /\ loop'.at = "caps" /\ loop'.agents = coordinators'[loop.cur].agents
      /\ loop'.running = loop.running /\ loop'.cur = loop.cur
  BY DEF Copy, SnapshotCoordinator, ReadStep, BackgroundInv, Shapes, AtPoll, LoopOK, Live, Cur
<1>2. StoreInv' /\ SameTeams /\ Steady
  BY <1>1, ReadEffect, StillSteady DEF BackgroundInv, LimitsInv
<1>3. Claimed' = {} /\ Claimed = {}
  BY <1>1 DEF Claimed
<1>4. BudgetOK'
  BY <1>1, <1>2, <1>3, BudgetGoesOn DEF Steady, Calm
<1>5. RoomOK'
  <2>1. PICK c \in Live' : c = loop'.cur
    BY <1>1, <1>2 DEF BackgroundInv, LoopOK, Cur, SameTeams
  <2>2. ASSUME NEW t \in Agents(c)', Holds(t)'
        PROVE  t \in {loop'.agents[i].task : i \in ViewsOf(loop'.agents, "running")}
    <3>1. \E i \in ViewsOf(coordinators'[c].agents, "running") : coordinators'[c].agents[i].task = t
      BY <1>2, <2>2, HeldAreShownNext DEF Steady, HeldShown
    <3> QED
      BY <1>1, <2>1, <3>1
  <2> QED
    BY <1>1, <1>3, <2>1, <2>2 DEF RoomOK, Held, Cur
<1> QED
  BY <1>1, <1>2, <1>4, <1>5, CalmKeepsWithin DEF LimitsInv, Steady

\* The views its caps count are at least as many as those who hold a place.
LEMMA RunningShown ==
  ASSUME NEW agents \in Seq(AgentView), NEW S \in SUBSET Task,
         S \subseteq {agents[i].task : i \in ViewsOf(agents, "running")}
  PROVE  /\ Cardinality(S) <= Cardinality(ViewsOf(agents, "running"))
         /\ Cardinality(S) \in Nat /\ Cardinality(ViewsOf(agents, "running")) \in Nat
<1> DEFINE views == ViewsOf(agents, "running")
           shown == {agents[i].task : i \in views}
           f == [i \in views |-> agents[i].task]
<1>1. IsFiniteSet(views)
  <2>1. Len(agents) \in Nat /\ views \subseteq 1 .. Len(agents)
    BY LenProperties DEF ViewsOf
  <2>2. IsFiniteSet(1 .. Len(agents))
    BY <2>1, FS_Interval
  <2> QED
    BY <2>1, <2>2, Fewer
<1> HIDE DEF views
<1>2. f \in Surjection(views, shown)
  BY DEF Surjection
<1>3. IsFiniteSet(shown) /\ Cardinality(shown) <= Cardinality(views)
  BY <1>1, <1>2, FS_Surjection
<1>4. /\ Cardinality(S) <= Cardinality(shown)
      /\ Cardinality(S) \in Nat /\ Cardinality(shown) \in Nat
  <2>1. S \in SUBSET shown
    BY DEF views
  <2> HIDE DEF shown
  <2> QED
    BY <1>3, <2>1, Fewer
<1>5. Cardinality(views) \in Nat
  BY <1>1, FS_CardinalityType
<1> QED
  BY <1>3, <1>4, <1>5 DEF views

LEMMA CapsLimits ==
  ASSUME BackgroundInv, LimitsInv, CheckCaps
  PROVE  LimitsInv'
<1>1. PICK c \in Live : c = Cur
  BY DEF CheckCaps, BackgroundInv, LoopOK
<1>2. PICK chat : chat = coordinators[c].chat
  OBVIOUS
<1>3. /\ ReadStep /\ worker' = worker /\ limits' = limits /\ loop.at = "caps"
  BY DEF CheckCaps, SnapshotParent, ReadStep, OfChat, Live
<1>4. StoreInv' /\ SameTeams /\ Steady
  BY <1>3, ReadEffect, StillSteady DEF BackgroundInv, LimitsInv
<1>5. CASE loop' = Launched
  <2>1. loop'.at \notin {"copy", "caps", "pick", "schedule"}
    BY <1>5 DEF Launched, AtPoll
  <2> QED
    BY <1>3, <1>4, <2>1, SteadyAway
<1>6. CASE /\ ~(Cardinality(RunningOf(chat)) >= limits.parent)
           /\ ~(Cardinality(ViewsOf(loop.agents, "running")) >= limits.coordinator)
           /\ Goto("pick")
  <2>1. /\ loop'.at = "pick" /\ loop'.cur = loop.cur /\ loop'.running = loop.running
    BY <1>6 DEF Goto, BackgroundInv, Shapes, AtPoll
  <2>2. Claimed' = {} /\ Claimed = {} /\ Cur' = c
    BY <1>1, <1>3, <2>1 DEF Claimed, Cur
  <2>3. limits.coordinator \in Nat /\ limits.parent \in Nat
    BY DEF LimitsInv, Limit
  <2>4. BudgetOK'
    BY <1>3, <1>4, <2>1, <2>2, BudgetGoesOn DEF Steady, Calm
  <2>5. Cardinality(Held(Agents(c))') < limits.coordinator
    <3>1. /\ Held(Agents(c)) \subseteq {loop.agents[i].task : i \in ViewsOf(loop.agents, "running")}
          /\ loop.agents \in Seq(AgentView)
      BY <1>1, <1>3, <2>2 DEF LimitsInv, RoomOK, Held, BackgroundInv, CopyOK
    <3>2. Held(Agents(c))' \subseteq Held(Agents(c)) /\ Agents(c) \subseteq Task
      BY <1>4, HeldIsFinite DEF Steady, Calm, SameTeams, Held, BackgroundInv, LimitsInv
    <3>3. Held(Agents(c))' \in SUBSET Task
      BY <3>2 DEF Held
    <3>4. /\ Cardinality(Held(Agents(c))') <= Cardinality(ViewsOf(loop.agents, "running"))
          /\ Cardinality(Held(Agents(c))') \in Nat
          /\ Cardinality(ViewsOf(loop.agents, "running")) \in Nat
      BY <3>1, <3>2, <3>3, RunningShown
    <3> QED
      BY <1>6, <2>3, <3>4
  <2>6. Cardinality(Held(TasksOf(chat))') < limits.parent
    <3> DEFINE shows(p) == coordinators'[p[1]].agents[p[2]].task
               shown == {shows(p) : p \in RunningOf(chat)}
               f == [p \in RunningOf(chat) |-> shows(p)]
    <3>1. IsFiniteSet(RunningOf(chat))
      <4>1. IsFiniteSet(OfChat(chat)) /\ IsFiniteSet(1 .. AgentsMax)
        BY OfChatFinite, FS_Interval, StoreAssumption DEF BackgroundInv, StoreInv
      <4>2. IsFiniteSet(OfChat(chat) \X (1 .. AgentsMax))
        BY <4>1, FS_Product
      <4>3. RunningOf(chat) \subseteq OfChat(chat) \X (1 .. AgentsMax)
        BY DEF RunningOf
      <4> QED
        BY <4>2, <4>3, Fewer
    <3>2. f \in Surjection(RunningOf(chat), shown)
      BY DEF Surjection
    <3>3. IsFiniteSet(shown) /\ Cardinality(shown) <= Cardinality(RunningOf(chat))
      BY <3>1, <3>2, FS_Surjection
    <3>4. Held(TasksOf(chat))' \subseteq shown
      <4> SUFFICES ASSUME NEW t, t \in TasksOf(chat)', Holds(t)' PROVE t \in shown
        BY DEF Held
      <4>1. PICK d \in Live' : coordinators'[d].chat = chat /\ t \in Agents(d)'
        BY DEF TasksOf, OfChat
      <4>2. d \in OfChat(chat)
        BY <1>4, <4>1 DEF SameTeams, OfChat
      <4>3. PICK i \in ViewsOf(coordinators'[d].agents, "running") :
              i \in 1 .. AgentsMax /\ coordinators'[d].agents[i].task = t
        BY <1>4, <4>1, HeldAreShownNext DEF Steady, HeldShown
      <4>4. <<d, i>> \in RunningOf(chat) /\ shows(<<d, i>>) = t
        BY <4>2, <4>3 DEF RunningOf
      <4> QED
        BY <4>4
    <3> HIDE DEF shown
    <3>5. /\ Cardinality(Held(TasksOf(chat))') <= Cardinality(shown)
          /\ Cardinality(Held(TasksOf(chat))') \in Nat /\ Cardinality(shown) \in Nat
      BY <3>3, <3>4, Fewer
    <3>6. Cardinality(RunningOf(chat)) \in Nat
      BY <3>1, FS_CardinalityType
    <3> QED
      BY <1>6, <2>3, <3>3, <3>5, <3>6
  <2>7. RoomOK'
    <3>1. /\ Held(Agents(c) \ {})' = Held(Agents(c))'
          /\ Held(TasksOf(chat) \ {})' = Held(TasksOf(chat))'
      BY DEF Held
    <3>2. coordinators'[c].chat = chat
      BY <1>2, <1>4 DEF SameTeams
    <3> QED
      BY <1>3, <2>1, <2>2, <2>5, <2>6, <3>1, <3>2 DEF RoomOK
  <2> QED
    BY <1>3, <1>4, <2>4, <2>7, CalmKeepsWithin DEF LimitsInv, Steady
<1> QED
  BY <1>1, <1>2, <1>5, <1>6 DEF CheckCaps

\* A claim takes the place the launcher found free.
LEMMA ClaimLimits ==
  ASSUME BackgroundInv, LimitsInv, loop.at = "pick", NEW i \in DOMAIN loop.agents,
         ClaimQueuedTask(loop.agents[i].task), loop.running < limits.all,
         loop' = [loop EXCEPT !.at = "schedule", !.task = loop.agents[i].task, !.i = i],
         UNCHANGED <<limits, worker>>
  PROVE  LimitsInv'
<1>1. PICK c \in Live : c = Cur
  BY DEF BackgroundInv, LoopOK
<1>2. PICK t : t = loop.agents[i].task
  OBVIOUS
<1>3. t \in Agents(c)
  BY <1>1, <1>2 DEF BackgroundInv, CopyOK
<1>4. /\ t \in Task /\ \A d \in Live : t \in Agents(d) => d = c
      /\ records[t].status = "queued" /\ ClaimQueuedTask(t)
  BY <1>2, <1>3, OneOwner DEF BackgroundInv, ClaimQueuedTask
<1>5. /\ SameTeams /\ \A u \in Task \ {t} : Alike(records'[u], records[u])
      /\ Alike(records'[t], [records[t] EXCEPT !.status = "running"])
  BY <1>4, UpdateEffect, ReportEffect DEF BackgroundInv, Becomes, SameRecords
<1>6. /\ records'[t].status = "running" /\ records'[t].blocker = records[t].blocker
      /\ records'[t].request = records[t].request
  BY <1>5 DEF Alike, BackgroundInv, StoreInv, TypeOK, TaskRecord
<1>7. /\ loop'.at = "schedule" /\ loop'.task = t /\ loop'.cur = loop.cur
      /\ loop'.running = loop.running /\ worker' = worker /\ limits' = limits
  BY <1>2 DEF BackgroundInv, Shapes, AtPoll
<1>8. Claimed = {} /\ Claimed' = {t} /\ Cur' = c
  BY <1>1, <1>7 DEF Claimed, Cur
<1>9. \A u \in Task \ {t} : Holds(u)' => Holds(u)
  <2> SUFFICES ASSUME NEW u \in Task \ {t}, Holds(u)' PROVE Holds(u)
    OBVIOUS
  <2>1. ViewOf(records'[u]) = ViewOf(records[u]) /\ records'[u].coordinator = records[u].coordinator
    BY <1>5, ViewsAlike DEF Alike
  <2> QED
    BY <1>7, <2>1 DEF Holds
<1>10. BudgetOK' /\ RoomOK'
  <2>1. \A u \in Task : Holds(u)' => u \in Claimed' \/ (Holds(u) /\ u \notin Claimed)
    BY <1>8, <1>9
  <2> QED
    BY <1>5, <1>7, <2>1, BudgetGoesOn, RoomGoesOn
<1>11. TableFits'
  <2>1. IsFiniteSet({t}) /\ {t} \in SUBSET Task /\ \A u \in {t} : records'[u].status # "free"
    BY <1>4, <1>6, FS_Singleton
  <2> QED
    BY <1>5, <2>1, RecordsFit DEF SameTeams, LimitsInv
<1>12. WorkersOK'
  <2>1. \A u \in Task : u # t => Alike(records'[u], records[u])
    BY <1>5
  <2> QED
    BY <1>4, <1>6, <1>7, <2>1 DEF LimitsInv, WorkersOK, AskedNothing, Alike, Active
<1>13. HeldWithin'
  <2>1. /\ IsFiniteSet(Held(Task)) /\ \A d \in Live : Agents(d) \subseteq Task
        /\ \A chat : TasksOf(chat) \subseteq Task
    BY HeldIsFinite DEF BackgroundInv, LimitsInv
  <2>2. /\ limits.all \in Nat /\ limits.coordinator \in Nat /\ limits.parent \in Nat
        /\ HeldWithin
    BY DEF LimitsInv, Limit
  <2>3. /\ Live' = Live
        /\ \A d \in Live : Agents(d)' = Agents(d) /\ coordinators'[d].chat = coordinators[d].chat
    BY <1>5 DEF SameTeams
  <2>4. \A chat : TasksOf(chat)' = TasksOf(chat)
    BY <2>3 DEF TasksOf, OfChat
  \* What holds a place without the claimed task, and with it.
  <2>5. ASSUME NEW S \in SUBSET Task, NEW n \in Nat, Cardinality(Held(S \ {t})') < n
        PROVE  Cardinality(Held(S)') <= n
    <3>1. Held(S \ {t})' \subseteq Held(Task)
      BY <1>9 DEF Held
    <3>2. IsFiniteSet(Held(S \ {t})')
      BY <2>1, <3>1, Fewer
    <3>3. Held(S)' \subseteq Held(S \ {t})' \cup {t}
      BY DEF Held
    <3>4. /\ Cardinality(Held(S)') <= Cardinality(Held(S \ {t})') + 1
          /\ Cardinality(Held(S)') \in Nat /\ Cardinality(Held(S \ {t})') \in Nat
      BY <3>2, <3>3, OneMore
    <3> QED
      BY <2>5, <3>4
  <2>6. ASSUME NEW S \in SUBSET Task, t \notin S, NEW n \in Nat, Cardinality(Held(S)) <= n
        PROVE  Cardinality(Held(S)') <= n
    <3>1. Held(S)' \subseteq Held(S) /\ Held(S) \subseteq Held(Task)
      BY <1>9, <2>6 DEF Held
    <3>2. IsFiniteSet(Held(S))
      BY <2>1, <3>1, Fewer
    <3>3. /\ Cardinality(Held(S)') <= Cardinality(Held(S))
          /\ Cardinality(Held(S)') \in Nat /\ Cardinality(Held(S)) \in Nat
      BY <3>1, <3>2, Fewer
    <3> QED
      BY <2>6, <3>3
  <2>7. Cardinality(Held(Task)') <= limits.all
    <3>1. /\ Cardinality(Held(Task \ {t})') <= loop.running
          /\ loop.running \in Nat
      BY <1>7, <1>8, <1>10 DEF BudgetOK
    <3>2. Cardinality(Held(Task \ {t})') \in Nat
      <4>1. Held(Task \ {t})' \subseteq Held(Task)
        BY <1>9 DEF Held
      <4> QED
        BY <2>1, <4>1, Fewer
    <3>3. Cardinality(Held(Task \ {t})') < limits.all
      BY <2>2, <3>1, <3>2
    <3> QED
      BY <2>2, <2>5, <3>3
  <2>8. ASSUME NEW d \in Live' PROVE Cardinality(Held(Agents(d))') <= limits.coordinator
    <3>1. d \in Live /\ Agents(d)' = Agents(d) /\ Agents(d) \subseteq Task
      BY <2>1, <2>3, <2>8
    <3>2. PICK S1 \in SUBSET Task : S1 = Agents(d)
      BY <3>1
    <3>3. Held(Agents(d))' = Held(S1)' /\ Held(Agents(d)) = Held(S1)
      BY <3>1, <3>2 DEF Held
    <3>4. CASE d = c
      <4>1. Cardinality(Held(S1 \ {t})') < limits.coordinator
        <5>1. Held(Agents(c) \ {t})' = Held(S1 \ {t})'
          BY <3>1, <3>2, <3>4 DEF Held
        <5> QED
          BY <1>7, <1>8, <1>10, <5>1 DEF RoomOK
      <4> QED
        BY <2>2, <2>5, <3>3, <4>1
    <3>5. CASE d # c
      <4>1. t \notin S1
        BY <1>4, <3>1, <3>2, <3>5
      <4> QED
        BY <2>2, <2>6, <3>1, <3>3, <4>1 DEF HeldWithin
    <3> QED
      BY <3>4, <3>5
  <2>9. ASSUME NEW chat \in Chat PROVE Cardinality(Held(TasksOf(chat))') <= limits.parent
    <3>1. PICK S1 \in SUBSET Task : S1 = TasksOf(chat)
      BY <2>1
    <3>2. Held(TasksOf(chat))' = Held(S1)' /\ Held(TasksOf(chat)) = Held(S1)
      BY <2>4, <3>1 DEF Held
    <3>3. CASE chat = coordinators[c].chat
      <4>1. Cardinality(Held(S1 \ {t})') < limits.parent
        <5>1. coordinators'[c].chat = chat
          BY <2>3, <3>3
        <5>2. Held(TasksOf(chat) \ {t})' = Held(S1 \ {t})'
          BY <2>4, <3>1 DEF Held
        <5> QED
          BY <1>7, <1>8, <1>10, <5>1, <5>2 DEF RoomOK
      <4> QED
        BY <2>2, <2>5, <3>2, <4>1
    <3>4. CASE chat # coordinators[c].chat
      <4>1. t \notin S1
        BY <1>4, <3>1, <3>4 DEF TasksOf, OfChat
      <4> QED
        BY <2>2, <2>6, <3>2, <4>1 DEF HeldWithin
    <3> QED
      BY <3>3, <3>4
  <2> QED
    BY <1>7, <2>7, <2>8, <2>9 DEF HeldWithin
<1> QED
  BY <1>7, <1>10, <1>11, <1>12, <1>13 DEF LimitsInv

LEMMA PickLimits ==
  ASSUME BackgroundInv, LimitsInv, Pick
  PROVE  LimitsInv'
<1>1. loop.at = "pick" /\ UNCHANGED <<limits, worker>>
  BY DEF Pick
<1>2. CASE loop' = Launched /\ UNCHANGED storeVars
  <2>1. Steady
    BY <1>1, <1>2, TableStutters, StillSteady DEF BackgroundInv, LimitsInv
  <2>2. loop'.at \notin {"copy", "caps", "pick", "schedule"}
    BY <1>2 DEF Launched, AtPoll
  <2> QED
    BY <1>1, <2>1, <2>2, SteadyAway
<1>3. CASE ~(Candidates = {} \/ loop.running >= limits.all)
  <2> DEFINE i == First(Candidates)
  <2>1. i \in DOMAIN loop.agents
    <3>1. PICK n \in Nat : DOMAIN loop.agents = 1 .. n
      BY <1>1, LenProperties DEF BackgroundInv, CopyOK
    <3>2. Candidates \in SUBSET (1 .. n)
      BY <3>1 DEF Candidates, ViewsOf
    <3> QED
      BY <1>3, <3>1, <3>2, FirstUpTo
  <2>2. loop.running < limits.all
    BY <1>1, <1>3 DEF LimitsInv, BudgetOK, Limit
  <2>3. /\ ClaimQueuedTask(loop.agents[i].task)
        /\ loop' = [loop EXCEPT !.at = "schedule", !.task = loop.agents[i].task, !.i = i]
    BY <1>3 DEF Pick
  <2> HIDE DEF i
  <2> QED
    BY <1>1, <2>1, <2>2, <2>3, ClaimLimits
<1> QED
  BY <1>2, <1>3 DEF Pick

\* A task that could not be started gives its place back.
LEMMA ScheduleChildLimits ==
  ASSUME BackgroundInv, LimitsInv, ScheduleChild
  PROVE  LimitsInv'
<1> DEFINE then == IF loop.single THEN Launched ELSE [AtPoll EXCEPT !.at = "count", !.cur = Cur]
<1>1. loop.at = "schedule" /\ Schedule(loop.task, then) /\ limits' = limits
  BY DEF ScheduleChild
<1>2. then.at \notin {"copy", "caps", "pick", "schedule"}
  BY DEF Launched, AtPoll
<1> HIDE DEF then
<1>3. /\ Steady
      /\ \/ loop' = then
         \/ /\ SameTeams /\ \A t \in Task : t = loop.task => ~Holds(t)'
            /\ loop' = [loop EXCEPT !.at = IF loop.at = "schedule" THEN "pick" ELSE "poll",
                          !.task = None, !.i = IF loop.at = "schedule" THEN @ + 1 ELSE 1]
  BY <1>1, ScheduleSteady DEF LimitsInv
<1>4. CASE loop' = then
  BY <1>1, <1>2, <1>3, <1>4, SteadyAway
<1>5. CASE loop' # then
  <2>1. /\ loop'.at = "pick" /\ loop'.cur = loop.cur /\ loop'.running = loop.running
    BY <1>1, <1>3, <1>5 DEF BackgroundInv, Shapes, AtPoll
  <2>2. Claimed = {loop.task} /\ Claimed' = {}
    BY <1>1, <2>1 DEF Claimed
  <2>3. \A t \in Task : Holds(t)' => Holds(t) /\ t \notin Claimed
    BY <1>3, <1>5, <2>2 DEF Steady, Calm
  <2>4. BudgetOK'
    BY <1>1, <2>1, <2>3, BudgetGoesOn
  <2>5. RoomOK'
    BY <1>1, <1>3, <1>5, <2>1, <2>3, RoomGoesOn
  <2> QED
    BY <1>1, <1>3, <2>4, <2>5, CalmKeepsWithin DEF LimitsInv, Steady
<1> QED
  BY <1>4, <1>5

LEMMA LimitsNext ==
  ASSUME BackgroundInv, LimitsInv, [BackgroundNext]_backgroundVars
  PROVE  LimitsInv'
<1>1. StoreInv /\ TableFits /\ WorkersOK
  BY DEF BackgroundInv, LimitsInv
<1>2. ASSUME NEW t \in Task, WorkerStep(t) PROVE LimitsInv'
  <2>1. SameTeams /\ loop' = loop
    BY <1>2, WorkerDoes DEF WorkerEffect
  <2>2. limits' = limits
    BY <1>2 DEF WorkerStep, PreflightAsks, PreflightRan, PreflightEnds, TurnAsks, TurnEnds,
                WorkerEnds, WorkerGoes, WorkerIs
  <2> QED
    BY <1>1, <1>2, <2>1, <2>2, WorkerSteady, SteadyHere
<1>3. ASSUME NEW c \in Coordinator, WakeEnds(c) PROVE LimitsInv'
  <2>1. SameTeams /\ SameRecords({}) /\ worker' = worker /\ limits' = limits /\ loop' = loop
    BY <1>1, <1>3, WakeEffect DEF WakeEnds
  <2> QED
    BY <1>1, <2>1, StillSteady, SteadyHere
<1>4. CASE UNCHANGED backgroundVars
  <2>1. UNCHANGED storeVars /\ worker' = worker /\ limits' = limits /\ loop' = loop
    BY <1>4 DEF backgroundVars
  <2> QED
    BY <1>1, <2>1, TableStutters, StillSteady, SteadyHere
<1>5. NextCoordinator => LimitsInv'
  BY AwayLimits, CountLimits
<1> QED
  BY <1>2, <1>3, <1>4, <1>5, AwayLimits, CountLimits, CopyLimits, CapsLimits, PickLimits,
     ScheduleChildLimits DEF BackgroundNext, LoopStep

LEMMA LimitsInit ==
  ASSUME BackgroundInit PROVE LimitsInv
<1>1. /\ Live = {} /\ \A t \in Task : records[t] = FreeRecord /\ worker[t] = NoWorker
      /\ loop = AtPoll /\ limits \in Limit
  BY StoreAssumption, BackgroundAssumption DEF BackgroundInit, Init, Live
<1>2. LiveTasks = {} /\ \A t \in Task : records[t].coordinator = None /\ ~Active(records[t])
  BY <1>1 DEF LiveTasks, FreeRecord, Active
<1>3. TableFits
  BY <1>1, <1>2, FS_EmptySet DEF TableFits
<1>4. WorkersOK
  BY <1>1, <1>2 DEF WorkersOK, NoWorker
<1>5. BudgetOK /\ RoomOK
  BY <1>1 DEF BudgetOK, RoomOK, AtPoll
<1>6. HeldWithin
  <2>1. Held(Task) = {} /\ \A chat : Held(TasksOf(chat)) = {}
    BY <1>1, <1>2 DEF Held, Holds, TasksOf, OfChat
  <2>2. /\ limits.all \in Nat /\ limits.parent \in Nat
    BY <1>1 DEF Limit
  <2> QED
    BY <1>1, <2>1, <2>2, FS_EmptySet DEF HeldWithin
<1> QED
  BY <1>1, <1>3, <1>4, <1>5, <1>6 DEF LimitsInv

\* However the workers interleave with a launch, which counts, copies, counts
\* again and claims in four steps, the tasks that run and never asked the user
\* stay within all three limits.
THEOREM PlacesAreKept == BackgroundSpec => []LimitsKept
<1>1. BackgroundInit => LimitsInv
  BY LimitsInit
<1>2. BackgroundInv /\ LimitsInv /\ [BackgroundNext]_backgroundVars => LimitsInv'
  BY LimitsNext
<1>3. LimitsInv => LimitsKept
  BY LimitsAreHeldWithin DEF LimitsInv
<1> QED
  BY <1>1, <1>2, <1>3, BackgroundInvariant, PTL DEF BackgroundSpec
===============================================================================
