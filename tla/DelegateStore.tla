---------------------------- MODULE DelegateStore ----------------------------
(***************************************************************************)
(* The table of delegated tasks and of the coordinators that group them    *)
(* (kernel/tooling/delegate/delegate_task_store.c, _projection.c, _query.c *)
(* and _runtime.c).  Every operation of the table runs under               *)
(* s_delegate_mutex, so each is one action here.                           *)
(*                                                                         *)
(* A coordinator does not look its tasks up when it is read: it keeps a    *)
(* projection of them (one view per task, and a status derived from the    *)
(* views) which every operation on a task has to refresh.  Next is the     *)
(* most general client that keeps the calling contract of the table: ids   *)
(* are fresh, a task is attached to the coordinator it was planned for,    *)
(* and only the worker that claimed a task reports on it.                  *)
(***************************************************************************)
EXTENDS Naturals, Sequences, FiniteSets

CONSTANTS
  Task,              \* ids of delegated tasks ("dt_<n>")
  Coordinator,       \* ids of coordinators ("dc_<n>")
  Chat,              \* chats that own coordinators
  WebChat,           \* the chats that are not themselves subagent sessions
  FileList,          \* the target_files lists an implement task may report
  TaskSlots,         \* DELEGATE_TASK_STORE_MAX
  CoordinatorSlots,  \* DELEGATE_COORDINATOR_STORE_MAX
  AgentsMax,         \* DELEGATE_COORDINATOR_AGENTS_MAX
  MaxRevision,       \* bound of the model on the revisions handed out
  None               \* an empty id

ASSUME StoreAssumption ==
  /\ TaskSlots \in Nat \ {0}
  /\ CoordinatorSlots \in Nat \ {0}
  /\ AgentsMax \in Nat \ {0}
  /\ MaxRevision \in Nat
  /\ WebChat \subseteq Chat
  /\ <<>> \in FileList
  /\ None \notin Coordinator \cup Chat \cup Task

VARIABLES
  records,       \* s_records, by task id
  coordinators,  \* s_coordinators, by coordinator id
  slots,         \* which coordinator occupies each slot of s_coordinators
  revisionSeq,   \* s_visible_revision_seq
  spent          \* ids handed out by tool_delegate_next_seq, never reused

storeVars == <<records, coordinators, slots, revisionSeq, spent>>

Slot == 1 .. CoordinatorSlots
TaskStatus == {"free", "queued", "running", "done", "failed"}
ViewStatus == {"queued", "running", "blocked", "done", "error"}
WakeState  == {"idle", "pending", "dispatched", "completed"}

TaskRecord ==
  [status : TaskStatus, coordinator : Coordinator \cup {None},
   implement : BOOLEAN, blocker : BOOLEAN, request : BOOLEAN,
   effective : BOOLEAN, files : FileList, approved : BOOLEAN]

AgentView == [task : Task, view : ViewStatus]

CoordinatorRecord ==
  [chat : Chat \cup {None}, agents : Seq(AgentView),
   status : {"running", "queued", "done", "failed"}, effective : BOOLEAN,
   revision : Nat, lastSent : Nat, changed : BOOLEAN, notified : BOOLEAN,
   responseSent : BOOLEAN, resumeEnqueued : BOOLEAN, wake : WakeState]

FreeRecord ==
  [status |-> "free", coordinator |-> None, implement |-> FALSE,
   blocker |-> FALSE, request |-> FALSE, effective |-> FALSE,
   files |-> <<>>, approved |-> FALSE]

NewRecord(status, c, implement) ==
  [FreeRecord EXCEPT !.status = status, !.coordinator = c,
                     !.implement = implement]

NewCoordinator(chat, revision) ==
  [chat |-> chat, agents |-> <<>>, status |-> "running", effective |-> FALSE,
   revision |-> revision, lastSent |-> 0, changed |-> TRUE,
   notified |-> FALSE, responseSent |-> FALSE, resumeEnqueued |-> FALSE,
   wake |-> "idle"]

Blank == [NewCoordinator(None, 0) EXCEPT !.changed = FALSE]

-----------------------------------------------------------------------------
(* Looking things up.                                                      *)

LiveTasks == {t \in Task : records[t].status # "free"}
Live == {c \in Coordinator : \E s \in Slot : slots[s] = c}
Agents(c) == {coordinators[c].agents[i].task : i \in DOMAIN coordinators[c].agents}
Attached(t) == \E c \in Live : t \in Agents(c)
Active(r) == r.status \in {"queued", "running"}
Ended(r) == r.status \in {"done", "failed"}
Terminal(co) == co.status \in {"done", "failed"}

-----------------------------------------------------------------------------
(* The projection of a coordinator's tasks (refresh_coordinator_locked).   *)

\* (faulty) an ended task shows its internal status
ViewOf_Internal(r) ==
  IF r.status = "running" /\ (r.blocker \/ r.request) THEN "blocked" ELSE r.status

ViewOf(r) ==
  CASE r.status = "done"   -> "done"
    [] r.status = "failed" -> "error"
    [] r.status = "queued" -> "queued"
    [] r.status = "running" /\ (r.blocker \/ r.request) -> "blocked"
    [] OTHER -> "running"

\* (faulty) takes a blocked task for an ended one
StatusOf_NoBlocked(views, effective) ==
  IF "running" \in views THEN "running"
  ELSE IF "queued" \in views THEN "queued"
  ELSE IF "error" \in views \/ ("done" \in views /\ ~effective)
  THEN "failed" ELSE "done"

\* The status of a coordinator with these views; effective says that some
\* task that is done has output worth reporting.
StatusOf(views, effective) ==
  IF views \cap {"running", "blocked"} # {} THEN "running"
  ELSE IF "queued" \in views THEN "queued"
  ELSE IF "error" \in views \/ ("done" \in views /\ ~effective)
  THEN "failed" ELSE "done"

\* The views of a coordinator are those of the records found for its tasks;
\* a view whose record is gone keeps what it last showed and counts nowhere.
FoundIn(recs, agents) == {i \in DOMAIN agents : recs[agents[i].task].status # "free"}

ShownAgents(recs, agents) ==
  [i \in DOMAIN agents |->
     IF i \in FoundIn(recs, agents)
     THEN [agents[i] EXCEPT !.view = ViewOf(recs[agents[i].task])] ELSE agents[i]]

ShownViews(recs, agents) ==
  {ViewOf(recs[agents[i].task]) : i \in FoundIn(recs, agents)}

ShownEffective(recs, agents) ==
  \E i \in FoundIn(recs, agents) : /\ recs[agents[i].task].status = "done"
                                   /\ recs[agents[i].task].effective

Projected(recs, co) ==
  [co EXCEPT !.agents    = ShownAgents(recs, co.agents),
             !.effective = ShownEffective(recs, co.agents),
             !.status    = StatusOf(ShownViews(recs, co.agents),
                                    ShownEffective(recs, co.agents))]

\* filesets_overlap is strstr in both directions: one list contains the
\* other as a run of entries (no entry being part of another entry).
Within(l, r) ==
  \E k \in 0 .. Len(r) : /\ k + Len(l) <= Len(r)
                         /\ l = SubSeq(r, k + 1, k + Len(l))

\* (faulty) looks for the left list in the right one only
FilesetsOverlap_OneWay(l, r) == l # <<>> /\ r # <<>> /\ Within(l, r)

FilesetsOverlap(l, r) == l # <<>> /\ r # <<>> /\ (Within(l, r) \/ Within(r, l))

\* refresh_implement_write_approvals_locked: in agent order, an implement
\* task keeps its approval unless an earlier approved one overlaps it.
ApprovedAgents(recs, agents) ==
  LET rec(i) == recs[agents[i].task]
      ok[i \in DOMAIN agents] ==
        /\ rec(i).implement /\ rec(i).status = "done" /\ rec(i).files # <<>>
        /\ \A j \in 1 .. (i - 1) :
             ok[j] => ~FilesetsOverlap(rec(j).files, rec(i).files)
  IN  {agents[i].task : i \in {k \in DOMAIN agents : ok[k]}}

Approve(recs, cs) ==
  [t \in Task |->
     IF recs[t].status # "free" /\ \E c \in cs : t \in Agents(c)
     THEN [recs[t] EXCEPT !.approved =
             \E c \in cs : t \in ApprovedAgents(recs, coordinators[c].agents)]
     ELSE recs[t]]

\* (faulty) forgets to raise the flag
Bump_NoFlag(co) == [co EXCEPT !.revision = revisionSeq]

\* The bump that follows every refresh of a write.
Bump(co) == [co EXCEPT !.revision = revisionSeq, !.changed = TRUE]

\* (faulty) bumps the coordinator without refreshing it
Write_NoRefresh(t, r) ==
  LET cs == {r.coordinator} \cap Live
  IN  /\ records' = [records EXCEPT ![t] = r]
      /\ coordinators' = [c \in Coordinator |->
            IF c \in cs THEN Bump(coordinators[c]) ELSE coordinators[c]]
      /\ revisionSeq' = IF cs = {} THEN revisionSeq ELSE revisionSeq + 1
      /\ revisionSeq' <= MaxRevision
      /\ UNCHANGED slots

\* The common tail of every operation on a task: store the record, refresh
\* the coordinator it names, if it is in the table, and bump its revision.
Write(t, r) ==
  LET recs == [records EXCEPT ![t] = r]
      cs   == {r.coordinator} \cap Live
  IN  /\ records' = Approve(recs, cs)
      /\ coordinators' = [c \in Coordinator |->
            IF c \in cs THEN Bump(Projected(recs, coordinators[c]))
                        ELSE coordinators[c]]
      /\ revisionSeq' = IF cs = {} THEN revisionSeq ELSE revisionSeq + 1
      /\ revisionSeq' <= MaxRevision
      /\ UNCHANGED slots

-----------------------------------------------------------------------------
(* Operations on tasks.                                                    *)

\* delegate_task_store_plan; refused, with no effect, when every record is
\* taken.
Plan(c, t, implement) ==
  /\ c \in Live /\ t \notin spent
  /\ Cardinality(LiveTasks) < TaskSlots
  /\ spent' = spent \cup {t}
  /\ Write(t, NewRecord("queued", c, implement))

\* delegate_task_store_start: a task of no coordinator, running at once.
Start(t, implement) ==
  /\ t \notin spent
  /\ Cardinality(LiveTasks) < TaskSlots
  /\ spent' = spent \cup {t}
  /\ records' = [records EXCEPT ![t] = NewRecord("running", None, implement)]
  /\ UNCHANGED <<coordinators, slots, revisionSeq>>

\* delegate_task_store_attach_task; refused when the coordinator is full.
AttachTask(c, t) ==
  /\ c \in Live
  /\ records[t].status = "queued" /\ records[t].coordinator = c
  /\ ~Attached(t)
  /\ Len(coordinators[c].agents) < AgentsMax
  /\ LET co == [coordinators[c] EXCEPT !.agents =
                  Append(@, [task |-> t, view |-> ViewOf(records[t])])]
     IN  /\ coordinators' = [coordinators EXCEPT ![c] = Bump(Projected(records, co))]
         /\ LET approved == ApprovedAgents(records, co.agents)
            IN  records' = [u \in Task |->
                  IF u \in Agents(c) \cup {t} /\ records[u].status # "free"
                  THEN [records[u] EXCEPT !.approved = u \in approved]
                  ELSE records[u]]
  /\ revisionSeq < MaxRevision
  /\ revisionSeq' = revisionSeq + 1
  /\ UNCHANGED <<slots, spent>>

\* delegate_task_store_claim_queued_task: queued to running, for one caller.
ClaimQueuedTask(t) ==
  /\ Attached(t) /\ records[t].status = "queued"
  /\ Write(t, [records[t] EXCEPT !.status = "running"])
  /\ UNCHANGED spent

\* delegate_task_store_complete: a task that still has a blocker has failed.
Complete(t, files, effective) ==
  /\ records[t].status = "running"
  /\ Write(t, [records[t] EXCEPT
                 !.status = IF records[t].blocker THEN "failed" ELSE "done",
                 !.effective = effective, !.files = files,
                 !.approved = files # <<>>, !.request = FALSE])
  /\ UNCHANGED spent

\* delegate_task_store_fail, by the worker or by a launcher that gives up.
Fail(t) ==
  /\ Attached(t) \/ records[t].status = "running"
  /\ Active(records[t])
  /\ Write(t, [records[t] EXCEPT !.status = "failed", !.blocker = TRUE,
                                 !.request = FALSE])
  /\ UNCHANGED spent

\* delegate_task_store_mark_blocked
MarkBlocked(t) ==
  /\ records[t].status = "running"
  /\ Write(t, [records[t] EXCEPT !.status = "running", !.blocker = TRUE])
  /\ UNCHANGED spent

\* delegate_task_store_clear_blocked
ClearBlocked(t) ==
  /\ records[t].status = "running"
  /\ Write(t, [records[t] EXCEPT !.blocker = FALSE, !.request = FALSE])
  /\ UNCHANGED spent

\* delegate_task_store_set_pending_request
SetPendingRequest(t) ==
  /\ records[t].status = "running"
  /\ Write(t, [records[t] EXCEPT !.request = TRUE])
  /\ UNCHANGED spent

\* delegate_task_store_append_session_step and _message: the record's
\* session grows, the coordinator is refreshed and bumped.
AppendSession(t) ==
  /\ records[t].status = "running"
  /\ Write(t, records[t])
  /\ UNCHANGED spent

-----------------------------------------------------------------------------
(* Operations on coordinators.                                             *)

FreeSlots == {s \in Slot : slots[s] = None}
First(S) == CHOOSE s \in S : \A r \in S : s <= r

\* (faulty) trusts the notification without looking at the tasks again
Reusable_NoTerminal(c) ==
  LET co == Projected(records, coordinators[c])
  IN  /\ co.notified
      /\ co.wake \notin {"pending", "dispatched"}
      /\ co.responseSent \/ co.resumeEnqueued \/ co.chat \notin WebChat

\* coordinator_slot_reusable_locked, on the refreshed coordinator
Reusable(c) ==
  LET co == Projected(records, coordinators[c])
  IN  /\ Terminal(co) /\ co.notified
      /\ co.wake \notin {"pending", "dispatched"}
      /\ co.responseSent \/ co.resumeEnqueued \/ co.chat \notin WebChat

ReusableSlots == {s \in Slot : slots[s] \in Coordinator /\ Reusable(slots[s])}

\* The coordinators allocate_coordinator_index refreshes when no slot is
\* free: those up to the first reusable one, or all of them.
Scanned == {slots[s] : s \in {q \in Slot : \A r \in ReusableSlots : q <= r}}

\* delegate_task_store_start_coordinator, into an empty slot
StartInFreeSlot(c, chat) ==
  /\ c \notin spent
  /\ FreeSlots # {}
  /\ revisionSeq < MaxRevision
  /\ slots' = [slots EXCEPT ![First(FreeSlots)] = c]
  /\ coordinators' = [coordinators EXCEPT ![c] = NewCoordinator(chat, revisionSeq)]
  /\ revisionSeq' = revisionSeq + 1
  /\ spent' = spent \cup {c}
  /\ UNCHANGED records

\* (faulty) reuses the slot without clearing it: the tasks of the dropped
\* coordinator are shown by the new one
StartByReclaim_NotCleared(c, chat) ==
  /\ c \notin spent
  /\ FreeSlots = {} /\ ReusableSlots # {}
  /\ revisionSeq < MaxRevision
  /\ LET s == First(ReusableSlots)
     IN  /\ coordinators' = [coordinators EXCEPT
               ![slots[s]] = Blank,
               ![c] = [NewCoordinator(chat, revisionSeq) EXCEPT
                         !.agents = coordinators[slots[s]].agents]]
         /\ slots' = [slots EXCEPT ![s] = c]
  /\ revisionSeq' = revisionSeq + 1
  /\ spent' = spent \cup {c}
  /\ UNCHANGED records

\* ... over the first finished coordinator nobody waits for: it is dropped
\* with the records of its ended tasks (clear_coordinator_slot_locked).
StartByReclaim(c, chat) ==
  /\ c \notin spent
  /\ FreeSlots = {} /\ ReusableSlots # {}
  /\ revisionSeq < MaxRevision
  /\ LET s      == First(ReusableSlots)
         victim == slots[s]
         recs   == Approve(records, Scanned)
     IN  /\ records' = [t \in Task |->
               IF t \in Agents(victim) /\ Ended(recs[t]) THEN FreeRecord ELSE recs[t]]
         /\ coordinators' = [d \in Coordinator |->
               IF d = c THEN NewCoordinator(chat, revisionSeq)
               ELSE IF d = victim THEN Blank
               ELSE IF d \in Scanned THEN Projected(records, coordinators[d])
               ELSE coordinators[d]]
         /\ slots' = [slots EXCEPT ![s] = c]
  /\ revisionSeq' = revisionSeq + 1
  /\ spent' = spent \cup {c}

\* ... or ERR_NO_MEM, after the scan refreshed every coordinator
StartRefused ==
  /\ FreeSlots = {} /\ ReusableSlots = {}
  /\ records' = Approve(records, Live)
  /\ coordinators' = [d \in Coordinator |->
        IF d \in Live THEN Projected(records, coordinators[d]) ELSE coordinators[d]]
  /\ UNCHANGED <<slots, revisionSeq, spent>>

SetCoordinator(c, co) ==
  /\ c \in Live
  /\ coordinators' = [coordinators EXCEPT ![c] = co]
  /\ UNCHANGED <<records, slots, revisionSeq, spent>>

\* delegate_task_store_mark_completion_notified
MarkCompletionNotified(c) ==
  /\ Terminal(coordinators[c])
  /\ SetCoordinator(c, [coordinators[c] EXCEPT !.notified = TRUE])

\* delegate_task_store_mark_parent_resume_enqueued
MarkParentResumeEnqueued(c) ==
  /\ coordinators[c].notified
  /\ SetCoordinator(c, [coordinators[c] EXCEPT !.resumeEnqueued = TRUE])

\* delegate_task_store_mark_visible_revision_sent: a revision that has been
\* overtaken meanwhile is not recorded.
MarkVisibleRevisionSent(c, revision) ==
  SetCoordinator(c, [coordinators[c] EXCEPT
                       !.lastSent = IF coordinators[c].revision = revision
                                    THEN revision ELSE @])

\* delegate_task_store_mark_wake_pending, _dispatched, _retry and _completed
MarkWake(c, state) ==
  SetCoordinator(c, [coordinators[c] EXCEPT !.wake = state])

\* delegate_task_store_mark_parent_response_sent: every coordinator of the
\* chat, in slot order, each with a revision of its own.
OfChat(chat) == {c \in Live : coordinators[c].chat = chat}
SlotOf(c) == CHOOSE s \in Slot : slots[s] = c
MarkParentResponseSent(chat) ==
  LET before(c) == {d \in OfChat(chat) : SlotOf(d) < SlotOf(c)}
  IN  /\ coordinators' = [c \in Coordinator |->
            IF c \in OfChat(chat)
            THEN [coordinators[c] EXCEPT
                    !.responseSent = TRUE, !.changed = TRUE,
                    !.revision = revisionSeq + Cardinality(before(c))]
            ELSE coordinators[c]]
      /\ revisionSeq' = revisionSeq + Cardinality(OfChat(chat))
      /\ revisionSeq' <= MaxRevision
      /\ UNCHANGED <<records, slots, spent>>

-----------------------------------------------------------------------------
(* Reads.  A reader refreshes what it reads, unless the coordinator has    *)
(* ended and its last revision was delivered.                              *)

\* coordinator_is_terminal_and_fully_visible
FullyVisible(co) ==
  /\ \A i \in DOMAIN co.agents : co.agents[i].view \notin {"queued", "running"}
  /\ Terminal(co)
  /\ co.revision # 0 /\ co.lastSent = co.revision
  /\ co.resumeEnqueued \/ ~co.notified

\* refresh_coordinator_if_needed_locked on every coordinator of cs
Stale(cs) == {c \in cs \cap Live : ~FullyVisible(coordinators[c])}
RefreshIfNeeded(cs) ==
  /\ records' = Approve(records, Stale(cs))
  /\ coordinators' = [c \in Coordinator |->
        IF c \in Stale(cs) THEN Projected(records, coordinators[c]) ELSE coordinators[c]]
  /\ UNCHANGED <<slots, revisionSeq, spent>>

\* delegate_task_store_snapshot_coordinator
SnapshotCoordinator(c) == RefreshIfNeeded({c})

\* delegate_task_store_snapshot_parent and _running_count_for_parent
SnapshotParent(chat) == RefreshIfNeeded(OfChat(chat))

\* delegate_task_store_pending_coordinator_count refreshes all of them, then
\* counts the ones somebody still has to work on.
PendingCoordinatorCount == RefreshIfNeeded(Live)
PendingCoordinators ==
  {c \in Live : \/ \E i \in DOMAIN coordinators[c].agents :
                      coordinators[c].agents[i].view \in {"queued", "running"}
                 \/ (coordinators[c].notified /\ ~coordinators[c].resumeEnqueued)}

\* delegate_task_store_find_by_session: refreshes without the test
FindBySession(t) ==
  /\ records[t].coordinator \in Live
  /\ records' = Approve(records, {records[t].coordinator})
  /\ coordinators' = [coordinators EXCEPT ![records[t].coordinator] =
                        Projected(records, @)]
  /\ UNCHANGED <<slots, revisionSeq, spent>>

\* delegate_task_store_drain_changed_coordinators: hands every changed
\* coordinator to the wake manager and clears its flag.
Changed == {c \in Live : coordinators[c].changed}
DrainChanged ==
  /\ Changed # {}
  /\ records' = Approve(records, Stale(Changed))
  /\ coordinators' = [c \in Coordinator |->
        IF c \notin Changed THEN coordinators[c]
        ELSE [(IF c \in Stale(Changed) THEN Projected(records, coordinators[c])
                                       ELSE coordinators[c]) EXCEPT !.changed = FALSE]]
  /\ UNCHANGED <<slots, revisionSeq, spent>>

\* delegate_task_store_list_active_coordinators and _running_count read
\* what is there, without a refresh.
ActiveCoordinators == {c \in Live : ~Terminal(coordinators[c])}
RunningTasks == {t \in Task : records[t].status = "running" /\ ViewOf(records[t]) = "running"}
CountView(co, view) == Cardinality({i \in DOMAIN co.agents : co.agents[i].view = view})

-----------------------------------------------------------------------------
Init ==
  /\ records = [t \in Task |-> FreeRecord]
  /\ coordinators = [c \in Coordinator |-> Blank]
  /\ slots = [s \in Slot |-> None]
  /\ revisionSeq = 1
  /\ spent = {}

TaskStep ==
  \E t \in Task :
    \/ \E c \in Coordinator, implement \in BOOLEAN : Plan(c, t, implement)
    \/ \E implement \in BOOLEAN : Start(t, implement)
    \/ \E c \in Coordinator : AttachTask(c, t)
    \/ ClaimQueuedTask(t)
    \/ \E files \in FileList, effective \in BOOLEAN : Complete(t, files, effective)
    \/ Fail(t)
    \/ MarkBlocked(t)
    \/ ClearBlocked(t)
    \/ SetPendingRequest(t)
    \/ AppendSession(t)
    \/ FindBySession(t)

CoordinatorStep ==
  \/ \E c \in Coordinator :
       \/ \E chat \in Chat : StartInFreeSlot(c, chat) \/ StartByReclaim(c, chat)
       \/ MarkCompletionNotified(c)
       \/ MarkParentResumeEnqueued(c)
       \/ \E revision \in 1 .. revisionSeq : MarkVisibleRevisionSent(c, revision)
       \/ \E state \in WakeState \ {"idle"} : MarkWake(c, state)
       \/ SnapshotCoordinator(c)
  \/ \E chat \in Chat : MarkParentResponseSent(chat) \/ SnapshotParent(chat)
  \/ PendingCoordinatorCount
  \/ StartRefused
  \/ DrainChanged

Next == TaskStep \/ CoordinatorStep

Spec == Init /\ [][Next]_storeVars

-----------------------------------------------------------------------------
(* Properties.                                                             *)

\* Every variable has the type its declaration gives it.
TypeOK ==
  /\ records \in [Task -> TaskRecord]
  /\ coordinators \in [Coordinator -> CoordinatorRecord]
  /\ slots \in [Slot -> Coordinator \cup {None}]
  /\ revisionSeq \in Nat
  /\ spent \subseteq Task \cup Coordinator

\* The two tables agree: a task a coordinator shows has a record that names
\* this coordinator, it is shown once, and a coordinator that is not in the
\* table is blank.  clear_coordinator_slot_locked frees records by what the
\* dropped coordinator shows, which is right only because of this.
OwnerConsistent ==
  /\ \A s1, s2 \in Slot : slots[s1] = slots[s2] /\ slots[s1] # None => s1 = s2
  /\ \A c \in Live : \A i \in DOMAIN coordinators[c].agents :
       LET t == coordinators[c].agents[i].task
       IN  /\ records[t].status # "free"
           /\ records[t].coordinator = c
           /\ \A j \in DOMAIN coordinators[c].agents :
                coordinators[c].agents[j].task = t => j = i
  /\ \A c \in Coordinator \ Live : coordinators[c] = Blank

\* What a coordinator shows is never older than the records: the wake
\* manager, the delegate tool and the web client read the cached views and
\* status, some without a refresh (list_active, running_count).  One with no
\* task yet is exempt: it is created "running" and first refreshed to "done".
ProjectionCurrent ==
  \A c \in Live :
    coordinators[c].agents # <<>> => coordinators[c] = Projected(records, coordinators[c])

\* A coordinator that says it has ended has no task still to run: the parent
\* is told the result, and the slot and its records can be dropped.
TerminalMeansEnded ==
  \A c \in Live :
    coordinators[c].agents # <<>> /\ Terminal(coordinators[c])
      => \A t \in Agents(c) : Ended(records[t])

\* Of two approved tasks of one coordinator, neither reported a list of
\* files that contains the other's: applying both would write a file twice.
ApprovedNotNested ==
  \A c \in Live : \A t, u \in Agents(c) :
    t # u /\ records[t].approved /\ records[u].approved
      => ~Within(records[t].files, records[u].files)

\* A slot is taken over only from a coordinator all of whose tasks have
\* ended, and no task that has not ended ever loses its record: a worker
\* still reports on it by id.
NoActiveTaskDropped ==
  [][/\ \A c \in Live \ Live' : \A t \in Agents(c) : Ended(records[t])
     /\ \A t \in Task : Active(records[t]) => records'[t].status # "free"]_storeVars

\* Whatever a coordinator newly shows about its tasks is announced: the
\* change raises the flag the wake manager drains and gets a revision no
\* delivery can have recorded yet.
Shown(co) == <<co.agents, co.status, co.effective>>
ChangeAnnounced ==
  [][\A c \in Live \cap Live' :
       coordinators'[c].agents # <<>> /\ Shown(coordinators[c]) # Shown(coordinators'[c])
         => /\ coordinators'[c].changed
            /\ coordinators'[c].revision > coordinators[c].revision
            /\ coordinators'[c].lastSent # coordinators'[c].revision]_storeVars

=============================================================================
