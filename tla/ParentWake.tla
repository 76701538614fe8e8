------------------------------ MODULE ParentWake ------------------------------
(***************************************************************************)
(* How a chat learns that the tasks it delegated have changed and ended    *)
(* (kernel/tooling/delegate/delegate_parent_wake.c), over the task store.  *)
(*                                                                         *)
(* The agent loop polls: it drains the changed coordinators into a table   *)
(* of pending wakes and flushes each entry, sending the state to a         *)
(* connected web client and, once the tasks have ended, a message to the   *)
(* chat itself, its "resume", on the inbound bus.  Workers report on tasks,*)
(* the outbound thread delivers replies and the websocket thread replays   *)
(* the state to a client that reconnects, all while a flush is under way:  *)
(* a flush takes the store's mutex anew for every call, so each call is a  *)
(* step of its own here.                                                   *)
(***************************************************************************)
EXTENDS DelegateStore

CONSTANTS
  SocketChat, \* chats that talk over the websocket, not Feishu, voice, ...
  BusLen,     \* capacity of the inbound queue (BUS_QUEUE_LEN)
  OutLen,     \* capacity of the outbound queue (BUS_QUEUE_LEN)
  MaxEvents,  \* bound of the model on what clients and faults may do
  Faults      \* which of the things that go wrong are explored

FaultKind == {"disconnect", "send_error", "ask", "cancel"}

ASSUME WakeAssumption ==
  /\ BusLen \in Nat \ {0} /\ OutLen \in Nat \ {0} /\ MaxEvents \in Nat
  /\ SocketChat \subseteq Chat /\ Faults \subseteq FaultKind

VARIABLES
  pending,    \* s_pending, by coordinator
  agent,      \* what the agent loop is doing, and its local variables
  replay,     \* the same of a replay on the websocket thread
  inbound,    \* the inbound queue
  outbound,   \* the outbound queue
  connected,  \* chats with a websocket client
  active,     \* chats with activity within the window (s_parent_activity)
  asked,      \* chats with a pending interactive request (turn context)
  replied,    \* coordinators of turns whose reply is in the session store
  consumed,   \* the revision of a coordinator its chat has consumed
  events      \* how many events the environment has used up

localVars == <<pending, agent>>
queueVars == <<inbound, outbound>>
chatVars  == <<connected, active, asked, replied, consumed>>
wakeVars  == <<storeVars, pending, agent, replay, inbound, outbound,
               connected, active, asked, replied, consumed, events>>

NoEntry == [used |-> FALSE, resume |-> FALSE, retry |-> "none",
            revision |-> 0, lastSent |-> 0]

\* via: the resume stands in for a delivery that failed; onFull: what is left
\* to do when the inbound queue refuses it.
Idle == [at |-> "loop", todo |-> {}, cur |-> None, rec |-> Blank,
         via |-> FALSE, onFull |-> "retry", chat |-> None, task |-> None]

NoReplay == [at |-> "idle", todo |-> {}, cur |-> None, rec |-> Blank]

UserMessage(chat)        == [kind |-> "user", chat |-> chat, of |-> None, revision |-> 0]
ResumeMessage(chat, c, r) == [kind |-> "resume", chat |-> chat, of |-> c, revision |-> r]

-----------------------------------------------------------------------------
(* The poll: drain the store's changes into the table, then flush it.      *)

Waiting == {c \in Coordinator : pending[c].used}

\* coordinator_has_resume_pending
ResumePending(co) == Terminal(co) /\ co.notified /\ ~co.resumeEnqueued

\* upsert_pending_locked: an entry that waits for its timer keeps waiting
\* unless something has changed.
Upserted(e, co) ==
  IF e.used /\ e.revision = co.revision /\ e.lastSent = co.lastSent /\ e.retry # "none"
  THEN e
  ELSE [used |-> TRUE, resume |-> ResumePending(co), retry |-> "none",
        revision |-> co.revision, lastSent |-> co.lastSent]

\* delegate_parent_wake_poll, first the drain
PollDrains ==
  /\ agent.at = "loop"
  /\ DrainChanged
  /\ pending' = [c \in Coordinator |->
        IF c \in Changed THEN Upserted(pending[c], coordinators'[c]) ELSE pending[c]]
  /\ agent' = [agent EXCEPT !.at = "mark", !.todo = Changed]

\* ... each drained coordinator is marked pending
MarkDrained(c) ==
  /\ agent.at = "mark" /\ c \in agent.todo
  /\ MarkWake(c, "pending")
  /\ agent' = IF agent.todo = {c} THEN [agent EXCEPT !.at = "flush", !.todo = Waiting]
                                  ELSE [agent EXCEPT !.todo = @ \ {c}]
  /\ UNCHANGED pending

\* ... or, when nothing has changed, straight to the flush
PollFlushes ==
  /\ agent.at = "loop" /\ Changed = {}
  /\ agent' = [agent EXCEPT !.at = IF Waiting = {} THEN "pop" ELSE "flush",
                            !.todo = Waiting]
  /\ UNCHANGED <<storeVars, pending>>

\* The flush of one entry is over: on to the next, or out of the poll.
Over(todo) == [Idle EXCEPT !.at = IF todo = {} THEN "pop" ELSE "flush", !.todo = todo]
Keep(c, e) == agent' = Over(agent.todo) /\ pending' = [pending EXCEPT ![c] = e]
Clear(c)   == Keep(c, NoEntry)
GoTo(at)   == agent' = [agent EXCEPT !.at = at] /\ UNCHANGED pending

Cur == agent.cur
Online(chat) == chat \in connected

-----------------------------------------------------------------------------
(* flush_pending_snapshot, one entry at a time.                            *)

\* (faulty) takes an entry for delivered whatever is still owed
Delivered_IgnoresEnd(rec, owed) == rec.lastSent = rec.revision

\* Nothing is left to do: the last revision was delivered and neither the
\* notification nor the resume of an ended coordinator is owed.
Delivered(rec, owed) ==
  /\ rec.lastSent = rec.revision
  /\ ~(Terminal(rec) /\ ~rec.notified)
  /\ ~owed

\* The entry is kept as it is while its timer runs, and until the reply of
\* the turn that delegated has been handed to the channel.
Held(c, rec) == pending[c].retry = "armed" \/ ~rec.responseSent

Look(c) ==
  /\ agent.at = "flush" /\ c \in agent.todo
  /\ SnapshotCoordinator(c)
  /\ LET rec  == coordinators'[c]
         owed == pending[c].resume \/ ResumePending(rec)
         rest == agent.todo \ {c}
         goTo(at) == /\ agent' = [agent EXCEPT !.at = at, !.todo = rest, !.cur = c,
                                               !.rec = rec]
                     /\ UNCHANGED pending
     IN  IF Held(c, rec) THEN agent' = Over(rest) /\ UNCHANGED pending
         ELSE IF Delivered(rec, owed)
              THEN agent' = Over(rest) /\ pending' = [pending EXCEPT ![c] = NoEntry]
         ELSE IF rec.chat \notin WebChat THEN goTo("nonweb")
         ELSE IF ~Online(rec.chat) /\ ~Terminal(rec) /\ ~owed THEN goTo("settle")
         ELSE IF owed THEN goTo("decide") ELSE goTo("dispatch")

\* handle_non_web_terminal: there is nobody to tell
FlushNonWeb ==
  /\ agent.at = "nonweb"
  /\ IF Terminal(agent.rec) /\ ~agent.rec.notified
     THEN /\ SetCoordinator(Cur, [coordinators[Cur] EXCEPT !.notified = TRUE])
          /\ GoTo("settle")
     ELSE Clear(Cur) /\ UNCHANGED storeVars

\* mark_wake_completed, and the entry is dropped
Settle ==
  /\ agent.at = "settle"
  /\ MarkWake(Cur, "completed")
  /\ Clear(Cur)

\* (faulty) leaves the slot free to be taken while the wake is under way
Dispatch_Completed ==
  /\ agent.at = "dispatch"
  /\ MarkWake(Cur, "completed")
  /\ GoTo("look_again")

\* mark_wake_dispatched
Dispatch ==
  /\ agent.at = "dispatch"
  /\ MarkWake(Cur, "dispatched")
  /\ GoTo("look_again")

LookAgain ==
  /\ agent.at = "look_again"
  /\ SnapshotCoordinator(Cur)
  /\ agent' = [agent EXCEPT !.at = "send", !.rec = coordinators'[Cur]]
  /\ UNCHANGED pending

\* What a sender may report: no client, an error on the way, or success.
SendResult(chat) ==
  IF Online(chat)
  THEN {"ok"} \cup (IF "send_error" \in Faults /\ events < MaxEvents
                    THEN {"error"} ELSE {})
  ELSE {"not_found"}

Spend(result) == events' = IF result = "error" THEN events + 1 ELSE events

\* dispatch_coordinator_snapshot
SendVisible ==
  /\ agent.at = "send"
  /\ \E result \in SendResult(agent.rec.chat) :
       /\ Spend(result)
       /\ CASE result = "ok" -> GoTo("record_sent")
            [] result = "not_found" /\ ~Terminal(agent.rec) -> GoTo("settle")
            [] result = "error" /\ ~Terminal(agent.rec) -> GoTo("retry")
            [] OTHER ->
                 /\ agent' = [agent EXCEPT !.at = "via_notify", !.via = TRUE,
                      !.onFull = IF result = "not_found" THEN "settle" ELSE "retry"]
                 /\ UNCHANGED pending
  /\ UNCHANGED storeVars

\* retain_pending_resume_locked
Retained(e, rec) == [used |-> TRUE, resume |-> TRUE, retry |-> "none",
                     revision |-> rec.revision, lastSent |-> rec.lastSent]

AfterUpdate(rec) ==
  IF ResumePending(rec)
  THEN /\ agent' = [agent EXCEPT !.at = "decide", !.rec = rec]
       /\ pending' = [pending EXCEPT ![Cur] = Retained(@, rec)]
  ELSE Clear(Cur)

\* mark_visible_revision_sent; then the end is told, unless a coordinator
\* that is "done" has nothing to show for it yet.
RecordSent ==
  /\ agent.at = "record_sent"
  /\ MarkVisibleRevisionSent(Cur, agent.rec.revision)
  /\ IF Terminal(agent.rec) /\ ~agent.rec.notified
     THEN GoTo(IF agent.rec.status = "done" /\ ~agent.rec.effective THEN "retry" ELSE "done")
     ELSE AfterUpdate(agent.rec)

\* dispatch_terminal_completion; without a client the resume is tried, and
\* when that is refused it is tried once more.
SendDone ==
  /\ agent.at = "done"
  /\ \E result \in SendResult(agent.rec.chat) :
       /\ Spend(result)
       /\ IF result = "ok" THEN GoTo("notify")
          ELSE /\ agent' = [agent EXCEPT !.at = "via_notify", !.via = TRUE,
                    !.onFull = IF result = "not_found" THEN "again" ELSE "retry"]
               /\ UNCHANGED pending
  /\ UNCHANGED storeVars

\* mark_completion_notified
Notify ==
  /\ agent.at = "notify"
  /\ SetCoordinator(Cur, [coordinators[Cur] EXCEPT !.notified = TRUE])
  /\ AfterUpdate([agent.rec EXCEPT !.notified = TRUE])

\* (faulty) gives up on the resume while the chat is busy
Deferred_Dropped(e, rec) == NoEntry

\* defer_pending_resume_locked
Deferred(e, rec) == [Retained(e, rec) EXCEPT !.retry = "armed"]

\* should_defer_terminal_parent_resume: the chat has to answer a question
\* first, or was active a moment ago.
MustDefer(rec) == rec.chat \in asked \cup active

\* ... or has seen this result: a resume of a success is then dropped.
AlreadyConsumed(rec) ==
  rec.chat \notin asked /\ rec.status # "failed" /\ consumed[Cur] >= rec.revision

DecideResume ==
  /\ agent.at = "decide"
  /\ IF AlreadyConsumed(agent.rec) THEN GoTo("settle")
     ELSE IF MustDefer(agent.rec) THEN Keep(Cur, Deferred(pending[Cur], agent.rec))
     ELSE agent' = [agent EXCEPT !.at = "push", !.onFull = "retry"] /\ UNCHANGED pending
  /\ UNCHANGED storeVars

\* (faulty) resumes the chat of a coordinator it never notified
ViaNotify_Skipped == agent.at = "via_notify" /\ GoTo("push") /\ UNCHANGED storeVars

\* complete_terminal_via_parent_resume, up to its push
ViaNotify ==
  /\ agent.at = "via_notify"
  /\ IF agent.rec.notified THEN UNCHANGED storeVars
     ELSE SetCoordinator(Cur, [coordinators[Cur] EXCEPT !.notified = TRUE])
  /\ GoTo("push")

\* enqueue_parent_resume_message
PushResume ==
  /\ agent.at = "push"
  /\ IF Len(inbound) < BusLen
     THEN /\ inbound' = Append(inbound, ResumeMessage(agent.rec.chat, Cur, agent.rec.revision))
          /\ GoTo("record_resume")
     ELSE /\ UNCHANGED <<inbound, pending>>
          /\ agent' = IF agent.onFull = "again"
                      THEN [agent EXCEPT !.at = "via_notify", !.onFull = "retry"]
                      ELSE [agent EXCEPT !.at = agent.onFull]
  /\ UNCHANGED storeVars

\* (faulty) does not record that the resume is on its way
RecordResume_NotMarked ==
  /\ agent.at = "record_resume"
  /\ GoTo("settle")
  /\ UNCHANGED storeVars

\* mark_parent_resume_enqueued
RecordResume ==
  /\ agent.at = "record_resume"
  /\ SetCoordinator(Cur, [coordinators[Cur] EXCEPT !.resumeEnqueued = TRUE])
  /\ GoTo("settle")

\* (faulty) an entry that is to be retried counts as completed
Retry_Completed ==
  /\ agent.at = "retry"
  /\ MarkWake(Cur, "completed")
  /\ Keep(Cur, [pending[Cur] EXCEPT !.retry = "armed"])

\* retry_pending_entry
Retry ==
  /\ agent.at = "retry"
  /\ MarkWake(Cur, "pending")
  /\ Keep(Cur, [pending[Cur] EXCEPT !.retry = "armed"])

FlushStep ==
  \/ \E c \in Coordinator : Look(c)
  \/ FlushNonWeb \/ Settle \/ Dispatch \/ LookAgain
  \/ RecordSent \/ Notify \/ DecideResume \/ ViaNotify
  \/ RecordResume \/ Retry

-----------------------------------------------------------------------------
(* The rest of the agent loop: it takes a message and runs its turn.       *)

Reply(chat, delegate) == [chat |-> chat, delegate |-> delegate]

\* agent_turn_queue_outbound_text: a reply that finds the queue full is lost
Queue(reply) ==
  outbound' = IF Len(outbound) < OutLen THEN Append(outbound, reply) ELSE outbound

\* The end of the loop's body: with no message it sleeps for a moment.
TakeNothing ==
  /\ agent.at = "pop" /\ inbound = <<>>
  /\ agent' = Idle
  /\ UNCHANGED <<queueVars, consumed>>

TakeUserMessage ==
  /\ agent.at = "pop" /\ inbound # <<>> /\ Head(inbound).kind = "user"
  /\ inbound' = Tail(inbound)
  /\ agent' = [Idle EXCEPT !.at = "turn", !.chat = Head(inbound).chat]
  /\ UNCHANGED <<outbound, consumed>>

\* agent_turn_try_finish_delegate_completion: the resume is recorded as
\* consumed and answered at once, without a model turn.
TakeResume ==
  /\ agent.at = "pop" /\ inbound # <<>> /\ Head(inbound).kind = "resume"
  /\ LET m == Head(inbound)
     IN  /\ consumed' = [consumed EXCEPT
               ![m.of] = IF m.revision > @ THEN m.revision ELSE @]
         /\ Queue(Reply(m.chat, TRUE))
  /\ inbound' = Tail(inbound)
  /\ agent' = Idle

TakeMessage == TakeNothing \/ TakeUserMessage \/ TakeResume

\* tool_delegate_run_background_coordinator, called by the model in a turn
StartTeam(c) ==
  /\ agent.at = "turn"
  /\ StartInFreeSlot(c, agent.chat) \/ StartByReclaim(c, agent.chat)
  /\ agent' = [agent EXCEPT !.at = "plan", !.cur = c]

TeamRefused == agent.at = "turn" /\ StartRefused /\ UNCHANGED agent

PlanTask(t) ==
  /\ agent.at = "plan"
  /\ Plan(Cur, t, FALSE)
  /\ agent' = [agent EXCEPT !.at = "attach", !.task = t]

AttachPlanned ==
  /\ agent.at = "attach"
  /\ AttachTask(Cur, agent.task)
  /\ agent' = [agent EXCEPT !.at = "plan", !.task = None]

\* The batch has at least one task: a team stays empty only when the task
\* table is full.
TeamPlanned ==
  /\ agent.at = "plan"
  /\ Agents(Cur) # {} \/ Cardinality(LiveTasks) >= TaskSlots
  /\ agent' = [agent EXCEPT !.at = "turn", !.cur = None]
  /\ UNCHANGED storeVars

\* A queued task is claimed for a worker, from the turn or from the loop.
Launch(t) ==
  /\ agent.at \in {"turn", "loop"}
  /\ ClaimQueuedTask(t)
  /\ UNCHANGED agent

TurnStep ==
  \/ \E c \in Coordinator : StartTeam(c)
  \/ TeamRefused
  \/ \E t \in Task : PlanTask(t) \/ Launch(t)
  \/ AttachPlanned
  \/ TeamPlanned

\* agent_turn_handle_reply: the reply is saved, then queued.
EndTurn ==
  /\ agent.at = "turn"
  /\ replied' = replied \cup OfChat(agent.chat)
  /\ Queue(Reply(agent.chat, FALSE))
  /\ agent' = Idle
  /\ UNCHANGED events

\* A cancelled turn says nothing.
EndCancelled ==
  /\ agent.at = "turn"
  /\ "cancel" \in Faults /\ events < MaxEvents
  /\ events' = events + 1
  /\ agent' = Idle
  /\ UNCHANGED <<outbound, replied>>

AgentStep ==
  \/ /\ PollDrains \/ (\E c \in Coordinator : MarkDrained(c)) \/ PollFlushes \/ FlushStep
     /\ UNCHANGED <<queueVars, replay, chatVars, events>>
  \/ (SendVisible \/ SendDone) /\ UNCHANGED <<queueVars, replay, chatVars>>
  \/ PushResume /\ UNCHANGED <<outbound, replay, chatVars, events>>
  \/ TakeMessage /\ UNCHANGED <<storeVars, pending, replay, connected, active, asked,
                               replied, events>>
  \/ TurnStep /\ UNCHANGED <<pending, queueVars, replay, chatVars, events>>
  \/ (EndTurn \/ EndCancelled) /\ UNCHANGED <<storeVars, pending, inbound, replay,
                                              connected, active, asked, consumed>>

-----------------------------------------------------------------------------
(* The other threads.                                                      *)

\* The workers of delegated tasks, each reporting on its own task.
Worker ==
  /\ \E t \in Task :
       \/ \E effective \in BOOLEAN : Complete(t, <<>>, effective)
       \/ Fail(t) /\ records[t].status = "running"
       \/ AppendSession(t)
  /\ UNCHANGED <<pending, agent, queueVars, replay, chatVars, events>>

\* (faulty) opens the gate only when a client got the reply
Deliver_OnlyLive ==
  /\ outbound # <<>>
  /\ outbound' = Tail(outbound)
  /\ LET r == Head(outbound)
     IN  IF r.chat \in SocketChat /\ ~r.delegate /\ Online(r.chat)
         THEN /\ MarkParentResponseSent(r.chat)
              /\ active' = active \cup {r.chat}
         ELSE UNCHANGED <<storeVars, active>>
  /\ UNCHANGED <<pending, agent, inbound, replay, connected, asked, replied,
                 consumed, events>>

\* channel_runtime_dispatch_outbound, on the outbound thread: a reply over
\* the websocket opens the gate of the chat's coordinators, delivered or not.
Deliver ==
  /\ outbound # <<>>
  /\ outbound' = Tail(outbound)
  /\ LET r == Head(outbound)
     IN  IF r.chat \in SocketChat /\ ~r.delegate
         THEN /\ MarkParentResponseSent(r.chat)
              /\ active' = IF Online(r.chat) THEN active \cup {r.chat} ELSE active
         ELSE UNCHANGED <<storeVars, active>>
  /\ UNCHANGED <<pending, agent, inbound, replay, connected, asked, replied,
                 consumed, events>>

\* A session_sync of the websocket thread: delegate_parent_wake_replay_chat
ReplayStart(chat) ==
  /\ replay.at = "idle" /\ Online(chat) /\ events < MaxEvents
  /\ SnapshotParent(chat)
  /\ active' = active \cup {chat}
  /\ replay' = IF OfChat(chat) = {} THEN NoReplay
               ELSE [NoReplay EXCEPT !.at = "look", !.todo = OfChat(chat)]
  /\ events' = events + 1

Replayed(todo) == [NoReplay EXCEPT !.at = IF todo = {} THEN "idle" ELSE "look", !.todo = todo]

ReplayLook(c) ==
  /\ replay.at = "look" /\ c \in replay.todo
  /\ IF c \in Live
     THEN /\ SnapshotCoordinator(c)
          /\ replay' = [at |-> "send", todo |-> replay.todo \ {c}, cur |-> c,
                        rec |-> coordinators'[c]]
     ELSE UNCHANGED storeVars /\ replay' = Replayed(replay.todo \ {c})
  /\ UNCHANGED <<active, events>>

\* The client is there, or has gone, by the time the state is sent.
ReplaySend ==
  /\ replay.at = "send"
  /\ replay' = IF Online(replay.rec.chat) /\ replay.rec.chat \in WebChat
               THEN [replay EXCEPT !.at = "record"] ELSE Replayed(replay.todo)
  /\ UNCHANGED <<storeVars, active, events>>

ReplayRecord ==
  /\ replay.at = "record"
  /\ IF replay.cur \in Live THEN MarkVisibleRevisionSent(replay.cur, replay.rec.revision)
                            ELSE UNCHANGED storeVars
  /\ replay' = Replayed(replay.todo)
  /\ UNCHANGED <<active, events>>

Replay ==
  /\ \/ \E chat \in SocketChat : ReplayStart(chat)
     \/ \E c \in Coordinator : ReplayLook(c)
     \/ ReplaySend
     \/ ReplayRecord
  /\ UNCHANGED <<pending, agent, queueVars, connected, asked, replied, consumed>>

\* A message of a user; the push is given up when the bus is full.
UserSays(chat) ==
  /\ chat \in SocketChat => Online(chat) /\ replay.at = "idle"
  /\ active' = IF chat \in SocketChat THEN active \cup {chat} ELSE active
  /\ inbound' = IF Len(inbound) < BusLen THEN Append(inbound, UserMessage(chat)) ELSE inbound
  /\ UNCHANGED <<connected, asked>>

Reconnect(chat) ==
  /\ "disconnect" \in Faults /\ chat \in SocketChat
  /\ connected' = IF Online(chat) THEN connected \ {chat} ELSE connected \cup {chat}
  /\ UNCHANGED <<inbound, active, asked>>

\* The turn context gains or loses a pending interactive request.
AskOrAnswer(chat) ==
  /\ "ask" \in Faults
  /\ asked' = IF chat \in asked THEN asked \ {chat} ELSE asked \cup {chat}
  /\ UNCHANGED <<inbound, active, connected>>

Client ==
  /\ events < MaxEvents
  /\ \E chat \in Chat : UserSays(chat) \/ Reconnect(chat) \/ AskOrAnswer(chat)
  /\ events' = events + 1
  /\ UNCHANGED <<storeVars, pending, agent, replay, outbound, replied, consumed>>

\* Time passes: a retry falls due, the activity window ends.
RetryDue(c) ==
  /\ pending[c].retry = "armed"
  /\ pending' = [pending EXCEPT ![c].retry = "due"]
  /\ UNCHANGED <<storeVars, agent, replay, queueVars, chatVars, events>>

QuietAgain(chat) ==
  /\ chat \in active
  /\ active' = active \ {chat}
  /\ UNCHANGED <<storeVars, pending, agent, replay, queueVars, connected, asked,
                 replied, consumed, events>>

Time == (\E c \in Coordinator : RetryDue(c)) \/ (\E chat \in Chat : QuietAgain(chat))

-----------------------------------------------------------------------------
WakeInit ==
  /\ Init
  /\ pending = [c \in Coordinator |-> NoEntry]
  /\ agent = Idle /\ replay = NoReplay
  /\ inbound = <<>> /\ outbound = <<>>
  /\ connected = SocketChat /\ active = {} /\ asked = {}
  /\ replied = {} /\ consumed = [c \in Coordinator |-> 0]
  /\ events = 0

WakeNext == AgentStep \/ Worker \/ Deliver \/ Replay \/ Client \/ Time

WakeSpec == WakeInit /\ [][WakeNext]_wakeVars

\* The agent loop and the outbound thread run on, and time does not stop.
Fairness ==
  /\ WF_wakeVars(AgentStep)
  /\ WF_wakeVars(Deliver)
  /\ \A c \in Coordinator : WF_wakeVars(RetryDue(c))
  /\ \A chat \in Chat : WF_wakeVars(QuietAgain(chat))

FairWakeSpec == WakeSpec /\ Fairness

-----------------------------------------------------------------------------
(* Properties.                                                             *)

\* The coordinator the poll is working on right now.
InHand == IF agent.at = "mark" THEN agent.todo ELSE IF Cur = None THEN {} ELSE {Cur}

\* An entry of the wake table belongs to a coordinator that is in the store
\* and whose wake state keeps its slot from being taken: an entry never
\* outlives its coordinator, and the table, as long as the store, is never
\* full (allocate_pending_index would take the first entry in use).  The entry
\* a flush works on, which it names by an index, stays in use until its end.
EntriesPinned ==
  /\ agent.rec # Blank => pending[Cur].used
  /\ \A c \in Waiting \ InHand :
       c \in Live /\ coordinators[c].wake \in {"pending", "dispatched"}

\* A coordinator whose end the client was told of and whose chat was not yet
\* resumed is still looked after: an entry waits for it.  (Nobody is resumed
\* for a subagent session.)
ResumeNotForgotten ==
  \A c \in Live :
    ResumePending(coordinators[c]) /\ coordinators[c].chat \in WebChat => pending[c].used

\* A chat has consumed the resume of a coordinator only if the store says it
\* was enqueued: the check that drops a consumed resume never drops one.
ConsumedWasEnqueued ==
  \A c \in Live : consumed[c] > 0 => coordinators[c].resumeEnqueued

\* A resume is pushed once: the flush that comes to it after a successful
\* delivery, at once or when it was put off, finds none in the queue and none
\* consumed.  (One that stands in for a failed delivery may be a repeat.)
Resumes(queue, c) == {i \in DOMAIN queue : queue[i].of = c}
ResumedOnce ==
  [][agent.at = "push" /\ ~agent.via /\ agent'.at = "record_resume"
       => consumed[Cur] = 0 /\ Resumes(inbound, Cur) = {}]_wakeVars

\* A slot is taken only from a coordinator that ended and whose chat, if it
\* has one, was resumed: nobody is still to be told about it.
ReclaimedWasResumed ==
  [][\A c \in Live \ Live' :
       coordinators[c].chat \in WebChat => coordinators[c].resumeEnqueued]_wakeVars

\* The last word on a coordinator is due: its tasks have ended and the reply
\* of the delegating turn is out.
ResumeDue(c, chat) ==
  /\ c \in Live /\ coordinators[c].agents # <<>> /\ Terminal(coordinators[c])
  /\ coordinators[c].responseSent /\ coordinators[c].chat = chat /\ chat \in WebChat

\* A chat is told how its delegated tasks ended: the resume is pushed,
\* unless the chat has a question to answer first.
ChatIsResumed ==
  \A c \in Coordinator, chat \in Chat :
    ResumeDue(c, chat) ~> (coordinators[c].resumeEnqueued \/ c \notin Live \/ chat \in asked)

\* "Parent resume gating should follow persisted parent replies": once the
\* reply of a turn is in the session store, the gate of the coordinators of
\* the chat opens (or the model runs out of revisions).
GateFollowsReply ==
  \A c \in Coordinator :
    (c \in replied) ~> (coordinators[c].responseSent \/ c \notin Live
                          \/ revisionSeq = MaxRevision)

=============================================================================
