--------------------------- MODULE ParentWakeProofs ---------------------------
(***************************************************************************)
(* What ParentWake keeps for every number of tasks, teams, slots, chats    *)
(* and messages.  The poll, the workers, the outbound thread, the replays  *)
(* and the clients keep the store's calling contract (TheStoreIsObeyed),   *)
(* so the store's own invariant holds here too.  Around it one invariant,  *)
(* WakeInv: an entry of the wake table pins its coordinator (Pinned), what *)
(* a flush read of its coordinator some steps ago still holds where it     *)
(* matters (RecOK), an entry that owes a resume belongs to a coordinator   *)
(* that was notified and not resumed (OwedOK), and what is queued or       *)
(* consumed was recorded in the store (QueueOK).                           *)
(***************************************************************************)
EXTENDS ParentWake, DelegateStoreProofs

-----------------------------------------------------------------------------
(* The invariant. *)

FlushAt == {"nonweb", "settle", "dispatch", "look_again", "send", "record_sent", "retry", "done",
            "via_notify", "notify", "decide", "push", "record_resume"}
AgentAt == FlushAt \cup {"loop", "mark", "flush", "pop", "turn", "plan", "attach"}
TeamOrNone == Coordinator \cup {None}

Entry == [used : BOOLEAN, resume : BOOLEAN, retry : {"none", "armed", "due"},
          revision : Nat, lastSent : Nat]
AgentState ==
  [at : AgentAt, todo : SUBSET Coordinator, cur : TeamOrNone, rec : CoordinatorRecord,
   via : BOOLEAN, onFull : {"retry", "settle", "again"}, chat : Chat \cup {None},
   task : Task \cup {None}]
ReplayState ==
  [at : {"idle", "look", "send", "record"}, todo : SUBSET Coordinator, cur : TeamOrNone,
   rec : CoordinatorRecord]
Message ==
  [kind : {"user"}, chat : Chat, of : {None}, revision : {0}]
    \cup [kind : {"resume"}, chat : Chat \cup {None}, of : Coordinator, revision : Nat]
ReplyMessage == [chat : Chat \cup {None}, delegate : BOOLEAN]

\* The shapes of the variables the argument is about.
WakeTypeOK ==
  /\ pending \in [Coordinator -> Entry]
  /\ agent \in AgentState
  /\ replay \in ReplayState
  /\ inbound \in Seq(Message)
  /\ outbound \in Seq(ReplyMessage)
  /\ consumed \in [Coordinator -> Nat]

\* Revisions start at one; who was notified has ended.
TeamsOK ==
  /\ revisionSeq >= 1
  /\ \A c \in Live : /\ coordinators[c].revision >= 1
                     /\ coordinators[c].notified => Terminal(coordinators[c])

\* An entry pins its coordinator, at the latest when the poll has marked it.
Pinned ==
  \A c \in Waiting :
    /\ c \in Live
    /\ \/ coordinators[c].wake \in {"pending", "dispatched"}
       \/ agent.at = "mark" /\ c \in agent.todo

\* The coordinators the agent loop has in hand.
HandOK ==
  /\ agent.at \in FlushAt \cup {"mark", "flush"} => agent.todo \subseteq Waiting
  /\ agent.at \in FlushAt => Cur \in Waiting \ agent.todo
  /\ agent.at \notin FlushAt => agent.rec = Blank
  /\ agent.at \in {"turn", "plan", "attach"} => agent.chat \in Chat
  /\ agent.at \in {"plan", "attach"} => Cur \in Live /\ ~coordinators[Cur].notified
  /\ agent.at = "attach" => agent.task \in Task
  /\ agent.at \notin FlushAt \cup {"plan", "attach"} => Cur = None

\* What a flush read of its coordinator, and what is so by now.
RecOK ==
  agent.at \in FlushAt =>
    LET co == coordinators[Cur]
    IN  /\ agent.rec.revision \in 1 .. revisionSeq
        /\ agent.rec.chat = co.chat
        /\ Terminal(agent.rec) => Terminal(co)
        /\ agent.rec.notified => co.notified /\ Terminal(agent.rec)
        /\ agent.at # "settle" => agent.rec.resumeEnqueued = co.resumeEnqueued
        /\ agent.at \in {"nonweb", "dispatch", "look_again", "send", "record_sent", "done", "notify"}
             => agent.rec.notified = co.notified
        /\ agent.at \in {"done", "notify", "via_notify"} => Terminal(agent.rec)
        /\ agent.at = "push" /\ agent.onFull = "again" => Terminal(agent.rec) /\ agent.via
        /\ agent.at = "via_notify" => agent.via
        /\ agent.at \in {"decide", "push", "record_resume"} => co.notified
        /\ agent.at = "decide" \/ (agent.at = "push" /\ ~agent.via) => ~co.resumeEnqueued

\* An entry that owes a resume owes it still, until its flush settles it.
OwedOK ==
  \A c \in Waiting : pending[c].resume =>
    /\ coordinators[c].notified
    /\ ~coordinators[c].resumeEnqueued \/ (agent.at = "settle" /\ c = Cur)

\* What was pushed is recorded by the next step, before it can be consumed.
QueueOK ==
  /\ \A i \in DOMAIN inbound : inbound[i].kind = "resume" =>
       LET c == inbound[i].of
       IN  /\ c \in spent
           /\ c \in Live => \/ coordinators[c].resumeEnqueued
                            \/ agent.at = "record_resume" /\ c = Cur
  /\ \A c \in Coordinator : consumed[c] > 0 =>
       c \in spent /\ (c \in Live => coordinators[c].resumeEnqueued)

\* A replay holds a revision that was handed out.
ReplayOK ==
  replay.at \in {"send", "record"} =>
    replay.cur \in Coordinator /\ replay.rec.revision \in 1 .. revisionSeq

WakeInv ==
  StoreInv /\ WakeTypeOK /\ TeamsOK /\ Pinned /\ HandOK /\ RecOK /\ OwedOK /\ QueueOK /\ ReplayOK

\* The inbound queue has room when a resume is pushed that is not retried.
BusHasRoom == agent.at = "push" /\ agent.onFull = "settle" => Len(inbound) < BusLen

\* Then who was notified is resumed or has an entry, which is settled only
\* when nobody is to be resumed any more.
LookedAfter ==
  /\ \A c \in Live :
       coordinators[c].chat \in WebChat /\ coordinators[c].notified
         => coordinators[c].resumeEnqueued \/ c \in Waiting
  /\ agent.at = "nonweb" => coordinators[Cur].chat \notin WebChat
  /\ agent.at = "settle" /\ coordinators[Cur].chat \in WebChat /\ coordinators[Cur].notified
       => coordinators[Cur].resumeEnqueued

-----------------------------------------------------------------------------
(* What the steps of the store do to a coordinator. *)

\* What a flush goes by is as it was, and an end stays an end.
StillEnded(c) == Terminal(coordinators[c]) => Terminal(coordinators'[c])
Untouched(c) ==
  /\ coordinators'[c].chat = coordinators[c].chat
  /\ coordinators'[c].wake = coordinators[c].wake
  /\ coordinators'[c].notified = coordinators[c].notified
  /\ coordinators'[c].resumeEnqueued = coordinators[c].resumeEnqueued
  /\ coordinators'[c].revision >= 1
  /\ StillEnded(c)
StoreMoves == Live' = Live /\ spent \subseteq spent' /\ revisionSeq' >= revisionSeq
Gentle == StoreMoves /\ \A c \in Live : Untouched(c)

\* A coordinator of no task is refreshed to "done".
LEMMA NoTaskIsDone ==
  ASSUME NEW recs \in [Task -> TaskRecord], NEW co \in CoordinatorRecord, co.agents = <<>>
  PROVE  Terminal(Projected(recs, co))
<1>1. DOMAIN co.agents = {}
  OBVIOUS
<1>2. FoundIn(recs, co.agents) = {}
  BY <1>1 DEF FoundIn
<1>3. ShownViews(recs, co.agents) = {} /\ ShownEffective(recs, co.agents) = FALSE
  BY <1>2 DEF ShownViews, ShownEffective
<1>4. StatusOf(ShownViews(recs, co.agents), ShownEffective(recs, co.agents)) = "done"
  BY <1>3 DEF StatusOf
<1> QED
  BY <1>4 DEF Projected, Terminal, CoordinatorRecord

\* A task that has not ended is stored: no coordinator that has ended shows it.
LEMMA WriteIsGentle ==
  ASSUME StoreInv, TeamsOK, NEW t \in Task, NEW r \in TaskRecord, ~Ended(records[t]),
         Write(t, r), spent \subseteq spent'
  PROVE  Gentle
<1> DEFINE recs == [records EXCEPT ![t] = r]
<1>1. recs \in [Task -> TaskRecord] /\ \A u \in Task : u # t => recs[u] = records[u]
  BY DEF StoreInv, TypeOK
<1>2. /\ revisionSeq \in Nat /\ revisionSeq >= 1 /\ records \in [Task -> TaskRecord]
      /\ revisionSeq' \in {revisionSeq, revisionSeq + 1} /\ slots' = slots
  BY DEF StoreInv, TypeOK, TeamsOK, Write
<1>3. StoreMoves
  BY <1>2 DEF StoreMoves, Live
<1>4. ASSUME NEW c \in Live PROVE Untouched(c)
  <2> DEFINE co == coordinators[c]
             pco == Projected(recs, co)
  <2>1. c \in Coordinator /\ co \in CoordinatorRecord
    BY DEF Live, StoreInv, TypeOK
  <2>2. coordinators'[c] = IF c \in {r.coordinator} \cap Live THEN Bump(pco) ELSE co
    BY <2>1 DEF Write
  <2> HIDE DEF recs
  <2>3. /\ pco \in CoordinatorRecord
        /\ pco.chat = co.chat /\ pco.wake = co.wake /\ pco.notified = co.notified
        /\ pco.resumeEnqueued = co.resumeEnqueued
    BY <1>1, <2>1, ProjectedType
  <2>4. Terminal(co) => Terminal(pco)
    <3> SUFFICES ASSUME Terminal(co), co.agents # <<>> PROVE Terminal(pco)
      BY <1>1, <2>1, NoTaskIsDone
    <3>1. co = Projected(records, co)
      BY DEF StoreInv, ProjectionCurrent
    <3>2. \A u \in Agents(c) : Ended(records[u])
      BY <3>1, TerminalTasksEnded
    <3>3. t \notin Agents(c)
      BY <3>2
    <3>4. \A i \in DOMAIN co.agents : co.agents[i].task \in Task /\ co.agents[i].task # t
      BY <2>1, <3>3, AgentTasks DEF Agents
    <3>5. AgreeOn(recs, records, co.agents)
      BY <1>1, <3>4 DEF AgreeOn
    <3>6. /\ ShownViews(recs, co.agents) = ShownViews(records, co.agents)
          /\ ShownEffective(recs, co.agents) = ShownEffective(records, co.agents)
      BY <3>5, AgreeingShowTheSame
    <3>7. pco.status = Projected(records, co).status
      BY <2>1, <3>6 DEF Projected, CoordinatorRecord
    <3> QED
      BY <3>1, <3>7 DEF Terminal
  <2>5. co.revision >= 1
    BY DEF TeamsOK
  <2> HIDE DEF pco, co
  <2>6. CASE c \in {r.coordinator} \cap Live
    <3>1. coordinators'[c] = [pco EXCEPT !.revision = revisionSeq, !.changed = TRUE]
      BY <2>2, <2>6 DEF Bump
    <3> QED
      BY <1>2, <2>3, <2>4, <3>1 DEF Untouched, StillEnded, Terminal, CoordinatorRecord, co
  <2>7. CASE c \notin {r.coordinator} \cap Live
    BY <2>2, <2>5, <2>7 DEF Untouched, StillEnded, co
  <2> QED
    BY <2>6, <2>7
<1> QED
  BY <1>3, <1>4 DEF Gentle

\* A refreshed coordinator that has ended still has; what a flush goes by is
\* not derived from the tasks.
LEMMA RefreshedStays ==
  ASSUME StoreInv, NEW c \in Live, NEW cs
  PROVE  LET new == Refreshed(cs, c)
             co == coordinators[c]
         IN  /\ new \in CoordinatorRecord
             /\ new.chat = co.chat /\ new.wake = co.wake /\ new.notified = co.notified
             /\ new.resumeEnqueued = co.resumeEnqueued /\ new.revision = co.revision
             /\ Terminal(co) => Terminal(new)
<1> DEFINE co == coordinators[c]
           new == Refreshed(cs, c)
<1>1. c \in Coordinator /\ co \in CoordinatorRecord /\ records \in [Task -> TaskRecord]
  BY DEF Live, StoreInv, TypeOK
<1>2. /\ new \in CoordinatorRecord
      /\ new.chat = co.chat /\ new.wake = co.wake /\ new.notified = co.notified
      /\ new.resumeEnqueued = co.resumeEnqueued /\ new.revision = co.revision
  BY <1>1, ProjectedType DEF Refreshed
<1>3. Terminal(co) => Terminal(new)
  BY <1>1, NoTaskIsDone DEF Refreshed, StoreInv, ProjectionCurrent
<1> QED
  BY <1>2, <1>3

\* A read refreshes some coordinators, and clears the flag of some.
LEMMA ReadIsGentle ==
  ASSUME StoreInv, TeamsOK, ReadStep
  PROVE  Gentle
<1>1. PICK cs, cleared \in SUBSET Live :
        /\ UNCHANGED <<slots, revisionSeq, spent>>
        /\ coordinators' = [c \in Coordinator |->
             IF c \in cleared THEN [Refreshed(cs, c) EXCEPT !.changed = FALSE]
                              ELSE Refreshed(cs, c)]
  BY ReadKeeps
<1>2. StoreMoves
  BY <1>1 DEF StoreMoves, Live, StoreInv, TypeOK
<1>3. ASSUME NEW c \in Live PROVE Untouched(c)
  <2> DEFINE co == coordinators[c]
             new == Refreshed(cs, c)
  <2>1. c \in Coordinator
    BY DEF Live
  <2>2. /\ new \in CoordinatorRecord
        /\ new.chat = co.chat /\ new.wake = co.wake /\ new.notified = co.notified
        /\ new.resumeEnqueued = co.resumeEnqueued /\ new.revision = co.revision
        /\ Terminal(co) => Terminal(new)
    BY RefreshedStays
  <2>4. coordinators'[c] = [new EXCEPT !.changed = FALSE] \/ coordinators'[c] = new
    BY <1>1, <2>1
  <2>5. co.revision >= 1
    BY DEF TeamsOK
  <2> HIDE DEF new
  <2> QED
    BY <2>2, <2>4, <2>5 DEF Untouched, StillEnded, Terminal, CoordinatorRecord
<1> QED
  BY <1>2, <1>3 DEF Gentle

LEMMA SameIsGentle ==
  ASSUME StoreInv, TeamsOK, UNCHANGED storeVars
  PROVE  Gentle
BY DEF Gentle, StoreMoves, Untouched, StillEnded, TeamsOK, Live, Slot, storeVars, StoreInv, TypeOK

\* A coordinator is set to something else; the others are not touched.
LEMMA SetEffect ==
  ASSUME StoreInv, TeamsOK, NEW c, NEW co, SetCoordinator(c, co)
  PROVE  /\ c \in Live /\ c \in Coordinator /\ coordinators[c] \in CoordinatorRecord
         /\ StoreMoves /\ coordinators'[c] = co
         /\ \A d \in Live \ {c} : Untouched(d)
<1>1. c \in Live /\ c \in Coordinator /\ coordinators \in [Coordinator -> CoordinatorRecord]
  BY DEF SetCoordinator, Live, StoreInv, TypeOK
<1>2. /\ coordinators' = [coordinators EXCEPT ![c] = co]
      /\ UNCHANGED <<slots, revisionSeq, spent>>
  BY DEF SetCoordinator
<1>3. \A d \in Live \ {c} : coordinators'[d] = coordinators[d]
  BY <1>1, <1>2 DEF Live
<1>4. StoreMoves
  BY <1>2 DEF StoreMoves, Live, StoreInv, TypeOK
<1> QED
  BY <1>1, <1>2, <1>3, <1>4 DEF Untouched, StillEnded, TeamsOK

LEMMA SentIsGentle ==
  ASSUME StoreInv, TeamsOK, NEW c, NEW revision, MarkVisibleRevisionSent(c, revision)
  PROVE  Gentle
<1> DEFINE co == [coordinators[c] EXCEPT
                    !.lastSent = IF coordinators[c].revision = revision THEN revision ELSE @]
<1>1. SetCoordinator(c, co)
  BY DEF MarkVisibleRevisionSent
<1>2. /\ c \in Live /\ coordinators[c] \in CoordinatorRecord /\ StoreMoves
      /\ coordinators'[c] = co /\ \A d \in Live \ {c} : Untouched(d)
  BY <1>1, SetEffect
<1>3. coordinators[c].revision >= 1
  BY <1>2 DEF TeamsOK
<1>4. Untouched(c)
  BY <1>2, <1>3 DEF Untouched, StillEnded, Terminal, CoordinatorRecord
<1> QED
  BY <1>2, <1>4 DEF Gentle

LEMMA ResponseIsGentle ==
  ASSUME StoreInv, TeamsOK, NEW chat \in Chat, MarkParentResponseSent(chat)
  PROVE  Gentle
<1> DEFINE before(c) == {d \in OfChat(chat) : SlotOf(d) < SlotOf(c)}
<1>1. /\ UNCHANGED <<slots, spent>>
      /\ coordinators' = [c \in Coordinator |->
            IF c \in OfChat(chat)
            THEN [coordinators[c] EXCEPT
                    !.responseSent = TRUE, !.changed = TRUE,
                    !.revision = revisionSeq + Cardinality(before(c))]
            ELSE coordinators[c]]
      /\ revisionSeq' = revisionSeq + Cardinality(OfChat(chat))
  BY DEF MarkParentResponseSent
<1>2. revisionSeq \in Nat /\ revisionSeq >= 1
  BY DEF StoreInv, TypeOK, TeamsOK
<1>3. StoreMoves
  <2>1. IsFiniteSet(OfChat(chat))
    BY OfChatFinite DEF StoreInv
  <2>2. PICK n \in Nat : n = Cardinality(OfChat(chat))
    BY <2>1, FS_CardinalityType
  <2>3. revisionSeq + n >= revisionSeq
    BY <1>2
  <2> QED
    BY <1>1, <2>2, <2>3 DEF StoreMoves, Live
<1>4. ASSUME NEW c \in Live PROVE Untouched(c)
  <2>1. c \in Coordinator /\ coordinators[c] \in CoordinatorRecord /\ coordinators[c].revision >= 1
    BY DEF Live, StoreInv, TypeOK, TeamsOK
  <2>2. Cardinality(before(c)) \in Nat
    BY OfChatFinite, FS_Subset, FS_CardinalityType DEF StoreInv
  <2>3. PICK n \in Nat : n = Cardinality(before(c))
    BY <2>2
  <2>4. \/ coordinators'[c] = [coordinators[c] EXCEPT !.responseSent = TRUE, !.changed = TRUE,
                                                      !.revision = revisionSeq + n]
        \/ coordinators'[c] = coordinators[c]
    BY <1>1, <2>1, <2>3
  <2>5. revisionSeq + n >= 1
    BY <1>2
  <2> QED
    BY <2>1, <2>4, <2>5 DEF Untouched, StillEnded, Terminal, CoordinatorRecord
<1> QED
  BY <1>3, <1>4 DEF Gentle

-----------------------------------------------------------------------------
(* What each step has to show. *)

\* Nobody with an entry, and nobody who was not notified, is dropped.
DropsOnly == \A c \in Live \ Live' : c \notin Waiting /\ coordinators[c].notified

Keeps ==
  [Next]_storeVars /\ WakeInv' /\ DropsOnly /\ (LookedAfter /\ BusHasRoom => LookedAfter')

\* The revisions handed out stay handed out.
LEMMA RevisionsStay ==
  ASSUME StoreInv, StoreInv', StoreMoves
  PROVE  \A r \in 1 .. revisionSeq : r \in 1 .. revisionSeq'
BY DEF StoreInv, TypeOK, StoreMoves

LEMMA ReplayStays ==
  ASSUME WakeInv, StoreInv', StoreMoves, UNCHANGED replay
  PROVE  ReplayOK'
BY RevisionsStay DEF WakeInv, ReplayOK

\* The coordinator of a flush is in the store and has an entry.
LEMMA CurIsLive ==
  ASSUME WakeInv, agent.at \in FlushAt
  PROVE  /\ Cur \in Coordinator /\ Cur \in Live /\ Cur \in Waiting \ agent.todo
         /\ coordinators[Cur].wake \in {"pending", "dispatched"}
         /\ pending[Cur].used
BY DEF WakeInv, HandOK, Pinned, Waiting, FlushAt

\* The queue and what was consumed, when resumes stay recorded.
LEMMA QueueStays ==
  ASSUME WakeInv, StoreMoves, UNCHANGED consumed,
         \A c \in Live : coordinators[c].resumeEnqueued => coordinators'[c].resumeEnqueued,
         \A i \in DOMAIN inbound' : inbound'[i].kind = "resume" =>
           \/ \E j \in DOMAIN inbound : inbound'[i] = inbound[j]
           \/ /\ inbound'[i].of = Cur /\ Cur \in Live
              /\ agent'.at = "record_resume" /\ agent'.cur = Cur,
         agent.at = "record_resume" => \/ coordinators'[Cur].resumeEnqueued
                                       \/ agent'.at = "record_resume" /\ agent'.cur = Cur
  PROVE  QueueOK'
<1>1. Live' = Live /\ Live \subseteq spent' /\ spent \subseteq spent'
  BY DEF StoreMoves, WakeInv, StoreInv, KnownIds
<1>2. ASSUME NEW i \in DOMAIN inbound', inbound'[i].kind = "resume"
      PROVE  /\ inbound'[i].of \in spent'
             /\ inbound'[i].of \in Live =>
                  \/ coordinators'[inbound'[i].of].resumeEnqueued
                  \/ agent'.at = "record_resume" /\ inbound'[i].of = agent'.cur
  <2>1. CASE \E j \in DOMAIN inbound : inbound'[i] = inbound[j]
    <3>1. PICK j \in DOMAIN inbound : inbound'[i] = inbound[j]
      BY <2>1
    <3>2. /\ inbound[j].of \in spent
          /\ inbound[j].of \in Live => \/ coordinators[inbound[j].of].resumeEnqueued
                                       \/ agent.at = "record_resume" /\ inbound[j].of = Cur
      BY <1>2, <3>1 DEF WakeInv, QueueOK
    <3> QED
      BY <1>1, <3>1, <3>2
  <2>2. CASE /\ inbound'[i].of = Cur /\ Cur \in Live
             /\ agent'.at = "record_resume" /\ agent'.cur = Cur
    BY <1>1, <2>2
  <2> QED
    BY <1>2, <2>1, <2>2
<1>3. \A c \in Coordinator : consumed'[c] > 0 =>
        c \in spent' /\ (c \in Live => coordinators'[c].resumeEnqueued)
  BY <1>1 DEF WakeInv, QueueOK
<1> QED
  BY <1>1, <1>2, <1>3 DEF QueueOK, Cur

\* Steps of the other threads.
LEMMA OthersKeep ==
  ASSUME WakeInv, [Next]_storeVars, Gentle, UNCHANGED <<agent, consumed>>, WakeTypeOK', ReplayOK',
         \A c \in Coordinator : /\ pending'[c].used = pending[c].used
                                /\ pending'[c].resume = pending[c].resume,
         \A i \in DOMAIN inbound' : inbound'[i].kind = "resume" =>
           \E j \in DOMAIN inbound : inbound'[i] = inbound[j]
  PROVE  Keeps
<1>1. StoreInv'
  BY NextKeeps DEF WakeInv
<1>2. Live' = Live /\ Waiting' = Waiting /\ revisionSeq' >= revisionSeq
  BY DEF Gentle, StoreMoves, Waiting
<1>3. \A c \in Live : /\ coordinators'[c].chat = coordinators[c].chat
                      /\ coordinators'[c].wake = coordinators[c].wake
                      /\ coordinators'[c].notified = coordinators[c].notified
                      /\ coordinators'[c].resumeEnqueued = coordinators[c].resumeEnqueued
                      /\ coordinators'[c].revision >= 1
                      /\ Terminal(coordinators[c]) => Terminal(coordinators'[c])
  BY DEF Gentle, Untouched, StillEnded
<1>4. TeamsOK'
  <2>1. revisionSeq' >= 1
    BY <1>1, <1>2 DEF WakeInv, TeamsOK, StoreInv, TypeOK
  <2> QED
    BY <1>2, <1>3, <2>1 DEF WakeInv, TeamsOK
<1>5. Pinned'
  BY <1>2, <1>3 DEF WakeInv, Pinned
<1>6. HandOK'
  BY <1>2, <1>3 DEF WakeInv, HandOK, Cur
<1>7. RecOK'
  <2> SUFFICES ASSUME agent.at \in FlushAt PROVE RecOK'
    BY DEF RecOK
  <2>1. Cur \in Live /\ agent.rec.revision \in 1 .. revisionSeq'
    BY <1>1, CurIsLive, RevisionsStay DEF WakeInv, RecOK, Gentle
  <2> QED
    BY <1>3, <2>1 DEF WakeInv, RecOK, Cur
<1>8. OwedOK'
  <2> SUFFICES ASSUME NEW c \in Waiting, pending[c].resume
               PROVE  /\ coordinators'[c].notified
                      /\ ~coordinators'[c].resumeEnqueued \/ (agent.at = "settle" /\ c = Cur)
    BY <1>2 DEF OwedOK, Waiting, Cur
  <2>1. c \in Live
    BY DEF WakeInv, Pinned
  <2> QED
    BY <1>3, <2>1 DEF WakeInv, OwedOK, Cur
<1>9. QueueOK'
  BY <1>3, QueueStays DEF Gentle, Cur
<1>10. LookedAfter => LookedAfter'
  <2>1. agent.at \in {"nonweb", "settle"} => Cur \in Live
    BY CurIsLive DEF FlushAt
  <2> QED
    BY <1>2, <1>3, <2>1 DEF LookedAfter, Cur
<1> QED
  BY <1>1, <1>2, <1>4, <1>5, <1>6, <1>7, <1>8, <1>9, <1>10 DEF WakeInv, Keeps, DropsOnly

\* What a flush may do to its coordinator.
Handled(c) ==
  /\ coordinators'[c].chat = coordinators[c].chat
  /\ coordinators'[c].revision >= 1
  /\ coordinators[c].notified => coordinators'[c].notified
  /\ coordinators'[c].notified => Terminal(coordinators'[c])
  /\ coordinators[c].resumeEnqueued => coordinators'[c].resumeEnqueued
FlushMoves == StoreMoves /\ (\A c \in Live \ {Cur} : Untouched(c)) /\ Handled(Cur)

LEMMA GentleFlushMoves ==
  ASSUME WakeInv, Gentle, Cur \in Live
  PROVE  FlushMoves
BY DEF Gentle, FlushMoves, Handled, Untouched, StillEnded, WakeInv, TeamsOK

\* The entries and coordinators a flush does not work on.
LEMMA RestOfFlush ==
  ASSUME WakeInv, FlushMoves, agent.at \in FlushAt, StoreInv',
         \A c \in Coordinator \ {Cur} : pending'[c] = pending[c]
  PROVE  /\ TeamsOK'
         /\ \A c \in Waiting' \ {Cur} :
              /\ c \in Waiting /\ c \in Live' /\ coordinators'[c].wake \in {"pending", "dispatched"}
              /\ pending'[c].resume => coordinators'[c].notified /\ ~coordinators'[c].resumeEnqueued
         /\ agent.todo \subseteq Waiting' \ {Cur}
<1>1. Live' = Live /\ revisionSeq' >= revisionSeq /\ Cur \in Live /\ Cur \in Coordinator
  BY CurIsLive DEF FlushMoves, StoreMoves
<1>2. \A c \in Live \ {Cur} : /\ coordinators'[c].wake = coordinators[c].wake
                              /\ coordinators'[c].notified = coordinators[c].notified
                              /\ coordinators'[c].resumeEnqueued = coordinators[c].resumeEnqueued
                              /\ coordinators'[c].revision >= 1
                              /\ Terminal(coordinators[c]) => Terminal(coordinators'[c])
  BY DEF FlushMoves, Untouched, StillEnded
<1>3. TeamsOK'
  <2>1. revisionSeq' >= 1
    BY <1>1 DEF WakeInv, TeamsOK, StoreInv, TypeOK
  <2> QED
    BY <1>1, <1>2, <2>1 DEF WakeInv, TeamsOK, FlushMoves, Handled
<1>4. ASSUME NEW c \in Waiting' \ {Cur}
      PROVE  /\ c \in Waiting /\ c \in Live' /\ coordinators'[c].wake \in {"pending", "dispatched"}
             /\ pending'[c].resume => coordinators'[c].notified /\ ~coordinators'[c].resumeEnqueued
  <2>1. c \in Waiting /\ pending'[c] = pending[c]
    BY DEF Waiting
  <2>2. c \in Live /\ coordinators[c].wake \in {"pending", "dispatched"}
    BY <2>1 DEF WakeInv, Pinned, FlushAt
  <2> QED
    BY <1>1, <1>2, <2>1, <2>2 DEF WakeInv, OwedOK
<1>5. agent.todo \subseteq Waiting' \ {Cur}
  BY CurIsLive DEF WakeInv, HandOK, Waiting
<1> QED
  BY <1>3, <1>4, <1>5

\* A step of a flush that goes on.
LEMMA FlushGoesOn ==
  ASSUME WakeInv, [Next]_storeVars, FlushMoves, agent.at \in FlushAt,
         agent' \in AgentState, agent'.at \in FlushAt \ {"nonweb"}, agent'.todo = agent.todo,
         agent'.cur = Cur, RecOK',
         pending' \in [Coordinator -> Entry], pending'[Cur].used,
         \A c \in Coordinator \ {Cur} : pending'[c] = pending[c],
         coordinators'[Cur].wake \in {"pending", "dispatched"},
         pending'[Cur].resume =>
           /\ coordinators'[Cur].notified
           /\ ~coordinators'[Cur].resumeEnqueued \/ agent'.at = "settle",
         UNCHANGED <<replay, outbound, consumed>>, inbound' \in Seq(Message),
         \A i \in DOMAIN inbound' : inbound'[i].kind = "resume" =>
           \/ \E j \in DOMAIN inbound : inbound'[i] = inbound[j]
           \/ inbound'[i].of = Cur /\ agent'.at = "record_resume",
         agent.at = "record_resume" => coordinators'[Cur].resumeEnqueued,
         LookedAfter /\ BusHasRoom =>
           (agent'.at = "settle" /\ coordinators'[Cur].chat \in WebChat /\ coordinators'[Cur].notified
              => coordinators'[Cur].resumeEnqueued)
  PROVE  Keeps
<1>1. StoreInv'
  BY NextKeeps DEF WakeInv
<1>2. /\ Live' = Live /\ Cur \in Live /\ Cur \in Coordinator /\ agent'.cur = Cur
      /\ Cur \in Waiting' /\ Cur \in Waiting
  BY CurIsLive DEF FlushMoves, StoreMoves, Waiting
<1>3. /\ TeamsOK'
      /\ \A c \in Waiting' \ {Cur} :
           /\ c \in Waiting /\ c \in Live' /\ coordinators'[c].wake \in {"pending", "dispatched"}
           /\ pending'[c].resume => coordinators'[c].notified /\ ~coordinators'[c].resumeEnqueued
      /\ agent.todo \subseteq Waiting' \ {Cur}
  BY <1>1, RestOfFlush
<1>4. WakeTypeOK'
  BY DEF WakeInv, WakeTypeOK
<1>5. Pinned'
  BY <1>2, <1>3 DEF Pinned, Cur
<1>6. HandOK'
  BY <1>2, <1>3 DEF HandOK, FlushAt, Cur
<1>7. OwedOK'
  BY <1>2, <1>3 DEF OwedOK, Cur
<1>8. QueueOK'
  <2>1. \A c \in Live : coordinators[c].resumeEnqueued => coordinators'[c].resumeEnqueued
    BY DEF FlushMoves, Untouched, Handled
  <2> QED
    BY <1>2, <2>1, QueueStays DEF FlushMoves
<1>9. ReplayOK'
  BY <1>1, ReplayStays DEF FlushMoves
<1>10. LookedAfter /\ BusHasRoom => LookedAfter'
  <2> SUFFICES ASSUME LookedAfter, BusHasRoom PROVE LookedAfter'
    OBVIOUS
  <2>1. \A c \in Live \ {Cur} :
          coordinators'[c].chat \in WebChat /\ coordinators'[c].notified
            => coordinators'[c].resumeEnqueued \/ c \in Waiting'
    BY <1>2 DEF LookedAfter, FlushMoves, Untouched, Waiting, Live
  <2> QED
    BY <1>2, <2>1 DEF LookedAfter, Cur
<1> QED
  BY <1>1, <1>2, <1>3, <1>4, <1>5, <1>6, <1>7, <1>8, <1>9, <1>10 DEF WakeInv, Keeps, DropsOnly

\* The last step of a flush.
LEMMA FlushEnds ==
  ASSUME WakeInv, [Next]_storeVars, FlushMoves, agent.at \in FlushAt \ {"record_resume"},
         agent' = Over(agent.todo),
         NEW entry \in Entry, pending' = [pending EXCEPT ![Cur] = entry],
         entry.used => coordinators'[Cur].wake \in {"pending", "dispatched"},
         entry.used /\ entry.resume =>
           coordinators'[Cur].notified /\ ~coordinators'[Cur].resumeEnqueued,
         UNCHANGED <<replay, inbound, outbound, consumed>>,
         LookedAfter /\ BusHasRoom /\ ~entry.used /\ coordinators'[Cur].chat \in WebChat
           /\ coordinators'[Cur].notified => coordinators'[Cur].resumeEnqueued
  PROVE  Keeps
<1>1. StoreInv' /\ Blank \in CoordinatorRecord
  BY NextKeeps, EmptySeq DEF WakeInv, Blank, NewCoordinator, CoordinatorRecord, WakeState
<1>2. /\ Live' = Live /\ Cur \in Live /\ Cur \in Coordinator
      /\ pending \in [Coordinator -> Entry] /\ agent \in AgentState
  BY CurIsLive DEF FlushMoves, StoreMoves, WakeInv, WakeTypeOK
<1>3. /\ pending' \in [Coordinator -> Entry] /\ pending'[Cur] = entry
      /\ \A c \in Coordinator \ {Cur} : pending'[c] = pending[c]
  BY <1>2
<1>4. /\ TeamsOK'
      /\ \A c \in Waiting' \ {Cur} :
           /\ c \in Waiting /\ c \in Live' /\ coordinators'[c].wake \in {"pending", "dispatched"}
           /\ pending'[c].resume => coordinators'[c].notified /\ ~coordinators'[c].resumeEnqueued
      /\ agent.todo \subseteq Waiting' \ {Cur}
  BY <1>1, <1>3, RestOfFlush
<1>5. /\ agent' \in AgentState /\ agent'.at \in {"pop", "flush"} /\ agent'.todo = agent.todo
      /\ agent'.cur = None /\ agent'.rec = Blank
  BY <1>1, <1>2 DEF Over, Idle, AgentState, AgentAt, TeamOrNone
<1>6. WakeTypeOK'
  BY <1>3, <1>5 DEF WakeInv, WakeTypeOK
<1>7. Pinned'
  BY <1>2, <1>3, <1>4 DEF Pinned, Waiting, Cur
<1>8. HandOK'
  BY <1>4, <1>5 DEF HandOK, FlushAt, Cur
<1>9. RecOK'
  BY <1>5 DEF RecOK, FlushAt
<1>10. OwedOK'
  BY <1>2, <1>3, <1>4 DEF OwedOK, Waiting, Cur
<1>11. QueueOK'
  <2>1. \A c \in Live : coordinators[c].resumeEnqueued => coordinators'[c].resumeEnqueued
    BY DEF FlushMoves, Untouched, Handled
  <2> QED
    BY <1>2, <2>1, QueueStays DEF FlushMoves
<1>12. ReplayOK'
  BY <1>1, ReplayStays DEF FlushMoves
<1>13. LookedAfter /\ BusHasRoom => LookedAfter'
  <2> SUFFICES ASSUME LookedAfter, BusHasRoom PROVE LookedAfter'
    OBVIOUS
  <2>1. \A c \in Live \ {Cur} :
          coordinators'[c].chat \in WebChat /\ coordinators'[c].notified
            => coordinators'[c].resumeEnqueued \/ c \in Waiting'
    BY <1>3 DEF LookedAfter, FlushMoves, Untouched, Waiting, Live
  <2>2. coordinators'[Cur].chat \in WebChat /\ coordinators'[Cur].notified
            => coordinators'[Cur].resumeEnqueued \/ Cur \in Waiting'
    BY <1>2, <1>3 DEF Waiting
  <2> QED
    BY <1>2, <1>5, <2>1, <2>2 DEF LookedAfter, Cur
<1> QED
  BY <1>1, <1>2, <1>4, <1>6, <1>7, <1>8, <1>9, <1>10, <1>11, <1>12, <1>13
     DEF WakeInv, Keeps, DropsOnly

\* What the loop may do to a coordinator it has not in hand.
LoopMoves ==
  StoreMoves /\ \A c \in Live :
    /\ coordinators'[c].chat = coordinators[c].chat
    /\ coordinators'[c].wake = coordinators[c].wake
    /\ coordinators'[c].notified = coordinators[c].notified
    /\ coordinators'[c].resumeEnqueued = coordinators[c].resumeEnqueued
    /\ coordinators'[c].revision >= 1
    /\ coordinators'[c].notified => Terminal(coordinators'[c])

LEMMA GentleLoopMoves ==
  ASSUME WakeInv, Gentle
  PROVE  LoopMoves
BY DEF Gentle, LoopMoves, Untouched, StillEnded, WakeInv, TeamsOK

\* A step of the agent loop with no coordinator in hand, before and after.
LEMMA LoopKeeps ==
  ASSUME WakeInv, [Next]_storeVars, LoopMoves, UNCHANGED <<pending, replay>>,
         agent.at \notin FlushAt \cup {"mark"}, agent'.at \notin FlushAt,
         WakeTypeOK', HandOK', QueueOK'
  PROVE  Keeps
<1>1. StoreInv'
  BY NextKeeps DEF WakeInv
<1>2. Live' = Live /\ Waiting' = Waiting /\ revisionSeq' >= revisionSeq
  BY DEF LoopMoves, StoreMoves, Waiting
<1>3. TeamsOK'
  <2>1. revisionSeq' >= 1
    BY <1>1, <1>2 DEF WakeInv, TeamsOK, StoreInv, TypeOK
  <2> QED
    BY <1>2, <2>1 DEF LoopMoves, TeamsOK
<1>4. \A c \in Waiting : c \in Live /\ coordinators[c].wake \in {"pending", "dispatched"}
  BY DEF WakeInv, Pinned
<1>5. Pinned'
  BY <1>2, <1>4 DEF Pinned, LoopMoves
<1>6. RecOK'
  BY DEF RecOK
<1>7. OwedOK'
  <2>1. \A c \in Waiting : pending[c].resume =>
          coordinators[c].notified /\ ~coordinators[c].resumeEnqueued
    BY DEF WakeInv, OwedOK, FlushAt
  <2> QED
    BY <1>2, <1>4, <2>1 DEF OwedOK, LoopMoves
<1>8. ReplayOK'
  BY <1>1, ReplayStays DEF LoopMoves
<1>9. LookedAfter => LookedAfter'
  BY <1>2 DEF LookedAfter, FlushAt, LoopMoves
<1> QED
  BY <1>1, <1>2, <1>3, <1>5, <1>6, <1>7, <1>8, <1>9 DEF WakeInv, Keeps, DropsOnly

-----------------------------------------------------------------------------
(* The store's steps, as this module takes them. *)

LEMMA SnapshotMoves ==
  ASSUME StoreInv, TeamsOK, NEW c \in Coordinator, SnapshotCoordinator(c)
  PROVE  Next /\ Gentle /\ StoreInv'
<1>1. ReadStep
  BY DEF SnapshotCoordinator, ReadStep
<1>2. Next
  BY DEF Next, CoordinatorStep
<1> QED
  BY <1>1, <1>2, ReadIsGentle, ReadKeeps

LEMMA SnapshotParentMoves ==
  ASSUME StoreInv, TeamsOK, NEW chat \in Chat, SnapshotParent(chat)
  PROVE  Next /\ Gentle /\ StoreInv'
<1>1. ReadStep
  BY DEF SnapshotParent, ReadStep, OfChat, Live
<1>2. Next
  BY DEF Next, CoordinatorStep
<1> QED
  BY <1>1, <1>2, ReadIsGentle, ReadKeeps

LEMMA SentMoves ==
  ASSUME StoreInv, TeamsOK, NEW c \in Live, NEW revision \in 1 .. revisionSeq,
         MarkVisibleRevisionSent(c, revision)
  PROVE  Next /\ Gentle /\ StoreInv'
<1>1. c \in Coordinator
  BY DEF Live
<1>2. Next
  BY <1>1 DEF Next, CoordinatorStep
<1> QED
  BY <1>2, SentIsGentle, NextKeeps

LEMMA ResponseMoves ==
  ASSUME StoreInv, TeamsOK, NEW chat \in Chat, MarkParentResponseSent(chat)
  PROVE  Next /\ Gentle
<1>1. Next
  BY DEF Next, CoordinatorStep
<1> QED
  BY <1>1, ResponseIsGentle

LEMMA SameMoves ==
  ASSUME StoreInv, TeamsOK, UNCHANGED storeVars
  PROVE  [Next]_storeVars /\ Gentle
BY SameIsGentle

LEMMA PlanMoves ==
  ASSUME StoreInv, TeamsOK, NEW t \in Task, NEW c \in Coordinator, Plan(c, t, FALSE)
  PROVE  Next /\ Gentle
<1>1. Next
  BY DEF Next, TaskStep
<1>2. NewRecord("queued", c, FALSE) \in TaskRecord
  BY StoreAssumption DEF NewRecord, FreeRecord, TaskRecord, TaskStatus
<1>3. ~Ended(records[t])
  BY DEF Plan, StoreInv, KnownIds, Ended
<1> QED
  BY <1>1, <1>2, <1>3, WriteIsGentle DEF Plan

LEMMA ClaimMoves ==
  ASSUME StoreInv, TeamsOK, NEW t \in Task, ClaimQueuedTask(t)
  PROVE  Next /\ Gentle
<1>1. Next
  BY DEF Next, TaskStep
<1>2. /\ [records[t] EXCEPT !.status = "running"] \in TaskRecord
      /\ ~Ended(records[t])
  BY DEF ClaimQueuedTask, StoreInv, TypeOK, TaskRecord, TaskStatus, Ended
<1> QED
  BY <1>1, <1>2, WriteIsGentle DEF ClaimQueuedTask

\* A report of a worker on a task that is running.
LEMMA ReportMoves ==
  ASSUME StoreInv, TeamsOK, NEW t \in Task, NEW effective \in BOOLEAN,
         \/ Complete(t, <<>>, effective)
         \/ Fail(t) /\ records[t].status = "running"
         \/ AppendSession(t)
  PROVE  Next /\ Gentle
<1>1. <<>> \in FileList /\ records[t] \in TaskRecord
  BY StoreAssumption DEF StoreInv, TypeOK
<1>2. Next
  BY <1>1 DEF Next, TaskStep
<1>3. ~Ended(records[t]) /\ spent \subseteq spent'
  BY DEF Complete, Fail, AppendSession, Ended
<1>4. CASE Complete(t, <<>>, effective)
  <2>1. [records[t] EXCEPT !.status = IF records[t].blocker THEN "failed" ELSE "done",
                           !.effective = effective, !.files = <<>>,
                           !.approved = <<>> # <<>>, !.request = FALSE] \in TaskRecord
    BY <1>1 DEF TaskRecord, TaskStatus
  <2> QED
    BY <1>3, <1>4, <2>1, <1>2, WriteIsGentle DEF Complete
<1>5. CASE Fail(t)
  <2>1. [records[t] EXCEPT !.status = "failed", !.blocker = TRUE, !.request = FALSE] \in TaskRecord
    BY <1>1 DEF TaskRecord, TaskStatus
  <2> QED
    BY <1>3, <1>5, <2>1, <1>2, WriteIsGentle DEF Fail
<1>6. CASE AppendSession(t)
  BY <1>1, <1>2, <1>3, <1>6, WriteIsGentle DEF AppendSession
<1> QED
  BY <1>4, <1>5, <1>6

-----------------------------------------------------------------------------
(* The other threads. *)

LEMMA WorkerKeeps ==
  ASSUME WakeInv, Worker
  PROVE  Keeps
<1>1. PICK t \in Task, effective \in BOOLEAN :
        \/ Complete(t, <<>>, effective)
        \/ Fail(t) /\ records[t].status = "running"
        \/ AppendSession(t)
  BY DEF Worker
<1>2. Next /\ Gentle
  BY <1>1, ReportMoves DEF WakeInv
<1>3. UNCHANGED <<pending, agent, replay, inbound, outbound, consumed>>
  BY DEF Worker, queueVars, chatVars
<1>4. WakeTypeOK'
  BY <1>3 DEF WakeInv, WakeTypeOK
<1>5. ReplayOK'
  BY <1>2, <1>3, NextKeeps, ReplayStays DEF WakeInv, Gentle
<1> QED
  BY <1>2, <1>3, <1>4, <1>5, OthersKeep

LEMMA DeliverKeeps ==
  ASSUME WakeInv, Deliver
  PROVE  Keeps
<1> DEFINE r == Head(outbound)
<1>1. /\ outbound # <<>> /\ outbound' = Tail(outbound)
      /\ UNCHANGED <<pending, agent, replay, inbound, consumed>>
      /\ \/ r.chat \in SocketChat /\ MarkParentResponseSent(r.chat)
         \/ UNCHANGED storeVars
  BY DEF Deliver
<1>2. [Next]_storeVars /\ Gentle
  BY <1>1, WakeAssumption, ResponseMoves, SameMoves DEF WakeInv
<1>3. WakeTypeOK'
  BY <1>1 DEF WakeInv, WakeTypeOK
<1>4. ReplayOK'
  BY <1>1, <1>2, NextKeeps, ReplayStays DEF WakeInv, Gentle
<1> QED
  BY <1>1, <1>2, <1>3, <1>4, OthersKeep

LEMMA ReplayKeeps ==
  ASSUME WakeInv, Replay
  PROVE  Keeps
<1>1. UNCHANGED <<pending, agent, inbound, outbound, consumed>>
  BY DEF Replay, queueVars
<1>2. SUFFICES [Next]_storeVars /\ Gentle /\ replay' \in ReplayState /\ ReplayOK'
  <2> SUFFICES ASSUME [Next]_storeVars, Gentle, replay' \in ReplayState, ReplayOK' PROVE Keeps
    OBVIOUS
  <2>1. WakeTypeOK'
    BY <1>1 DEF WakeInv, WakeTypeOK
  <2> QED
    BY <1>1, <2>1, OthersKeep
<1>3. replay \in ReplayState /\ Blank \in CoordinatorRecord
  BY EmptySeq DEF WakeInv, WakeTypeOK, Blank, NewCoordinator, CoordinatorRecord, WakeState
<1>4. ASSUME NEW chat \in SocketChat, ReplayStart(chat)
      PROVE  [Next]_storeVars /\ Gentle /\ replay' \in ReplayState /\ ReplayOK'
  <2>1. Next /\ Gentle
    BY <1>4, WakeAssumption, SnapshotParentMoves DEF ReplayStart, WakeInv
  <2>2. OfChat(chat) \subseteq Coordinator
    BY DEF OfChat, Live
  <2>3. replay' \in ReplayState /\ replay'.at \in {"idle", "look"}
    BY <1>3, <1>4, <2>2 DEF ReplayStart, NoReplay, ReplayState, TeamOrNone
  <2> QED
    BY <2>1, <2>3 DEF ReplayOK
<1>5. ASSUME NEW todo \in SUBSET Coordinator, replay' = Replayed(todo)
      PROVE  replay' \in ReplayState /\ ReplayOK'
  BY <1>3, <1>5 DEF Replayed, NoReplay, ReplayState, TeamOrNone, ReplayOK
<1>6. ASSUME NEW c \in Coordinator, ReplayLook(c)
      PROVE  [Next]_storeVars /\ Gentle /\ replay' \in ReplayState /\ ReplayOK'
  <2>1. CASE c \in Live
    <3>1. /\ SnapshotCoordinator(c)
          /\ replay' = [at |-> "send", todo |-> replay.todo \ {c}, cur |-> c,
                        rec |-> coordinators'[c]]
      BY <1>6, <2>1 DEF ReplayLook
    <3>2. Next /\ Gentle /\ StoreInv'
      BY <3>1, SnapshotMoves DEF WakeInv
    <3>3. /\ coordinators'[c] \in CoordinatorRecord /\ coordinators'[c].revision >= 1
          /\ coordinators'[c].revision < revisionSeq' /\ revisionSeq' \in Nat
          /\ coordinators'[c].revision \in Nat
      BY <2>1, <3>2 DEF StoreInv, TypeOK, RevisionOrder, Gentle, StoreMoves, Untouched,
                        CoordinatorRecord
    <3>4. coordinators'[c].revision \in 1 .. revisionSeq'
      BY <3>3
    <3>5. replay' \in ReplayState /\ replay'.cur = c /\ replay'.rec = coordinators'[c]
      BY <1>3, <3>1, <3>3 DEF ReplayState, TeamOrNone
    <3> QED
      BY <3>2, <3>4, <3>5 DEF ReplayOK
  <2>2. CASE c \notin Live
    <3>1. UNCHANGED storeVars /\ replay' = Replayed(replay.todo \ {c})
      BY <1>6, <2>2 DEF ReplayLook
    <3>2. replay.todo \ {c} \in SUBSET Coordinator
      BY <1>3 DEF ReplayState
    <3> QED
      BY <1>5, <3>1, <3>2, SameMoves DEF WakeInv
  <2> QED
    BY <2>1, <2>2
<1>7. CASE ReplaySend
  <2>1. [Next]_storeVars /\ Gentle
    BY <1>7, SameMoves DEF ReplaySend, WakeInv
  <2>2. CASE replay' = [replay EXCEPT !.at = "record"]
    <3>1. /\ replay' \in ReplayState /\ replay'.cur = replay.cur /\ replay'.rec = replay.rec
          /\ replay.at = "send"
      BY <1>3, <1>7, <2>2 DEF ReplayState, ReplaySend
    <3>2. \A n \in 1 .. revisionSeq : n \in 1 .. revisionSeq'
      BY <1>7 DEF ReplaySend, storeVars
    <3> QED
      BY <2>1, <3>1, <3>2 DEF WakeInv, ReplayOK
  <2>3. CASE replay' = Replayed(replay.todo)
    BY <1>3, <1>5, <2>1, <2>3 DEF ReplayState
  <2> QED
    BY <1>7, <2>2, <2>3 DEF ReplaySend
<1>8. CASE ReplayRecord
  <2>1. replay.rec.revision \in 1 .. revisionSeq
    BY <1>8 DEF ReplayRecord, WakeInv, ReplayOK
  <2>2. [Next]_storeVars /\ Gentle
    BY <1>8, <2>1, SentMoves, SameMoves DEF ReplayRecord, WakeInv
  <2> QED
    BY <1>3, <1>5, <1>8, <2>2 DEF ReplayRecord, ReplayState
<1> QED
  BY <1>4, <1>6, <1>7, <1>8 DEF Replay

LEMMA ClientKeeps ==
  ASSUME WakeInv, Client
  PROVE  Keeps
<1>1. PICK chat \in Chat : UserSays(chat) \/ Reconnect(chat) \/ AskOrAnswer(chat)
  BY DEF Client
<1>2. UNCHANGED <<storeVars, pending, agent, replay, outbound, consumed>>
  BY DEF Client
<1>3. UserMessage(chat) \in Message /\ UserMessage(chat).kind = "user"
  BY DEF UserMessage, Message
<1>4. inbound \in Seq(Message)
  BY DEF WakeInv, WakeTypeOK
<1>5. inbound' = inbound \/ inbound' = Append(inbound, UserMessage(chat))
  BY <1>1 DEF UserSays, Reconnect, AskOrAnswer
<1>6. /\ inbound' \in Seq(Message)
      /\ \A i \in DOMAIN inbound' : inbound'[i].kind = "resume" =>
           \E j \in DOMAIN inbound : inbound'[i] = inbound[j]
  BY <1>3, <1>4, <1>5, AppendProperties
<1>7. WakeTypeOK'
  BY <1>2, <1>6 DEF WakeInv, WakeTypeOK
<1>8. [Next]_storeVars /\ Gentle
  BY <1>2, SameMoves DEF WakeInv
<1>9. ReplayOK'
  BY <1>2, <1>8, NextKeeps, ReplayStays DEF WakeInv, Gentle
<1> QED
  BY <1>2, <1>6, <1>7, <1>8, <1>9, OthersKeep

LEMMA TimeKeeps ==
  ASSUME WakeInv, Time
  PROVE  Keeps
<1>1. UNCHANGED <<storeVars, agent, replay, inbound, outbound, consumed>>
  BY DEF Time, RetryDue, QuietAgain, queueVars, chatVars
<1>2. /\ pending' \in [Coordinator -> Entry]
      /\ \A c \in Coordinator : /\ pending'[c].used = pending[c].used
                                /\ pending'[c].resume = pending[c].resume
  <2>1. pending \in [Coordinator -> Entry]
    BY DEF WakeInv, WakeTypeOK
  <2>2. CASE pending' = pending
    BY <2>1, <2>2
  <2>3. ASSUME NEW c \in Coordinator, pending' = [pending EXCEPT ![c].retry = "due"]
        PROVE  /\ pending' \in [Coordinator -> Entry]
               /\ \A d \in Coordinator : /\ pending'[d].used = pending[d].used
                                         /\ pending'[d].resume = pending[d].resume
    <3>1. pending' = [pending EXCEPT ![c] = [pending[c] EXCEPT !.retry = "due"]]
      BY <2>3
    <3>2. [pending[c] EXCEPT !.retry = "due"] \in Entry
      BY <2>1 DEF Entry
    <3> QED
      BY <2>1, <3>1, <3>2 DEF Entry
  <2> QED
    BY <2>2, <2>3 DEF Time, RetryDue, QuietAgain
<1>3. WakeTypeOK'
  BY <1>1, <1>2 DEF WakeInv, WakeTypeOK
<1>4. [Next]_storeVars /\ Gentle
  BY <1>1, SameMoves DEF WakeInv
<1>5. ReplayOK'
  BY <1>1, <1>4, NextKeeps, ReplayStays DEF WakeInv, Gentle
<1> QED
  BY <1>1, <1>2, <1>3, <1>4, <1>5, OthersKeep

LEMMA StutterKeeps ==
  ASSUME WakeInv, UNCHANGED wakeVars
  PROVE  Keeps
<1>1. UNCHANGED <<storeVars, pending, agent, replay, inbound, outbound, consumed>>
  BY DEF wakeVars
<1>2. [Next]_storeVars /\ Gentle
  BY <1>1, SameMoves DEF WakeInv
<1>3. WakeTypeOK'
  BY <1>1 DEF WakeInv, WakeTypeOK
<1>4. ReplayOK'
  BY <1>1, <1>2, NextKeeps, ReplayStays DEF WakeInv, Gentle
<1> QED
  BY <1>1, <1>2, <1>3, <1>4, OthersKeep

-----------------------------------------------------------------------------
(* The agent loop outside a flush. *)

LEMMA StartingValues ==
  Blank \in CoordinatorRecord /\ Idle \in AgentState /\ NoEntry \in Entry /\ NoReplay \in ReplayState
BY EmptySeq DEF Blank, NewCoordinator, CoordinatorRecord, WakeState, Idle, AgentState, AgentAt,
                TeamOrNone, NoEntry, Entry, NoReplay, ReplayState

LEMMA QueuedIsTyped ==
  ASSUME outbound \in Seq(ReplyMessage), NEW reply \in ReplyMessage, Queue(reply)
  PROVE  outbound' \in Seq(ReplyMessage)
BY AppendProperties DEF Queue

\* The queue, when no resume is being recorded and none is pushed.
LEMMA QueueStaysInLoop ==
  ASSUME WakeInv, LoopMoves, agent.at # "record_resume", UNCHANGED consumed,
         \A i \in DOMAIN inbound' : \E j \in DOMAIN inbound : inbound'[i] = inbound[j]
  PROVE  QueueOK'
<1>1. \A c \in Live : coordinators[c].resumeEnqueued => coordinators'[c].resumeEnqueued
  BY DEF LoopMoves
<1>2. StoreMoves
  BY DEF LoopMoves
<1> QED
  BY <1>1, <1>2, QueueStays

\* With nothing in hand the loop has no coordinator and no copy of one.
LEMMA NothingInHand ==
  ASSUME WakeInv, agent.at \notin FlushAt \cup {"plan", "attach"}
  PROVE  agent \in AgentState /\ Cur = None /\ agent.cur = None /\ agent.rec = Blank
BY DEF WakeInv, WakeTypeOK, HandOK, Cur

LEMMA PollFlushesKeeps ==
  ASSUME WakeInv, PollFlushes, UNCHANGED <<queueVars, replay, chatVars, events>>
  PROVE  Keeps
<1>1. /\ agent.at = "loop" /\ UNCHANGED <<storeVars, pending, replay, inbound, outbound, consumed>>
      /\ agent' = [agent EXCEPT !.at = IF Waiting = {} THEN "pop" ELSE "flush", !.todo = Waiting]
  BY DEF PollFlushes, queueVars, chatVars
<1>2. agent \in AgentState /\ agent.cur = None /\ agent.rec = Blank /\ Waiting' = Waiting
  BY <1>1, NothingInHand DEF FlushAt, Waiting
<1>3. /\ agent' \in AgentState /\ agent'.at \in {"pop", "flush"} /\ agent'.todo = Waiting
      /\ agent'.cur = None /\ agent'.rec = Blank
  BY <1>1, <1>2 DEF AgentState, AgentAt, Waiting
<1>4. WakeTypeOK' /\ HandOK'
  BY <1>1, <1>2, <1>3 DEF WakeInv, WakeTypeOK, HandOK, FlushAt, Cur
<1>5. [Next]_storeVars /\ LoopMoves
  BY <1>1, SameMoves, GentleLoopMoves DEF WakeInv
<1>6. QueueOK'
  BY <1>1, <1>5, QueueStaysInLoop
<1> QED
  BY <1>1, <1>3, <1>4, <1>5, <1>6, LoopKeeps DEF FlushAt

LEMMA LookHeldKeeps ==
  ASSUME WakeInv, NEW c \in Coordinator, agent.at = "flush", SnapshotCoordinator(c),
         agent' = Over(agent.todo \ {c}), UNCHANGED pending,
         UNCHANGED <<queueVars, replay, chatVars, events>>
  PROVE  Keeps
<1>1. UNCHANGED <<pending, replay, inbound, outbound, consumed>>
  BY DEF queueVars, chatVars
<1>2. agent \in AgentState /\ agent.todo \subseteq Waiting /\ Waiting' = Waiting
  BY <1>1, NothingInHand DEF FlushAt, Waiting, WakeInv, HandOK
<1>3. /\ agent' \in AgentState /\ agent'.at \in {"pop", "flush"}
      /\ agent'.todo = agent.todo \ {c} /\ agent'.cur = None /\ agent'.rec = Blank
  BY <1>2, StartingValues DEF Over, Idle, AgentState, AgentAt, TeamOrNone
<1>4. WakeTypeOK' /\ HandOK'
  BY <1>1, <1>2, <1>3 DEF WakeInv, WakeTypeOK, HandOK, FlushAt, Cur
<1>5. [Next]_storeVars /\ LoopMoves
  BY SnapshotMoves, GentleLoopMoves DEF WakeInv
<1>6. QueueOK'
  BY <1>1, <1>5, QueueStaysInLoop
<1> QED
  BY <1>1, <1>3, <1>4, <1>5, <1>6, LoopKeeps DEF FlushAt

LEMMA TakeMessageKeeps ==
  ASSUME WakeInv, TakeMessage,
         UNCHANGED <<storeVars, pending, replay, connected, active, asked, replied, events>>
  PROVE  Keeps
<1>1. [Next]_storeVars /\ LoopMoves
  BY SameMoves, GentleLoopMoves DEF WakeInv
<1>2. agent.at = "pop" /\ inbound \in Seq(Message) /\ consumed \in [Coordinator -> Nat]
  BY DEF TakeMessage, TakeNothing, TakeUserMessage, TakeResume, WakeInv, WakeTypeOK
<1>3. CASE TakeNothing
  <2>1. agent' = Idle /\ UNCHANGED <<inbound, outbound, consumed>>
    BY <1>3 DEF TakeNothing, queueVars
  <2>2. WakeTypeOK' /\ HandOK' /\ agent'.at = "loop"
    BY <2>1, StartingValues DEF WakeInv, WakeTypeOK, HandOK, FlushAt, Cur, Idle
  <2>3. QueueOK'
    BY <1>1, <1>2, <2>1, QueueStaysInLoop
  <2> QED
    BY <1>1, <1>2, <2>2, <2>3, LoopKeeps DEF FlushAt
<1>4. ASSUME inbound # <<>>, inbound' = Tail(inbound)
      PROVE  /\ inbound' \in Seq(Message) /\ Head(inbound) \in Message
             /\ 1 \in DOMAIN inbound /\ Head(inbound) = inbound[1]
             /\ \A i \in DOMAIN inbound' : \E j \in DOMAIN inbound : inbound'[i] = inbound[j]
  <2>1. /\ Head(inbound) \in Message /\ Tail(inbound) \in Seq(Message)
        /\ Len(Tail(inbound)) = Len(inbound) - 1
        /\ \A i \in 1 .. Len(Tail(inbound)) : Tail(inbound)[i] = inbound[i + 1]
    BY <1>2, <1>4, HeadTailProperties
  <2>2. DOMAIN inbound = 1 .. Len(inbound) /\ Len(inbound) \in Nat /\ Len(inbound) # 0
    BY <1>2, <1>4, LenProperties, EmptySeq
  <2>3. DOMAIN inbound' = 1 .. Len(inbound')
    BY <1>4, <2>1, LenProperties
  <2>4. ASSUME NEW i \in DOMAIN inbound' PROVE i + 1 \in DOMAIN inbound
    BY <1>4, <2>1, <2>2, <2>3
  <2>5. Head(inbound) = inbound[1]
    BY <1>2, <1>4
  <2> QED
    BY <1>4, <2>1, <2>2, <2>3, <2>4, <2>5
<1>5. CASE TakeUserMessage
  <2>1. /\ inbound # <<>> /\ Head(inbound).kind = "user" /\ inbound' = Tail(inbound)
        /\ agent' = [Idle EXCEPT !.at = "turn", !.chat = Head(inbound).chat]
        /\ UNCHANGED <<outbound, consumed>>
    BY <1>5 DEF TakeUserMessage
  <2>2. Head(inbound).chat \in Chat
    BY <1>4, <2>1 DEF Message
  <2>3. /\ agent' \in AgentState /\ agent'.at = "turn" /\ agent'.chat \in Chat
        /\ agent'.cur = None /\ agent'.rec = Blank
    BY <2>1, <2>2, StartingValues DEF Idle, AgentState, AgentAt
  <2>4. WakeTypeOK' /\ HandOK'
    BY <1>4, <2>1, <2>3 DEF WakeInv, WakeTypeOK, HandOK, FlushAt, Cur
  <2>5. QueueOK'
    BY <1>1, <1>2, <1>4, <2>1, QueueStaysInLoop
  <2> QED
    BY <1>1, <1>2, <2>3, <2>4, <2>5, LoopKeeps DEF FlushAt
<1>6. CASE TakeResume
  <2> DEFINE m == Head(inbound)
  <2>1. /\ inbound # <<>> /\ m.kind = "resume" /\ inbound' = Tail(inbound)
        /\ consumed' = [consumed EXCEPT ![m.of] = IF m.revision > @ THEN m.revision ELSE @]
        /\ Queue(Reply(m.chat, TRUE)) /\ agent' = Idle
    BY <1>6 DEF TakeResume
  <2>2. /\ m \in Message /\ m = inbound[1] /\ 1 \in DOMAIN inbound
        /\ inbound' \in Seq(Message)
        /\ \A i \in DOMAIN inbound' : \E j \in DOMAIN inbound : inbound'[i] = inbound[j]
    BY <1>4, <2>1
  <2>3. m.of \in Coordinator /\ m.revision \in Nat /\ m.chat \in Chat \cup {None}
    BY <2>1, <2>2 DEF Message
  <2>4. m.of \in spent /\ (m.of \in Live => coordinators[m.of].resumeEnqueued)
    BY <1>2, <2>1, <2>2 DEF WakeInv, QueueOK
  <2>5. outbound' \in Seq(ReplyMessage)
    BY <2>1, <2>3, QueuedIsTyped DEF WakeInv, WakeTypeOK, Reply, ReplyMessage
  <2> HIDE DEF m
  <2>6. /\ consumed' \in [Coordinator -> Nat]
        /\ \A c \in Coordinator : c # m.of => consumed'[c] = consumed[c]
    BY <1>2, <2>1, <2>3
  <2>7. WakeTypeOK' /\ HandOK' /\ agent'.at = "loop"
    BY <2>1, <2>2, <2>5, <2>6, StartingValues
       DEF WakeInv, WakeTypeOK, HandOK, FlushAt, Cur, Idle
  <2>8. QueueOK'
    <3>1. UNCHANGED <<coordinators, slots, spent>> /\ Live' = Live
      BY DEF storeVars, Live, Slot
    <3>2. \A i \in DOMAIN inbound' : inbound'[i].kind = "resume" =>
            /\ inbound'[i].of \in spent'
            /\ inbound'[i].of \in Live' => coordinators'[inbound'[i].of].resumeEnqueued
      BY <1>2, <2>2, <3>1 DEF WakeInv, QueueOK
    <3>3. \A c \in Coordinator : consumed'[c] > 0 =>
            c \in spent' /\ (c \in Live' => coordinators'[c].resumeEnqueued)
      BY <2>4, <2>6, <3>1 DEF WakeInv, QueueOK
    <3> QED
      BY <3>2, <3>3 DEF QueueOK
  <2> QED
    BY <1>1, <1>2, <2>7, <2>8, LoopKeeps DEF FlushAt
<1> QED
  BY <1>3, <1>5, <1>6 DEF TakeMessage

LEMMA EndOfTurnKeeps ==
  ASSUME WakeInv, EndTurn \/ EndCancelled,
         UNCHANGED <<storeVars, pending, inbound, replay, connected, active, asked, consumed>>
  PROVE  Keeps
<1>1. [Next]_storeVars /\ LoopMoves
  BY SameMoves, GentleLoopMoves DEF WakeInv
<1>2. agent.at = "turn" /\ agent' = Idle
  BY DEF EndTurn, EndCancelled
<1>3. outbound' \in Seq(ReplyMessage)
  <2>1. Reply(agent.chat, FALSE) \in ReplyMessage /\ outbound \in Seq(ReplyMessage)
    BY DEF WakeInv, WakeTypeOK, AgentState, Reply, ReplyMessage
  <2> QED
    BY <2>1, QueuedIsTyped DEF EndTurn, EndCancelled
<1>4. WakeTypeOK' /\ HandOK' /\ agent'.at = "loop"
  BY <1>2, <1>3, StartingValues DEF WakeInv, WakeTypeOK, HandOK, FlushAt, Cur, Idle
<1>5. QueueOK'
  BY <1>1, <1>2, QueueStaysInLoop
<1> QED
  BY <1>1, <1>2, <1>4, <1>5, LoopKeeps DEF FlushAt

-----------------------------------------------------------------------------
(* A turn. *)

\* A step of a turn that changes the queue, the table and the chats not at all.
LEMMA TurnStepKeeps ==
  ASSUME WakeInv, [Next]_storeVars, LoopMoves, UNCHANGED <<pending, queueVars, replay, chatVars>>,
         agent.at \notin FlushAt \cup {"mark"}, agent' \in AgentState, agent'.at \notin FlushAt,
         HandOK'
  PROVE  Keeps
<1>1. UNCHANGED <<pending, replay, inbound, outbound, consumed>>
  BY DEF queueVars, chatVars
<1>2. WakeTypeOK'
  BY <1>1 DEF WakeInv, WakeTypeOK
<1>3. QueueOK'
  BY <1>1, QueueStaysInLoop DEF FlushAt
<1> QED
  BY <1>1, <1>2, <1>3, LoopKeeps

\* The coordinator a turn plans for.
LEMMA PlannedFor ==
  ASSUME WakeInv, agent.at \in {"plan", "attach"}
  PROVE  /\ Cur \in Coordinator /\ Cur \in Live /\ ~coordinators[Cur].notified
         /\ agent \in AgentState /\ agent.chat \in Chat /\ agent.rec = Blank
BY DEF WakeInv, WakeTypeOK, HandOK, FlushAt, Live

LEMMA LaunchKeeps ==
  ASSUME WakeInv, NEW t \in Task, Launch(t),
         UNCHANGED <<pending, queueVars, replay, chatVars, events>>
  PROVE  Keeps
<1>1. agent.at \in {"turn", "loop"} /\ agent' = agent /\ agent \in AgentState
  BY DEF Launch, WakeInv, WakeTypeOK
<1>2. [Next]_storeVars /\ LoopMoves
  BY ClaimMoves, GentleLoopMoves DEF Launch, WakeInv
<1>3. HandOK'
  BY <1>1 DEF WakeInv, HandOK, FlushAt, Cur
<1> QED
  BY <1>1, <1>2, <1>3, TurnStepKeeps DEF FlushAt

LEMMA TeamRefusedKeeps ==
  ASSUME WakeInv, TeamRefused, UNCHANGED <<pending, queueVars, replay, chatVars, events>>
  PROVE  Keeps
<1>1. agent.at = "turn" /\ agent' = agent /\ agent \in AgentState
  BY DEF TeamRefused, WakeInv, WakeTypeOK
<1>2. ReadStep /\ Next
  BY DEF TeamRefused, ReadStep, Next, CoordinatorStep
<1>3. LoopMoves
  BY <1>2, ReadIsGentle, GentleLoopMoves DEF WakeInv
<1>4. HandOK'
  BY <1>1 DEF WakeInv, HandOK, FlushAt, Cur
<1> QED
  BY <1>1, <1>2, <1>3, <1>4, TurnStepKeeps DEF FlushAt

LEMMA PlanTaskKeeps ==
  ASSUME WakeInv, NEW t \in Task, PlanTask(t),
         UNCHANGED <<pending, queueVars, replay, chatVars, events>>
  PROVE  Keeps
<1>1. agent.at = "plan" /\ Plan(Cur, t, FALSE) /\ agent' = [agent EXCEPT !.at = "attach", !.task = t]
  BY DEF PlanTask
<1>2. /\ Cur \in Coordinator /\ Cur \in Live /\ ~coordinators[Cur].notified
      /\ agent \in AgentState /\ agent.chat \in Chat /\ agent.rec = Blank
  BY <1>1, PlannedFor
<1>3. [Next]_storeVars /\ LoopMoves
  BY <1>1, <1>2, PlanMoves, GentleLoopMoves DEF WakeInv
<1>4. /\ agent' \in AgentState /\ agent'.at = "attach" /\ agent'.cur = Cur /\ agent'.task = t
      /\ agent'.chat \in Chat /\ agent'.rec = Blank
  BY <1>1, <1>2 DEF AgentState, AgentAt, Cur
<1>5. HandOK'
  BY <1>2, <1>3, <1>4 DEF HandOK, FlushAt, Cur, LoopMoves, StoreMoves
<1> QED
  BY <1>1, <1>3, <1>4, <1>5, TurnStepKeeps DEF FlushAt

LEMMA TeamPlannedKeeps ==
  ASSUME WakeInv, TeamPlanned, UNCHANGED <<pending, queueVars, replay, chatVars, events>>
  PROVE  Keeps
<1>1. /\ agent.at = "plan" /\ agent' = [agent EXCEPT !.at = "turn", !.cur = None]
      /\ UNCHANGED storeVars
  BY DEF TeamPlanned
<1>2. agent \in AgentState /\ agent.chat \in Chat /\ agent.rec = Blank
  BY <1>1, PlannedFor
<1>3. [Next]_storeVars /\ LoopMoves
  BY <1>1, SameMoves, GentleLoopMoves DEF WakeInv
<1>4. /\ agent' \in AgentState /\ agent'.at = "turn" /\ agent'.cur = None
      /\ agent'.chat \in Chat /\ agent'.rec = Blank
  BY <1>1, <1>2 DEF AgentState, AgentAt, TeamOrNone
<1>5. HandOK'
  BY <1>4 DEF HandOK, FlushAt, Cur
<1> QED
  BY <1>1, <1>3, <1>4, <1>5, TurnStepKeeps DEF FlushAt

\* Attaching a task may make a coordinator run again, but only one that was
\* not notified.
LEMMA AttachMoves ==
  ASSUME WakeInv, NEW t \in Task, NEW c \in Coordinator, AttachTask(c, t),
         ~coordinators[c].notified
  PROVE  Next /\ LoopMoves
<1> DEFINE co  == [coordinators[c] EXCEPT !.agents =
                     Append(@, [task |-> t, view |-> ViewOf(records[t])])]
           pco == Projected(records, co)
<1>1. /\ c \in Live /\ coordinators' = [coordinators EXCEPT ![c] = Bump(pco)]
      /\ revisionSeq' = revisionSeq + 1 /\ UNCHANGED <<slots, spent>>
  BY DEF AttachTask
<1>2. Next
  BY DEF Next, TaskStep
<1>3. /\ records \in [Task -> TaskRecord] /\ coordinators \in [Coordinator -> CoordinatorRecord]
      /\ revisionSeq \in Nat /\ revisionSeq >= 1
  BY DEF WakeInv, StoreInv, TypeOK, TeamsOK
<1>4. co \in CoordinatorRecord
  <2>1. /\ coordinators[c] \in CoordinatorRecord
        /\ coordinators[c].agents \in Seq(AgentView)
        /\ [task |-> t, view |-> ViewOf(records[t])] \in AgentView
    BY <1>3, ViewOfType DEF AgentView, CoordinatorRecord
  <2>2. Append(coordinators[c].agents, [task |-> t, view |-> ViewOf(records[t])]) \in Seq(AgentView)
    BY <2>1, AppendProperties
  <2> QED
    BY <2>1, <2>2 DEF CoordinatorRecord
<1>5. /\ co.chat = coordinators[c].chat /\ co.wake = coordinators[c].wake
      /\ co.notified = coordinators[c].notified
      /\ co.resumeEnqueued = coordinators[c].resumeEnqueued
  BY <1>3 DEF CoordinatorRecord
<1> HIDE DEF co
<1>6. /\ pco \in CoordinatorRecord /\ pco.chat = co.chat /\ pco.wake = co.wake
      /\ pco.notified = co.notified /\ pco.resumeEnqueued = co.resumeEnqueued
  BY <1>3, <1>4, ProjectedType
<1> HIDE DEF pco
<1>7. /\ Bump(pco).chat = pco.chat /\ Bump(pco).wake = pco.wake
      /\ Bump(pco).notified = pco.notified /\ Bump(pco).resumeEnqueued = pco.resumeEnqueued
      /\ Bump(pco).revision = revisionSeq
  BY <1>6 DEF Bump, CoordinatorRecord
<1>8. coordinators'[c] = Bump(pco) /\ \A d \in Live \ {c} : coordinators'[d] = coordinators[d]
  BY <1>1, <1>3 DEF Live
<1>9. StoreMoves
  BY <1>1, <1>3 DEF StoreMoves, Live
<1> QED
  BY <1>2, <1>3, <1>5, <1>6, <1>7, <1>8, <1>9 DEF LoopMoves, WakeInv, TeamsOK

LEMMA AttachPlannedKeeps ==
  ASSUME WakeInv, AttachPlanned, UNCHANGED <<pending, queueVars, replay, chatVars, events>>
  PROVE  Keeps
<1>1. /\ agent.at = "attach" /\ AttachTask(Cur, agent.task)
      /\ agent' = [agent EXCEPT !.at = "plan", !.task = None]
  BY DEF AttachPlanned
<1>2. /\ Cur \in Coordinator /\ Cur \in Live /\ ~coordinators[Cur].notified
      /\ agent \in AgentState /\ agent.chat \in Chat /\ agent.rec = Blank
      /\ agent.task \in Task
  BY <1>1, PlannedFor DEF WakeInv, HandOK
<1>3. Next /\ LoopMoves
  BY <1>1, <1>2, AttachMoves
<1>4. /\ agent' \in AgentState /\ agent'.at = "plan" /\ agent'.cur = Cur
      /\ agent'.chat \in Chat /\ agent'.rec = Blank
  BY <1>1, <1>2 DEF AgentState, AgentAt, Cur
<1>5. HandOK'
  BY <1>2, <1>3, <1>4 DEF HandOK, FlushAt, Cur, LoopMoves, StoreMoves
<1> QED
  BY <1>1, <1>3, <1>4, <1>5, TurnStepKeeps DEF FlushAt

\* A new team: it is nobody's, and the one that goes, if any, has no entry.
LEMMA TeamStarts ==
  ASSUME WakeInv, Next, NEW c \in Coordinator, c \notin spent, agent.at = "turn",
         agent' = [agent EXCEPT !.at = "plan", !.cur = c],
         UNCHANGED <<pending, queueVars, replay, chatVars, events>>,
         NEW gone \in SUBSET (Live \ Waiting), \A d \in gone : coordinators[d].notified,
         Live' = (Live \ gone) \cup {c}, spent' = spent \cup {c}, revisionSeq' = revisionSeq + 1,
         coordinators'[c] = NewCoordinator(agent.chat, revisionSeq),
         \A d \in Live \ gone : /\ coordinators'[d].chat = coordinators[d].chat
                                /\ coordinators'[d].wake = coordinators[d].wake
                                /\ coordinators'[d].notified = coordinators[d].notified
                                /\ coordinators'[d].resumeEnqueued = coordinators[d].resumeEnqueued
                                /\ coordinators'[d].revision >= 1
                                /\ coordinators'[d].notified => Terminal(coordinators'[d])
  PROVE  Keeps
<1>1. StoreInv'
  BY NextKeeps DEF WakeInv
<1>2. UNCHANGED <<pending, inbound, outbound, replay, consumed>> /\ Waiting' = Waiting
  BY DEF queueVars, chatVars, Waiting
<1>3. /\ agent \in AgentState /\ agent.chat \in Chat /\ agent.rec = Blank
      /\ revisionSeq \in Nat /\ revisionSeq >= 1 /\ Live \subseteq spent
  BY NothingInHand DEF WakeInv, HandOK, FlushAt, StoreInv, TypeOK, TeamsOK, KnownIds
<1>4. /\ coordinators'[c].revision = revisionSeq /\ coordinators'[c].notified = FALSE
      /\ coordinators'[c].resumeEnqueued = FALSE
  BY DEF NewCoordinator
<1>5. /\ agent' \in AgentState /\ agent'.at = "plan" /\ agent'.cur = c
      /\ agent'.chat \in Chat /\ agent'.rec = Blank
  BY <1>3 DEF AgentState, AgentAt, TeamOrNone
<1>6. WakeTypeOK'
  BY <1>2, <1>5 DEF WakeInv, WakeTypeOK
<1>7. TeamsOK'
  BY <1>3, <1>4 DEF TeamsOK
<1>8. \A d \in Waiting : d \in Live \ gone /\ coordinators[d].wake \in {"pending", "dispatched"}
  BY DEF WakeInv, Pinned
<1>9. Pinned'
  BY <1>2, <1>8 DEF Pinned
<1>10. HandOK'
  BY <1>4, <1>5 DEF HandOK, FlushAt, Cur
<1>11. RecOK'
  BY <1>5 DEF RecOK, FlushAt
<1>12. OwedOK'
  BY <1>2, <1>8 DEF WakeInv, OwedOK
<1>13. QueueOK'
  <2>1. ASSUME NEW d \in spent, d \in Live => coordinators[d].resumeEnqueued, d \in Live'
        PROVE  coordinators'[d].resumeEnqueued
    BY <2>1
  <2>2. \A i \in DOMAIN inbound : inbound[i].kind = "resume" =>
          /\ inbound[i].of \in spent
          /\ inbound[i].of \in Live => coordinators[inbound[i].of].resumeEnqueued
    BY DEF WakeInv, QueueOK
  <2> QED
    BY <1>2, <2>1, <2>2 DEF WakeInv, QueueOK
<1>14. ReplayOK'
  <2>1. \A n \in 1 .. revisionSeq : n \in 1 .. revisionSeq'
    BY <1>3
  <2> QED
    BY <1>2, <2>1 DEF WakeInv, ReplayOK
<1>15. LookedAfter => LookedAfter'
  BY <1>2, <1>4, <1>5 DEF LookedAfter
<1> QED
  BY <1>1, <1>6, <1>7, <1>9, <1>10, <1>11, <1>12, <1>13, <1>14, <1>15 DEF WakeInv, Keeps, DropsOnly

LEMMA StartTeamKeeps ==
  ASSUME WakeInv, NEW c \in Coordinator, StartTeam(c),
         UNCHANGED <<pending, queueVars, replay, chatVars, events>>
  PROVE  Keeps
<1>1. /\ agent.at = "turn" /\ agent' = [agent EXCEPT !.at = "plan", !.cur = c]
      /\ StartInFreeSlot(c, agent.chat) \/ StartByReclaim(c, agent.chat)
  BY DEF StartTeam
<1>2. agent.chat \in Chat /\ coordinators \in [Coordinator -> CoordinatorRecord]
  BY <1>1 DEF WakeInv, HandOK, StoreInv, TypeOK
<1>3. Next
  BY <1>1, <1>2 DEF Next, CoordinatorStep
<1>4. CASE StartInFreeSlot(c, agent.chat)
  <2>1. /\ c \notin spent /\ spent' = spent \cup {c} /\ revisionSeq' = revisionSeq + 1
        /\ coordinators' = [coordinators EXCEPT ![c] = NewCoordinator(agent.chat, revisionSeq)]
    BY <1>4 DEF StartInFreeSlot
  <2>2. /\ Live' = Live \cup {c}
        /\ \A d \in Coordinator : d # c => coordinators'[d] = coordinators[d]
        /\ c \notin Live
    BY <1>2, <1>4, StartFreeKeeps DEF WakeInv
  <2>3. coordinators'[c] = NewCoordinator(agent.chat, revisionSeq)
    BY <1>2, <2>1
  <2>4. \A d \in Live \ {} : /\ coordinators'[d] = coordinators[d]
                             /\ coordinators'[d].revision >= 1
                             /\ coordinators'[d].notified => Terminal(coordinators'[d])
    BY <2>2 DEF Live, WakeInv, TeamsOK
  <2>5. {} \in SUBSET (Live \ Waiting) /\ Live' = (Live \ {}) \cup {c}
    BY <2>2
  <2> QED
    BY <1>1, <1>3, <2>1, <2>3, <2>4, <2>5, TeamStarts
<1>5. CASE StartByReclaim(c, agent.chat)
  <2>1. /\ c \notin spent /\ spent' = spent \cup {c} /\ revisionSeq' = revisionSeq + 1
        /\ coordinators'[c] = NewCoordinator(agent.chat, revisionSeq)
    BY <1>5 DEF StartByReclaim
  <2>2. PICK victim \in Live :
          /\ Reusable(victim)
          /\ Live' = (Live \ {victim}) \cup {c} /\ c \notin Live
          /\ \A d \in Live : d # victim => coordinators'[d] = Refreshed(Scanned, d)
    BY <1>2, <1>5, ReclaimKeeps DEF WakeInv
  <2>3. victim \notin Waiting
    <3>1. Projected(records, coordinators[victim]).wake = coordinators[victim].wake
      BY <1>2, ProjectedType DEF WakeInv, StoreInv, TypeOK, Live
    <3> QED
      BY <1>1, <2>2, <3>1 DEF Reusable, WakeInv, Pinned
  <2>6. coordinators[victim].notified
    <3>1. Projected(records, coordinators[victim]).notified = coordinators[victim].notified
      BY <1>2, ProjectedType DEF WakeInv, StoreInv, TypeOK, Live
    <3> QED
      BY <2>2, <3>1 DEF Reusable
  <2>4. ASSUME NEW d \in Live \ {victim}
        PROVE  /\ coordinators'[d].chat = coordinators[d].chat
               /\ coordinators'[d].wake = coordinators[d].wake
               /\ coordinators'[d].notified = coordinators[d].notified
               /\ coordinators'[d].resumeEnqueued = coordinators[d].resumeEnqueued
               /\ coordinators'[d].revision >= 1
               /\ coordinators'[d].notified => Terminal(coordinators'[d])
    <3>1. coordinators'[d] = Refreshed(Scanned, d)
      BY <2>2
    <3>2. /\ coordinators[d].revision >= 1
          /\ coordinators[d].notified => Terminal(coordinators[d])
      BY DEF WakeInv, TeamsOK
    <3> QED
      BY <3>1, <3>2, RefreshedStays DEF WakeInv
  <2>5. {victim} \in SUBSET (Live \ Waiting)
    BY <2>2, <2>3
  <2> QED
    BY <1>1, <1>3, <2>1, <2>2, <2>4, <2>5, <2>6, TeamStarts
<1> QED
  BY <1>1, <1>4, <1>5

-----------------------------------------------------------------------------
(* A flush. *)

\* What a flush knows of its coordinator, in one place.
InFlush ==
  /\ Cur \in Coordinator /\ Cur \in Live /\ Cur \in Waiting \ agent.todo /\ pending[Cur].used
  /\ coordinators[Cur] \in CoordinatorRecord
  /\ coordinators[Cur].wake \in {"pending", "dispatched"} /\ coordinators[Cur].revision >= 1
  /\ coordinators[Cur].notified => Terminal(coordinators[Cur])
  /\ agent \in AgentState /\ agent.cur = Cur /\ agent.rec \in CoordinatorRecord
  /\ agent.rec.revision \in Nat /\ agent.rec.lastSent \in Nat
  /\ pending \in [Coordinator -> Entry] /\ pending[Cur] \in Entry

LEMMA FlushKnows ==
  ASSUME WakeInv, agent.at \in FlushAt
  PROVE  InFlush
<1>1. /\ Cur \in Coordinator /\ Cur \in Live /\ Cur \in Waiting \ agent.todo /\ pending[Cur].used
      /\ coordinators[Cur].wake \in {"pending", "dispatched"}
  BY CurIsLive
<1>2. /\ coordinators[Cur] \in CoordinatorRecord /\ coordinators[Cur].revision >= 1
      /\ coordinators[Cur].notified => Terminal(coordinators[Cur])
  BY <1>1 DEF WakeInv, StoreInv, TypeOK, TeamsOK
<1>3. /\ agent \in AgentState /\ agent.cur = Cur /\ agent.rec \in CoordinatorRecord
      /\ pending \in [Coordinator -> Entry] /\ pending[Cur] \in Entry
  BY <1>1 DEF WakeInv, WakeTypeOK, AgentState, Cur
<1>4. agent.rec.revision \in Nat /\ agent.rec.lastSent \in Nat
  BY <1>3 DEF CoordinatorRecord
<1> QED
  BY <1>1, <1>2, <1>3, <1>4 DEF InFlush

\* A flush sets a mark of its coordinator, and nothing else of it.
LEMMA SetMoves ==
  ASSUME WakeInv, agent.at \in FlushAt, NEW co, SetCoordinator(Cur, co),
         co.chat = coordinators[Cur].chat, co.revision = coordinators[Cur].revision,
         co.status = coordinators[Cur].status,
         coordinators[Cur].notified => co.notified, co.notified => Terminal(coordinators[Cur]),
         coordinators[Cur].resumeEnqueued => co.resumeEnqueued
  PROVE  /\ FlushMoves /\ coordinators'[Cur] = co
         /\ Terminal(coordinators'[Cur]) <=> Terminal(coordinators[Cur])
<1>1. /\ StoreMoves /\ coordinators'[Cur] = co
      /\ \A d \in Live \ {Cur} : Untouched(d)
  BY SetEffect DEF WakeInv
<1>2. coordinators[Cur].revision >= 1
  BY FlushKnows DEF InFlush
<1> QED
  BY <1>1, <1>2 DEF FlushMoves, Handled, Terminal

LEMMA WakeMoves ==
  ASSUME WakeInv, agent.at \in FlushAt, NEW state \in WakeState \ {"idle"}, MarkWake(Cur, state)
  PROVE  /\ Next /\ FlushMoves
         /\ coordinators'[Cur].wake = state
         /\ coordinators'[Cur].chat = coordinators[Cur].chat
         /\ coordinators'[Cur].notified = coordinators[Cur].notified
         /\ coordinators'[Cur].resumeEnqueued = coordinators[Cur].resumeEnqueued
         /\ Terminal(coordinators'[Cur]) <=> Terminal(coordinators[Cur])
<1> DEFINE co == [coordinators[Cur] EXCEPT !.wake = state]
<1>1. InFlush
  BY FlushKnows
<1>2. /\ co.chat = coordinators[Cur].chat /\ co.revision = coordinators[Cur].revision
      /\ co.status = coordinators[Cur].status /\ co.notified = coordinators[Cur].notified
      /\ co.resumeEnqueued = coordinators[Cur].resumeEnqueued /\ co.wake = state
  BY <1>1 DEF InFlush, CoordinatorRecord
<1>3. SetCoordinator(Cur, co)
  BY DEF MarkWake
<1>4. Next
  BY <1>1 DEF Next, CoordinatorStep, InFlush
<1> HIDE DEF co
<1> QED
  BY <1>1, <1>2, <1>3, <1>4, SetMoves DEF InFlush

LEMMA NotifyMoves ==
  ASSUME WakeInv, agent.at \in FlushAt, Terminal(coordinators[Cur]),
         SetCoordinator(Cur, [coordinators[Cur] EXCEPT !.notified = TRUE])
  PROVE  /\ Next /\ FlushMoves
         /\ coordinators'[Cur].wake = coordinators[Cur].wake
         /\ coordinators'[Cur].chat = coordinators[Cur].chat
         /\ coordinators'[Cur].notified
         /\ coordinators'[Cur].resumeEnqueued = coordinators[Cur].resumeEnqueued
         /\ Terminal(coordinators'[Cur])
<1> DEFINE co == [coordinators[Cur] EXCEPT !.notified = TRUE]
<1>1. InFlush
  BY FlushKnows
<1>2. /\ co.chat = coordinators[Cur].chat /\ co.revision = coordinators[Cur].revision
      /\ co.status = coordinators[Cur].status /\ co.notified
      /\ co.resumeEnqueued = coordinators[Cur].resumeEnqueued /\ co.wake = coordinators[Cur].wake
  BY <1>1 DEF InFlush, CoordinatorRecord
<1>3. MarkCompletionNotified(Cur)
  BY DEF MarkCompletionNotified
<1>4. Next
  BY <1>1, <1>3 DEF Next, CoordinatorStep, InFlush
<1> HIDE DEF co
<1>5. SetCoordinator(Cur, co)
  BY DEF co
<1> QED
  BY <1>2, <1>4, <1>5, SetMoves

LEMMA EnqueueMoves ==
  ASSUME WakeInv, agent.at \in FlushAt, coordinators[Cur].notified,
         SetCoordinator(Cur, [coordinators[Cur] EXCEPT !.resumeEnqueued = TRUE])
  PROVE  /\ Next /\ FlushMoves
         /\ coordinators'[Cur].wake = coordinators[Cur].wake
         /\ coordinators'[Cur].chat = coordinators[Cur].chat
         /\ coordinators'[Cur].notified
         /\ coordinators'[Cur].resumeEnqueued
         /\ Terminal(coordinators'[Cur])
<1> DEFINE co == [coordinators[Cur] EXCEPT !.resumeEnqueued = TRUE]
<1>1. InFlush
  BY FlushKnows
<1>2. /\ co.chat = coordinators[Cur].chat /\ co.revision = coordinators[Cur].revision
      /\ co.status = coordinators[Cur].status /\ co.notified = coordinators[Cur].notified
      /\ co.resumeEnqueued /\ co.wake = coordinators[Cur].wake
  BY <1>1 DEF InFlush, CoordinatorRecord
<1>3. MarkParentResumeEnqueued(Cur)
  BY DEF MarkParentResumeEnqueued
<1>4. Next
  BY <1>1, <1>3 DEF Next, CoordinatorStep, InFlush
<1> HIDE DEF co
<1>5. SetCoordinator(Cur, co)
  BY DEF co
<1> QED
  BY <1>1, <1>2, <1>4, <1>5, SetMoves DEF InFlush

\* A step of the store that is gentle, seen from a flush.
LEMMA GentleIsKept ==
  ASSUME WakeInv, Gentle, agent.at \in FlushAt
  PROVE  /\ FlushMoves
         /\ coordinators'[Cur].wake = coordinators[Cur].wake
         /\ coordinators'[Cur].chat = coordinators[Cur].chat
         /\ coordinators'[Cur].notified = coordinators[Cur].notified
         /\ coordinators'[Cur].resumeEnqueued = coordinators[Cur].resumeEnqueued
         /\ Terminal(coordinators[Cur]) => Terminal(coordinators'[Cur])
<1>1. Cur \in Live
  BY CurIsLive
<1> QED
  BY <1>1, GentleFlushMoves DEF Gentle, Untouched, StillEnded

\* A step of a flush that leaves the table and the queues alone.
LEMMA FlushGoesTo ==
  ASSUME WakeInv, [Next]_storeVars, FlushMoves, agent.at \in FlushAt \ {"settle"},
         UNCHANGED <<pending, replay, inbound, outbound, consumed>>,
         agent' \in AgentState, agent'.at \in FlushAt \ {"nonweb", "record_resume"},
         agent'.todo = agent.todo,
         agent'.cur = Cur, RecOK',
         coordinators'[Cur].wake \in {"pending", "dispatched"},
         coordinators'[Cur].resumeEnqueued = coordinators[Cur].resumeEnqueued
           \/ agent'.at = "settle",
         agent.at = "record_resume" => coordinators'[Cur].resumeEnqueued,
         LookedAfter /\ BusHasRoom =>
           (agent'.at = "settle" /\ coordinators'[Cur].chat \in WebChat /\ coordinators'[Cur].notified
              => coordinators'[Cur].resumeEnqueued)
  PROVE  Keeps
<1>1. InFlush
  BY FlushKnows
<1>2. pending[Cur].resume => coordinators[Cur].notified /\ ~coordinators[Cur].resumeEnqueued
  BY <1>1 DEF WakeInv, OwedOK, InFlush
<1>3. pending'[Cur].resume =>
        /\ coordinators'[Cur].notified
        /\ ~coordinators'[Cur].resumeEnqueued \/ agent'.at = "settle"
  BY <1>2 DEF FlushMoves, Handled
<1>4. inbound' \in Seq(Message)
  BY DEF WakeInv, WakeTypeOK
<1> QED
  BY <1>1, <1>3, <1>4, FlushGoesOn DEF InFlush

\* The part of RecOK that holds throughout a flush.
RecBase ==
  LET co == coordinators[Cur]
  IN  /\ agent.rec.revision \in 1 .. revisionSeq
      /\ agent.rec.chat = co.chat
      /\ Terminal(agent.rec) => Terminal(co)
      /\ agent.rec.notified => co.notified /\ Terminal(agent.rec)

LEMMA RecBaseStays ==
  ASSUME WakeInv, agent.at \in FlushAt, [Next]_storeVars, FlushMoves,
         agent'.cur = Cur, agent'.rec = agent.rec,
         Terminal(coordinators[Cur]) => Terminal(coordinators'[Cur])
  PROVE  RecBase /\ RecBase'
<1>1. RecBase
  BY DEF WakeInv, RecOK, RecBase
<1>2. \A n \in 1 .. revisionSeq : n \in 1 .. revisionSeq'
  BY NextKeeps, RevisionsStay DEF WakeInv, FlushMoves
<1>3. /\ coordinators'[Cur].chat = coordinators[Cur].chat
      /\ coordinators[Cur].notified => coordinators'[Cur].notified
  BY DEF FlushMoves, Handled
<1> QED
  BY <1>1, <1>2, <1>3 DEF RecBase, Cur

LEMMA FlushNonWebKeeps ==
  ASSUME WakeInv, FlushNonWeb, UNCHANGED <<queueVars, replay, chatVars, events>>
  PROVE  Keeps
<1>1. agent.at = "nonweb" /\ agent.at \in FlushAt /\ UNCHANGED <<inbound, outbound, replay, consumed>>
  BY DEF FlushNonWeb, FlushAt, queueVars, chatVars
<1>2. InFlush
  BY <1>1, FlushKnows
<1>3. CASE Terminal(agent.rec) /\ ~agent.rec.notified
  <2>1. /\ SetCoordinator(Cur, [coordinators[Cur] EXCEPT !.notified = TRUE])
        /\ agent' = [agent EXCEPT !.at = "settle"] /\ UNCHANGED pending
    BY <1>3 DEF FlushNonWeb, GoTo
  <2>2. Terminal(coordinators[Cur])
    BY <1>1, <1>3 DEF WakeInv, RecOK
  <2>3. /\ Next /\ FlushMoves
        /\ coordinators'[Cur].wake = coordinators[Cur].wake
        /\ coordinators'[Cur].chat = coordinators[Cur].chat
        /\ coordinators'[Cur].notified
        /\ coordinators'[Cur].resumeEnqueued = coordinators[Cur].resumeEnqueued
        /\ Terminal(coordinators'[Cur])
    BY <1>1, <2>1, <2>2, NotifyMoves
  <2>4. /\ agent' \in AgentState /\ agent'.at = "settle" /\ agent'.todo = agent.todo
        /\ agent'.cur = Cur /\ agent'.rec = agent.rec
    BY <1>2, <2>1 DEF InFlush, AgentState, AgentAt, FlushAt
  <2>5. RecBase'
    BY <1>1, <2>3, <2>4, RecBaseStays
  <2>6. RecOK'
    BY <2>4, <2>5 DEF RecBase, RecOK
  <2>7. LookedAfter => coordinators'[Cur].chat \notin WebChat
    BY <1>1, <2>3 DEF LookedAfter
  <2> QED
    BY <1>1, <1>2, <2>1, <2>3, <2>4, <2>6, <2>7, FlushGoesTo DEF InFlush, FlushAt
<1>4. CASE ~(Terminal(agent.rec) /\ ~agent.rec.notified)
  <2>1. /\ UNCHANGED storeVars /\ agent' = Over(agent.todo)
        /\ pending' = [pending EXCEPT ![Cur] = NoEntry]
    BY <1>4 DEF FlushNonWeb, Clear, Keep
  <2>2. [Next]_storeVars /\ Gentle
    BY <2>1, SameMoves DEF WakeInv
  <2>3. FlushMoves /\ coordinators'[Cur].chat = coordinators[Cur].chat
    BY <1>1, <2>2, GentleIsKept
  <2>4. NoEntry \in Entry /\ ~NoEntry.used
    BY StartingValues DEF NoEntry
  <2>5. LookedAfter => coordinators'[Cur].chat \notin WebChat
    BY <1>1, <2>3 DEF LookedAfter
  <2> QED
    BY <1>1, <2>1, <2>2, <2>3, <2>4, <2>5, FlushEnds
<1> QED
  BY <1>3, <1>4

LEMMA SettleKeeps ==
  ASSUME WakeInv, Settle, UNCHANGED <<queueVars, replay, chatVars, events>>
  PROVE  Keeps
<1>1. /\ agent.at = "settle" /\ agent.at \in FlushAt /\ MarkWake(Cur, "completed")
      /\ agent' = Over(agent.todo) /\ pending' = [pending EXCEPT ![Cur] = NoEntry]
      /\ UNCHANGED <<inbound, outbound, replay, consumed>>
  BY DEF Settle, FlushAt, Clear, Keep, queueVars, chatVars
<1>2. "completed" \in WakeState \ {"idle"}
  BY DEF WakeState
<1>3. /\ Next /\ FlushMoves
      /\ coordinators'[Cur].chat = coordinators[Cur].chat
      /\ coordinators'[Cur].notified = coordinators[Cur].notified
      /\ coordinators'[Cur].resumeEnqueued = coordinators[Cur].resumeEnqueued
  BY <1>1, <1>2, WakeMoves
<1>4. NoEntry \in Entry /\ ~NoEntry.used
  BY StartingValues DEF NoEntry
<1>5. LookedAfter /\ coordinators'[Cur].chat \in WebChat /\ coordinators'[Cur].notified
        => coordinators'[Cur].resumeEnqueued
  BY <1>1, <1>3 DEF LookedAfter
<1> QED
  BY <1>1, <1>3, <1>4, <1>5, FlushEnds

LEMMA DispatchKeeps ==
  ASSUME WakeInv, Dispatch, UNCHANGED <<queueVars, replay, chatVars, events>>
  PROVE  Keeps
<1>1. /\ agent.at = "dispatch" /\ agent.at \in FlushAt /\ MarkWake(Cur, "dispatched")
      /\ agent' = [agent EXCEPT !.at = "look_again"]
      /\ UNCHANGED <<pending, inbound, outbound, replay, consumed>>
  BY DEF Dispatch, FlushAt, GoTo, queueVars, chatVars
<1>2. InFlush /\ "dispatched" \in WakeState \ {"idle"}
  BY <1>1, FlushKnows DEF WakeState
<1>3. /\ Next /\ FlushMoves
      /\ coordinators'[Cur].wake = "dispatched"
      /\ coordinators'[Cur].notified = coordinators[Cur].notified
      /\ coordinators'[Cur].resumeEnqueued = coordinators[Cur].resumeEnqueued
      /\ Terminal(coordinators'[Cur]) <=> Terminal(coordinators[Cur])
  BY <1>1, <1>2, WakeMoves
<1>4. /\ agent' \in AgentState /\ agent'.at = "look_again" /\ agent'.todo = agent.todo
      /\ agent'.cur = Cur /\ agent'.rec = agent.rec
  BY <1>1, <1>2 DEF InFlush, AgentState, AgentAt, FlushAt
<1>5. RecBase'
  BY <1>1, <1>3, <1>4, RecBaseStays
<1>6. RecOK'
  BY <1>1, <1>3, <1>4, <1>5 DEF WakeInv, RecBase, RecOK, Cur
<1> QED
  BY <1>1, <1>2, <1>3, <1>4, <1>6, FlushGoesTo DEF InFlush, FlushAt

LEMMA LookAgainKeeps ==
  ASSUME WakeInv, LookAgain, UNCHANGED <<queueVars, replay, chatVars, events>>
  PROVE  Keeps
<1>1. /\ agent.at = "look_again" /\ agent.at \in FlushAt /\ SnapshotCoordinator(Cur)
      /\ agent' = [agent EXCEPT !.at = "send", !.rec = coordinators'[Cur]]
      /\ UNCHANGED <<pending, inbound, outbound, replay, consumed>>
  BY DEF LookAgain, FlushAt, queueVars, chatVars
<1>2. InFlush
  BY <1>1, FlushKnows
<1>3. Next /\ Gentle /\ StoreInv'
  BY <1>1, <1>2, SnapshotMoves DEF WakeInv, InFlush
<1>4. /\ FlushMoves
      /\ coordinators'[Cur].wake = coordinators[Cur].wake
      /\ coordinators'[Cur].resumeEnqueued = coordinators[Cur].resumeEnqueued
  BY <1>1, <1>3, GentleIsKept
<1>5. /\ coordinators'[Cur] \in CoordinatorRecord
      /\ coordinators'[Cur].revision \in 1 .. revisionSeq'
      /\ coordinators'[Cur].notified => Terminal(coordinators'[Cur])
  <2>1. /\ Cur \in Live' /\ coordinators'[Cur].revision >= 1
        /\ coordinators'[Cur].notified => Terminal(coordinators'[Cur])
    BY <1>2, <1>4 DEF InFlush, FlushMoves, Handled, StoreMoves
  <2>2. /\ coordinators'[Cur] \in CoordinatorRecord /\ coordinators'[Cur].revision < revisionSeq'
        /\ revisionSeq' \in Nat
    BY <1>2, <1>3, <2>1 DEF InFlush, StoreInv, TypeOK, RevisionOrder
  <2>3. coordinators'[Cur].revision \in Nat
    BY <2>2 DEF CoordinatorRecord
  <2> QED
    BY <2>1, <2>2, <2>3
<1>6. /\ agent' \in AgentState /\ agent'.at = "send" /\ agent'.todo = agent.todo
      /\ agent'.cur = Cur /\ agent'.rec = coordinators'[Cur]
  BY <1>1, <1>2, <1>5 DEF InFlush, AgentState, AgentAt, FlushAt
<1>7. RecOK'
  BY <1>5, <1>6 DEF RecOK, Cur
<1> QED
  BY <1>1, <1>2, <1>3, <1>4, <1>6, <1>7, FlushGoesTo DEF InFlush, FlushAt

\* Where the agent's record goes when only its place, or its notice, changes.
LEMMA OnTheWay ==
  ASSUME agent \in AgentState, NEW at \in AgentAt, agent' = [agent EXCEPT !.at = at]
  PROVE  /\ agent' \in AgentState /\ agent'.at = at /\ agent'.todo = agent.todo
         /\ agent'.cur = agent.cur /\ agent'.rec = agent.rec
BY DEF AgentState

LEMMA ByNotice ==
  ASSUME agent \in AgentState, NEW onFull \in {"retry", "settle", "again"},
         agent' = [agent EXCEPT !.at = "via_notify", !.via = TRUE, !.onFull = onFull]
  PROVE  /\ agent' \in AgentState /\ agent'.at = "via_notify" /\ agent'.via
         /\ agent'.todo = agent.todo /\ agent'.cur = agent.cur /\ agent'.rec = agent.rec
<1>1. "via_notify" \in AgentAt
  BY DEF AgentAt, FlushAt
<1> QED
  BY <1>1 DEF AgentState

LEMMA SendVisibleKeeps ==
  ASSUME WakeInv, SendVisible, UNCHANGED <<queueVars, replay, chatVars>>
  PROVE  Keeps
<1>1. /\ agent.at = "send" /\ agent.at \in FlushAt /\ UNCHANGED storeVars
      /\ UNCHANGED <<inbound, outbound, replay, consumed>>
  BY DEF SendVisible, FlushAt, queueVars, chatVars
<1>2. InFlush
  BY <1>1, FlushKnows
<1>3. /\ UNCHANGED pending
      /\ \/ agent' = [agent EXCEPT !.at = "record_sent"]
         \/ agent' = [agent EXCEPT !.at = "settle"] /\ ~Terminal(agent.rec)
         \/ agent' = [agent EXCEPT !.at = "retry"]
         \/ /\ Terminal(agent.rec)
            /\ \E onFull \in {"settle", "retry"} :
                 agent' = [agent EXCEPT !.at = "via_notify", !.via = TRUE, !.onFull = onFull]
  <2>1. PICK result \in SendResult(agent.rec.chat) :
          CASE result = "ok" -> GoTo("record_sent")
            [] result = "not_found" /\ ~Terminal(agent.rec) -> GoTo("settle")
            [] result = "error" /\ ~Terminal(agent.rec) -> GoTo("retry")
            [] OTHER ->
                 /\ agent' = [agent EXCEPT !.at = "via_notify", !.via = TRUE,
                      !.onFull = IF result = "not_found" THEN "settle" ELSE "retry"]
                 /\ UNCHANGED pending
    BY DEF SendVisible
  <2>2. result \in {"ok", "error", "not_found"}
    BY <2>1 DEF SendResult
  <2> QED
    BY <2>1, <2>2 DEF GoTo
<1>4. [Next]_storeVars /\ Gentle
  BY <1>1, SameMoves DEF WakeInv
<1>5. /\ FlushMoves
      /\ coordinators'[Cur].wake = coordinators[Cur].wake
      /\ coordinators'[Cur].notified = coordinators[Cur].notified
      /\ coordinators'[Cur].resumeEnqueued = coordinators[Cur].resumeEnqueued
      /\ Terminal(coordinators[Cur]) => Terminal(coordinators'[Cur])
  BY <1>1, <1>4, GentleIsKept
<1>6. /\ agent' \in AgentState /\ agent'.at \in {"record_sent", "settle", "retry", "via_notify"}
      /\ agent'.todo = agent.todo /\ agent'.cur = Cur /\ agent'.rec = agent.rec
      /\ agent'.at = "settle" => ~Terminal(agent.rec)
      /\ agent'.at = "via_notify" => Terminal(agent.rec) /\ agent'.via
  <2>1. agent \in AgentState /\ agent.cur = Cur
    BY <1>2 DEF InFlush
  <2>2. {"record_sent", "settle", "retry"} \subseteq AgentAt
    BY DEF AgentAt, FlushAt
  <2>3. CASE agent' = [agent EXCEPT !.at = "record_sent"] \/ agent' = [agent EXCEPT !.at = "retry"]
    BY <2>1, <2>2, <2>3, OnTheWay
  <2>4. CASE agent' = [agent EXCEPT !.at = "settle"] /\ ~Terminal(agent.rec)
    BY <2>1, <2>2, <2>4, OnTheWay
  <2>5. ASSUME Terminal(agent.rec), NEW onFull \in {"settle", "retry"},
               agent' = [agent EXCEPT !.at = "via_notify", !.via = TRUE, !.onFull = onFull]
        PROVE  /\ agent' \in AgentState /\ agent'.at = "via_notify" /\ agent'.via
               /\ agent'.todo = agent.todo /\ agent'.cur = Cur /\ agent'.rec = agent.rec
    BY <2>1, <2>5, ByNotice
  <2> QED
    BY <1>3, <2>3, <2>4, <2>5
<1>7. RecBase /\ RecBase'
  BY <1>1, <1>4, <1>5, <1>6, RecBaseStays
<1>8. RecOK'
  BY <1>1, <1>5, <1>6, <1>7 DEF WakeInv, RecBase, RecOK, Cur
<1>9. agent'.at = "settle" => ~coordinators'[Cur].notified
  BY <1>1, <1>5, <1>6, <1>7 DEF WakeInv, RecBase, RecOK
<1> QED
  BY <1>1, <1>2, <1>3, <1>4, <1>5, <1>6, <1>8, <1>9, FlushGoesTo DEF InFlush, FlushAt

LEMMA SendDoneKeeps ==
  ASSUME WakeInv, SendDone, UNCHANGED <<queueVars, replay, chatVars>>
  PROVE  Keeps
<1>1. /\ agent.at = "done" /\ agent.at \in FlushAt /\ UNCHANGED storeVars
      /\ UNCHANGED <<inbound, outbound, replay, consumed>>
  BY DEF SendDone, FlushAt, queueVars, chatVars
<1>2. InFlush /\ Terminal(agent.rec)
  BY <1>1, FlushKnows DEF WakeInv, RecOK
<1>3. /\ UNCHANGED pending
      /\ \/ agent' = [agent EXCEPT !.at = "notify"]
         \/ \E onFull \in {"again", "retry"} :
              agent' = [agent EXCEPT !.at = "via_notify", !.via = TRUE, !.onFull = onFull]
  BY DEF SendDone, GoTo
<1>4. [Next]_storeVars /\ Gentle
  BY <1>1, SameMoves DEF WakeInv
<1>5. /\ FlushMoves
      /\ coordinators'[Cur].wake = coordinators[Cur].wake
      /\ coordinators'[Cur].notified = coordinators[Cur].notified
      /\ coordinators'[Cur].resumeEnqueued = coordinators[Cur].resumeEnqueued
      /\ Terminal(coordinators[Cur]) => Terminal(coordinators'[Cur])
  BY <1>1, <1>4, GentleIsKept
<1>6. /\ agent' \in AgentState /\ agent'.at \in {"notify", "via_notify"}
      /\ agent'.todo = agent.todo /\ agent'.cur = Cur /\ agent'.rec = agent.rec
      /\ agent'.at = "via_notify" => agent'.via
  <2>1. agent \in AgentState /\ agent.cur = Cur
    BY <1>2 DEF InFlush
  <2>2. CASE agent' = [agent EXCEPT !.at = "notify"]
    <3>1. "notify" \in AgentAt
      BY DEF AgentAt, FlushAt
    <3> QED
      BY <2>1, <2>2, <3>1, OnTheWay
  <2>3. ASSUME NEW onFull \in {"again", "retry"},
               agent' = [agent EXCEPT !.at = "via_notify", !.via = TRUE, !.onFull = onFull]
        PROVE  /\ agent' \in AgentState /\ agent'.at = "via_notify" /\ agent'.via
               /\ agent'.todo = agent.todo /\ agent'.cur = Cur /\ agent'.rec = agent.rec
    BY <2>1, <2>3, ByNotice
  <2> QED
    BY <1>3, <2>2, <2>3
<1>7. RecBase /\ RecBase'
  BY <1>1, <1>4, <1>5, <1>6, RecBaseStays
<1>8. RecOK'
  BY <1>1, <1>2, <1>5, <1>6, <1>7 DEF WakeInv, RecBase, RecOK, Cur
<1> QED
  BY <1>1, <1>2, <1>3, <1>4, <1>5, <1>6, <1>8, FlushGoesTo DEF InFlush, FlushAt

\* A retained entry, armed or not.
LEMMA RetainedIsTyped ==
  ASSUME NEW e, NEW rec \in CoordinatorRecord
  PROVE  /\ Retained(e, rec) \in Entry /\ Retained(e, rec).used
         /\ Deferred(e, rec) \in Entry /\ Deferred(e, rec).used
<1>1. rec.revision \in Nat /\ rec.lastSent \in Nat
  BY DEF CoordinatorRecord
<1>2. Retained(e, rec) \in Entry /\ Retained(e, rec).used
  BY <1>1 DEF Retained, Entry
<1> HIDE DEF Retained
<1> QED
  BY <1>2 DEF Deferred, Entry

\* The update was delivered: the resume is next, unless it is on its way or
\* nobody was told yet.
LEMMA AfterUpdateKeeps ==
  ASSUME WakeInv, [Next]_storeVars, FlushMoves, agent.at \in {"record_sent", "notify"},
         NEW rec \in CoordinatorRecord, AfterUpdate(rec),
         UNCHANGED <<inbound, outbound, replay, consumed>>,
         coordinators'[Cur].wake \in {"pending", "dispatched"},
         rec.revision \in 1 .. revisionSeq', rec.chat = coordinators'[Cur].chat,
         Terminal(rec) => Terminal(coordinators'[Cur]),
         rec.notified = coordinators'[Cur].notified, rec.notified => Terminal(rec),
         rec.resumeEnqueued = coordinators'[Cur].resumeEnqueued
  PROVE  Keeps
<1>1. agent.at \in FlushAt \ {"record_resume"} /\ InFlush
  BY FlushKnows DEF FlushAt
<1>2. CASE ResumePending(rec)
  <2> DEFINE entry == Retained(pending[Cur], rec)
  <2>1. /\ agent' = [agent EXCEPT !.at = "decide", !.rec = rec]
        /\ pending' = [pending EXCEPT ![Cur] = entry]
    BY <1>2 DEF AfterUpdate
  <2>2. entry \in Entry /\ entry.used
    BY RetainedIsTyped
  <2> HIDE DEF entry
  <2>3. /\ agent' \in AgentState /\ agent'.at = "decide" /\ agent'.todo = agent.todo
        /\ agent'.cur = Cur /\ agent'.rec = rec
    BY <1>1, <2>1 DEF InFlush, AgentState, AgentAt, FlushAt
  <2>4. /\ pending' \in [Coordinator -> Entry] /\ pending'[Cur].used
        /\ \A c \in Coordinator \ {Cur} : pending'[c] = pending[c]
    BY <1>1, <2>1, <2>2 DEF InFlush
  <2>5. Terminal(rec) /\ rec.notified /\ ~rec.resumeEnqueued
    BY <1>2 DEF ResumePending
  <2>6. RecOK'
    BY <2>3, <2>5 DEF RecOK, Cur
  <2>7. inbound' \in Seq(Message)
    BY DEF WakeInv, WakeTypeOK
  <2>8. agent'.at \in FlushAt \ {"nonweb"} /\ agent'.at # "settle" /\ agent.at # "record_resume"
    BY <1>1, <2>3 DEF FlushAt
  <2> QED
    BY <1>1, <2>3, <2>4, <2>5, <2>6, <2>7, <2>8, FlushGoesOn
<1>3. CASE ~ResumePending(rec)
  <2>1. /\ agent' = Over(agent.todo) /\ pending' = [pending EXCEPT ![Cur] = NoEntry]
    BY <1>3 DEF AfterUpdate, Clear, Keep
  <2>2. NoEntry \in Entry /\ ~NoEntry.used
    BY StartingValues DEF NoEntry
  <2>3. coordinators'[Cur].notified => coordinators'[Cur].resumeEnqueued
    BY <1>3 DEF ResumePending
  <2> QED
    BY <1>1, <2>1, <2>2, <2>3, FlushEnds
<1> QED
  BY <1>2, <1>3

LEMMA RecordSentKeeps ==
  ASSUME WakeInv, RecordSent, UNCHANGED <<queueVars, replay, chatVars, events>>
  PROVE  Keeps
<1>1. /\ agent.at = "record_sent" /\ agent.at \in FlushAt
      /\ MarkVisibleRevisionSent(Cur, agent.rec.revision)
      /\ UNCHANGED <<inbound, outbound, replay, consumed>>
  BY DEF RecordSent, FlushAt, queueVars, chatVars
<1>2. InFlush /\ agent.rec.revision \in 1 .. revisionSeq
  BY <1>1, FlushKnows DEF WakeInv, RecOK
<1>3. Next /\ Gentle /\ StoreInv'
  BY <1>1, <1>2, SentMoves DEF WakeInv, InFlush
<1>4. /\ FlushMoves
      /\ coordinators'[Cur].wake = coordinators[Cur].wake
      /\ coordinators'[Cur].chat = coordinators[Cur].chat
      /\ coordinators'[Cur].notified = coordinators[Cur].notified
      /\ coordinators'[Cur].resumeEnqueued = coordinators[Cur].resumeEnqueued
      /\ Terminal(coordinators[Cur]) => Terminal(coordinators'[Cur])
  BY <1>1, <1>3, GentleIsKept
<1>5. /\ agent.rec.chat = coordinators[Cur].chat
      /\ Terminal(agent.rec) => Terminal(coordinators[Cur])
      /\ agent.rec.notified = coordinators[Cur].notified
      /\ agent.rec.notified => Terminal(agent.rec)
      /\ agent.rec.resumeEnqueued = coordinators[Cur].resumeEnqueued
  BY <1>1 DEF WakeInv, RecOK
<1>6. CASE Terminal(agent.rec) /\ ~agent.rec.notified
  <2>1. /\ UNCHANGED pending
        /\ \E at \in {"retry", "done"} : agent' = [agent EXCEPT !.at = at]
    BY <1>6 DEF RecordSent, GoTo
  <2>2. /\ agent' \in AgentState /\ agent'.at \in {"retry", "done"}
        /\ agent'.todo = agent.todo /\ agent'.cur = Cur /\ agent'.rec = agent.rec
    BY <1>2, <2>1 DEF InFlush, AgentState, AgentAt, FlushAt
  <2>3. RecBase'
    BY <1>1, <1>3, <1>4, <2>2, RecBaseStays
  <2>4. RecOK'
    BY <1>4, <1>5, <1>6, <2>2, <2>3 DEF RecBase, RecOK, Cur
  <2> QED
    BY <1>1, <1>2, <1>3, <1>4, <2>1, <2>2, <2>4, FlushGoesTo DEF InFlush, FlushAt
<1>7. CASE ~(Terminal(agent.rec) /\ ~agent.rec.notified)
  <2>1. AfterUpdate(agent.rec)
    BY <1>7 DEF RecordSent
  <2>2. agent.rec.revision \in 1 .. revisionSeq'
    BY <1>2, <1>3, RevisionsStay DEF WakeInv, Gentle
  <2> QED
    BY <1>1, <1>2, <1>3, <1>4, <1>5, <2>1, <2>2, AfterUpdateKeeps DEF InFlush
<1> QED
  BY <1>6, <1>7

LEMMA NotifyKeeps ==
  ASSUME WakeInv, Notify, UNCHANGED <<queueVars, replay, chatVars, events>>
  PROVE  Keeps
<1> DEFINE rec == [agent.rec EXCEPT !.notified = TRUE]
<1>1. /\ agent.at = "notify" /\ agent.at \in FlushAt
      /\ SetCoordinator(Cur, [coordinators[Cur] EXCEPT !.notified = TRUE])
      /\ AfterUpdate(rec)
      /\ UNCHANGED <<inbound, outbound, replay, consumed>>
  BY DEF Notify, FlushAt, queueVars, chatVars
<1>2. InFlush
  BY <1>1, FlushKnows
<1>3. /\ agent.rec.chat = coordinators[Cur].chat
      /\ Terminal(agent.rec) /\ Terminal(coordinators[Cur])
      /\ agent.rec.resumeEnqueued = coordinators[Cur].resumeEnqueued
      /\ agent.rec.revision \in 1 .. revisionSeq
  BY <1>1 DEF WakeInv, RecOK
<1>4. /\ Next /\ FlushMoves
      /\ coordinators'[Cur].wake = coordinators[Cur].wake
      /\ coordinators'[Cur].chat = coordinators[Cur].chat
      /\ coordinators'[Cur].notified
      /\ coordinators'[Cur].resumeEnqueued = coordinators[Cur].resumeEnqueued
      /\ Terminal(coordinators'[Cur])
  BY <1>1, <1>3, NotifyMoves
<1>5. agent.rec.revision \in 1 .. revisionSeq'
  BY <1>3, <1>4, NextKeeps, RevisionsStay DEF WakeInv, FlushMoves
<1>6. /\ rec \in CoordinatorRecord /\ rec.notified = TRUE /\ rec.revision = agent.rec.revision
      /\ rec.chat = agent.rec.chat /\ rec.status = agent.rec.status
      /\ rec.resumeEnqueued = agent.rec.resumeEnqueued
  BY <1>2 DEF InFlush, CoordinatorRecord
<1> HIDE DEF rec
<1>7. coordinators'[Cur].notified = TRUE
  <2>1. coordinators'[Cur] \in CoordinatorRecord
    BY <1>2, <1>4, NextKeeps DEF InFlush, WakeInv, StoreInv, TypeOK
  <2> QED
    BY <1>4, <2>1 DEF CoordinatorRecord
<1>8. Terminal(rec)
  BY <1>3, <1>6 DEF Terminal
<1> QED
  BY <1>1, <1>2, <1>3, <1>4, <1>5, <1>6, <1>7, <1>8, AfterUpdateKeeps DEF InFlush

LEMMA DecideResumeKeeps ==
  ASSUME WakeInv, DecideResume, UNCHANGED <<queueVars, replay, chatVars, events>>
  PROVE  Keeps
<1>1. /\ agent.at = "decide" /\ agent.at \in FlushAt /\ UNCHANGED storeVars
      /\ UNCHANGED <<inbound, outbound, replay, consumed>>
  BY DEF DecideResume, FlushAt, queueVars, chatVars
<1>2. InFlush /\ coordinators[Cur].notified /\ ~coordinators[Cur].resumeEnqueued
  BY <1>1, FlushKnows DEF WakeInv, RecOK
<1>3. [Next]_storeVars /\ Gentle
  BY <1>1, SameMoves DEF WakeInv
<1>4. /\ FlushMoves
      /\ coordinators'[Cur].wake = coordinators[Cur].wake
      /\ coordinators'[Cur].chat = coordinators[Cur].chat
      /\ coordinators'[Cur].notified = coordinators[Cur].notified
      /\ coordinators'[Cur].resumeEnqueued = coordinators[Cur].resumeEnqueued
      /\ Terminal(coordinators[Cur]) => Terminal(coordinators'[Cur])
  BY <1>1, <1>3, GentleIsKept
\* What a chat has consumed was recorded, and the end it is decided on was not.
<1>5. ~AlreadyConsumed(agent.rec)
  <2>1. agent.rec.revision >= 1 /\ agent.rec.revision \in Nat
    BY <1>1, <1>2 DEF WakeInv, RecOK, InFlush
  <2>2. consumed[Cur] \in Nat /\ ~(consumed[Cur] > 0)
    BY <1>2 DEF WakeInv, WakeTypeOK, QueueOK, InFlush
  <2>3. ~(consumed[Cur] >= agent.rec.revision)
    BY <2>1, <2>2
  <2> QED
    BY <2>3 DEF AlreadyConsumed
<1>6. CASE MustDefer(agent.rec)
  <2> DEFINE entry == Deferred(pending[Cur], agent.rec)
  <2>1. agent' = Over(agent.todo) /\ pending' = [pending EXCEPT ![Cur] = entry]
    BY <1>5, <1>6 DEF DecideResume, Keep
  <2>2. entry \in Entry /\ entry.used
    BY <1>2, RetainedIsTyped DEF InFlush
  <2> HIDE DEF entry
  <2> QED
    BY <1>1, <1>2, <1>3, <1>4, <2>1, <2>2, FlushEnds DEF InFlush
<1>7. CASE ~MustDefer(agent.rec)
  <2>1. agent' = [agent EXCEPT !.at = "push", !.onFull = "retry"] /\ UNCHANGED pending
    BY <1>5, <1>7 DEF DecideResume
  <2>2. /\ agent' \in AgentState /\ agent'.at = "push" /\ agent'.onFull = "retry"
        /\ agent'.todo = agent.todo /\ agent'.cur = Cur /\ agent'.rec = agent.rec
    BY <1>2, <2>1 DEF InFlush, AgentState, AgentAt, FlushAt
  <2>3. RecBase'
    BY <1>1, <1>3, <1>4, <2>2, RecBaseStays
  <2>4. RecOK'
    BY <1>1, <1>2, <1>4, <2>2, <2>3 DEF WakeInv, RecBase, RecOK, Cur
  <2> QED
    BY <1>1, <1>2, <1>3, <1>4, <2>1, <2>2, <2>4, FlushGoesTo DEF InFlush, FlushAt
<1> QED
  BY <1>6, <1>7

LEMMA ViaNotifyKeeps ==
  ASSUME WakeInv, ViaNotify, UNCHANGED <<queueVars, replay, chatVars, events>>
  PROVE  Keeps
<1>1. /\ agent.at = "via_notify" /\ agent.at \in FlushAt
      /\ agent' = [agent EXCEPT !.at = "push"]
      /\ UNCHANGED <<pending, inbound, outbound, replay, consumed>>
  BY DEF ViaNotify, GoTo, FlushAt, queueVars, chatVars
<1>2. /\ InFlush /\ Terminal(agent.rec) /\ Terminal(coordinators[Cur]) /\ agent.via
      /\ agent.rec.resumeEnqueued = coordinators[Cur].resumeEnqueued
      /\ agent.rec.notified => coordinators[Cur].notified
  BY <1>1, FlushKnows DEF WakeInv, RecOK
<1>3. /\ [Next]_storeVars /\ FlushMoves
      /\ coordinators'[Cur].wake = coordinators[Cur].wake
      /\ coordinators'[Cur].notified
      /\ coordinators'[Cur].resumeEnqueued = coordinators[Cur].resumeEnqueued
      /\ Terminal(coordinators'[Cur])
  <2>1. CASE agent.rec.notified
    <3>1. UNCHANGED storeVars
      BY <2>1 DEF ViaNotify
    <3>2. [Next]_storeVars /\ Gentle
      BY <3>1, SameMoves DEF WakeInv
    <3> QED
      BY <1>1, <1>2, <2>1, <3>2, GentleIsKept
  <2>2. CASE ~agent.rec.notified
    BY <1>1, <1>2, <2>2, NotifyMoves DEF ViaNotify
  <2> QED
    BY <2>1, <2>2
<1>4. /\ agent' \in AgentState /\ agent'.at = "push" /\ agent'.via
      /\ agent'.todo = agent.todo /\ agent'.cur = Cur /\ agent'.rec = agent.rec
  BY <1>1, <1>2 DEF InFlush, AgentState, AgentAt, FlushAt
<1>5. RecBase'
  BY <1>1, <1>3, <1>4, RecBaseStays
<1>6. RecOK'
  BY <1>2, <1>3, <1>4, <1>5 DEF RecBase, RecOK, Cur
<1> QED
  BY <1>1, <1>2, <1>3, <1>4, <1>6, FlushGoesTo DEF InFlush, FlushAt

LEMMA PushResumeKeeps ==
  ASSUME WakeInv, PushResume, UNCHANGED <<outbound, replay, chatVars, events>>
  PROVE  Keeps
<1>1. /\ agent.at = "push" /\ agent.at \in FlushAt /\ UNCHANGED storeVars
      /\ UNCHANGED <<pending, outbound, replay, consumed>>
  BY DEF PushResume, GoTo, FlushAt, chatVars
<1>2. /\ InFlush /\ coordinators[Cur].notified
      /\ agent.onFull = "again" => Terminal(agent.rec) /\ agent.via
      /\ agent.rec.resumeEnqueued = coordinators[Cur].resumeEnqueued
  BY <1>1, FlushKnows DEF WakeInv, RecOK
<1>3. [Next]_storeVars /\ Gentle
  BY <1>1, SameMoves DEF WakeInv
<1>4. /\ FlushMoves
      /\ coordinators'[Cur].wake = coordinators[Cur].wake
      /\ coordinators'[Cur].notified = coordinators[Cur].notified
      /\ coordinators'[Cur].resumeEnqueued = coordinators[Cur].resumeEnqueued
      /\ Terminal(coordinators[Cur]) => Terminal(coordinators'[Cur])
  BY <1>1, <1>3, GentleIsKept
<1>5. CASE Len(inbound) < BusLen
  <2> DEFINE m == ResumeMessage(agent.rec.chat, Cur, agent.rec.revision)
  <2>1. inbound' = Append(inbound, m) /\ agent' = [agent EXCEPT !.at = "record_resume"]
    BY <1>5 DEF PushResume, GoTo
  <2>2. m \in Message /\ m.of = Cur
    BY <1>2 DEF ResumeMessage, Message, InFlush, CoordinatorRecord
  <2> HIDE DEF m
  <2>3. /\ agent' \in AgentState /\ agent'.at = "record_resume"
        /\ agent'.todo = agent.todo /\ agent'.cur = Cur /\ agent'.rec = agent.rec
    BY <1>2, <2>1 DEF InFlush, AgentState, AgentAt, FlushAt
  <2>4. RecBase'
    BY <1>1, <1>3, <1>4, <2>3, RecBaseStays
  <2>5. RecOK'
    BY <1>2, <1>4, <2>3, <2>4 DEF RecBase, RecOK, Cur
  <2>6. /\ inbound' \in Seq(Message)
        /\ \A i \in DOMAIN inbound' : \/ \E j \in DOMAIN inbound : inbound'[i] = inbound[j]
                                      \/ inbound'[i] = m
    BY <2>1, <2>2, AppendProperties DEF WakeInv, WakeTypeOK
  <2>7. \A i \in DOMAIN inbound' : inbound'[i].kind = "resume" =>
           \/ \E j \in DOMAIN inbound : inbound'[i] = inbound[j]
           \/ inbound'[i].of = Cur /\ agent'.at = "record_resume"
    BY <2>2, <2>3, <2>6
  <2>8. pending[Cur].resume =>
          coordinators'[Cur].notified /\ ~coordinators'[Cur].resumeEnqueued
    BY <1>1, <1>2, <1>4 DEF WakeInv, OwedOK, InFlush
  <2>9. /\ pending' \in [Coordinator -> Entry] /\ pending'[Cur].used
        /\ pending'[Cur].resume = pending[Cur].resume
        /\ \A c \in Coordinator \ {Cur} : pending'[c] = pending[c]
    BY <1>1, <1>2 DEF InFlush
  <2>10. agent'.at \in FlushAt \ {"nonweb"} /\ agent'.at # "settle" /\ agent.at # "record_resume"
    BY <1>1, <2>3 DEF FlushAt
  <2>11. coordinators'[Cur].wake \in {"pending", "dispatched"}
    BY <1>2, <1>4 DEF InFlush
  <2> QED
    BY <1>1, <1>3, <1>4, <2>3, <2>5, <2>6, <2>7, <2>8, <2>9, <2>10, <2>11, FlushGoesOn
<1>6. CASE ~(Len(inbound) < BusLen)
  <2>1. /\ UNCHANGED inbound
        /\ agent' = IF agent.onFull = "again"
                    THEN [agent EXCEPT !.at = "via_notify", !.onFull = "retry"]
                    ELSE [agent EXCEPT !.at = agent.onFull]
    BY <1>6 DEF PushResume
  <2>2. /\ agent' \in AgentState /\ agent'.at \in {"via_notify", "settle", "retry"}
        /\ agent'.at = "via_notify" <=> agent.onFull = "again"
        /\ agent'.at = "settle" => agent.onFull = "settle"
        /\ agent'.todo = agent.todo /\ agent'.cur = Cur /\ agent'.rec = agent.rec
        /\ agent'.via = agent.via
    BY <1>2, <2>1 DEF InFlush, AgentState, AgentAt, FlushAt
  <2>3. RecBase'
    BY <1>1, <1>3, <1>4, <2>2, RecBaseStays
  <2>4. RecOK'
    BY <1>2, <1>4, <2>2, <2>3 DEF RecBase, RecOK, Cur
  <2>5. BusHasRoom => agent'.at # "settle"
    BY <1>1, <1>6, <2>2 DEF BusHasRoom
  <2> QED
    BY <1>1, <1>2, <1>3, <1>4, <2>1, <2>2, <2>4, <2>5, FlushGoesTo DEF InFlush, FlushAt
<1> QED
  BY <1>5, <1>6

LEMMA RecordResumeKeeps ==
  ASSUME WakeInv, RecordResume, UNCHANGED <<queueVars, replay, chatVars, events>>
  PROVE  Keeps
<1>1. /\ agent.at = "record_resume" /\ agent.at \in FlushAt
      /\ SetCoordinator(Cur, [coordinators[Cur] EXCEPT !.resumeEnqueued = TRUE])
      /\ agent' = [agent EXCEPT !.at = "settle"]
      /\ UNCHANGED <<pending, inbound, outbound, replay, consumed>>
  BY DEF RecordResume, GoTo, FlushAt, queueVars, chatVars
<1>2. InFlush /\ coordinators[Cur].notified
  BY <1>1, FlushKnows DEF WakeInv, RecOK
<1>3. /\ Next /\ FlushMoves
      /\ coordinators'[Cur].wake = coordinators[Cur].wake
      /\ coordinators'[Cur].resumeEnqueued
      /\ Terminal(coordinators'[Cur])
  BY <1>1, <1>2, EnqueueMoves
<1>4. /\ agent' \in AgentState /\ agent'.at = "settle"
      /\ agent'.todo = agent.todo /\ agent'.cur = Cur /\ agent'.rec = agent.rec
  BY <1>1, <1>2 DEF InFlush, AgentState, AgentAt, FlushAt
<1>5. RecBase'
  BY <1>1, <1>3, <1>4, RecBaseStays
<1>6. RecOK'
  BY <1>4, <1>5 DEF RecBase, RecOK
<1> QED
  BY <1>1, <1>2, <1>3, <1>4, <1>6, FlushGoesTo DEF InFlush, FlushAt

LEMMA RetryKeeps ==
  ASSUME WakeInv, Retry, UNCHANGED <<queueVars, replay, chatVars, events>>
  PROVE  Keeps
<1> DEFINE entry == [pending[Cur] EXCEPT !.retry = "armed"]
<1>1. /\ agent.at = "retry" /\ agent.at \in FlushAt /\ MarkWake(Cur, "pending")
      /\ agent' = Over(agent.todo) /\ pending' = [pending EXCEPT ![Cur] = entry]
      /\ UNCHANGED <<inbound, outbound, replay, consumed>>
  BY DEF Retry, FlushAt, Keep, queueVars, chatVars
<1>2. InFlush /\ "pending" \in WakeState \ {"idle"}
  BY <1>1, FlushKnows DEF WakeState
<1>3. /\ Next /\ FlushMoves /\ coordinators'[Cur].wake = "pending"
      /\ coordinators'[Cur].notified = coordinators[Cur].notified
      /\ coordinators'[Cur].resumeEnqueued = coordinators[Cur].resumeEnqueued
  BY <1>1, <1>2, WakeMoves
<1>4. entry \in Entry /\ entry.used /\ entry.resume = pending[Cur].resume
  BY <1>2 DEF InFlush, Entry
<1> HIDE DEF entry
<1>5. entry.resume => coordinators'[Cur].notified /\ ~coordinators'[Cur].resumeEnqueued
  BY <1>1, <1>2, <1>3, <1>4 DEF WakeInv, OwedOK, InFlush
<1> QED
  BY <1>1, <1>3, <1>4, <1>5, FlushEnds

-----------------------------------------------------------------------------
(* The poll: the drain, the marks, and the first look of a flush. *)

\* What a step of the poll leaves of a coordinator: everything but its wake.
PollMoves ==
  StoreMoves /\ \A c \in Live :
    /\ coordinators'[c].chat = coordinators[c].chat
    /\ coordinators'[c].notified = coordinators[c].notified
    /\ coordinators'[c].resumeEnqueued = coordinators[c].resumeEnqueued
    /\ coordinators'[c].revision >= 1
    /\ coordinators'[c].notified => Terminal(coordinators'[c])

LEMMA LoopPollMoves ==
  ASSUME LoopMoves PROVE PollMoves
BY DEF LoopMoves, PollMoves

LEMMA PollKeeps ==
  ASSUME WakeInv, [Next]_storeVars, PollMoves, agent.at \in {"loop", "mark", "flush"},
         UNCHANGED <<replay, inbound, outbound, consumed>>,
         WakeTypeOK', Pinned', HandOK', RecOK',
         \A c \in Waiting' :
           \/ c \in Waiting /\ pending'[c] = pending[c]
           \/ pending'[c].resume => coordinators'[c].notified /\ ~coordinators'[c].resumeEnqueued,
         LookedAfter => LookedAfter'
  PROVE  Keeps
<1>1. StoreInv' /\ Live' = Live
  BY NextKeeps DEF WakeInv, PollMoves, StoreMoves
<1>2. TeamsOK'
  <2>1. revisionSeq' >= 1
    BY <1>1 DEF PollMoves, StoreMoves, WakeInv, TeamsOK, StoreInv, TypeOK
  <2> QED
    BY <1>1, <2>1 DEF PollMoves, TeamsOK
<1>3. OwedOK'
  <2>1. \A c \in Waiting : /\ c \in Live
                           /\ pending[c].resume =>
                                coordinators[c].notified /\ ~coordinators[c].resumeEnqueued
    BY DEF WakeInv, Pinned, OwedOK
  <2> QED
    BY <2>1 DEF OwedOK, PollMoves
<1>4. QueueOK'
  <2>1. \A c \in Live : coordinators[c].resumeEnqueued => coordinators'[c].resumeEnqueued
    BY DEF PollMoves
  <2>2. StoreMoves
    BY DEF PollMoves
  <2> QED
    BY <2>1, <2>2, QueueStays
<1>5. ReplayOK'
  BY <1>1, ReplayStays DEF PollMoves
<1> QED
  BY <1>1, <1>2, <1>3, <1>4, <1>5 DEF WakeInv, Keeps, DropsOnly

LEMMA PollDrainsKeeps ==
  ASSUME WakeInv, PollDrains, UNCHANGED <<queueVars, replay, chatVars, events>>
  PROVE  Keeps
<1>1. /\ agent.at = "loop" /\ DrainChanged
      /\ pending' = [c \in Coordinator |->
            IF c \in Changed THEN Upserted(pending[c], coordinators'[c]) ELSE pending[c]]
      /\ agent' = [agent EXCEPT !.at = "mark", !.todo = Changed]
      /\ UNCHANGED <<inbound, outbound, replay, consumed>>
  BY DEF PollDrains, queueVars, chatVars
<1>2. ReadStep /\ Next
  BY <1>1 DEF ReadStep, Next, CoordinatorStep
<1>3. LoopMoves /\ StoreInv'
  BY <1>2, ReadIsGentle, GentleLoopMoves, ReadKeeps DEF WakeInv
<1>4. /\ agent \in AgentState /\ agent.cur = None /\ agent.rec = Blank
      /\ pending \in [Coordinator -> Entry] /\ Changed \subseteq Live /\ Changed \subseteq Coordinator
      /\ Live' = Live
  BY <1>1, <1>3, NothingInHand DEF FlushAt, WakeInv, WakeTypeOK, Changed, Live, LoopMoves, StoreMoves
<1>5. ASSUME NEW c \in Changed
      PROVE  /\ pending'[c] \in Entry /\ pending'[c].used
             /\ \/ c \in Waiting /\ pending'[c] = pending[c]
                \/ pending'[c].resume => coordinators'[c].notified /\ ~coordinators'[c].resumeEnqueued
  <2>1. /\ pending'[c] = Upserted(pending[c], coordinators'[c])
        /\ coordinators'[c].revision \in Nat /\ coordinators'[c].lastSent \in Nat
    BY <1>1, <1>3, <1>4 DEF StoreInv, TypeOK, CoordinatorRecord
  <2>2. CASE pending'[c] = pending[c] /\ pending[c].used
    BY <1>4, <2>2 DEF Waiting
  <2>3. CASE pending'[c] = [used |-> TRUE, resume |-> ResumePending(coordinators'[c]),
                            retry |-> "none", revision |-> coordinators'[c].revision,
                            lastSent |-> coordinators'[c].lastSent]
    <3>1. ResumePending(coordinators'[c]) \in BOOLEAN
      <4>1. coordinators'[c] \in CoordinatorRecord
        BY <1>3, <1>4 DEF StoreInv, TypeOK
      <4> QED
        BY <4>1 DEF ResumePending, Terminal, CoordinatorRecord
    <3>2. pending'[c] \in Entry /\ pending'[c].used
      BY <2>1, <2>3, <3>1 DEF Entry
    <3>3. pending'[c].resume = ResumePending(coordinators'[c])
      BY <2>3
    <3> QED
      BY <3>2, <3>3 DEF ResumePending
  <2> QED
    BY <2>1, <2>2, <2>3 DEF Upserted
<1>6. \A c \in Coordinator \ Changed : pending'[c] = pending[c]
  BY <1>1
<1>7. pending' \in [Coordinator -> Entry] /\ Waiting' = Waiting \cup Changed
  <2>1. \A c \in Coordinator : pending'[c] \in Entry
    BY <1>4, <1>5, <1>6
  <2>2. Waiting' = Waiting \cup Changed
    BY <1>4, <1>5, <1>6 DEF Waiting
  <2> QED
    BY <1>1, <2>1, <2>2
<1>8. /\ agent' \in AgentState /\ agent'.at = "mark" /\ agent'.todo = Changed
      /\ agent'.cur = None /\ agent'.rec = Blank
  BY <1>1, <1>4 DEF AgentState, AgentAt
<1>9. WakeTypeOK' /\ HandOK' /\ RecOK'
  BY <1>1, <1>7, <1>8 DEF WakeInv, WakeTypeOK, HandOK, RecOK, FlushAt, Cur
<1>10. Pinned'
  <2>1. \A c \in Waiting : c \in Live /\ coordinators[c].wake \in {"pending", "dispatched"}
    BY <1>1 DEF WakeInv, Pinned
  <2> QED
    BY <1>3, <1>4, <1>7, <1>8, <2>1 DEF Pinned, LoopMoves
<1>11. LookedAfter => LookedAfter'
  BY <1>3, <1>4, <1>7, <1>8 DEF LookedAfter, LoopMoves
<1>12. \A c \in Waiting' :
           \/ c \in Waiting /\ pending'[c] = pending[c]
           \/ pending'[c].resume => coordinators'[c].notified /\ ~coordinators'[c].resumeEnqueued
  BY <1>5, <1>6, <1>7 DEF Waiting
<1> QED
  BY <1>1, <1>2, <1>3, <1>9, <1>10, <1>11, <1>12, LoopPollMoves, PollKeeps

LEMMA MarkDrainedKeeps ==
  ASSUME WakeInv, NEW c \in Coordinator, MarkDrained(c),
         UNCHANGED <<queueVars, replay, chatVars, events>>
  PROVE  Keeps
<1>1. /\ agent.at = "mark" /\ c \in agent.todo /\ MarkWake(c, "pending")
      /\ \/ agent.todo = {c} /\ agent' = [agent EXCEPT !.at = "flush", !.todo = Waiting]
         \/ agent.todo # {c} /\ agent' = [agent EXCEPT !.todo = @ \ {c}]
      /\ UNCHANGED <<pending, inbound, outbound, replay, consumed>>
  BY DEF MarkDrained, queueVars, chatVars
<1>2. /\ c \in Live /\ coordinators[c] \in CoordinatorRecord /\ StoreMoves
      /\ coordinators'[c] = [coordinators[c] EXCEPT !.wake = "pending"]
      /\ \A d \in Live \ {c} : Untouched(d)
  BY <1>1, SetEffect DEF MarkWake, WakeInv
<1>3. Next
  BY <1>1 DEF Next, CoordinatorStep, WakeState
<1>4. /\ coordinators'[c].chat = coordinators[c].chat
      /\ coordinators'[c].notified = coordinators[c].notified
      /\ coordinators'[c].resumeEnqueued = coordinators[c].resumeEnqueued
      /\ coordinators'[c].revision = coordinators[c].revision
      /\ coordinators'[c].status = coordinators[c].status
      /\ coordinators'[c].wake = "pending"
  BY <1>2 DEF CoordinatorRecord
<1>5. PollMoves
  <2>1. ASSUME NEW d \in Live
        PROVE  /\ coordinators'[d].chat = coordinators[d].chat
               /\ coordinators'[d].notified = coordinators[d].notified
               /\ coordinators'[d].resumeEnqueued = coordinators[d].resumeEnqueued
               /\ coordinators'[d].revision >= 1
               /\ coordinators'[d].notified => Terminal(coordinators'[d])
    BY <1>2, <1>4 DEF Untouched, StillEnded, WakeInv, TeamsOK, Terminal
  <2> QED
    BY <1>2, <2>1 DEF PollMoves
<1>6. /\ agent \in AgentState /\ agent.cur = None /\ agent.rec = Blank /\ Waiting' = Waiting
      /\ agent.todo \subseteq Waiting /\ Live' = Live
  BY <1>1, <1>2, NothingInHand DEF FlushAt, Waiting, WakeInv, HandOK, StoreMoves
<1>7. /\ agent' \in AgentState /\ agent'.cur = None /\ agent'.rec = Blank
      /\ agent'.at \in {"mark", "flush"} /\ agent'.todo \subseteq Waiting
      /\ agent'.at = "mark" => agent'.todo = agent.todo \ {c}
      /\ agent'.at = "flush" => agent.todo = {c}
  <2>1. /\ agent \in AgentState /\ agent.at = "mark" /\ Waiting \in SUBSET Coordinator
        /\ agent.todo \ {c} \in SUBSET Coordinator /\ "flush" \in AgentAt
    BY <1>1, <1>6 DEF AgentState, AgentAt, Waiting
  <2>2. CASE agent.todo = {c} /\ agent' = [agent EXCEPT !.at = "flush", !.todo = Waiting]
    BY <1>6, <2>1, <2>2 DEF AgentState
  <2>3. CASE agent.todo # {c} /\ agent' = [agent EXCEPT !.todo = @ \ {c}]
    BY <1>6, <2>1, <2>3 DEF AgentState
  <2> QED
    BY <1>1, <2>2, <2>3
<1>8. WakeTypeOK' /\ HandOK' /\ RecOK'
  BY <1>1, <1>6, <1>7 DEF WakeInv, WakeTypeOK, HandOK, RecOK, FlushAt, Cur
<1>9. Pinned'
  <2>1. \A d \in Waiting \ {c} :
          /\ d \in Live /\ coordinators'[d].wake = coordinators[d].wake
          /\ coordinators[d].wake \in {"pending", "dispatched"} \/ d \in agent.todo
    BY <1>2 DEF WakeInv, Pinned, Untouched
  <2> QED
    BY <1>2, <1>4, <1>6, <1>7, <2>1 DEF Pinned
<1>10. LookedAfter => LookedAfter'
  BY <1>5, <1>6, <1>7 DEF LookedAfter, PollMoves
<1> QED
  BY <1>1, <1>3, <1>5, <1>6, <1>8, <1>9, <1>10, PollKeeps

\* A look that finds the last revision delivered drops the entry.
LEMMA LookClearsKeeps ==
  ASSUME WakeInv, NEW c \in Coordinator, agent.at = "flush", c \in agent.todo,
         SnapshotCoordinator(c), agent' = Over(agent.todo \ {c}),
         pending' = [pending EXCEPT ![c] = NoEntry], ~ResumePending(coordinators'[c]),
         UNCHANGED <<queueVars, replay, chatVars, events>>
  PROVE  Keeps
<1>1. UNCHANGED <<inbound, outbound, replay, consumed>>
  BY DEF queueVars, chatVars
<1>2. Next /\ LoopMoves
  BY SnapshotMoves, GentleLoopMoves DEF WakeInv
<1>3. /\ agent \in AgentState /\ agent.todo \subseteq Waiting /\ Live' = Live
      /\ pending \in [Coordinator -> Entry]
  BY <1>2 DEF WakeInv, WakeTypeOK, HandOK, LoopMoves, StoreMoves
<1>4. /\ pending' \in [Coordinator -> Entry] /\ Waiting' = Waiting \ {c}
      /\ \A d \in Waiting' : pending'[d] = pending[d]
  BY <1>3, StartingValues DEF Waiting, NoEntry
<1>5. /\ agent' \in AgentState /\ agent'.at \in {"pop", "flush"}
      /\ agent'.todo = agent.todo \ {c} /\ agent'.cur = None /\ agent'.rec = Blank
  <2>1. /\ agent.todo \ {c} \in SUBSET Coordinator /\ {"pop", "flush"} \subseteq AgentAt
    BY <1>3 DEF AgentState, AgentAt
  <2>2. Idle \in AgentState /\ Idle.cur = None /\ Idle.rec = Blank
    BY StartingValues DEF Idle
  <2>3. PICK at \in {"pop", "flush"} : agent' = [Idle EXCEPT !.at = at, !.todo = agent.todo \ {c}]
    BY DEF Over
  <2> QED
    BY <2>1, <2>2, <2>3 DEF AgentState
<1>6. WakeTypeOK' /\ HandOK' /\ RecOK'
  BY <1>1, <1>3, <1>4, <1>5 DEF WakeInv, WakeTypeOK, HandOK, RecOK, FlushAt, Cur
<1>7. Pinned'
  BY <1>2, <1>3, <1>4 DEF WakeInv, Pinned, LoopMoves
<1>8. LookedAfter => LookedAfter'
  <2>1. coordinators'[c].notified /\ c \in Live => coordinators'[c].resumeEnqueued
    BY <1>2 DEF LoopMoves, ResumePending
  <2> QED
    BY <1>2, <1>3, <1>4, <1>5, <2>1 DEF LookedAfter, LoopMoves
<1> QED
  BY <1>1, <1>2, <1>4, <1>6, <1>7, <1>8, LoopPollMoves, PollKeeps

\* A look that goes on takes the coordinator in hand.
LEMMA LookGoesKeeps ==
  ASSUME WakeInv, NEW c \in Coordinator, agent.at = "flush", c \in agent.todo,
         SnapshotCoordinator(c), UNCHANGED pending,
         NEW at \in {"nonweb", "settle", "decide", "dispatch"},
         agent' = [agent EXCEPT !.at = at, !.todo = @ \ {c}, !.cur = c, !.rec = coordinators'[c]],
         at = "nonweb" => coordinators'[c].chat \notin WebChat,
         at = "settle" => ~Terminal(coordinators'[c]),
         at = "decide" => pending[c].resume \/ ResumePending(coordinators'[c]),
         UNCHANGED <<queueVars, replay, chatVars, events>>
  PROVE  Keeps
<1>1. UNCHANGED <<inbound, outbound, replay, consumed>>
  BY DEF queueVars, chatVars
<1>2. Next /\ LoopMoves /\ StoreInv'
  BY SnapshotMoves, GentleLoopMoves DEF WakeInv
<1>3. /\ agent \in AgentState /\ agent.todo \subseteq Waiting /\ Live' = Live /\ c \in Live
      /\ c \in Waiting /\ Waiting' = Waiting
  BY <1>2 DEF WakeInv, WakeTypeOK, HandOK, Pinned, LoopMoves, StoreMoves, Waiting
<1>4. /\ coordinators'[c] \in CoordinatorRecord
      /\ coordinators'[c].revision \in 1 .. revisionSeq'
      /\ coordinators'[c].notified => Terminal(coordinators'[c])
  <2>1. /\ coordinators'[c].revision >= 1
        /\ coordinators'[c].notified => Terminal(coordinators'[c])
    BY <1>2, <1>3 DEF LoopMoves
  <2>2. /\ coordinators'[c] \in CoordinatorRecord /\ coordinators'[c].revision < revisionSeq'
        /\ revisionSeq' \in Nat
    BY <1>2, <1>3 DEF StoreInv, TypeOK, RevisionOrder
  <2>3. coordinators'[c].revision \in Nat
    BY <2>2 DEF CoordinatorRecord
  <2> QED
    BY <2>1, <2>2, <2>3
<1>5. /\ agent' \in AgentState /\ agent'.at = at /\ agent'.todo = agent.todo \ {c}
      /\ agent'.cur = c /\ agent'.rec = coordinators'[c]
  BY <1>3, <1>4 DEF AgentState, AgentAt, FlushAt, TeamOrNone
<1>6. WakeTypeOK' /\ HandOK'
  BY <1>1, <1>3, <1>5 DEF WakeInv, WakeTypeOK, HandOK, FlushAt, Cur
<1>7. at = "decide" => coordinators'[c].notified /\ ~coordinators'[c].resumeEnqueued
  BY <1>2, <1>3 DEF WakeInv, OwedOK, LoopMoves, ResumePending
<1>8. RecOK'
  BY <1>4, <1>5, <1>7 DEF RecOK, Cur
<1>9. Pinned'
  BY <1>2, <1>3, <1>5 DEF WakeInv, Pinned, LoopMoves
<1>10. LookedAfter => LookedAfter'
  BY <1>2, <1>3, <1>4, <1>5 DEF LookedAfter, LoopMoves, Cur
<1> QED
  BY <1>1, <1>2, <1>3, <1>6, <1>8, <1>9, <1>10, LoopPollMoves, PollKeeps

LEMMA LookKeeps ==
  ASSUME WakeInv, NEW c \in Coordinator, Look(c), UNCHANGED <<queueVars, replay, chatVars, events>>
  PROVE  Keeps
<1> DEFINE rec  == coordinators'[c]
           owed == pending[c].resume \/ ResumePending(rec)
           goes(at) == /\ agent' = [agent EXCEPT !.at = at, !.todo = agent.todo \ {c}, !.cur = c,
                                                 !.rec = rec]
                       /\ UNCHANGED pending
<1>1. agent.at = "flush" /\ c \in agent.todo /\ SnapshotCoordinator(c)
  BY DEF Look
<1>2. \/ agent' = Over(agent.todo \ {c}) /\ UNCHANGED pending
      \/ /\ agent' = Over(agent.todo \ {c}) /\ pending' = [pending EXCEPT ![c] = NoEntry]
         /\ Delivered(rec, owed)
      \/ goes("nonweb") /\ rec.chat \notin WebChat
      \/ goes("settle") /\ ~Terminal(rec)
      \/ goes("decide") /\ owed
      \/ goes("dispatch")
  BY DEF Look
<1>3. Delivered(rec, owed) => ~ResumePending(rec)
  BY DEF Delivered
<1>4. ASSUME NEW at, goes(at)
      PROVE  agent' = [agent EXCEPT !.at = at, !.todo = @ \ {c}, !.cur = c, !.rec = coordinators'[c]]
  BY <1>4
<1> QED
  BY <1>1, <1>2, <1>3, <1>4, LookHeldKeeps, LookClearsKeeps, LookGoesKeeps

-----------------------------------------------------------------------------
(* Every step, and the start. *)

LEMMA AgentKeeps ==
  ASSUME WakeInv, AgentStep
  PROVE  Keeps
<1>1. CASE /\ PollDrains \/ (\E c \in Coordinator : MarkDrained(c)) \/ PollFlushes \/ FlushStep
           /\ UNCHANGED <<queueVars, replay, chatVars, events>>
  <2>1. CASE FlushStep
    BY <1>1, <2>1, LookKeeps, FlushNonWebKeeps, SettleKeeps, DispatchKeeps, LookAgainKeeps,
       RecordSentKeeps, NotifyKeeps, DecideResumeKeeps, ViaNotifyKeeps, RecordResumeKeeps,
       RetryKeeps DEF FlushStep
  <2> QED
    BY <1>1, <2>1, PollDrainsKeeps, MarkDrainedKeeps, PollFlushesKeeps
<1>2. CASE (SendVisible \/ SendDone) /\ UNCHANGED <<queueVars, replay, chatVars>>
  BY <1>2, SendVisibleKeeps, SendDoneKeeps
<1>3. CASE PushResume /\ UNCHANGED <<outbound, replay, chatVars, events>>
  BY <1>3, PushResumeKeeps
<1>4. CASE TakeMessage /\ UNCHANGED <<storeVars, pending, replay, connected, active, asked,
                                      replied, events>>
  BY <1>4, TakeMessageKeeps
<1>5. CASE TurnStep /\ UNCHANGED <<pending, queueVars, replay, chatVars, events>>
  BY <1>5, StartTeamKeeps, TeamRefusedKeeps, PlanTaskKeeps, LaunchKeeps, AttachPlannedKeeps,
     TeamPlannedKeeps DEF TurnStep
<1>6. CASE (EndTurn \/ EndCancelled)
             /\ UNCHANGED <<storeVars, pending, inbound, replay, connected, active, asked, consumed>>
  BY <1>6, EndOfTurnKeeps
<1> QED
  BY <1>1, <1>2, <1>3, <1>4, <1>5, <1>6 DEF AgentStep

LEMMA WakeNextKeeps ==
  ASSUME WakeInv, [WakeNext]_wakeVars
  PROVE  Keeps
BY AgentKeeps, WorkerKeeps, DeliverKeeps, ReplayKeeps, ClientKeeps, TimeKeeps, StutterKeeps
   DEF WakeNext

LEMMA WakeStarts ==
  ASSUME WakeInit
  PROVE  Init /\ WakeInv /\ LookedAfter
<1>1. Init /\ StoreInv /\ Live = {}
  BY InitInv, StoreAssumption DEF WakeInit, Init, Live
<1>2. Waiting = {} /\ Cur = None /\ agent = Idle /\ replay = NoReplay
  BY DEF WakeInit, Waiting, NoEntry, Cur, Idle
<1>3. WakeTypeOK
  BY StartingValues, EmptySeq DEF WakeInit, WakeTypeOK
<1>4. TeamsOK
  BY <1>1 DEF Init, TeamsOK
<1>5. Pinned /\ HandOK /\ RecOK /\ OwedOK /\ ReplayOK /\ LookedAfter
  BY <1>1, <1>2 DEF Pinned, HandOK, RecOK, OwedOK, ReplayOK, LookedAfter, FlushAt, Idle, NoReplay
<1>6. QueueOK
  <2>1. DOMAIN inbound = {} /\ \A c \in Coordinator : consumed[c] = 0
    BY DEF WakeInit
  <2> QED
    BY <2>1 DEF QueueOK
<1> QED
  BY <1>1, <1>3, <1>4, <1>5, <1>6 DEF WakeInv

-----------------------------------------------------------------------------
(* The theorems. *)

\* What each of the wake's steps assumes of the one before holds at all times.
THEOREM WakeInvariant == WakeSpec => []WakeInv
<1>1. WakeInit => WakeInv
  BY WakeStarts
<1>2. WakeInv /\ [WakeNext]_wakeVars => WakeInv'
  BY WakeNextKeeps DEF Keeps
<1> QED
  BY <1>1, <1>2, PTL DEF WakeSpec

\* The poll, the workers, the outbound thread and the replays use the store
\* as it asks to be used: what is proved of the store holds here.
THEOREM TheStoreIsObeyed == WakeSpec => Spec
<1>1. WakeInit => Init
  BY WakeStarts
<1>2. WakeInv /\ [WakeNext]_wakeVars => [Next]_storeVars
  BY WakeNextKeeps DEF Keeps
<1> QED
  BY <1>1, <1>2, WakeInvariant, PTL DEF WakeSpec, Spec

\* An entry pins its coordinator, and a flush's own entry stays to its end.
THEOREM EntriesStayPinned == WakeSpec => []EntriesPinned
<1>1. WakeInv => EntriesPinned
  <2> SUFFICES ASSUME WakeInv PROVE EntriesPinned
    OBVIOUS
  <2>1. agent.rec # Blank => pending[Cur].used
    BY CurIsLive DEF WakeInv, HandOK
  <2>2. \A c \in Waiting \ InHand :
          c \in Live /\ coordinators[c].wake \in {"pending", "dispatched"}
    BY DEF WakeInv, Pinned, InHand
  <2> QED
    BY <2>1, <2>2 DEF EntriesPinned
<1> QED
  BY <1>1, WakeInvariant, PTL

\* What a chat consumed was recorded before: the check never drops a resume.
THEOREM OnlyRecordedIsConsumed == WakeSpec => []ConsumedWasEnqueued
<1>1. WakeInv => ConsumedWasEnqueued
  BY DEF WakeInv, QueueOK, ConsumedWasEnqueued, Live
<1> QED
  BY <1>1, WakeInvariant, PTL

\* A flush that was not told of a failed delivery pushes a resume that is
\* neither queued nor consumed.
THEOREM PushedOnce == WakeSpec => ResumedOnce
<1>1. ASSUME WakeInv, agent.at = "push", ~agent.via
      PROVE  consumed[Cur] = 0 /\ Resumes(inbound, Cur) = {}
  <2>1. InFlush /\ ~coordinators[Cur].resumeEnqueued
    BY <1>1, FlushKnows DEF FlushAt, WakeInv, RecOK
  <2>2. consumed[Cur] = 0
    <3>1. consumed[Cur] \in Nat
      BY <1>1, <2>1 DEF InFlush, WakeInv, WakeTypeOK
    <3>2. ~(consumed[Cur] > 0)
      BY <1>1, <2>1 DEF InFlush, WakeInv, QueueOK
    <3> QED
      BY <3>1, <3>2
  <2>3. \A i \in DOMAIN inbound : inbound[i].of # Cur
    <3> SUFFICES ASSUME NEW i \in DOMAIN inbound, inbound[i].of = Cur PROVE FALSE
      OBVIOUS
    <3>1. inbound[i] \in Message
      <4>1. inbound \in Seq(Message)
        BY <1>1 DEF WakeInv, WakeTypeOK
      <4> QED
        BY <4>1, ElementOfSeq, LenProperties
    <3>2. inbound[i].kind = "resume"
      BY <2>1, <3>1, StoreAssumption DEF Message, InFlush
    <3> QED
      BY <1>1, <2>1, <3>2 DEF WakeInv, QueueOK, InFlush
  <2> QED
    BY <2>2, <2>3 DEF Resumes
<1>2. WakeInv => (agent.at = "push" /\ ~agent.via /\ agent'.at = "record_resume"
                    => consumed[Cur] = 0 /\ Resumes(inbound, Cur) = {})
  BY <1>1
<1> QED
  BY <1>2, WakeInvariant, PTL DEF ResumedOnce

\* As long as the inbound queue has room for a resume that stands in for a
\* delivery nobody could take (when it has none the entry is dropped and
\* nobody tries again), who was notified is looked after ...
THEOREM LookedAfterWithRoom == WakeSpec /\ []BusHasRoom => []LookedAfter
<1>1. WakeInit => LookedAfter
  BY WakeStarts
<1>2. WakeInv /\ LookedAfter /\ BusHasRoom /\ [WakeNext]_wakeVars => LookedAfter'
  BY WakeNextKeeps DEF Keeps
<1> QED
  BY <1>1, <1>2, WakeInvariant, PTL DEF WakeSpec

\* ... so an end a client was told of is not forgotten ...
THEOREM NotForgottenWithRoom == WakeSpec /\ []BusHasRoom => []ResumeNotForgotten
<1>1. LookedAfter => ResumeNotForgotten
  BY DEF LookedAfter, ResumeNotForgotten, ResumePending, Waiting, Live
<1> QED
  BY <1>1, LookedAfterWithRoom, PTL

\* ... and a slot is only taken from a coordinator whose chat was resumed.
THEOREM ReclaimedWithRoom == WakeSpec /\ []BusHasRoom => ReclaimedWasResumed
<1>1. WakeInv /\ LookedAfter /\ [WakeNext]_wakeVars =>
        \A c \in Live \ Live' :
          coordinators[c].chat \in WebChat => coordinators[c].resumeEnqueued
  BY WakeNextKeeps DEF Keeps, DropsOnly, LookedAfter
<1> QED
  BY <1>1, WakeInvariant, LookedAfterWithRoom, PTL DEF WakeSpec, ReclaimedWasResumed

=============================================================================
