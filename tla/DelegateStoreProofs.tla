------------------------- MODULE DelegateStoreProofs -------------------------
(***************************************************************************)
(* What DelegateStore keeps for every number of tasks, coordinators, slots *)
(* and revisions.  The argument is one inductive invariant, StoreInv: the  *)
(* two tables name each other (OwnerConsistent), ids in use were handed    *)
(* out (KnownIds), and what a coordinator shows is a function of the       *)
(* records (ProjectionCurrent).  The other properties follow from it.      *)
(***************************************************************************)
EXTENDS DelegateStore, FiniteSetTheorems, SequenceTheorems, TLAPS

-----------------------------------------------------------------------------
(* The projection.                                                         *)

\* A record has one of five views.
LEMMA ViewOfType ==
  ASSUME NEW r \in TaskRecord
  PROVE  ViewOf(r) \in ViewStatus
BY DEF ViewOf, ViewStatus, TaskRecord, TaskStatus

\* Refreshing keeps the number of views and the tasks they are about, and
\* gives a view of the right type.
LEMMA ShownAgentsType ==
  ASSUME NEW recs \in [Task -> TaskRecord], NEW agents \in Seq(AgentView)
  PROVE  /\ ShownAgents(recs, agents) \in Seq(AgentView)
         /\ DOMAIN ShownAgents(recs, agents) = DOMAIN agents
         /\ \A i \in DOMAIN agents : ShownAgents(recs, agents)[i].task = agents[i].task
<1> DEFINE shown == ShownAgents(recs, agents)
<1>1. /\ Len(agents) \in Nat /\ DOMAIN agents = 1 .. Len(agents)
      /\ \A i \in 1 .. Len(agents) : agents[i] \in AgentView
  BY ElementOfSeq, LenProperties
<1>2. \A i \in DOMAIN agents : /\ agents[i] \in AgentView
                               /\ ViewOf(recs[agents[i].task]) \in ViewStatus
  BY <1>1, ViewOfType DEF AgentView
<1>3. \A i \in DOMAIN agents : shown[i] \in AgentView /\ shown[i].task = agents[i].task
  BY <1>2 DEF ShownAgents, AgentView
<1>4. shown \in [1 .. Len(agents) -> AgentView]
  BY <1>1, <1>3 DEF ShownAgents
<1>5. shown \in Seq(AgentView)
  BY <1>1, <1>4, SeqDef
<1> QED
  BY <1>3, <1>5 DEF ShownAgents

LEMMA ProjectedType ==
  ASSUME NEW recs \in [Task -> TaskRecord], NEW co \in CoordinatorRecord
  PROVE  /\ Projected(recs, co) \in CoordinatorRecord
         /\ \A f \in {"chat", "revision", "lastSent", "changed", "notified",
                      "responseSent", "resumeEnqueued", "wake"} :
              Projected(recs, co)[f] = co[f]
         /\ Projected(recs, co).agents = ShownAgents(recs, co.agents)
<1>1. co.agents \in Seq(AgentView)
  BY DEF CoordinatorRecord
<1>2. ShownAgents(recs, co.agents) \in Seq(AgentView)
  BY <1>1, ShownAgentsType
<1>3. StatusOf(ShownViews(recs, co.agents), ShownEffective(recs, co.agents))
        \in {"running", "queued", "done", "failed"}
  BY DEF StatusOf
<1>4. ShownEffective(recs, co.agents) \in BOOLEAN
  BY DEF ShownEffective
<1> QED
  BY <1>2, <1>3, <1>4 DEF Projected, CoordinatorRecord

\* What is shown depends on these fields of the shown tasks only.
AgreeOn(recs1, recs2, agents) ==
  \A i \in DOMAIN agents :
    LET r1 == recs1[agents[i].task]
        r2 == recs2[agents[i].task]
    IN  /\ r1.status = r2.status       /\ r1.blocker = r2.blocker
        /\ r1.request = r2.request     /\ r1.effective = r2.effective

\* (this includes what Projected computes the status from)
LEMMA AgreeingShowTheSame ==
  ASSUME NEW recs1, NEW recs2, NEW agents, AgreeOn(recs1, recs2, agents)
  PROVE  /\ ShownAgents(recs1, agents) = ShownAgents(recs2, agents)
         /\ ShownViews(recs1, agents) = ShownViews(recs2, agents)
         /\ ShownEffective(recs1, agents) = ShownEffective(recs2, agents)
<1>1. \A i \in DOMAIN agents :
        ViewOf(recs1[agents[i].task]) = ViewOf(recs2[agents[i].task])
  BY DEF AgreeOn, ViewOf
<1>2. FoundIn(recs1, agents) = FoundIn(recs2, agents)
  BY DEF AgreeOn, FoundIn
<1>3. FoundIn(recs1, agents) \subseteq DOMAIN agents
  BY DEF FoundIn
<1>4. ShownAgents(recs1, agents) = ShownAgents(recs2, agents)
  BY <1>1, <1>2, <1>3 DEF ShownAgents
<1>5. ShownViews(recs1, agents) = ShownViews(recs2, agents)
  BY <1>1, <1>2, <1>3 DEF ShownViews
<1>6. ShownEffective(recs1, agents) = ShownEffective(recs2, agents)
  BY <1>2, <1>3 DEF ShownEffective, AgreeOn
<1> QED
  BY <1>4, <1>5, <1>6

\* co shows what the records of its tasks say.
ShowsRecords(recs, co) ==
  /\ co.agents = ShownAgents(recs, co.agents)
  /\ co.effective = ShownEffective(recs, co.agents)
  /\ co.status = StatusOf(ShownViews(recs, co.agents), ShownEffective(recs, co.agents))

LEMMA ShowsIffProjected ==
  ASSUME NEW recs \in [Task -> TaskRecord], NEW co \in CoordinatorRecord
  PROVE  ShowsRecords(recs, co) <=> co = Projected(recs, co)
<1>1. ASSUME ShowsRecords(recs, co) PROVE co = Projected(recs, co)
  BY <1>1 DEF ShowsRecords, Projected, CoordinatorRecord
<1>2. ASSUME co = Projected(recs, co) PROVE ShowsRecords(recs, co)
  <2>1. /\ Projected(recs, co).agents = ShownAgents(recs, co.agents)
        /\ Projected(recs, co).effective = ShownEffective(recs, co.agents)
        /\ Projected(recs, co).status = StatusOf(ShownViews(recs, co.agents),
                                                ShownEffective(recs, co.agents))
    BY DEF Projected, CoordinatorRecord
  <2> QED
    BY <1>2, <2>1 DEF ShowsRecords
<1> QED
  BY <1>1, <1>2

SameTasks(agents1, agents2) ==
  /\ DOMAIN agents1 = DOMAIN agents2
  /\ \A i \in DOMAIN agents2 : agents1[i].task = agents2[i].task

\* A refreshed coordinator shows its records, about the same tasks.
LEMMA ProjectedShows ==
  ASSUME NEW recs \in [Task -> TaskRecord], NEW co \in CoordinatorRecord
  PROVE  /\ ShowsRecords(recs, Projected(recs, co))
         /\ SameTasks(Projected(recs, co).agents, co.agents)
<1> DEFINE agents == co.agents
           shown  == ShownAgents(recs, agents)
<1>1. agents \in Seq(AgentView)
  BY DEF CoordinatorRecord
<1>2. /\ DOMAIN shown = DOMAIN agents
      /\ \A i \in DOMAIN agents : shown[i].task = agents[i].task
  BY <1>1, ShownAgentsType
<1>3. FoundIn(recs, shown) = FoundIn(recs, agents)
  BY <1>2 DEF FoundIn
<1>4. FoundIn(recs, agents) \subseteq DOMAIN agents
  BY DEF FoundIn
<1>5. ShownViews(recs, shown) = ShownViews(recs, agents)
  BY <1>2, <1>3, <1>4 DEF ShownViews
<1>6. ShownEffective(recs, shown) = ShownEffective(recs, agents)
  BY <1>2, <1>3, <1>4 DEF ShownEffective
<1>7. ShownAgents(recs, shown) = shown
  <2>1. \A i \in DOMAIN agents : agents[i] \in AgentView
    BY <1>1, ElementOfSeq, LenProperties
  <2>2. \A i \in FoundIn(recs, agents) :
          [shown[i] EXCEPT !.view = ViewOf(recs[shown[i].task])] = shown[i]
    BY <2>1, <1>4, <1>2 DEF ShownAgents, AgentView
  <2> DEFINE again == [i \in DOMAIN shown |->
                         IF i \in FoundIn(recs, shown)
                         THEN [shown[i] EXCEPT !.view = ViewOf(recs[shown[i].task])]
                         ELSE shown[i]]
  <2>3. \A i \in DOMAIN shown : again[i] = shown[i]
    BY <2>2, <1>2, <1>3
  <2>4. shown = [i \in DOMAIN shown |-> shown[i]]
    BY <1>2 DEF ShownAgents
  <2>5. again = shown
    BY <2>3, <2>4
  <2> QED
    BY <2>5 DEF ShownAgents
<1>8. /\ Projected(recs, co).agents = shown
      /\ Projected(recs, co).effective = ShownEffective(recs, agents)
      /\ Projected(recs, co).status = StatusOf(ShownViews(recs, agents),
                                              ShownEffective(recs, agents))
  BY DEF Projected, CoordinatorRecord
<1> QED
  BY <1>2, <1>5, <1>6, <1>7, <1>8 DEF ShowsRecords, SameTasks

\* Approvals do not matter for what is shown.
LEMMA ApproveKeeps ==
  ASSUME NEW recs \in [Task -> TaskRecord], NEW cs
  PROVE  /\ Approve(recs, cs) \in [Task -> TaskRecord]
         /\ \A t \in Task : \A f \in {"status", "coordinator", "blocker", "request",
                                     "effective", "implement", "files"} :
              Approve(recs, cs)[t][f] = recs[t][f]
<1>1. \A t \in Task : Approve(recs, cs)[t] \in TaskRecord
  BY DEF Approve, TaskRecord
<1>2. Approve(recs, cs) \in [Task -> TaskRecord]
  BY <1>1 DEF Approve
<1>3. \A t \in Task : \A f \in {"status", "coordinator", "blocker", "request",
                               "effective", "implement", "files"} :
        Approve(recs, cs)[t][f] = recs[t][f]
  BY DEF Approve, TaskRecord
<1> QED
  BY <1>2, <1>3

-----------------------------------------------------------------------------
(* The inductive invariant.                                                *)

\* An id in use was handed out: a fresh id is in neither table.
KnownIds ==
  /\ Live \subseteq spent
  /\ \A t \in Task : records[t].status # "free" => t \in spent

\* A revision a coordinator has, and one it delivered, is behind the counter.
RevisionOrder ==
  \A c \in Live : /\ coordinators[c].revision < revisionSeq
                  /\ coordinators[c].lastSent <= coordinators[c].revision

StoreInv ==
  TypeOK /\ OwnerConsistent /\ ProjectionCurrent /\ KnownIds /\ RevisionOrder

LEMMA InitInv ==
  ASSUME Init PROVE StoreInv
<1> USE StoreAssumption
<1>1. TypeOK
  <2>1. FreeRecord \in TaskRecord
    BY DEF FreeRecord, TaskRecord, TaskStatus
  <2>2. Blank \in CoordinatorRecord
    BY EmptySeq DEF Blank, NewCoordinator, CoordinatorRecord, WakeState
  <2> QED
    BY <2>1, <2>2 DEF Init, TypeOK
<1>2. Live = {}
  BY DEF Init, Live
<1> QED
  BY <1>1, <1>2 DEF Init, StoreInv, OwnerConsistent, ProjectionCurrent, KnownIds,
                    RevisionOrder, FreeRecord

\* What a coordinator shows are views of tasks.
LEMMA AgentTasks ==
  ASSUME NEW co \in CoordinatorRecord
  PROVE  /\ co.agents \in Seq(AgentView)
         /\ \A i \in DOMAIN co.agents : co.agents[i].task \in Task
<1>1. co.agents \in Seq(AgentView)
  BY DEF CoordinatorRecord
<1>2. \A i \in DOMAIN co.agents : co.agents[i] \in AgentView
  BY <1>1, ElementOfSeq, LenProperties
<1> QED
  BY <1>1, <1>2 DEF AgentView

LEMMA ShownTasks ==
  ASSUME TypeOK, NEW c \in Coordinator
  PROVE  /\ coordinators[c] \in CoordinatorRecord
         /\ coordinators[c].agents \in Seq(AgentView)
         /\ \A i \in DOMAIN coordinators[c].agents : coordinators[c].agents[i].task \in Task
<1>1. coordinators[c] \in CoordinatorRecord
  BY DEF TypeOK
<1> QED
  BY <1>1, AgentTasks

\* A step that leaves the slots alone keeps the invariant if it keeps what
\* the coordinators show about the same tasks, and these tasks their owner.
LEMMA StepKeeps ==
  ASSUME StoreInv, TypeOK', UNCHANGED slots, spent \subseteq spent',
         \A t \in Task : records'[t].status # "free" => t \in spent',
         \A t \in Task : Attached(t) =>
            records'[t].status # "free" /\ records'[t].coordinator = records[t].coordinator,
         \A c \in Coordinator \ Live : coordinators'[c] = coordinators[c],
         \A c \in Live :
            /\ SameTasks(coordinators'[c].agents, coordinators[c].agents)
            /\ coordinators[c].agents # <<>> => ShowsRecords(records', coordinators'[c])
            /\ coordinators'[c].revision < revisionSeq'
            /\ coordinators'[c].lastSent <= coordinators'[c].revision
  PROVE  StoreInv'
<1>1. Live' = Live
  BY DEF Live
<1>2. OwnerConsistent'
  <2>1. ASSUME NEW c \in Live, NEW i \in DOMAIN coordinators'[c].agents
        PROVE  /\ i \in DOMAIN coordinators[c].agents
               /\ coordinators'[c].agents[i].task = coordinators[c].agents[i].task
               /\ coordinators[c].agents[i].task \in Task
               /\ Attached(coordinators[c].agents[i].task)
    <3>1. c \in Coordinator
      BY DEF Live
    <3>2. /\ i \in DOMAIN coordinators[c].agents
          /\ coordinators'[c].agents[i].task = coordinators[c].agents[i].task
      BY DEF SameTasks
    <3>3. coordinators[c].agents[i].task \in Task
      BY <3>1, <3>2, ShownTasks DEF StoreInv
    <3> QED
      BY <3>2, <3>3 DEF Attached, Agents
  <2>2. ASSUME NEW c \in Live, NEW i \in DOMAIN coordinators'[c].agents
        PROVE  LET t == coordinators'[c].agents[i].task
               IN  /\ records'[t].status # "free"
                   /\ records'[t].coordinator = c
                   /\ \A j \in DOMAIN coordinators'[c].agents :
                        coordinators'[c].agents[j].task = t => j = i
    <3>1. records[coordinators[c].agents[i].task].coordinator = c
      BY <2>1 DEF StoreInv, OwnerConsistent
    <3>2. \A j \in DOMAIN coordinators[c].agents :
            coordinators[c].agents[j].task = coordinators[c].agents[i].task => j = i
      BY <2>1 DEF StoreInv, OwnerConsistent
    <3> QED
      BY <2>1, <3>1, <3>2
  <2> QED
    BY <1>1, <2>2 DEF StoreInv, OwnerConsistent, Slot, Blank, NewCoordinator
<1>3. ProjectionCurrent'
  <2> SUFFICES ASSUME NEW c \in Live, coordinators'[c].agents # <<>>
               PROVE  coordinators'[c] = Projected(records', coordinators'[c])
    BY <1>1 DEF ProjectionCurrent
  <2>1. coordinators'[c] \in CoordinatorRecord /\ records' \in [Task -> TaskRecord]
    BY DEF TypeOK, Live
  <2>2. coordinators[c].agents \in Seq(AgentView) /\ coordinators'[c].agents \in Seq(AgentView)
    BY <2>1, ShownTasks DEF StoreInv, Live, CoordinatorRecord
  <2>3. coordinators[c].agents # <<>>
    <3>1. DOMAIN coordinators'[c].agents = DOMAIN coordinators[c].agents
      BY DEF SameTasks
    <3>2. Len(coordinators[c].agents) = Len(coordinators'[c].agents)
      BY <2>2, <3>1, LenProperties
    <3> QED
      BY <2>2, <3>2, EmptySeq
  <2> QED
    BY <2>1, <2>3, ShowsIffProjected
<1>4. KnownIds' /\ RevisionOrder'
  BY <1>1 DEF StoreInv, KnownIds, RevisionOrder
<1> QED
  BY <1>2, <1>3, <1>4 DEF StoreInv

-----------------------------------------------------------------------------
(* Steps of the tasks.                                                     *)

\* Storing a record and refreshing its coordinator keeps the invariant, if
\* the task was not stored before or keeps its owner.
LEMMA WriteKeeps ==
  ASSUME StoreInv, NEW t \in Task, NEW r \in TaskRecord, r.status # "free",
         records[t].status # "free" => r.coordinator = records[t].coordinator,
         Write(t, r), t \in spent', spent \subseteq spent',
         spent' \subseteq Task \cup Coordinator
  PROVE  StoreInv'
<1> DEFINE recs == [records EXCEPT ![t] = r]
           cs   == {r.coordinator} \cap Live
<1> USE StoreAssumption
<1>1. /\ recs \in [Task -> TaskRecord] /\ recs[t] = r
      /\ \A u \in Task : u # t => recs[u] = records[u]
  BY DEF StoreInv, TypeOK
<1>2. /\ records' = Approve(recs, cs)
      /\ coordinators' = [c \in Coordinator |->
            IF c \in cs THEN Bump(Projected(recs, coordinators[c])) ELSE coordinators[c]]
      /\ revisionSeq' = IF cs = {} THEN revisionSeq ELSE revisionSeq + 1
      /\ slots' = slots
  BY DEF Write
<1> HIDE DEF recs
<1>3. /\ records' \in [Task -> TaskRecord]
      /\ \A u \in Task : /\ records'[u].status = recs[u].status
                         /\ records'[u].coordinator = recs[u].coordinator
                         /\ records'[u].blocker = recs[u].blocker
                         /\ records'[u].request = recs[u].request
                         /\ records'[u].effective = recs[u].effective
  BY <1>1, <1>2, ApproveKeeps
<1>4. ASSUME NEW c \in cs
      PROVE  /\ coordinators'[c] \in CoordinatorRecord
             /\ SameTasks(coordinators'[c].agents, coordinators[c].agents)
             /\ ShowsRecords(records', coordinators'[c])
             /\ coordinators'[c].revision = revisionSeq
             /\ coordinators'[c].lastSent = coordinators[c].lastSent
  <2> DEFINE co == Projected(recs, coordinators[c])
  <2>1. c \in Coordinator
    BY DEF Live
  <2>2. /\ coordinators[c] \in CoordinatorRecord
        /\ revisionSeq \in Nat
    BY <2>1 DEF StoreInv, TypeOK
  <2>3. /\ co \in CoordinatorRecord /\ co.lastSent = coordinators[c].lastSent
        /\ ShowsRecords(recs, co) /\ SameTasks(co.agents, coordinators[c].agents)
    BY <2>2, <1>1, ProjectedType, ProjectedShows
  <2>4. coordinators'[c] = Bump(co)
    BY <1>2, <2>1
  <2> HIDE DEF co
  <2>5. /\ Bump(co) \in CoordinatorRecord
        /\ Bump(co).agents = co.agents /\ Bump(co).status = co.status
        /\ Bump(co).effective = co.effective
        /\ Bump(co).lastSent = co.lastSent /\ Bump(co).revision = revisionSeq
    BY <2>2, <2>3 DEF Bump, CoordinatorRecord
  <2>6. AgreeOn(recs, records', co.agents)
    <3>1. \A i \in DOMAIN co.agents : co.agents[i].task \in Task
      BY <2>1, <2>3, ShownTasks DEF SameTasks, StoreInv
    <3> QED
      BY <3>1, <1>3 DEF AgreeOn, TaskRecord
  <2>7. ShowsRecords(records', Bump(co))
    BY <2>3, <2>5, <2>6, AgreeingShowTheSame DEF ShowsRecords
  <2> QED
    BY <2>3, <2>4, <2>5, <2>7
<1>5. TypeOK'
  <2>1. ASSUME NEW c \in Coordinator PROVE coordinators'[c] \in CoordinatorRecord
    <3>1. CASE c \in cs
      BY <3>1, <1>4
    <3>2. CASE c \notin cs
      <4>1. coordinators'[c] = coordinators[c]
        BY <1>2, <3>2
      <4> QED
        BY <4>1 DEF StoreInv, TypeOK
    <3> QED
      BY <3>1, <3>2
  <2>2. coordinators' \in [Coordinator -> CoordinatorRecord]
    BY <1>2, <2>1
  <2>3. revisionSeq' \in Nat
    <3>1. revisionSeq' = revisionSeq \/ revisionSeq' = revisionSeq + 1
      BY <1>2
    <3> QED
      BY <3>1 DEF StoreInv, TypeOK
  <2>4. slots' \in [Slot -> Coordinator \cup {None}]
    BY <1>2 DEF StoreInv, TypeOK, Slot
  <2> QED
    BY <1>3, <2>2, <2>3, <2>4 DEF TypeOK
<1>6. \A u \in Task : Attached(u) => records'[u].status # "free"
                                   /\ records'[u].coordinator = records[u].coordinator
  <2> SUFFICES ASSUME NEW u \in Task, Attached(u)
               PROVE  recs[u].status # "free" /\ recs[u].coordinator = records[u].coordinator
    BY <1>3
  <2>1. records[u].status # "free"
    BY DEF Attached, Agents, StoreInv, OwnerConsistent
  <2> QED
    BY <2>1, <1>1
<1>7. ASSUME NEW c \in Live \ cs, coordinators[c].agents # <<>>
      PROVE  ShowsRecords(records', coordinators[c])
  <2>1. c \in Coordinator
    BY DEF Live
  <2>2. ShowsRecords(records, coordinators[c])
    BY <1>7, <2>1, ShowsIffProjected DEF StoreInv, ProjectionCurrent, TypeOK
  <2>3. ASSUME NEW i \in DOMAIN coordinators[c].agents
        PROVE  coordinators[c].agents[i].task # t
    <3>1. /\ records[coordinators[c].agents[i].task].status # "free"
          /\ records[coordinators[c].agents[i].task].coordinator = c
      BY DEF StoreInv, OwnerConsistent
    <3> QED
      BY <3>1
  <2>4. AgreeOn(records, records', coordinators[c].agents)
    BY <1>1, <1>3, <2>1, <2>3, ShownTasks, SMTT(30) DEF AgreeOn, StoreInv
  <2> QED
    BY <2>2, <2>4, AgreeingShowTheSame DEF ShowsRecords
<1>8. ASSUME NEW c \in Live
      PROVE  /\ SameTasks(coordinators'[c].agents, coordinators[c].agents)
             /\ coordinators[c].agents # <<>> => ShowsRecords(records', coordinators'[c])
             /\ coordinators'[c].revision < revisionSeq'
             /\ coordinators'[c].lastSent <= coordinators'[c].revision
  <2>1. /\ c \in Coordinator /\ revisionSeq \in Nat
        /\ coordinators[c].revision \in Nat /\ coordinators[c].lastSent \in Nat
        /\ coordinators[c].revision < revisionSeq
        /\ coordinators[c].lastSent <= coordinators[c].revision
    BY DEF Live, StoreInv, TypeOK, CoordinatorRecord, RevisionOrder
  <2>2. CASE c \in cs
    <3>1. revisionSeq' = revisionSeq + 1
      BY <1>2, <2>2
    <3> QED
      BY <1>4, <2>1, <2>2, <3>1
  <2>3. CASE c \notin cs
    <3>1. coordinators'[c] = coordinators[c]
      BY <1>2, <2>1, <2>3
    <3>2. revisionSeq' = revisionSeq \/ revisionSeq' = revisionSeq + 1
      BY <1>2
    <3>3. coordinators[c].agents # <<>> => ShowsRecords(records', coordinators[c])
      BY <2>3, <1>7
    <3> QED
      BY <2>1, <3>1, <3>2, <3>3 DEF SameTasks
  <2> QED
    BY <2>2, <2>3
<1>9. /\ \A u \in Task : records'[u].status # "free" => u \in spent'
      /\ \A c \in Coordinator \ Live : coordinators'[c] = coordinators[c]
  <2>1. \A c \in Coordinator \ Live : c \notin cs /\ coordinators'[c] = coordinators[c]
    BY <1>2, <1>3
  <2>2. ASSUME NEW u \in Task, records'[u].status # "free" PROVE u \in spent'
    <3>1. records[u].status # "free" => u \in spent
      BY DEF StoreInv, KnownIds
    <3>2. recs[u].status # "free"
      BY <1>3, <2>2
    <3>3. u # t => records[u].status # "free"
      BY <1>1, <3>2
    <3> QED
      BY <3>1, <3>3
  <2> QED
    BY <2>1, <2>2
<1> QED
  BY <1>2, <1>5, <1>6, <1>8, <1>9, StepKeeps

\* The operations that store a record.
LEMMA PlanKeeps ==
  ASSUME StoreInv, NEW t \in Task, NEW c \in Coordinator, NEW implement \in BOOLEAN,
         Plan(c, t, implement)
  PROVE  StoreInv'
<1>1. /\ NewRecord("queued", c, implement) \in TaskRecord
      /\ NewRecord("queued", c, implement).status # "free"
  BY StoreAssumption DEF NewRecord, FreeRecord, TaskRecord, TaskStatus
<1>2. records[t].status = "free"
  BY DEF Plan, StoreInv, KnownIds
<1>3. /\ Write(t, NewRecord("queued", c, implement))
      /\ t \in spent' /\ spent \subseteq spent' /\ spent' \subseteq Task \cup Coordinator
  BY DEF Plan, StoreInv, TypeOK
<1> QED
  BY <1>1, <1>2, <1>3, WriteKeeps

\* The operations on a stored task: each writes a record of the same owner.
UpdateOf(t, r) ==
  /\ r \in TaskRecord /\ r.status # "free" /\ r.coordinator = records[t].coordinator
  /\ Write(t, r) /\ UNCHANGED spent

LEMMA UpdateKeeps ==
  ASSUME StoreInv, NEW t \in Task, records[t].status # "free", NEW r, UpdateOf(t, r)
  PROVE  StoreInv'
<1>1. t \in spent' /\ spent \subseteq spent' /\ spent' \subseteq Task \cup Coordinator
  BY DEF UpdateOf, StoreInv, KnownIds, TypeOK
<1> QED
  BY <1>1, WriteKeeps DEF UpdateOf

TaskUpdate(t) ==
  \/ ClaimQueuedTask(t)
  \/ \E files \in FileList, effective \in BOOLEAN : Complete(t, files, effective)
  \/ Fail(t) \/ MarkBlocked(t) \/ ClearBlocked(t) \/ SetPendingRequest(t)
  \/ AppendSession(t)

LEMMA TaskUpdateKeeps ==
  ASSUME StoreInv, NEW t \in Task, TaskUpdate(t)
  PROVE  /\ records[t].status # "free"
         /\ \E r : UpdateOf(t, r)
         /\ StoreInv'
<1>1. records[t] \in TaskRecord
  BY DEF StoreInv, TypeOK
<1>2. CASE ClaimQueuedTask(t)
  <2>1. UpdateOf(t, [records[t] EXCEPT !.status = "running"])
    BY <1>1, <1>2 DEF ClaimQueuedTask, UpdateOf, TaskRecord, TaskStatus
  <2> QED
    BY <1>2, <2>1, UpdateKeeps DEF ClaimQueuedTask
<1>3. ASSUME NEW files \in FileList, NEW effective \in BOOLEAN, Complete(t, files, effective)
      PROVE  /\ records[t].status # "free" /\ \E r : UpdateOf(t, r) /\ StoreInv'
  <2>1. UpdateOf(t, [records[t] EXCEPT
                       !.status = IF records[t].blocker THEN "failed" ELSE "done",
                       !.effective = effective, !.files = files,
                       !.approved = files # <<>>, !.request = FALSE])
    BY <1>1, <1>3 DEF Complete, UpdateOf, TaskRecord, TaskStatus
  <2> QED
    BY <1>3, <2>1, UpdateKeeps DEF Complete
<1>4. CASE Fail(t)
  <2>1. UpdateOf(t, [records[t] EXCEPT !.status = "failed", !.blocker = TRUE,
                                       !.request = FALSE])
    BY <1>1, <1>4 DEF Fail, UpdateOf, TaskRecord, TaskStatus
  <2> QED
    BY <1>4, <2>1, UpdateKeeps DEF Fail, Active
<1>5. CASE MarkBlocked(t)
  <2>1. UpdateOf(t, [records[t] EXCEPT !.status = "running", !.blocker = TRUE])
    BY <1>1, <1>5 DEF MarkBlocked, UpdateOf, TaskRecord, TaskStatus
  <2> QED
    BY <1>5, <2>1, UpdateKeeps DEF MarkBlocked
<1>6. CASE ClearBlocked(t)
  <2>1. UpdateOf(t, [records[t] EXCEPT !.blocker = FALSE, !.request = FALSE])
    BY <1>1, <1>6 DEF ClearBlocked, UpdateOf, TaskRecord, TaskStatus
  <2> QED
    BY <1>6, <2>1, UpdateKeeps DEF ClearBlocked
<1>7. CASE SetPendingRequest(t)
  <2>1. UpdateOf(t, [records[t] EXCEPT !.request = TRUE])
    BY <1>1, <1>7 DEF SetPendingRequest, UpdateOf, TaskRecord, TaskStatus
  <2> QED
    BY <1>7, <2>1, UpdateKeeps DEF SetPendingRequest
<1>8. CASE AppendSession(t)
  <2>1. UpdateOf(t, records[t])
    BY <1>1, <1>8 DEF AppendSession, UpdateOf
  <2> QED
    BY <1>8, <2>1, UpdateKeeps DEF AppendSession
<1> QED
  BY <1>2, <1>3, <1>4, <1>5, <1>6, <1>7, <1>8 DEF TaskUpdate

\* A task of no coordinator disturbs nothing.
LEMMA StartKeeps ==
  ASSUME StoreInv, NEW t \in Task, NEW implement \in BOOLEAN, Start(t, implement)
  PROVE  StoreInv'
<1> DEFINE r == NewRecord("running", None, implement)
<1>1. r \in TaskRecord /\ r.status # "free"
  BY StoreAssumption DEF NewRecord, FreeRecord, TaskRecord, TaskStatus
<1>2. /\ records' = [records EXCEPT ![t] = r] /\ t \notin spent
      /\ spent' = spent \cup {t}
      /\ UNCHANGED <<coordinators, slots, revisionSeq>>
  BY DEF Start
<1> HIDE DEF r
<1>3. TypeOK'
  BY <1>1, <1>2 DEF StoreInv, TypeOK
<1>4. ASSUME NEW u \in Task, Attached(u) PROVE records'[u] = records[u]
  <2>1. records[u].status # "free"
    BY <1>4 DEF Attached, Agents, StoreInv, OwnerConsistent
  <2>2. u # t
    BY <1>2, <2>1 DEF StoreInv, KnownIds
  <2> QED
    BY <1>2, <2>2 DEF StoreInv, TypeOK
<1>5. ASSUME NEW u \in Task, Attached(u)
      PROVE  records'[u].status # "free" /\ records'[u].coordinator = records[u].coordinator
  BY <1>4, <1>5 DEF Attached, Agents, StoreInv, OwnerConsistent
<1>6. ASSUME NEW c \in Live, coordinators[c].agents # <<>>
      PROVE  ShowsRecords(records', coordinators[c])
  <2>1. c \in Coordinator
    BY DEF Live
  <2>2. ShowsRecords(records, coordinators[c])
    BY <1>6, <2>1, ShowsIffProjected DEF StoreInv, ProjectionCurrent, TypeOK
  <2>3. \A i \in DOMAIN coordinators[c].agents :
          /\ coordinators[c].agents[i].task \in Task
          /\ Attached(coordinators[c].agents[i].task)
    BY <2>1, ShownTasks DEF StoreInv, Attached, Agents
  <2>4. AgreeOn(records, records', coordinators[c].agents)
    BY <2>3, <1>4 DEF AgreeOn
  <2> QED
    BY <2>2, <2>4, AgreeingShowTheSame DEF ShowsRecords
<1>7. \A u \in Task : records'[u].status # "free" => u \in spent'
  BY <1>2 DEF StoreInv, TypeOK, KnownIds
<1>8. \A c \in Live :
        /\ SameTasks(coordinators'[c].agents, coordinators[c].agents)
        /\ coordinators[c].agents # <<>> => ShowsRecords(records', coordinators'[c])
        /\ coordinators'[c].revision < revisionSeq'
        /\ coordinators'[c].lastSent <= coordinators'[c].revision
  BY <1>2, <1>6 DEF StoreInv, RevisionOrder, SameTasks
<1> QED
  BY <1>2, <1>3, <1>5, <1>7, <1>8, StepKeeps

\* The tasks AttachTask(c, t) leaves approved.
ApprovedAfterAttach(c, t) ==
  ApprovedAgents(records,
    [coordinators[c] EXCEPT !.agents =
       Append(@, [task |-> t, view |-> ViewOf(records[t])])].agents)

\* Attaching appends a view of a task that no coordinator shows yet.
LEMMA AttachKeeps ==
  ASSUME StoreInv, NEW t \in Task, NEW c \in Coordinator, AttachTask(c, t)
  PROVE  StoreInv'
<1> DEFINE old == coordinators[c].agents
           new == Append(old, [task |-> t, view |-> ViewOf(records[t])])
           co  == [coordinators[c] EXCEPT !.agents = new]
           pco == Projected(records, co)
<1>1. /\ c \in Live /\ records[t].status = "queued" /\ records[t].coordinator = c
      /\ ~Attached(t)
      /\ coordinators' = [coordinators EXCEPT ![c] = Bump(pco)]
      /\ revisionSeq' = revisionSeq + 1 /\ slots' = slots /\ spent' = spent
  BY DEF AttachTask
<1>2. /\ records \in [Task -> TaskRecord] /\ coordinators[c] \in CoordinatorRecord
      /\ coordinators \in [Coordinator -> CoordinatorRecord]
      /\ revisionSeq \in Nat /\ old \in Seq(AgentView)
      /\ coordinators[c].revision < revisionSeq
      /\ coordinators[c].lastSent <= coordinators[c].revision
      /\ coordinators[c].revision \in Nat /\ coordinators[c].lastSent \in Nat
  BY <1>1 DEF StoreInv, TypeOK, CoordinatorRecord, RevisionOrder
<1>3. [task |-> t, view |-> ViewOf(records[t])] \in AgentView
  BY <1>2, ViewOfType DEF AgentView
<1>4. /\ new \in Seq(AgentView) /\ Len(new) = Len(old) + 1
      /\ \A i \in 1 .. Len(old) : new[i] = old[i]
      /\ new[Len(old) + 1].task = t
      /\ Len(old) \in Nat /\ DOMAIN old = 1 .. Len(old) /\ DOMAIN new = 1 .. (Len(old) + 1)
  BY <1>2, <1>3, AppendProperties, LenProperties
<1> HIDE DEF new, old
<1>5. co \in CoordinatorRecord /\ co.agents = new /\ co.lastSent = coordinators[c].lastSent
  BY <1>2, <1>4 DEF CoordinatorRecord
<1> HIDE DEF co
<1>6. /\ pco \in CoordinatorRecord /\ pco.lastSent = coordinators[c].lastSent
      /\ ShowsRecords(records, pco) /\ SameTasks(pco.agents, new)
  BY <1>2, <1>5, ProjectedType, ProjectedShows
<1> HIDE DEF pco
<1>7. /\ Bump(pco) \in CoordinatorRecord /\ Bump(pco).agents = pco.agents
      /\ Bump(pco).status = pco.status /\ Bump(pco).effective = pco.effective
      /\ Bump(pco).lastSent = coordinators[c].lastSent /\ Bump(pco).revision = revisionSeq
  BY <1>2, <1>6 DEF Bump, CoordinatorRecord
<1>8. /\ records' \in [Task -> TaskRecord]
      /\ \A u \in Task : /\ records'[u].status = records[u].status
                         /\ records'[u].coordinator = records[u].coordinator
                         /\ records'[u].blocker = records[u].blocker
                         /\ records'[u].request = records[u].request
                         /\ records'[u].effective = records[u].effective
  <2> DEFINE X == ApprovedAfterAttach(c, t)
  <2>1. records' = [u \in Task |->
                    IF u \in Agents(c) \cup {t} /\ records[u].status # "free"
                    THEN [records[u] EXCEPT !.approved = u \in X] ELSE records[u]]
    BY DEF AttachTask, ApprovedAfterAttach
  <2> HIDE DEF X
  <2>2. ASSUME NEW u \in Task
        PROVE  /\ records'[u] \in TaskRecord
               /\ records'[u].status = records[u].status
               /\ records'[u].coordinator = records[u].coordinator
               /\ records'[u].blocker = records[u].blocker
               /\ records'[u].request = records[u].request
               /\ records'[u].effective = records[u].effective
    <3>1. records[u] \in TaskRecord
      BY <1>2
    <3>2. \/ records'[u] = [records[u] EXCEPT !.approved = u \in X]
          \/ records'[u] = records[u]
      BY <2>1
    <3>3. (u \in X) \in BOOLEAN
      OBVIOUS
    <3> QED
      BY <3>1, <3>2, <3>3 DEF TaskRecord
  <2> QED
    BY <2>1, <2>2
<1>9. Live' = Live /\ coordinators'[c] = Bump(pco)
      /\ \A d \in Coordinator : d # c => coordinators'[d] = coordinators[d]
  BY <1>1, <1>2 DEF Live
<1>10. TypeOK'
  BY <1>1, <1>2, <1>7, <1>8 DEF StoreInv, TypeOK, Slot
<1>11. ASSUME NEW d \in Live, NEW i \in DOMAIN coordinators'[d].agents
       PROVE  LET u == coordinators'[d].agents[i].task
              IN  /\ records'[u].status # "free" /\ records'[u].coordinator = d
                  /\ \A j \in DOMAIN coordinators'[d].agents :
                       coordinators'[d].agents[j].task = u => j = i
  <2>1. d \in Coordinator
    BY DEF Live
  <2>2. CASE d # c
    BY <1>8, <1>9, <2>1, <2>2, ShownTasks DEF StoreInv, OwnerConsistent
  <2>3. CASE d = c
    <3>1. /\ DOMAIN coordinators'[c].agents = 1 .. (Len(old) + 1)
          /\ \A j \in 1 .. (Len(old) + 1) : coordinators'[c].agents[j].task = new[j].task
      BY <1>4, <1>6, <1>7, <1>9 DEF SameTasks
    <3>2. \A j \in 1 .. Len(old) : new[j].task \in Task /\ new[j].task # t
      BY <1>1, <1>4, ShownTasks, SMTT(30) DEF StoreInv, Attached, Agents, old
    <3>3. \A j \in 1 .. Len(old) :
            /\ records[new[j].task].status # "free" /\ records[new[j].task].coordinator = c
            /\ \A k \in 1 .. Len(old) : new[k].task = new[j].task => k = j
      <4>1. \A j \in DOMAIN coordinators[c].agents :
              LET u == coordinators[c].agents[j].task
              IN  /\ records[u].status # "free" /\ records[u].coordinator = c
                  /\ \A k \in DOMAIN coordinators[c].agents :
                       coordinators[c].agents[k].task = u => k = j
        BY <1>1 DEF StoreInv, OwnerConsistent
      <4>2. \A j \in DOMAIN old :
              /\ records[old[j].task].status # "free" /\ records[old[j].task].coordinator = c
              /\ \A k \in DOMAIN old : old[k].task = old[j].task => k = j
        BY <4>1 DEF old
      <4> QED
        BY <1>4, <4>2
    <3>4. /\ records[new[i].task].status # "free" /\ records[new[i].task].coordinator = c
          /\ new[i].task \in Task
          /\ \A k \in 1 .. (Len(old) + 1) : new[k].task = new[i].task => k = i
      BY <1>1, <1>4, <2>3, <3>1, <3>2, <3>3
    <3> QED
      BY <1>8, <2>3, <3>1, <3>4
  <2> QED
    BY <2>2, <2>3
<1>12. OwnerConsistent'
  <2>1. \A s1, s2 \in Slot : slots'[s1] = slots'[s2] /\ slots'[s1] # None => s1 = s2
    BY <1>1 DEF StoreInv, OwnerConsistent
  <2>2. \A d \in Coordinator \ Live' : coordinators'[d] = Blank
    BY <1>1, <1>9 DEF StoreInv, OwnerConsistent
  <2> QED
    BY <1>9, <1>11, <2>1, <2>2 DEF OwnerConsistent, Slot, Blank, NewCoordinator
<1>13. ASSUME NEW d \in Live, coordinators'[d].agents # <<>>
       PROVE  coordinators'[d] = Projected(records', coordinators'[d])
  <2>1. d \in Coordinator /\ coordinators'[d] \in CoordinatorRecord
    BY <1>10 DEF TypeOK, Live
  <2>2. ShowsRecords(records, coordinators'[d])
    <3>1. CASE d = c
      BY <1>6, <1>7, <1>9, <3>1 DEF ShowsRecords
    <3>2. CASE d # c
      <4>1. coordinators'[d] = coordinators[d]
        BY <1>9, <2>1, <3>2
      <4>2. coordinators[d] = Projected(records, coordinators[d])
        BY <1>13, <4>1 DEF StoreInv, ProjectionCurrent
      <4> QED
        BY <1>2, <2>1, <4>1, <4>2, ShowsIffProjected
    <3> QED
      BY <3>1, <3>2
  <2>3. AgreeOn(records, records', coordinators'[d].agents)
    <3>1. \A i \in DOMAIN coordinators'[d].agents : coordinators'[d].agents[i].task \in Task
      BY <2>1, AgentTasks
    <3> QED
      BY <1>8, <3>1 DEF AgreeOn
  <2>4. ShowsRecords(records', coordinators'[d])
    BY <2>2, <2>3, AgreeingShowTheSame DEF ShowsRecords
  <2> QED
    BY <1>8, <2>1, <2>4, ShowsIffProjected
<1>14. RevisionOrder'
  BY <1>1, <1>2, <1>7, <1>9 DEF StoreInv, RevisionOrder, Live, TypeOK, CoordinatorRecord
<1>15. KnownIds'
  BY <1>1, <1>8, <1>9 DEF StoreInv, KnownIds
<1> QED
  BY <1>9, <1>10, <1>12, <1>13, <1>14, <1>15 DEF StoreInv, ProjectionCurrent

-----------------------------------------------------------------------------
(* Steps of the coordinators.                                              *)

\* A coordinator after those of cs were refreshed.
Refreshed(cs, c) == IF c \in cs THEN Projected(records, coordinators[c]) ELSE coordinators[c]

\* Refreshing some coordinators of the table, and whatever else is done to
\* what they do not show, keeps the invariant.
LEMMA QuietKeeps ==
  ASSUME StoreInv, NEW cs \in SUBSET Live, UNCHANGED <<slots, spent>>,
         revisionSeq' \in Nat,
         records' = Approve(records, cs) \/ records' = records,
         coordinators' \in [Coordinator -> CoordinatorRecord],
         \A c \in Coordinator \ Live : coordinators'[c] = coordinators[c],
         \A c \in Live :
           /\ coordinators'[c].agents = Refreshed(cs, c).agents
           /\ coordinators'[c].status = Refreshed(cs, c).status
           /\ coordinators'[c].effective = Refreshed(cs, c).effective,
         \A c \in Live : /\ coordinators'[c].revision < revisionSeq'
                         /\ coordinators'[c].lastSent <= coordinators'[c].revision
  PROVE  StoreInv'
<1>1. /\ records' \in [Task -> TaskRecord]
      /\ \A u \in Task : /\ records'[u].status = records[u].status
                         /\ records'[u].coordinator = records[u].coordinator
                         /\ records'[u].blocker = records[u].blocker
                         /\ records'[u].request = records[u].request
                         /\ records'[u].effective = records[u].effective
  BY ApproveKeeps DEF StoreInv, TypeOK
<1>2. TypeOK'
  BY <1>1 DEF StoreInv, TypeOK, Slot
<1>3. \A u \in Task : Attached(u) => records'[u].status # "free"
                                   /\ records'[u].coordinator = records[u].coordinator
  BY <1>1 DEF Attached, Agents, StoreInv, OwnerConsistent
<1>4. ASSUME NEW c \in Live
      PROVE  /\ SameTasks(coordinators'[c].agents, coordinators[c].agents)
             /\ coordinators[c].agents # <<>> => ShowsRecords(records', coordinators'[c])
  <2> DEFINE co == Refreshed(cs, c)
  <2>1. /\ c \in Coordinator /\ records \in [Task -> TaskRecord]
        /\ coordinators[c] \in CoordinatorRecord
    BY DEF Live, StoreInv, TypeOK
  <2>2. co \in CoordinatorRecord /\ SameTasks(co.agents, coordinators[c].agents)
    BY <2>1, ProjectedType, ProjectedShows DEF SameTasks, Refreshed
  <2>3. coordinators[c].agents # <<>> => ShowsRecords(records, co)
    BY <2>1, ShowsIffProjected, ProjectedShows DEF StoreInv, ProjectionCurrent, Refreshed
  <2>4. AgreeOn(records, records', co.agents)
    BY <1>1, <2>2, AgentTasks DEF AgreeOn
  <2>5. ShowsRecords(records, co) => ShowsRecords(records', co)
    BY <2>4, AgreeingShowTheSame DEF ShowsRecords
  <2>6. /\ coordinators'[c].agents = co.agents /\ coordinators'[c].status = co.status
        /\ coordinators'[c].effective = co.effective
    OBVIOUS
  <2> QED
    BY <2>2, <2>3, <2>5, <2>6 DEF ShowsRecords
<1>5. \A t \in Task : records'[t].status # "free" => t \in spent'
  BY <1>1 DEF StoreInv, KnownIds
<1> QED
  BY <1>2, <1>3, <1>4, <1>5, StepKeeps

\* The reads.
LEMMA RefreshKeeps ==
  ASSUME StoreInv, NEW cs \in SUBSET Live, UNCHANGED <<slots, revisionSeq, spent>>,
         records' = Approve(records, cs), NEW cleared \in SUBSET Live,
         coordinators' = [c \in Coordinator |->
           IF c \in cleared THEN [Refreshed(cs, c) EXCEPT !.changed = FALSE]
                            ELSE Refreshed(cs, c)]
  PROVE  StoreInv'
<1>1. ASSUME NEW c \in Coordinator
      PROVE  /\ coordinators'[c] \in CoordinatorRecord
             /\ coordinators'[c].agents = Refreshed(cs, c).agents
             /\ coordinators'[c].status = Refreshed(cs, c).status
             /\ coordinators'[c].effective = Refreshed(cs, c).effective
             /\ coordinators'[c].revision = coordinators[c].revision
             /\ coordinators'[c].lastSent = coordinators[c].lastSent
             /\ c \notin Live => coordinators'[c] = coordinators[c]
  <2> DEFINE co == Refreshed(cs, c)
  <2>1. /\ co \in CoordinatorRecord /\ co.revision = coordinators[c].revision
        /\ co.lastSent = coordinators[c].lastSent
        /\ c \notin Live => co = coordinators[c]
    BY ProjectedType DEF StoreInv, TypeOK, Refreshed
  <2>2. coordinators'[c] = IF c \in cleared THEN [co EXCEPT !.changed = FALSE] ELSE co
    OBVIOUS
  <2> HIDE DEF co
  <2>3. /\ coordinators'[c] \in CoordinatorRecord /\ coordinators'[c].agents = co.agents
        /\ coordinators'[c].status = co.status /\ coordinators'[c].effective = co.effective
        /\ coordinators'[c].revision = co.revision
        /\ coordinators'[c].lastSent = co.lastSent
        /\ c \notin cleared => coordinators'[c] = co
    <3>1. CASE c \in cleared
      <4>1. coordinators'[c] = [co EXCEPT !.changed = FALSE]
        BY <2>2, <3>1
      <4>2. co \in CoordinatorRecord
        BY <2>1
      <4> QED
        BY <3>1, <4>1, <4>2 DEF CoordinatorRecord
    <3>2. CASE c \notin cleared
      BY <2>1, <2>2, <3>2
    <3> QED
      BY <3>1, <3>2
  <2> QED
    BY <2>1, <2>3 DEF co
<1>2. coordinators' \in [Coordinator -> CoordinatorRecord]
  BY <1>1
<1>3. \A c \in Live : /\ c \in Coordinator
                      /\ coordinators'[c].revision < revisionSeq'
                      /\ coordinators'[c].lastSent <= coordinators'[c].revision
  <2> SUFFICES ASSUME NEW c \in Live
               PROVE  /\ c \in Coordinator
                      /\ coordinators'[c].revision < revisionSeq'
                      /\ coordinators'[c].lastSent <= coordinators'[c].revision
    OBVIOUS
  <2>1. c \in Coordinator
    BY DEF Live
  <2>2. /\ coordinators[c].revision < revisionSeq
        /\ coordinators[c].lastSent <= coordinators[c].revision
    BY DEF StoreInv, RevisionOrder
  <2>3. /\ coordinators'[c].revision = coordinators[c].revision
        /\ coordinators'[c].lastSent = coordinators[c].lastSent
    BY <1>1, <2>1
  <2> QED
    BY <2>1, <2>2, <2>3
<1>4. revisionSeq' \in Nat
  BY DEF StoreInv, TypeOK
<1> QED
  BY <1>1, <1>2, <1>3, <1>4, QuietKeeps

ReadStep ==
  \/ \E cs \in SUBSET Coordinator : RefreshIfNeeded(cs)
  \/ \E t \in Task : FindBySession(t)
  \/ StartRefused
  \/ DrainChanged

LEMMA ReadKeeps ==
  ASSUME StoreInv, ReadStep
  PROVE  /\ \E cs, cleared \in SUBSET Live :
              /\ UNCHANGED <<slots, revisionSeq, spent>>
              /\ records' = Approve(records, cs)
              /\ coordinators' = [c \in Coordinator |->
                   IF c \in cleared THEN [Refreshed(cs, c) EXCEPT !.changed = FALSE]
                                    ELSE Refreshed(cs, c)]
         /\ StoreInv'
<1> DEFINE Does(cs, cleared) ==
             /\ UNCHANGED <<slots, revisionSeq, spent>>
             /\ records' = Approve(records, cs)
             /\ coordinators' = [c \in Coordinator |->
                  IF c \in cleared THEN [Refreshed(cs, c) EXCEPT !.changed = FALSE]
                                   ELSE Refreshed(cs, c)]
<1>1. \E cs, cleared \in SUBSET Live : Does(cs, cleared)
  <2>1. ASSUME NEW cs \in SUBSET Coordinator, RefreshIfNeeded(cs)
        PROVE  Stale(cs) \subseteq Live /\ Does(Stale(cs), {})
    BY <2>1 DEF RefreshIfNeeded, Stale, Refreshed
  <2>2. ASSUME NEW t \in Task, FindBySession(t)
        PROVE  records[t].coordinator \in Live /\ Does({records[t].coordinator}, {})
    BY <2>2 DEF FindBySession, Refreshed, Live, StoreInv, TypeOK
  <2>3. ASSUME StartRefused PROVE Does(Live, {})
    BY <2>3 DEF StartRefused, Refreshed
  <2>4. ASSUME DrainChanged
        PROVE  Changed \subseteq Live /\ Stale(Changed) \subseteq Changed
               /\ Does(Stale(Changed), Changed)
    BY <2>4 DEF DrainChanged, Refreshed, Stale, Changed
  <2> HIDE DEF Does
  <2> QED
    BY <2>1, <2>2, <2>3, <2>4 DEF ReadStep
<1>2. ASSUME NEW cs \in SUBSET Live, NEW cleared \in SUBSET Live, Does(cs, cleared)
      PROVE  StoreInv'
  BY <1>2, RefreshKeeps
<1> QED
  BY <1>1, <1>2

\* The marks the wake manager leaves on a coordinator.
MarkStep(c) ==
  \/ MarkCompletionNotified(c)
  \/ MarkParentResumeEnqueued(c)
  \/ \E revision \in 1 .. revisionSeq : MarkVisibleRevisionSent(c, revision)
  \/ \E state \in WakeState \ {"idle"} : MarkWake(c, state)

LEMMA MarkKeeps ==
  ASSUME StoreInv, NEW c \in Coordinator, MarkStep(c)
  PROVE  /\ records' = records /\ slots' = slots
         /\ \A d \in Coordinator : Shown(coordinators'[d]) = Shown(coordinators[d])
         /\ StoreInv'
<1> DEFINE Marked(co) ==
             /\ co \in CoordinatorRecord
             /\ co.agents = coordinators[c].agents /\ co.status = coordinators[c].status
             /\ co.effective = coordinators[c].effective
             /\ co.revision = coordinators[c].revision /\ co.lastSent <= co.revision
<1>1. /\ coordinators[c] \in CoordinatorRecord /\ c \in Live
      /\ coordinators[c].revision < revisionSeq
      /\ coordinators[c].lastSent <= coordinators[c].revision
      /\ coordinators[c].revision \in Nat /\ coordinators[c].lastSent \in Nat
      /\ revisionSeq \in Nat
  BY DEF MarkStep, MarkCompletionNotified, MarkParentResumeEnqueued,
         MarkVisibleRevisionSent, MarkWake, SetCoordinator, StoreInv, TypeOK,
         RevisionOrder, CoordinatorRecord
<1>2. \E co : Marked(co) /\ SetCoordinator(c, co)
  <2>1. CASE MarkCompletionNotified(c)
    BY <1>1, <2>1 DEF MarkCompletionNotified, CoordinatorRecord
  <2>2. CASE MarkParentResumeEnqueued(c)
    BY <1>1, <2>2 DEF MarkParentResumeEnqueued, CoordinatorRecord
  <2>3. ASSUME NEW revision \in 1 .. revisionSeq, MarkVisibleRevisionSent(c, revision)
        PROVE  \E co : Marked(co) /\ SetCoordinator(c, co)
    <3> DEFINE co == [coordinators[c] EXCEPT
                        !.lastSent = IF coordinators[c].revision = revision
                                     THEN revision ELSE @]
    <3>1. SetCoordinator(c, co)
      BY <2>3 DEF MarkVisibleRevisionSent
    <3>2. Marked(co)
      BY <1>1 DEF CoordinatorRecord
    <3> QED
      BY <3>1, <3>2
  <2>4. ASSUME NEW state \in WakeState \ {"idle"}, MarkWake(c, state)
        PROVE  \E co : Marked(co) /\ SetCoordinator(c, co)
    BY <1>1, <2>4 DEF MarkWake, CoordinatorRecord
  <2> QED
    BY <2>1, <2>2, <2>3, <2>4 DEF MarkStep
<1>3. PICK co : Marked(co) /\ SetCoordinator(c, co)
  BY <1>2
<1>4. /\ records' = records /\ UNCHANGED <<slots, spent, revisionSeq>>
      /\ coordinators' = [coordinators EXCEPT ![c] = co]
  BY <1>3 DEF SetCoordinator
<1>5. /\ coordinators' \in [Coordinator -> CoordinatorRecord]
      /\ coordinators'[c] = co
      /\ \A d \in Coordinator : d # c => coordinators'[d] = coordinators[d]
  BY <1>3, <1>4 DEF StoreInv, TypeOK
<1>6. ASSUME NEW d \in Coordinator
      PROVE  /\ coordinators'[d].agents = coordinators[d].agents
             /\ coordinators'[d].status = coordinators[d].status
             /\ coordinators'[d].effective = coordinators[d].effective
  BY <1>3, <1>5
<1>7. ASSUME NEW d \in Live
      PROVE  /\ coordinators'[d].revision < revisionSeq'
             /\ coordinators'[d].lastSent <= coordinators'[d].revision
  <2>1. d \in Coordinator
    BY DEF Live
  <2> QED
    BY <1>1, <1>3, <1>4, <1>5, <2>1 DEF StoreInv, RevisionOrder
<1>8. \A d \in Live : d \in Coordinator /\ Refreshed({}, d) = coordinators[d]
  BY DEF Live, Refreshed
<1>9. StoreInv'
  BY <1>1, <1>4, <1>5, <1>6, <1>7, <1>8, QuietKeeps
<1> QED
  BY <1>4, <1>6, <1>9 DEF Shown

\* The coordinators of a chat are finitely many, one per slot at most.
LEMMA OfChatFinite ==
  ASSUME TypeOK, NEW chat
  PROVE  IsFiniteSet(OfChat(chat))
<1> DEFINE taken == {slots[s] : s \in Slot}
<1>1. IsFiniteSet(Slot)
  BY FS_Interval, StoreAssumption DEF Slot
<1>2. slots \in Surjection(Slot, taken)
  BY DEF Surjection, TypeOK
<1>3. IsFiniteSet(taken)
  BY <1>1, <1>2, FS_Surjection
<1>4. OfChat(chat) \subseteq taken
  BY DEF OfChat, Live
<1> QED
  BY <1>3, <1>4, FS_Subset

LEMMA ResponseKeeps ==
  ASSUME StoreInv, NEW chat \in Chat, MarkParentResponseSent(chat)
  PROVE  /\ records' = records /\ slots' = slots
         /\ \A d \in Coordinator : Shown(coordinators'[d]) = Shown(coordinators[d])
         /\ StoreInv'
<1> DEFINE before(c) == {d \in OfChat(chat) : SlotOf(d) < SlotOf(c)}
<1>1. /\ records' = records /\ UNCHANGED <<slots, spent>>
      /\ coordinators' = [c \in Coordinator |->
            IF c \in OfChat(chat)
            THEN [coordinators[c] EXCEPT
                    !.responseSent = TRUE, !.changed = TRUE,
                    !.revision = revisionSeq + Cardinality(before(c))]
            ELSE coordinators[c]]
      /\ revisionSeq' = revisionSeq + Cardinality(OfChat(chat))
  BY DEF MarkParentResponseSent
<1>2. /\ IsFiniteSet(OfChat(chat)) /\ Cardinality(OfChat(chat)) \in Nat
      /\ OfChat(chat) \subseteq Live
  BY OfChatFinite, FS_CardinalityType DEF StoreInv, OfChat
<1>3. ASSUME NEW c \in OfChat(chat)
      PROVE  Cardinality(before(c)) \in Nat /\ Cardinality(before(c)) < Cardinality(OfChat(chat))
  <2>1. before(c) \subseteq OfChat(chat)
    OBVIOUS
  <2>2. SlotOf(c) \in Slot
    BY <1>2 DEF SlotOf, Live
  <2>3. c \notin before(c)
    BY <2>2, StoreAssumption DEF Slot
  <2>4. /\ IsFiniteSet(before(c)) /\ Cardinality(before(c)) \in Nat
        /\ Cardinality(before(c)) <= Cardinality(OfChat(chat))
        /\ Cardinality(OfChat(chat)) = Cardinality(before(c)) => OfChat(chat) = before(c)
    BY <1>2, <2>1, FS_Subset, FS_CardinalityType
  <2>5. Cardinality(OfChat(chat)) # Cardinality(before(c))
    BY <2>3, <2>4
  <2> QED
    BY <1>2, <2>4, <2>5
<1> HIDE DEF before
<1>4. ASSUME NEW c \in Coordinator
      PROVE  /\ coordinators'[c] \in CoordinatorRecord
             /\ coordinators'[c].agents = coordinators[c].agents
             /\ coordinators'[c].status = coordinators[c].status
             /\ coordinators'[c].effective = coordinators[c].effective
             /\ coordinators'[c].lastSent = coordinators[c].lastSent
             /\ c \in OfChat(chat) =>
                  coordinators'[c].revision = revisionSeq + Cardinality(before(c))
             /\ c \notin OfChat(chat) => coordinators'[c] = coordinators[c]
  <2>1. coordinators[c] \in CoordinatorRecord /\ revisionSeq \in Nat
    BY DEF StoreInv, TypeOK
  <2>2. CASE c \in OfChat(chat)
    <3>1. revisionSeq + Cardinality(before(c)) \in Nat
      BY <2>1, <2>2, <1>3
    <3> DEFINE next == revisionSeq + Cardinality(before(c))
    <3>2. coordinators'[c] = [coordinators[c] EXCEPT
                                !.responseSent = TRUE, !.changed = TRUE, !.revision = next]
      BY <1>1, <2>2
    <3>3. next \in Nat
      BY <3>1
    <3> HIDE DEF next
    <3>4. /\ coordinators'[c] \in CoordinatorRecord
          /\ coordinators'[c].agents = coordinators[c].agents
          /\ coordinators'[c].status = coordinators[c].status
          /\ coordinators'[c].effective = coordinators[c].effective
          /\ coordinators'[c].lastSent = coordinators[c].lastSent
          /\ coordinators'[c].revision = next
      BY <2>1, <3>2, <3>3 DEF CoordinatorRecord
    <3> QED
      BY <2>2, <3>4 DEF next
  <2>3. CASE c \notin OfChat(chat)
    BY <1>1, <2>1, <2>3
  <2> QED
    BY <2>2, <2>3
<1>5. ASSUME NEW c \in Live
      PROVE  /\ coordinators'[c].revision < revisionSeq'
             /\ coordinators'[c].lastSent <= coordinators'[c].revision
  <2>1. /\ c \in Coordinator /\ revisionSeq \in Nat
        /\ coordinators[c].revision < revisionSeq
        /\ coordinators[c].lastSent <= coordinators[c].revision
        /\ coordinators[c].revision \in Nat /\ coordinators[c].lastSent \in Nat
    BY DEF Live, StoreInv, TypeOK, RevisionOrder, CoordinatorRecord
  <2>2. revisionSeq' = revisionSeq + Cardinality(OfChat(chat))
    BY <1>1
  <2>3. CASE c \in OfChat(chat)
    <3>1. /\ coordinators'[c].revision = revisionSeq + Cardinality(before(c))
          /\ coordinators'[c].lastSent = coordinators[c].lastSent
      BY <1>4, <2>1, <2>3
    <3>2. Cardinality(before(c)) \in Nat /\ Cardinality(before(c)) < Cardinality(OfChat(chat))
      BY <1>3, <2>3
    <3> QED
      BY <1>2, <2>1, <2>2, <3>1, <3>2
  <2>4. CASE c \notin OfChat(chat)
    <3>1. coordinators'[c] = coordinators[c]
      BY <1>4, <2>1, <2>4
    <3> QED
      BY <1>2, <2>1, <2>2, <3>1
  <2> QED
    BY <2>3, <2>4
<1>6. /\ coordinators' \in [Coordinator -> CoordinatorRecord]
      /\ \A c \in Coordinator \ Live : coordinators'[c] = coordinators[c]
      /\ revisionSeq' \in Nat
  <2>1. revisionSeq \in Nat /\ revisionSeq' = revisionSeq + Cardinality(OfChat(chat))
    BY <1>1 DEF StoreInv, TypeOK
  <2>2. revisionSeq' \in Nat
    BY <1>2, <2>1
  <2>3. \A c \in Coordinator \ Live : coordinators'[c] = coordinators[c]
    BY <1>2, <1>4
  <2>4. coordinators' \in [Coordinator -> CoordinatorRecord]
    BY <1>1, <1>4
  <2> QED
    BY <2>2, <2>3, <2>4
<1>7. \A c \in Live : c \in Coordinator /\ Refreshed({}, c) = coordinators[c]
  BY DEF Live, Refreshed
<1>8. StoreInv'
  <2>1. /\ records' = records /\ UNCHANGED <<slots, spent>> /\ {} \in SUBSET Live
    BY <1>1
  <2>2. \A c \in Live : /\ coordinators'[c].agents = Refreshed({}, c).agents
                        /\ coordinators'[c].status = Refreshed({}, c).status
                        /\ coordinators'[c].effective = Refreshed({}, c).effective
    BY <1>4, <1>7
  <2> QED
    BY <1>5, <1>6, <2>1, <2>2, QuietKeeps
<1> QED
  BY <1>1, <1>4, <1>8 DEF Shown

\* A new coordinator shows nothing, and takes a slot nobody else has.
LEMMA NewCoordinatorType ==
  ASSUME TypeOK, NEW chat \in Chat
  PROVE  /\ NewCoordinator(chat, revisionSeq) \in CoordinatorRecord
         /\ NewCoordinator(chat, revisionSeq).agents = <<>>
         /\ NewCoordinator(chat, revisionSeq).revision = revisionSeq
         /\ NewCoordinator(chat, revisionSeq).lastSent = 0
         /\ Blank \in CoordinatorRecord
  BY EmptySeq DEF NewCoordinator, Blank, CoordinatorRecord, WakeState, TypeOK

\* (the order of the naturals enters the provers through the subsets up to
\* each number)
LEMMA FirstUpTo ==
  ASSUME NEW n \in Nat, NEW S \in SUBSET (1 .. n), S # {}
  PROVE  First(S) \in S /\ \A r \in S : First(S) <= r
<1> DEFINE upTo(k) == {r \in S : r <= k}
           T == {upTo(k) : k \in S}
<1>1. S \subseteq Nat /\ IsFiniteSet(1 .. n)
  BY FS_Interval
<1>2. T \subseteq FiniteSubsetsOf(1 .. n) /\ T # {}
  <2>1. \A k \in S : upTo(k) \subseteq 1 .. n /\ IsFiniteSet(upTo(k))
    BY <1>1, FS_Subset
  <2> QED
    BY <2>1 DEF FiniteSubsetsOf
<1>3. \E U \in T : \A V \in T : ~(<<V, U>> \in StrictSubsetOrdering(1 .. n))
  BY <1>2, FS_StrictSubsetOrderingWellFounded, WFMin
<1>4. PICK k \in S : \A V \in T : ~(<<V, upTo(k)>> \in StrictSubsetOrdering(1 .. n))
  BY <1>3
<1>5. ASSUME NEW r \in S, ~(k <= r) PROVE FALSE
  <2>1. upTo(r) \subseteq upTo(k) /\ k \in upTo(k) /\ k \notin upTo(r)
    <3>1. r \in Nat /\ k \in Nat /\ r < k
      BY <1>1, <1>5
    <3>2. \A q \in S : q <= r => q <= k
      BY <1>1, <3>1
    <3>3. k <= k /\ ~(k <= r)
      BY <3>1
    <3> QED
      BY <3>2, <3>3
  <2>2. upTo(r) \in SUBSET (1 .. n) /\ upTo(k) \in SUBSET (1 .. n) /\ upTo(r) \in T
    OBVIOUS
  <2> HIDE DEF upTo
  <2>3. <<upTo(r), upTo(k)>> \in StrictSubsetOrdering(1 .. n)
    BY <2>1, <2>2 DEF StrictSubsetOrdering
  <2> QED
    BY <1>4, <2>2, <2>3
<1> QED
  BY <1>5 DEF First

LEMMA FirstIsIn ==
  ASSUME NEW S \in SUBSET Slot, S # {}
  PROVE  First(S) \in S
BY StoreAssumption, FirstUpTo DEF Slot

LEMMA StartFreeKeeps ==
  ASSUME StoreInv, NEW c \in Coordinator, NEW chat \in Chat, StartInFreeSlot(c, chat)
  PROVE  /\ records' = records /\ Live' = Live \cup {c} /\ c \notin Live
         /\ \A d \in Coordinator : d # c => coordinators'[d] = coordinators[d]
         /\ StoreInv'
<1> DEFINE s0 == First(FreeSlots)
<1>1. /\ c \notin spent /\ FreeSlots # {} /\ records' = records
      /\ slots' = [slots EXCEPT ![s0] = c]
      /\ coordinators' = [coordinators EXCEPT ![c] = NewCoordinator(chat, revisionSeq)]
      /\ revisionSeq' = revisionSeq + 1 /\ spent' = spent \cup {c}
  BY DEF StartInFreeSlot
<1>2. s0 \in Slot /\ slots[s0] = None /\ FreeSlots \subseteq Slot
  BY <1>1, FirstIsIn DEF FreeSlots
<1>3. c \notin Live /\ c # None
  BY <1>1, StoreAssumption DEF StoreInv, KnownIds
<1> HIDE DEF s0
<1>4. /\ slots \in [Slot -> Coordinator \cup {None}]
      /\ coordinators \in [Coordinator -> CoordinatorRecord] /\ revisionSeq \in Nat
      /\ spent \subseteq Task \cup Coordinator
  BY DEF StoreInv, TypeOK
<1>5. /\ slots'[s0] = c /\ \A s \in Slot : s # s0 => slots'[s] = slots[s]
      /\ slots' \in [Slot -> Coordinator \cup {None}]
  BY <1>1, <1>2, <1>4
<1>6. Live' = Live \cup {c}
  BY <1>2, <1>4, <1>5, StoreAssumption DEF Live, Slot
<1>7. /\ coordinators'[c] = NewCoordinator(chat, revisionSeq)
      /\ \A d \in Coordinator : d # c => coordinators'[d] = coordinators[d]
      /\ coordinators' \in [Coordinator -> CoordinatorRecord]
      /\ coordinators'[c].agents = <<>>
      /\ coordinators'[c].revision = revisionSeq /\ coordinators'[c].lastSent = 0
  BY <1>1, <1>4, NewCoordinatorType DEF StoreInv
<1>8. TypeOK'
  BY <1>1, <1>4, <1>5, <1>7 DEF StoreInv, TypeOK, Slot
<1>9. OwnerConsistent'
  <2>1. \A s1, s2 \in Slot : slots'[s1] = slots'[s2] /\ slots'[s1] # None => s1 = s2
    BY <1>3, <1>5 DEF StoreInv, OwnerConsistent, Live
  <2>2. \A d \in Coordinator \ Live' : coordinators'[d] = Blank
    BY <1>6, <1>7 DEF StoreInv, OwnerConsistent
  <2>3. \A d \in Live' : \A i \in DOMAIN coordinators'[d].agents :
          LET t == coordinators'[d].agents[i].task
          IN  /\ records'[t].status # "free" /\ records'[t].coordinator = d
              /\ \A j \in DOMAIN coordinators'[d].agents :
                   coordinators'[d].agents[j].task = t => j = i
    <3>1. DOMAIN coordinators'[c].agents = {}
      BY <1>7, EmptySeq
    <3> QED
      BY <1>1, <1>6, <1>7, <3>1, SMTT(30) DEF StoreInv, OwnerConsistent, Live
  <2> QED
    BY <2>1, <2>2, <2>3 DEF OwnerConsistent, Slot, Blank, NewCoordinator
<1>10. ProjectionCurrent'
  BY <1>1, <1>6, <1>7 DEF StoreInv, ProjectionCurrent, Live
<1>11. KnownIds'
  BY <1>1, <1>6 DEF StoreInv, KnownIds
<1>12. RevisionOrder'
  BY <1>1, <1>4, <1>6, <1>7 DEF StoreInv, RevisionOrder, Live, CoordinatorRecord
<1> QED
  BY <1>1, <1>3, <1>6, <1>7, <1>8, <1>9, <1>10, <1>11, <1>12 DEF StoreInv

\* The status of a coordinator says whether its tasks have ended.
LEMMA TerminalTasksEnded ==
  ASSUME StoreInv, NEW c \in Live, Terminal(Projected(records, coordinators[c]))
  PROVE  \A t \in Agents(c) : Ended(records[t])
<1> DEFINE agents == coordinators[c].agents
<1>1. /\ c \in Coordinator /\ coordinators[c] \in CoordinatorRecord
      /\ records \in [Task -> TaskRecord]
  BY DEF Live, StoreInv, TypeOK
<1>2. StatusOf(ShownViews(records, agents), ShownEffective(records, agents))
        \in {"done", "failed"}
  BY <1>1 DEF Terminal, Projected, CoordinatorRecord
<1>3. /\ "running" \notin ShownViews(records, agents)
      /\ "blocked" \notin ShownViews(records, agents)
      /\ "queued" \notin ShownViews(records, agents)
  BY <1>2 DEF StatusOf
<1>4. ASSUME NEW i \in DOMAIN agents PROVE Ended(records[agents[i].task])
  <2>1. /\ agents[i].task \in Task /\ records[agents[i].task] \in TaskRecord
        /\ records[agents[i].task].status # "free"
    BY <1>1, AgentTasks DEF StoreInv, OwnerConsistent
  <2>2. ViewOf(records[agents[i].task]) \in ShownViews(records, agents)
    BY <2>1 DEF ShownViews, FoundIn
  <2> QED
    BY <1>3, <2>1, <2>2 DEF ViewOf, Ended, TaskRecord, TaskStatus
<1> QED
  BY <1>4 DEF Agents

\* Taking a slot over drops one coordinator, whose tasks have all ended,
\* and touches no record any other coordinator shows.
LEMMA ReclaimKeeps ==
  ASSUME StoreInv, NEW c \in Coordinator, NEW chat \in Chat, StartByReclaim(c, chat)
  PROVE  \E victim \in Live :
           /\ Reusable(victim)
           /\ Live' = (Live \ {victim}) \cup {c} /\ c \notin Live
           /\ \A t \in Agents(victim) : Ended(records[t])
           /\ \A t \in Task : Active(records[t]) => records'[t].status # "free"
           /\ \A d \in Live : d # victim => coordinators'[d] = Refreshed(Scanned, d)
           /\ StoreInv'
<1> DEFINE s0     == First(ReusableSlots)
           victim == slots[s0]
           recs   == Approve(records, Scanned)
<1>1. /\ c \notin spent /\ ReusableSlots # {}
      /\ records' = [t \in Task |->
            IF t \in Agents(victim) /\ Ended(recs[t]) THEN FreeRecord ELSE recs[t]]
      /\ coordinators' = [d \in Coordinator |->
            IF d = c THEN NewCoordinator(chat, revisionSeq)
            ELSE IF d = victim THEN Blank
            ELSE IF d \in Scanned THEN Projected(records, coordinators[d])
            ELSE coordinators[d]]
      /\ slots' = [slots EXCEPT ![s0] = c]
      /\ revisionSeq' = revisionSeq + 1 /\ spent' = spent \cup {c}
  BY DEF StartByReclaim
<1>2. s0 \in Slot /\ victim \in Coordinator /\ Reusable(victim) /\ victim \in Live
  BY <1>1, FirstIsIn DEF ReusableSlots, Live
<1>3. c \notin Live /\ c # None /\ c # victim
  BY <1>1, <1>2, StoreAssumption DEF StoreInv, KnownIds
<1>4. /\ slots \in [Slot -> Coordinator \cup {None}] /\ records \in [Task -> TaskRecord]
      /\ coordinators \in [Coordinator -> CoordinatorRecord] /\ revisionSeq \in Nat
      /\ spent \subseteq Task \cup Coordinator
  BY DEF StoreInv, TypeOK
<1>5. /\ recs \in [Task -> TaskRecord]
      /\ \A t \in Task : /\ recs[t].status = records[t].status
                         /\ recs[t].coordinator = records[t].coordinator
                         /\ recs[t].blocker = records[t].blocker
                         /\ recs[t].request = records[t].request
                         /\ recs[t].effective = records[t].effective
  BY <1>4, ApproveKeeps
<1> HIDE DEF s0, victim, recs
<1>6. /\ slots'[s0] = c /\ \A s \in Slot : s # s0 => slots'[s] = slots[s]
      /\ slots' \in [Slot -> Coordinator \cup {None}] /\ slots[s0] = victim
  BY <1>1, <1>2, <1>4 DEF victim
<1>7. Live' = (Live \ {victim}) \cup {c}
  <2>1. Live' = {d \in Coordinator : \E s \in Slot : slots'[s] = d}
    BY DEF Live, Slot
  <2>2. \A s \in Slot : slots[s] = victim => s = s0
    BY <1>2, <1>6, StoreAssumption DEF StoreInv, OwnerConsistent
  <2> QED
    BY <1>2, <1>3, <1>6, <2>1, <2>2 DEF Live
<1>8. \A t \in Agents(victim) : Ended(records[t])
  BY <1>2, TerminalTasksEnded DEF Reusable
<1>9. ASSUME NEW t \in Task
      PROVE  /\ records'[t] \in TaskRecord
             /\ t \notin Agents(victim) => records'[t] = recs[t]
             /\ Active(records[t]) => records'[t].status # "free"
             /\ records'[t].status # "free" => records[t].status # "free"
  <2>1. FreeRecord \in TaskRecord /\ FreeRecord.status = "free"
    BY StoreAssumption DEF FreeRecord, TaskRecord, TaskStatus
  <2>2. records'[t] = IF t \in Agents(victim) /\ Ended(recs[t]) THEN FreeRecord ELSE recs[t]
    BY <1>1
  <2> QED
    BY <1>5, <2>1, <2>2 DEF Ended, Active
<1>10. ASSUME NEW d \in Coordinator
       PROVE  /\ d = c => coordinators'[d] = NewCoordinator(chat, revisionSeq)
              /\ d = victim => coordinators'[d] = Blank
              /\ d # c /\ d # victim => coordinators'[d] = Refreshed(Scanned, d)
              /\ d \notin Live /\ d # c => coordinators'[d] = coordinators[d]
              /\ coordinators'[d] \in CoordinatorRecord
  <2>1. Scanned \cap Coordinator \subseteq Live
    BY DEF Scanned, Live
  <2>2. coordinators'[d] = IF d = c THEN NewCoordinator(chat, revisionSeq)
                           ELSE IF d = victim THEN Blank ELSE Refreshed(Scanned, d)
    BY <1>1 DEF Refreshed
  <2>3. /\ Refreshed(Scanned, d) \in CoordinatorRecord
        /\ d \notin Live => Refreshed(Scanned, d) = coordinators[d]
    BY <1>4, <2>1, ProjectedType DEF Refreshed
  <2> QED
    BY <1>2, <1>3, <2>2, <2>3, NewCoordinatorType DEF StoreInv
<1>11. TypeOK'
  <2>1. records' \in [Task -> TaskRecord]
    BY <1>1, <1>9
  <2>2. coordinators' \in [Coordinator -> CoordinatorRecord]
    BY <1>1, <1>10
  <2>3. revisionSeq' \in Nat /\ spent' \subseteq Task \cup Coordinator
    BY <1>1, <1>4
  <2> QED
    BY <1>6, <2>1, <2>2, <2>3 DEF TypeOK, Slot
<1>12. ASSUME NEW d \in Live, d # victim
       PROVE  /\ d \in Coordinator /\ d # c
              /\ SameTasks(coordinators'[d].agents, coordinators[d].agents)
              /\ coordinators[d].agents # <<>> => ShowsRecords(records', coordinators'[d])
              /\ coordinators'[d].revision = coordinators[d].revision
              /\ coordinators'[d].lastSent = coordinators[d].lastSent
              /\ \A i \in DOMAIN coordinators[d].agents :
                   records'[coordinators[d].agents[i].task] = recs[coordinators[d].agents[i].task]
  <2>1. d \in Coordinator /\ d # c
    BY <1>3 DEF Live
  <2>2. coordinators'[d] = Refreshed(Scanned, d)
    BY <1>10, <1>12, <2>1
  <2>3. /\ Refreshed(Scanned, d) \in CoordinatorRecord
        /\ SameTasks(Refreshed(Scanned, d).agents, coordinators[d].agents)
        /\ Refreshed(Scanned, d).revision = coordinators[d].revision
        /\ Refreshed(Scanned, d).lastSent = coordinators[d].lastSent
    BY <1>4, <2>1, ProjectedType, ProjectedShows DEF Refreshed, SameTasks
  <2>4. coordinators[d].agents # <<>> => ShowsRecords(records, Refreshed(Scanned, d))
    BY <1>4, <2>1, ShowsIffProjected, ProjectedShows DEF StoreInv, ProjectionCurrent, Refreshed
  <2>5. ASSUME NEW i \in DOMAIN coordinators[d].agents
        PROVE  /\ coordinators[d].agents[i].task \in Task
               /\ records'[coordinators[d].agents[i].task] = recs[coordinators[d].agents[i].task]
    <3>1. /\ coordinators[d].agents[i].task \in Task
          /\ records[coordinators[d].agents[i].task].coordinator = d
      BY <1>4, <2>1, AgentTasks DEF StoreInv, OwnerConsistent
    <3>2. coordinators[d].agents[i].task \notin Agents(victim)
      <4>1. \A u \in Agents(victim) : records[u].coordinator = victim
        BY <1>2 DEF Agents, StoreInv, OwnerConsistent
      <4> QED
        BY <1>12, <3>1, <4>1
    <3> QED
      BY <1>9, <3>1, <3>2
  <2>6. AgreeOn(records, records', Refreshed(Scanned, d).agents)
    BY <1>5, <2>3, <2>5 DEF AgreeOn, SameTasks
  <2>7. ShowsRecords(records, Refreshed(Scanned, d))
          => ShowsRecords(records', Refreshed(Scanned, d))
    BY <2>6, AgreeingShowTheSame DEF ShowsRecords
  <2> QED
    BY <2>1, <2>2, <2>3, <2>4, <2>5, <2>7
<1>13. /\ coordinators'[c].agents = <<>> /\ DOMAIN coordinators'[c].agents = {}
       /\ coordinators'[c].revision = revisionSeq /\ coordinators'[c].lastSent = 0
  BY <1>10, NewCoordinatorType, EmptySeq DEF StoreInv
<1>14. OwnerConsistent'
  <2>1. \A s1, s2 \in Slot : slots'[s1] = slots'[s2] /\ slots'[s1] # None => s1 = s2
    BY <1>3, <1>6 DEF StoreInv, OwnerConsistent, Live
  <2>2. \A d \in Coordinator \ Live' : coordinators'[d] = Blank
    BY <1>7, <1>10 DEF StoreInv, OwnerConsistent
  <2>3. ASSUME NEW d \in Live', NEW i \in DOMAIN coordinators'[d].agents
        PROVE  LET t == coordinators'[d].agents[i].task
               IN  /\ records'[t].status # "free" /\ records'[t].coordinator = d
                   /\ \A j \in DOMAIN coordinators'[d].agents :
                        coordinators'[d].agents[j].task = t => j = i
    <3>1. d \in Live /\ d # victim
      BY <1>3, <1>7, <1>13
    <3>2. /\ i \in DOMAIN coordinators[d].agents
          /\ DOMAIN coordinators'[d].agents = DOMAIN coordinators[d].agents
          /\ \A j \in DOMAIN coordinators[d].agents :
               coordinators'[d].agents[j].task = coordinators[d].agents[j].task
          /\ records'[coordinators[d].agents[i].task] = recs[coordinators[d].agents[i].task]
          /\ coordinators[d].agents[i].task \in Task
      BY <1>4, <1>12, <3>1, AgentTasks DEF SameTasks
    <3>3. /\ records[coordinators[d].agents[i].task].status # "free"
          /\ records[coordinators[d].agents[i].task].coordinator = d
          /\ \A j \in DOMAIN coordinators[d].agents :
               coordinators[d].agents[j].task = coordinators[d].agents[i].task => j = i
      BY <3>1, <3>2 DEF StoreInv, OwnerConsistent
    <3> DEFINE t == coordinators'[d].agents[i].task
    <3>4. t = coordinators[d].agents[i].task
      BY <3>2
    <3>5. t \in Task /\ records'[t] = recs[t] /\ records[t].status # "free" /\ records[t].coordinator = d
      BY <3>2, <3>3, <3>4
    <3>6. recs[t].status # "free" /\ recs[t].coordinator = d
      BY <1>5, <3>5
    <3>7. ASSUME NEW j \in DOMAIN coordinators'[d].agents, coordinators'[d].agents[j].task = t PROVE j = i
      BY <3>2, <3>3, <3>4, <3>7
    <3> QED
      BY <3>5, <3>6, <3>7
  <2> QED
    BY <2>1, <2>2, <2>3 DEF OwnerConsistent, Slot, Blank, NewCoordinator
<1>15. ProjectionCurrent'
  <2> SUFFICES ASSUME NEW d \in Live', coordinators'[d].agents # <<>>
               PROVE  coordinators'[d] = Projected(records', coordinators'[d])
    BY DEF ProjectionCurrent
  <2>1. d \in Live /\ d # victim /\ d \in Coordinator
    BY <1>7, <1>12, <1>13
  <2>2. /\ coordinators'[d] \in CoordinatorRecord /\ coordinators[d] \in CoordinatorRecord
        /\ records' \in [Task -> TaskRecord]
    BY <1>4, <1>11, <2>1 DEF TypeOK
  <2>3. coordinators[d].agents # <<>>
    <3>1. DOMAIN coordinators'[d].agents = DOMAIN coordinators[d].agents
      BY <1>12, <2>1 DEF SameTasks
    <3>2. coordinators[d].agents \in Seq(AgentView) /\ coordinators'[d].agents \in Seq(AgentView)
      BY <2>2 DEF CoordinatorRecord
    <3>3. Len(coordinators[d].agents) = Len(coordinators'[d].agents)
      BY <3>1, <3>2, LenProperties
    <3> QED
      BY <3>2, <3>3, EmptySeq
  <2> QED
    BY <1>12, <2>1, <2>2, <2>3, ShowsIffProjected
<1>16. KnownIds'
  BY <1>1, <1>7, <1>9 DEF StoreInv, KnownIds
<1>17. RevisionOrder'
  <2> SUFFICES ASSUME NEW d \in Live'
               PROVE  /\ coordinators'[d].revision < revisionSeq'
                      /\ coordinators'[d].lastSent <= coordinators'[d].revision
    BY DEF RevisionOrder
  <2>1. CASE d = c
    BY <1>1, <1>4, <1>13, <2>1
  <2>2. CASE d # c
    <3>1. d \in Live /\ d # victim
      BY <1>7, <2>2
    <3>2. /\ coordinators[d].revision < revisionSeq /\ coordinators[d].revision \in Nat
          /\ coordinators[d].lastSent <= coordinators[d].revision
          /\ coordinators'[d].revision = coordinators[d].revision
          /\ coordinators'[d].lastSent = coordinators[d].lastSent
      BY <1>4, <1>12, <3>1 DEF StoreInv, RevisionOrder, CoordinatorRecord
    <3> QED
      BY <1>1, <1>4, <3>2
  <2> QED
    BY <2>1, <2>2
<1> QED
  <2>1. \A d \in Live : d # victim => coordinators'[d] = Refreshed(Scanned, d)
    BY <1>10, <1>12
  <2> QED
    BY <1>2, <1>3, <1>7, <1>8, <1>9, <1>11, <1>14, <1>15, <1>16, <1>17, <2>1 DEF StoreInv

-----------------------------------------------------------------------------
(* The theorems.                                                           *)

\* A read leaves what the coordinators with tasks show as it was.
LEMMA ReadShowsTheSame ==
  ASSUME StoreInv, ReadStep, NEW c \in Live, coordinators[c].agents # <<>>
  PROVE  Shown(coordinators'[c]) = Shown(coordinators[c])
<1>1. c \in Coordinator /\ coordinators[c] \in CoordinatorRecord
  BY DEF Live, StoreInv, TypeOK
<1>2. PICK cs, cleared \in SUBSET Live :
        coordinators' = [d \in Coordinator |->
          IF d \in cleared THEN [Refreshed(cs, d) EXCEPT !.changed = FALSE]
                           ELSE Refreshed(cs, d)]
  BY ReadKeeps
<1>3. Refreshed(cs, c) = coordinators[c]
  BY DEF Refreshed, StoreInv, ProjectionCurrent
<1>4. \/ coordinators'[c] = [coordinators[c] EXCEPT !.changed = FALSE]
      \/ coordinators'[c] = coordinators[c]
  BY <1>1, <1>2, <1>3
<1> QED
  BY <1>1, <1>4 DEF Shown, CoordinatorRecord

\* Every step of the table is one of the kinds above.
TableStep ==
  \/ \E t \in Task, c \in Coordinator, implement \in BOOLEAN : Plan(c, t, implement)
  \/ \E t \in Task, implement \in BOOLEAN : Start(t, implement)
  \/ \E t \in Task, c \in Coordinator : AttachTask(c, t)
  \/ \E t \in Task : TaskUpdate(t)
  \/ ReadStep
  \/ \E c \in Coordinator : MarkStep(c)
  \/ \E chat \in Chat : MarkParentResponseSent(chat)
  \/ \E c \in Coordinator, chat \in Chat : StartInFreeSlot(c, chat) \/ StartByReclaim(c, chat)

LEMMA StepKinds ==
  ASSUME Next PROVE TableStep
<1>1. CASE TaskStep
  BY <1>1 DEF TaskStep, TaskUpdate, ReadStep, TableStep
<1>2. CASE CoordinatorStep
  <2>1. \A c \in Coordinator : SnapshotCoordinator(c) => ReadStep
    BY DEF SnapshotCoordinator, ReadStep
  <2>2. \A chat \in Chat : SnapshotParent(chat) => ReadStep
    BY DEF SnapshotParent, ReadStep, OfChat, Live
  <2>3. PendingCoordinatorCount => ReadStep
    BY DEF PendingCoordinatorCount, ReadStep, Live
  <2>4. StartRefused \/ DrainChanged => ReadStep
    BY DEF ReadStep
  <2> QED
    BY <1>2, <2>1, <2>2, <2>3, <2>4 DEF CoordinatorStep, MarkStep, TableStep
<1> QED
  BY <1>1, <1>2 DEF Next

LEMMA NextKeeps ==
  ASSUME StoreInv, [Next]_storeVars
  PROVE  StoreInv'
<1>1. CASE Next
  BY <1>1, StepKinds, PlanKeeps, StartKeeps, AttachKeeps, TaskUpdateKeeps, ReadKeeps,
     MarkKeeps, ResponseKeeps, StartFreeKeeps, ReclaimKeeps DEF TableStep
<1>2. CASE UNCHANGED storeVars
  BY <1>2 DEF storeVars, StoreInv, TypeOK, OwnerConsistent, ProjectionCurrent, KnownIds,
              RevisionOrder, Live, Slot
<1> QED
  BY <1>1, <1>2

\* The tables stay consistent with each other and with what is shown.
THEOREM StoreInvariant == Spec => []StoreInv
<1>1. Init => StoreInv
  BY InitInv
<1>2. StoreInv /\ [Next]_storeVars => StoreInv'
  BY NextKeeps
<1> QED
  BY <1>1, <1>2, PTL DEF Spec

\* Every variable of the store keeps its type.
THEOREM TypeCorrect == Spec => []TypeOK
  BY StoreInvariant, PTL DEF StoreInv

\* Records and coordinators name each other.
THEOREM OwnersAgree == Spec => []OwnerConsistent
  BY StoreInvariant, PTL DEF StoreInv

\* What is read from a coordinator, refreshed or not, is what its records say.
THEOREM ShownIsCurrent == Spec => []ProjectionCurrent
  BY StoreInvariant, PTL DEF StoreInv

\* A coordinator that shows an end has only tasks that have ended.
THEOREM EndedWhenTerminal == Spec => []TerminalMeansEnded
<1>1. StoreInv => TerminalMeansEnded
  <2> SUFFICES ASSUME StoreInv, NEW c \in Live, coordinators[c].agents # <<>>,
                      Terminal(coordinators[c])
               PROVE  \A t \in Agents(c) : Ended(records[t])
    BY DEF TerminalMeansEnded
  <2>1. coordinators[c] = Projected(records, coordinators[c])
    BY DEF StoreInv, ProjectionCurrent
  <2> QED
    BY <2>1, TerminalTasksEnded
<1> QED
  BY <1>1, StoreInvariant, PTL

\* An update of a task, or a plan, leaves the other records alone and never
\* frees one.
LEMMA WriteFreesNothing ==
  ASSUME StoreInv, NEW t \in Task, NEW r \in TaskRecord, r.status # "free", Write(t, r)
  PROVE  Live' = Live /\ \A u \in Task : records[u].status # "free" => records'[u].status # "free"
<1> DEFINE recs == [records EXCEPT ![t] = r]
<1>1. recs \in [Task -> TaskRecord]
  BY DEF StoreInv, TypeOK
<1>2. \A u \in Task : records[u].status # "free" => recs[u].status # "free"
  BY DEF StoreInv, TypeOK
<1>3. records' = Approve(recs, {r.coordinator} \cap Live) /\ slots' = slots
  BY DEF Write
<1> HIDE DEF recs
<1>4. \A u \in Task : records'[u].status = recs[u].status
  BY <1>1, <1>3, ApproveKeeps
<1> QED
  BY <1>2, <1>3, <1>4 DEF Live

\* No slot is taken from tasks that still run, no running task loses its record.
THEOREM ReclaimSafe == Spec => NoActiveTaskDropped
<1> DEFINE A == /\ \A c \in Live \ Live' : \A t \in Agents(c) : Ended(records[t])
                /\ \A t \in Task : Active(records[t]) => records'[t].status # "free"
           Kept == Live \subseteq Live' /\ \A t \in Task :
                     records[t].status # "free" => records'[t].status # "free"
<1>0. Kept => A
  BY DEF Active
<1>1. ASSUME StoreInv, Next PROVE A
  <2>1. ASSUME NEW t \in Task, NEW c \in Coordinator, NEW implement \in BOOLEAN,
               Plan(c, t, implement)
        PROVE  Kept
    <3>1. /\ NewRecord("queued", c, implement) \in TaskRecord
          /\ NewRecord("queued", c, implement).status # "free"
      BY StoreAssumption DEF NewRecord, FreeRecord, TaskRecord, TaskStatus
    <3>2. Write(t, NewRecord("queued", c, implement))
      BY <2>1 DEF Plan
    <3> QED
      BY <1>1, <3>1, <3>2, WriteFreesNothing
  <2>2. ASSUME NEW t \in Task, NEW implement \in BOOLEAN, Start(t, implement) PROVE Kept
    <3>1. NewRecord("running", None, implement).status # "free"
      BY DEF NewRecord, FreeRecord
    <3> QED
      BY <1>1, <2>2, <3>1 DEF Start, StoreInv, TypeOK, Live
  <2>3. ASSUME NEW t \in Task, NEW c \in Coordinator, AttachTask(c, t) PROVE Kept
    <3> DEFINE X == ApprovedAfterAttach(c, t)
    <3>1. records' = [u \in Task |->
                      IF u \in Agents(c) \cup {t} /\ records[u].status # "free"
                      THEN [records[u] EXCEPT !.approved = u \in X] ELSE records[u]]
      BY <2>3 DEF AttachTask, ApprovedAfterAttach
    <3> HIDE DEF X
    <3>2. \A u \in Task : records[u] \in TaskRecord
      BY <1>1 DEF StoreInv, TypeOK
    <3>3. \A u \in Task : records'[u].status = records[u].status
      BY <3>1, <3>2 DEF TaskRecord
    <3> QED
      BY <2>3, <3>3 DEF AttachTask, Live
  <2>4. ASSUME NEW t \in Task, TaskUpdate(t) PROVE Kept
    <3>1. PICK r : UpdateOf(t, r)
      BY <1>1, <2>4, TaskUpdateKeeps
    <3> QED
      BY <1>1, <3>1, WriteFreesNothing DEF UpdateOf
  <2>5. ASSUME ReadStep PROVE Kept
    <3>1. PICK cs \in SUBSET Live : records' = Approve(records, cs) /\ slots' = slots
      BY <1>1, <2>5, ReadKeeps
    <3>2. \A u \in Task : records'[u].status = records[u].status
      BY <1>1, <3>1, ApproveKeeps DEF StoreInv, TypeOK
    <3> QED
      BY <3>1, <3>2 DEF Live
  <2>6. ASSUME NEW c \in Coordinator, MarkStep(c) PROVE Kept
    BY <1>1, <2>6, MarkKeeps DEF Live
  <2>7. ASSUME NEW chat \in Chat, MarkParentResponseSent(chat) PROVE Kept
    BY <1>1, <2>7, ResponseKeeps DEF Live
  <2>8. ASSUME NEW c \in Coordinator, NEW chat \in Chat, StartInFreeSlot(c, chat) PROVE Kept
    BY <1>1, <2>8, StartFreeKeeps
  <2>9. ASSUME NEW c \in Coordinator, NEW chat \in Chat, StartByReclaim(c, chat) PROVE A
    BY <1>1, <2>9, ReclaimKeeps
  <2> HIDE DEF Kept, A
  <2> QED
    BY <1>0, <1>1, <2>1, <2>2, <2>3, <2>4, <2>5, <2>6, <2>7, <2>8, <2>9, StepKinds DEF TableStep
<1>2. StoreInv /\ [Next]_storeVars => [A]_storeVars
  BY <1>1
<1> QED
  BY <1>2, StoreInvariant, PTL DEF Spec, NoActiveTaskDropped

\* A changed coordinator is flagged, with a revision nobody has delivered.
Announced(c) ==
  /\ coordinators'[c].changed
  /\ coordinators'[c].revision > coordinators[c].revision
  /\ coordinators'[c].lastSent # coordinators'[c].revision

LEMMA BumpAnnounces ==
  ASSUME StoreInv, NEW c \in Live, NEW co \in CoordinatorRecord,
         co.lastSent = coordinators[c].lastSent, coordinators'[c] = Bump(co)
  PROVE  Announced(c)
<1>1. /\ coordinators[c].revision \in Nat /\ coordinators[c].lastSent \in Nat
      /\ coordinators[c].revision < revisionSeq /\ revisionSeq \in Nat
      /\ coordinators[c].lastSent <= coordinators[c].revision
  BY DEF Live, StoreInv, TypeOK, CoordinatorRecord, RevisionOrder
<1>2. /\ Bump(co).changed /\ Bump(co).revision = revisionSeq
      /\ Bump(co).lastSent = coordinators[c].lastSent
  BY DEF Bump, CoordinatorRecord
<1> QED
  BY <1>1, <1>2 DEF Announced

LEMMA WriteAnnounces ==
  ASSUME StoreInv, NEW t \in Task, NEW r \in TaskRecord, Write(t, r), NEW c \in Live
  PROVE  Shown(coordinators'[c]) # Shown(coordinators[c]) => Announced(c)
<1> DEFINE recs == [records EXCEPT ![t] = r]
<1>1. /\ recs \in [Task -> TaskRecord] /\ c \in Coordinator
      /\ coordinators[c] \in CoordinatorRecord
  BY DEF StoreInv, TypeOK, Live
<1>2. coordinators'[c] = IF c \in {r.coordinator} \cap Live
                         THEN Bump(Projected(recs, coordinators[c])) ELSE coordinators[c]
  BY <1>1 DEF Write
<1> HIDE DEF recs
<1>3. /\ Projected(recs, coordinators[c]) \in CoordinatorRecord
      /\ Projected(recs, coordinators[c]).lastSent = coordinators[c].lastSent
  BY <1>1, ProjectedType
<1> QED
  BY <1>2, <1>3, BumpAnnounces

\* A refreshed coordinator without tasks still has none.
LEMMA RefreshedShowsNothing ==
  ASSUME StoreInv, NEW c \in Coordinator, coordinators[c].agents = <<>>, NEW cs
  PROVE  Refreshed(cs, c).agents = <<>>
<1>1. coordinators[c] \in CoordinatorRecord /\ records \in [Task -> TaskRecord]
  BY DEF StoreInv, TypeOK
<1>2. Projected(records, coordinators[c]).agents = ShownAgents(records, <<>>)
  BY <1>1, ProjectedType
<1>3. /\ ShownAgents(records, <<>>) \in Seq(AgentView)
      /\ DOMAIN ShownAgents(records, <<>>) = DOMAIN <<>>
  BY <1>1, EmptySeq, ShownAgentsType
<1>4. Len(ShownAgents(records, <<>>)) = 0
  BY <1>3, LenProperties, EmptySeq
<1>5. ShownAgents(records, <<>>) = <<>>
  BY <1>3, <1>4, EmptySeq
<1> QED
  BY <1>2, <1>5 DEF Refreshed

LEMMA ReadShowsNothing ==
  ASSUME StoreInv, ReadStep, NEW c \in Coordinator, coordinators[c].agents = <<>>
  PROVE  coordinators'[c].agents = <<>>
<1>1. PICK cs, cleared \in SUBSET Live :
        coordinators' = [d \in Coordinator |->
          IF d \in cleared THEN [Refreshed(cs, d) EXCEPT !.changed = FALSE]
                           ELSE Refreshed(cs, d)]
  BY ReadKeeps
<1>2. Refreshed(cs, c) \in CoordinatorRecord
  BY ProjectedType DEF Refreshed, StoreInv, TypeOK
<1>3. \/ coordinators'[c] = [Refreshed(cs, c) EXCEPT !.changed = FALSE]
      \/ coordinators'[c] = Refreshed(cs, c)
  BY <1>1
<1> QED
  BY <1>2, <1>3, RefreshedShowsNothing DEF CoordinatorRecord

\* What a coordinator shows never changes unannounced.
THEOREM ChangesAreAnnounced == Spec => ChangeAnnounced
<1> DEFINE Quiet(c) == Shown(coordinators'[c]) = Shown(coordinators[c])
           Fine(c)  == coordinators'[c].agents = <<>> \/ Quiet(c) \/ Announced(c)
           A == \A c \in Live \cap Live' :
                  coordinators'[c].agents # <<>> /\ Shown(coordinators[c]) # Shown(coordinators'[c])
                    => /\ coordinators'[c].changed
                       /\ coordinators'[c].revision > coordinators[c].revision
                       /\ coordinators'[c].lastSent # coordinators'[c].revision
<1>0. (\A c \in Live \cap Live' : Fine(c)) => A
  BY DEF Announced
<1>1. ASSUME StoreInv, Next, NEW c \in Live \cap Live' PROVE Fine(c)
  <2>0. c \in Coordinator /\ coordinators[c] \in CoordinatorRecord
    BY <1>1 DEF Live, StoreInv, TypeOK
  <2>1. ASSUME NEW t \in Task, NEW d \in Coordinator, NEW implement \in BOOLEAN,
               Plan(d, t, implement)
        PROVE  Fine(c)
    <3>1. NewRecord("queued", d, implement) \in TaskRecord
      BY StoreAssumption DEF NewRecord, FreeRecord, TaskRecord, TaskStatus
    <3>2. Write(t, NewRecord("queued", d, implement))
      BY <2>1 DEF Plan
    <3> QED
      BY <1>1, <3>1, <3>2, WriteAnnounces
  <2>2. ASSUME NEW t \in Task, NEW implement \in BOOLEAN, Start(t, implement) PROVE Fine(c)
    BY <2>2 DEF Start
  <2>3. ASSUME NEW t \in Task, NEW d \in Coordinator, AttachTask(d, t) PROVE Fine(c)
    <3> DEFINE co == [coordinators[d] EXCEPT !.agents =
                        Append(@, [task |-> t, view |-> ViewOf(records[t])])]
    <3>1. coordinators' = [coordinators EXCEPT ![d] = Bump(Projected(records, co))]
      BY <2>3 DEF AttachTask
    <3>2. CASE c # d
      <4>1. coordinators'[c] = coordinators[c]
        BY <2>0, <3>1, <3>2
      <4> QED
        BY <4>1
    <3>3. CASE c = d
      <4>1. [task |-> t, view |-> ViewOf(records[t])] \in AgentView
        BY <1>1, ViewOfType DEF AgentView, StoreInv, TypeOK
      <4>2. Append(coordinators[c].agents, [task |-> t, view |-> ViewOf(records[t])])
              \in Seq(AgentView)
        BY <2>0, <4>1, AppendProperties DEF CoordinatorRecord
      <4>3. co \in CoordinatorRecord /\ co.lastSent = coordinators[c].lastSent
        BY <2>0, <3>3, <4>2 DEF CoordinatorRecord
      <4> HIDE DEF co
      <4>4. /\ Projected(records, co) \in CoordinatorRecord
            /\ Projected(records, co).lastSent = coordinators[c].lastSent
        BY <1>1, <4>3, ProjectedType DEF StoreInv, TypeOK
      <4>5. coordinators'[c] = Bump(Projected(records, co))
        BY <1>1, <2>0, <3>1, <3>3 DEF StoreInv, TypeOK
      <4> QED
        BY <1>1, <4>4, <4>5, BumpAnnounces
    <3> QED
      BY <3>2, <3>3
  <2>4. ASSUME NEW t \in Task, TaskUpdate(t) PROVE Fine(c)
    <3>1. PICK r : UpdateOf(t, r)
      BY <1>1, <2>4, TaskUpdateKeeps
    <3> QED
      BY <1>1, <3>1, WriteAnnounces DEF UpdateOf
  <2>5. ASSUME ReadStep PROVE Fine(c)
    <3>1. CASE coordinators[c].agents # <<>>
      BY <1>1, <2>5, <3>1, ReadShowsTheSame
    <3>2. CASE coordinators[c].agents = <<>>
      BY <1>1, <2>0, <2>5, <3>2, ReadShowsNothing
    <3> QED
      BY <3>1, <3>2
  <2>6. ASSUME NEW d \in Coordinator, MarkStep(d) PROVE Fine(c)
    BY <1>1, <2>0, <2>6, MarkKeeps
  <2>7. ASSUME NEW chat \in Chat, MarkParentResponseSent(chat) PROVE Fine(c)
    BY <1>1, <2>0, <2>7, ResponseKeeps
  <2>8. ASSUME NEW d \in Coordinator, NEW chat \in Chat, StartInFreeSlot(d, chat) PROVE Fine(c)
    <3>1. coordinators'[c] = coordinators[c]
      BY <1>1, <2>0, <2>8, StartFreeKeeps
    <3> QED
      BY <3>1
  <2>9. ASSUME NEW d \in Coordinator, NEW chat \in Chat, StartByReclaim(d, chat) PROVE Fine(c)
    <3>1. coordinators'[c] = Refreshed(Scanned, c)
      <4>1. PICK victim \in Live :
              /\ Live' = (Live \ {victim}) \cup {d} /\ d \notin Live
              /\ \A e \in Live : e # victim => coordinators'[e] = Refreshed(Scanned, e)
        BY <1>1, <2>9, ReclaimKeeps
      <4> QED
        BY <1>1, <4>1
    <3>2. CASE coordinators[c].agents # <<>>
      <4>1. Refreshed(Scanned, c) = coordinators[c]
        BY <1>1, <3>2 DEF Refreshed, StoreInv, ProjectionCurrent
      <4> QED
        BY <3>1, <4>1
    <3>3. CASE coordinators[c].agents = <<>>
      BY <1>1, <2>0, <3>1, <3>3, RefreshedShowsNothing
    <3> QED
      BY <3>2, <3>3
  <2> HIDE DEF Fine
  <2> QED
    BY <1>1, <2>1, <2>2, <2>3, <2>4, <2>5, <2>6, <2>7, <2>8, <2>9, StepKinds DEF TableStep
<1>2. StoreInv /\ [Next]_storeVars => [A]_storeVars
  <2> HIDE DEF Fine, A
  <2> QED
    BY <1>0, <1>1
<1> QED
  BY <1>2, StoreInvariant, PTL DEF Spec, ChangeAnnounced

-----------------------------------------------------------------------------
(* Approvals.                                                              *)

TakesInOrder(f, n, fit, clash) ==
  \A i \in 1 .. n : f[i] <=> i \in fit /\ \A j \in 1 .. (i - 1) : f[j] => <<j, i>> \notin clash

\* Going through n entries in order and taking each that fits and clashes with
\* none taken before gives a result.
LEMMA TakenInOrder ==
  ASSUME NEW n \in Nat, NEW fit \in SUBSET (1 .. n), NEW clash
  PROVE  \E f \in [1 .. n -> BOOLEAN] : TakesInOrder(f, n, fit, clash)
<1> DEFINE Rule(f, i) == i \in fit /\ \A j \in 1 .. (i - 1) : f[j] => <<j, i>> \notin clash
           UpTo(f, m) == \A i \in 1 .. m : f[i] <=> Rule(f, i)
           Stuck == {m \in 1 .. n : ~ \E f \in [1 .. n -> BOOLEAN] : UpTo(f, m)}
           none == [i \in 1 .. n |-> FALSE]
<1>1. none \in [1 .. n -> BOOLEAN] /\ UpTo(none, 0)
  OBVIOUS
<1>2. ASSUME Stuck # {} PROVE FALSE
  <2> DEFINE m == First(Stuck)
  <2>1. Stuck \in SUBSET (1 .. n)
    OBVIOUS
  <2>2. m \in Stuck /\ \A k \in Stuck : m <= k
    BY <1>2, <2>1, FirstUpTo
  <2>3. m \in 1 .. n /\ ~ \E f \in [1 .. n -> BOOLEAN] : UpTo(f, m)
    BY <2>2
  <2> HIDE DEF m
  <2>4. \E f \in [1 .. n -> BOOLEAN] : UpTo(f, m - 1)
    <3>1. CASE m = 1
      <4>1. 1 .. (m - 1) = {}
        BY <3>1
      <4> QED
        BY <1>1, <4>1
    <3>2. CASE m # 1
      <4>1. m - 1 \in 1 .. n /\ ~(m <= m - 1)
        BY <2>3, <3>2
      <4>2. m - 1 \notin Stuck
        BY <2>2, <4>1
      <4> QED
        BY <4>1, <4>2
    <3> QED
      BY <3>1, <3>2
  <2>5. PICK f \in [1 .. n -> BOOLEAN] : UpTo(f, m - 1)
    BY <2>4
  <2> DEFINE g == [i \in 1 .. n |-> IF i = m THEN Rule(f, m) ELSE f[i]]
  <2>6. g \in [1 .. n -> BOOLEAN]
    OBVIOUS
  <2>7. g[m] = Rule(f, m) /\ \A i \in 1 .. n : i # m => g[i] = f[i]
    BY <2>3
  <2> HIDE DEF g
  <2>8. ASSUME NEW i \in 1 .. m PROVE Rule(g, i) <=> Rule(f, i)
    <3>1. \A j \in 1 .. (i - 1) : j \in 1 .. n /\ j # m
      BY <2>3
    <3>2. \A j \in 1 .. (i - 1) : g[j] = f[j]
      BY <2>7, <3>1
    <3> QED
      BY <3>2
  <2>9. ASSUME NEW i \in 1 .. m PROVE g[i] <=> Rule(g, i)
    <3>1. CASE i = m
      BY <2>7, <2>8, <3>1
    <3>2. CASE i # m
      <4>1. i \in 1 .. (m - 1) /\ i \in 1 .. n
        BY <2>3, <3>2
      <4>2. f[i] <=> Rule(f, i)
        BY <2>5, <4>1
      <4> QED
        BY <2>7, <2>8, <3>2, <4>1, <4>2
    <3> QED
      BY <3>1, <3>2
  <2> QED
    BY <2>3, <2>6, <2>9
<1> HIDE DEF none
<1>3. CASE n = 0
  BY <1>1, <1>3 DEF TakesInOrder
<1>4. CASE n # 0
  <2>1. n \in 1 .. n
    BY <1>4
  <2>2. n \notin Stuck
    <3> HIDE DEF Stuck
    <3> QED
      BY <1>2
  <2>3. PICK f \in [1 .. n -> BOOLEAN] : UpTo(f, n)
    BY <2>1, <2>2
  <2> QED
    BY <2>3 DEF TakesInOrder
<1> QED
  BY <1>3, <1>4

\* The approved tasks are those an assignment to the views picks that follows
\* the rule.
LEMMA ApprovedByRule ==
  ASSUME NEW recs \in [Task -> TaskRecord], NEW agents \in Seq(AgentView)
  PROVE  \E ok \in [DOMAIN agents -> BOOLEAN] :
           /\ ApprovedAgents(recs, agents) = {agents[i].task : i \in {k \in DOMAIN agents : ok[k]}}
           /\ \A i \in DOMAIN agents : ok[i] =>
                /\ recs[agents[i].task].files # <<>>
                /\ \A j \in 1 .. (i - 1) :
                     ok[j] => ~FilesetsOverlap(recs[agents[j].task].files, recs[agents[i].task].files)
<1> DEFINE rec(i) == recs[agents[i].task]
           Rules(f) == f = [i \in DOMAIN agents |->
             /\ rec(i).implement /\ rec(i).status = "done" /\ rec(i).files # <<>>
             /\ \A j \in 1 .. (i - 1) : f[j] => ~FilesetsOverlap(rec(j).files, rec(i).files)]
           ok == CHOOSE f : Rules(f)
           n == Len(agents)
           fit == {i \in 1 .. n : rec(i).implement /\ rec(i).status = "done" /\ rec(i).files # <<>>}
           clash == {p \in (1 .. n) \X (1 .. n) : FilesetsOverlap(rec(p[1]).files, rec(p[2]).files)}
<1>1. n \in Nat /\ DOMAIN agents = 1 .. n /\ \A i \in 1 .. n : agents[i].task \in Task
  <2>1. n \in Nat /\ DOMAIN agents = 1 .. n
    BY LenProperties
  <2>2. \A i \in 1 .. n : agents[i] \in AgentView
    BY ElementOfSeq
  <2> QED
    BY <2>1, <2>2 DEF AgentView
<1>2. \A i \in 1 .. n : rec(i).implement \in BOOLEAN
  BY <1>1 DEF TaskRecord
<1>3. \E f : Rules(f)
  <2>1. fit \in SUBSET (1 .. n)
    OBVIOUS
  <2>2. PICK f \in [1 .. n -> BOOLEAN] : TakesInOrder(f, n, fit, clash)
    BY <1>1, <2>1, TakenInOrder
  <2>3. ASSUME NEW i \in 1 .. n, NEW j \in 1 .. (i - 1)
        PROVE  <<j, i>> \in clash <=> FilesetsOverlap(rec(j).files, rec(i).files)
    <3>1. j \in 1 .. n
      BY <1>1
    <3> QED
      BY <3>1
  <2> DEFINE body(i) == /\ rec(i).implement /\ rec(i).status = "done" /\ rec(i).files # <<>>
                        /\ \A j \in 1 .. (i - 1) :
                             f[j] => ~FilesetsOverlap(rec(j).files, rec(i).files)
  <2>4. ASSUME NEW i \in 1 .. n PROVE f[i] = body(i)
    <3>1. f[i] <=> body(i)
      <4>1. f[i] <=> i \in fit /\ \A j \in 1 .. (i - 1) : f[j] => <<j, i>> \notin clash
        BY <2>2 DEF TakesInOrder
      <4> QED
        BY <2>3, <4>1
    <3>2. f[i] \in BOOLEAN /\ body(i) \in BOOLEAN
      BY <1>2, <2>2
    <3> QED
      BY <3>1, <3>2
  <2> HIDE DEF body
  <2>5. f = [i \in 1 .. n |-> body(i)]
    BY <2>2, <2>4
  <2>6. f = [i \in DOMAIN agents |-> body(i)]
    BY <1>1, <2>5
  <2>7. Rules(f)
    BY <2>6 DEF body
  <2> HIDE DEF Rules
  <2> QED
    BY <2>7
<1>4. Rules(ok)
  BY <1>3
<1>5. ApprovedAgents(recs, agents) = {agents[i].task : i \in {k \in DOMAIN agents : ok[k]}}
  BY DEF ApprovedAgents
<1> HIDE DEF ok
<1>6. ok \in [DOMAIN agents -> BOOLEAN]
  BY <1>1, <1>2, <1>4
<1>7. ASSUME NEW i \in DOMAIN agents, ok[i]
      PROVE  /\ rec(i).files # <<>>
             /\ \A j \in 1 .. (i - 1) : ok[j] => ~FilesetsOverlap(rec(j).files, rec(i).files)
  BY <1>4, <1>7
<1> QED
  BY <1>5, <1>6, <1>7

\* Two tasks approved for one coordinator have lists of which neither contains
\* the other.
LEMMA ApprovedApart ==
  ASSUME NEW recs \in [Task -> TaskRecord], NEW agents \in Seq(AgentView),
         NEW t \in ApprovedAgents(recs, agents), NEW u \in ApprovedAgents(recs, agents), t # u
  PROVE  ~Within(recs[t].files, recs[u].files)
<1> DEFINE files(i) == recs[agents[i].task].files
<1>1. PICK ok \in [DOMAIN agents -> BOOLEAN] :
        /\ ApprovedAgents(recs, agents) = {agents[i].task : i \in {k \in DOMAIN agents : ok[k]}}
        /\ \A i \in DOMAIN agents : ok[i] =>
             /\ files(i) # <<>>
             /\ \A j \in 1 .. (i - 1) : ok[j] => ~FilesetsOverlap(files(j), files(i))
  BY ApprovedByRule
<1>2. PICK i \in DOMAIN agents : ok[i] /\ agents[i].task = t
  BY <1>1
<1>3. PICK j \in DOMAIN agents : ok[j] /\ agents[j].task = u
  BY <1>1
<1>4. Len(agents) \in Nat /\ DOMAIN agents = 1 .. Len(agents)
  BY LenProperties
<1>5. i \in 1 .. (j - 1) \/ j \in 1 .. (i - 1)
  BY <1>2, <1>3, <1>4
<1>6. ~FilesetsOverlap(files(i), files(j)) \/ ~FilesetsOverlap(files(j), files(i))
  BY <1>1, <1>2, <1>3, <1>5
<1>7. files(i) # <<>> /\ files(j) # <<>>
  BY <1>1, <1>2, <1>3
<1> HIDE DEF files
<1>8. ~Within(files(i), files(j))
  BY <1>6, <1>7 DEF FilesetsOverlap
<1> QED
  BY <1>2, <1>3, <1>8 DEF files

\* ApprovedNotNested of one coordinator's tasks.
Apart(recs, tasks) ==
  \A t, u \in tasks :
    t # u /\ recs[t].approved /\ recs[u].approved => ~Within(recs[t].files, recs[u].files)

\* A task belongs to one coordinator.
LEMMA OneOwner ==
  ASSUME StoreInv, NEW c \in Live, NEW t \in Agents(c)
  PROVE  /\ t \in Task /\ records[t].status # "free" /\ records[t].coordinator = c
         /\ \A d \in Live : t \in Agents(d) => d = c
<1>1. \A d \in Live : d \in Coordinator
  BY DEF Live
<1>2. \A d \in Live : t \in Agents(d) => records[t].coordinator = d /\ records[t].status # "free"
  BY DEF StoreInv, OwnerConsistent, Agents
<1>3. t \in Task
  BY <1>1, ShownTasks DEF StoreInv, Agents
<1> QED
  BY <1>2, <1>3

\* A refresh of some coordinators parts the approved tasks of those, and leaves
\* those of the others as they are, if the records it starts from are theirs.
LEMMA ApproveParts ==
  ASSUME StoreInv, ApprovedNotNested, NEW base \in [Task -> TaskRecord], NEW cs \in SUBSET Live,
         \A c \in Live : \A t \in Agents(c) :
           base[t].status # "free" /\ (c \notin cs => base[t] = records[t]),
         NEW c \in Live
  PROVE  Apart(Approve(base, cs), Agents(c))
<1> DEFINE recs == Approve(base, cs)
           agents(d) == coordinators[d].agents
<1>1. \A d \in Live : agents(d) \in Seq(AgentView)
  BY ShownTasks DEF StoreInv, Live
<1>2. \A t \in Task : recs[t] = IF base[t].status # "free" /\ \E d \in cs : t \in Agents(d)
        THEN [base[t] EXCEPT !.approved = \E d \in cs : t \in ApprovedAgents(base, agents(d))]
        ELSE base[t]
  BY DEF Approve
<1>3. \A t \in Task : recs[t].files = base[t].files
  BY ApproveKeeps
<1>4. ASSUME NEW d \in Live PROVE ApprovedAgents(base, agents(d)) \subseteq Agents(d)
  <2>1. PICK ok \in [DOMAIN agents(d) -> BOOLEAN] :
          ApprovedAgents(base, agents(d))
            = {agents(d)[i].task : i \in {k \in DOMAIN agents(d) : ok[k]}}
    BY <1>1, ApprovedByRule
  <2> QED
    BY <2>1 DEF Agents
<1> HIDE DEF recs, agents
<1>5. ASSUME NEW t \in Agents(c), recs[t].approved, c \in cs
      PROVE  t \in ApprovedAgents(base, agents(c))
  <2>1. t \in Task /\ base[t].status # "free" /\ base[t] \in TaskRecord
    BY OneOwner
  <2>2. recs[t] = [base[t] EXCEPT !.approved = \E d \in cs : t \in ApprovedAgents(base, agents(d))]
    BY <1>2, <1>5, <2>1
  <2>3. recs[t].approved = \E d \in cs : t \in ApprovedAgents(base, agents(d))
    BY <2>1, <2>2 DEF TaskRecord
  <2>4. PICK d \in cs : t \in ApprovedAgents(base, agents(d))
    BY <1>5, <2>3
  <2>5. d = c
    BY <1>4, <2>4, OneOwner
  <2> QED
    BY <2>4, <2>5
<1>6. ASSUME NEW t \in Agents(c), c \notin cs PROVE recs[t] = records[t]
  <2>1. t \in Task /\ base[t] = records[t]
    BY <1>6, OneOwner
  <2>2. ~ \E d \in cs : t \in Agents(d)
    BY <1>6, OneOwner
  <2> QED
    BY <1>2, <2>1, <2>2
<1>7. ASSUME NEW t \in Agents(c), NEW u \in Agents(c), t # u, recs[t].approved, recs[u].approved
      PROVE  ~Within(recs[t].files, recs[u].files)
  <2>1. CASE c \in cs
    <3>1. t \in ApprovedAgents(base, agents(c)) /\ u \in ApprovedAgents(base, agents(c))
      BY <1>5, <1>7, <2>1
    <3>2. ~Within(base[t].files, base[u].files)
      BY <1>1, <1>7, <3>1, ApprovedApart
    <3> QED
      BY <1>3, <3>2, OneOwner
  <2>2. CASE c \notin cs
    <3>1. recs[t] = records[t] /\ recs[u] = records[u]
      BY <1>6, <2>2
    <3> QED
      BY <1>7, <3>1 DEF ApprovedNotNested
  <2> QED
    BY <2>1, <2>2
<1> QED
  BY <1>7 DEF Apart, recs

\* The next state keeps approvals apart if it does for each coordinator.
LEMMA NextApart ==
  ASSUME \A c \in Live' : Apart(records', Agents(c)')
  PROVE  ApprovedNotNested'
BY DEF Apart, ApprovedNotNested

LEMMA SameAgents ==
  ASSUME NEW c, SameTasks(coordinators'[c].agents, coordinators[c].agents)
  PROVE  Agents(c)' = Agents(c)
BY DEF SameTasks, Agents

LEMMA ProjectedTasks ==
  ASSUME NEW recs \in [Task -> TaskRecord], NEW co \in CoordinatorRecord
  PROVE  SameTasks(Projected(recs, co).agents, co.agents)
BY ProjectedShows

LEMMA WriteParts ==
  ASSUME StoreInv, ApprovedNotNested, NEW t \in Task, NEW r \in TaskRecord, r.status # "free",
         records[t].status # "free" => r.coordinator = records[t].coordinator, Write(t, r)
  PROVE  ApprovedNotNested'
<1> DEFINE recs == [records EXCEPT ![t] = r]
           cs   == {r.coordinator} \cap Live
<1>1. records \in [Task -> TaskRecord] /\ \A c \in Live : coordinators[c] \in CoordinatorRecord
  BY DEF StoreInv, TypeOK, Live
<1>2. recs \in [Task -> TaskRecord] /\ recs[t] = r /\ \A u \in Task : u # t => recs[u] = records[u]
  BY <1>1
<1>3. /\ records' = Approve(recs, cs) /\ Live' = Live
      /\ \A c \in Live : coordinators'[c] = IF c \in cs THEN Bump(Projected(recs, coordinators[c]))
                                                       ELSE coordinators[c]
  BY DEF Write, Live
<1> HIDE DEF recs
<1>4. ASSUME NEW c \in Live, NEW u \in Agents(c)
      PROVE  recs[u].status # "free" /\ (c \notin cs => recs[u] = records[u])
  BY <1>2, <1>4, OneOwner
<1>5. ASSUME NEW c \in Live PROVE Agents(c)' = Agents(c)
  <2>1. SameTasks(Projected(recs, coordinators[c]).agents, coordinators[c].agents)
    BY <1>1, <1>2, ProjectedTasks
  <2>2. Bump(Projected(recs, coordinators[c])).agents = Projected(recs, coordinators[c]).agents
    <3>1. Projected(recs, coordinators[c]) \in CoordinatorRecord
      BY <1>1, <1>2, ProjectedType
    <3> QED
      BY <3>1 DEF Bump, CoordinatorRecord
  <2>3. SameTasks(coordinators'[c].agents, coordinators[c].agents)
    BY <1>3, <2>1, <2>2 DEF SameTasks
  <2> QED
    BY <2>3, SameAgents
<1> HIDE DEF cs
<1>6. ASSUME NEW c \in Live PROVE Apart(records', Agents(c))
  <2>1. cs \in SUBSET Live
    BY DEF cs
  <2> QED
    BY <1>2, <1>3, <1>4, <2>1, ApproveParts
<1> QED
  BY <1>3, <1>5, <1>6, NextApart

LEMMA StartParts ==
  ASSUME StoreInv, ApprovedNotNested, NEW t \in Task, NEW implement \in BOOLEAN,
         Start(t, implement)
  PROVE  ApprovedNotNested'
<1>1. /\ records' = [records EXCEPT ![t] = NewRecord("running", None, implement)]
      /\ t \notin spent /\ Live' = Live /\ coordinators' = coordinators
  BY DEF Start, Live
<1>2. \A c \in Live : \A u \in Agents(c) : u \in Task /\ u # t
  BY <1>1, OneOwner DEF StoreInv, KnownIds
<1>3. \A c \in Live : \A u \in Agents(c) : records'[u] = records[u]
  BY <1>1, <1>2 DEF StoreInv, TypeOK
<1>4. \A c \in Live : Agents(c)' = Agents(c)
  BY <1>1 DEF Agents
<1>5. \A c \in Live : Apart(records', Agents(c))
  BY <1>3 DEF Apart, ApprovedNotNested
<1> QED
  BY <1>1, <1>4, <1>5, NextApart

\* All tasks of the coordinator are gone through again, the new one with them.
LEMMA AttachParts ==
  ASSUME StoreInv, ApprovedNotNested, NEW t \in Task, NEW c \in Coordinator, AttachTask(c, t)
  PROVE  ApprovedNotNested'
<1> DEFINE new == Append(coordinators[c].agents, [task |-> t, view |-> ViewOf(records[t])])
           co  == [coordinators[c] EXCEPT !.agents = new]
           approved == ApprovedAgents(records, new)
<1>1. /\ records \in [Task -> TaskRecord] /\ coordinators[c] \in CoordinatorRecord
      /\ coordinators \in [Coordinator -> CoordinatorRecord]
      /\ coordinators[c].agents \in Seq(AgentView)
  BY ShownTasks DEF StoreInv, TypeOK
<1>2. new \in Seq(AgentView) /\ co \in CoordinatorRecord /\ co.agents = new
  <2>1. ViewOf(records[t]) \in ViewStatus
    BY <1>1, ViewOfType
  <2>2. [task |-> t, view |-> ViewOf(records[t])] \in AgentView
    BY <2>1 DEF AgentView
  <2>3. new \in Seq(AgentView)
    BY <1>1, <2>2, AppendProperties
  <2> HIDE DEF new
  <2> QED
    BY <1>1, <2>3 DEF CoordinatorRecord
<1>3. {new[i].task : i \in DOMAIN new} = Agents(c) \cup {t}
  <2> DEFINE old == coordinators[c].agents
             view == [task |-> t, view |-> ViewOf(records[t])]
  <2>1. old \in Seq(AgentView) /\ new = Append(old, view) /\ view.task = t
    BY <1>1
  <2>2. Agents(c) = {old[i].task : i \in DOMAIN old}
    BY DEF Agents
  <2> HIDE DEF old, view, new
  <2>3. /\ Len(old) \in Nat /\ DOMAIN old = 1 .. Len(old) /\ DOMAIN new = 1 .. (Len(old) + 1)
        /\ new[Len(old) + 1] = view /\ \A i \in 1 .. Len(old) : new[i] = old[i]
    BY <2>1, AppendProperties, LenProperties
  <2>4. 1 .. (Len(old) + 1) = (1 .. Len(old)) \cup {Len(old) + 1}
    BY <2>3
  <2> QED
    BY <2>1, <2>2, <2>3, <2>4
<1>4. /\ c \in Live /\ Live' = Live /\ ~Attached(t)
      /\ coordinators' = [coordinators EXCEPT ![c] = Bump(Projected(records, co))]
      /\ records' = [u \in Task |-> IF u \in Agents(c) \cup {t} /\ records[u].status # "free"
                                    THEN [records[u] EXCEPT !.approved = u \in approved]
                                    ELSE records[u]]
  BY <1>2 DEF AttachTask, Live
<1>5. \A u \in Agents(c) \cup {t} : u \in Task /\ records[u].status # "free"
  BY <1>4, OneOwner DEF AttachTask
<1> HIDE DEF new, co, approved
<1>6. \A u \in Agents(c) \cup {t} : /\ records'[u].approved = (u \in approved)
                                    /\ records'[u].files = records[u].files
  BY <1>1, <1>4, <1>5 DEF TaskRecord
<1>7. Agents(c)' = Agents(c) \cup {t}
  <2>1. coordinators'[c].agents = Projected(records, co).agents
    <3>1. Projected(records, co) \in CoordinatorRecord
      BY <1>1, <1>2, ProjectedType
    <3> QED
      BY <1>1, <1>4, <3>1 DEF Bump, CoordinatorRecord
  <2>2. SameTasks(coordinators'[c].agents, new)
    BY <1>1, <1>2, <2>1, ProjectedTasks
  <2> QED
    BY <1>3, <2>2 DEF SameTasks, Agents
<1>8. Apart(records', Agents(c) \cup {t})
  <2> SUFFICES ASSUME NEW u \in Agents(c) \cup {t}, NEW v \in Agents(c) \cup {t}, u # v,
                      records'[u].approved, records'[v].approved
               PROVE  ~Within(records'[u].files, records'[v].files)
    BY DEF Apart
  <2>1. u \in ApprovedAgents(records, new) /\ v \in ApprovedAgents(records, new)
    BY <1>6 DEF approved
  <2>2. ~Within(records[u].files, records[v].files)
    BY <1>1, <1>2, <2>1, ApprovedApart
  <2> QED
    BY <1>6, <2>2
<1>9. ASSUME NEW d \in Live, d # c PROVE Agents(d)' = Agents(d) /\ Apart(records', Agents(d))
  <2>1. coordinators'[d] = coordinators[d]
    BY <1>1, <1>4, <1>9 DEF Live
  <2>2. \A u \in Agents(d) : u \in Task /\ u \notin Agents(c) \cup {t}
    BY <1>4, <1>9, OneOwner DEF Attached
  <2>3. \A u \in Agents(d) : records'[u] = records[u]
    BY <1>4, <2>2
  <2> QED
    BY <2>1, <2>3 DEF Agents, Apart, ApprovedNotNested
<1> QED
  BY <1>4, <1>7, <1>8, <1>9, NextApart

LEMMA ReadParts ==
  ASSUME StoreInv, ApprovedNotNested, ReadStep
  PROVE  ApprovedNotNested'
<1>1. PICK cs \in SUBSET Live, cleared \in SUBSET Live :
        /\ UNCHANGED <<slots, revisionSeq, spent>>
        /\ records' = Approve(records, cs)
        /\ coordinators' = [c \in Coordinator |->
             IF c \in cleared THEN [Refreshed(cs, c) EXCEPT !.changed = FALSE]
                              ELSE Refreshed(cs, c)]
  BY ReadKeeps
<1>2. records \in [Task -> TaskRecord] /\ Live' = Live
  BY <1>1 DEF StoreInv, TypeOK, Live
<1>3. ASSUME NEW c \in Live PROVE Agents(c)' = Agents(c)
  <2>1. c \in Coordinator /\ coordinators[c] \in CoordinatorRecord
    BY DEF Live, StoreInv, TypeOK
  <2>2. SameTasks(Refreshed(cs, c).agents, coordinators[c].agents)
    BY <1>2, <2>1, ProjectedTasks DEF Refreshed, SameTasks
  <2>3. Refreshed(cs, c) \in CoordinatorRecord
    BY <1>2, <2>1, ProjectedType DEF Refreshed
  <2>4. coordinators'[c].agents = Refreshed(cs, c).agents
    BY <1>1, <2>1, <2>3 DEF CoordinatorRecord
  <2> QED
    BY <2>2, <2>4, SameAgents
<1>4. ASSUME NEW c \in Live PROVE Apart(records', Agents(c))
  BY <1>1, <1>2, OneOwner, ApproveParts
<1> QED
  BY <1>2, <1>3, <1>4, NextApart

LEMMA ReclaimParts ==
  ASSUME StoreInv, ApprovedNotNested, NEW c \in Coordinator, NEW chat \in Chat,
         StartByReclaim(c, chat)
  PROVE  ApprovedNotNested'
<1> DEFINE victim == slots[First(ReusableSlots)]
           recs   == Approve(records, Scanned)
<1>1. /\ FreeSlots = {} /\ ReusableSlots # {}
      /\ records' = [t \in Task |->
            IF t \in Agents(victim) /\ Ended(recs[t]) THEN FreeRecord ELSE recs[t]]
      /\ \A d \in Coordinator : coordinators'[d] =
            IF d = c THEN NewCoordinator(chat, revisionSeq)
            ELSE IF d = victim THEN Blank ELSE Refreshed(Scanned, d)
  BY DEF StartByReclaim, Refreshed
<1>2. /\ records \in [Task -> TaskRecord] /\ coordinators \in [Coordinator -> CoordinatorRecord]
      /\ slots \in [Slot -> Coordinator \cup {None}]
  BY DEF StoreInv, TypeOK
<1>3. victim \in Live
  BY <1>1, FirstIsIn DEF ReusableSlots, Live
<1>4. Scanned \subseteq Live
  BY <1>1, <1>2 DEF Scanned, FreeSlots, Live
<1>5. \A d \in Live' : d \in Coordinator /\ (d # c => d \in Live)
  BY ReclaimKeeps DEF Live
<1> HIDE DEF victim, recs
<1>6. NewCoordinator(chat, revisionSeq).agents = <<>> /\ Blank.agents = <<>>
  BY DEF NewCoordinator, Blank
<1>7. ASSUME NEW d \in Live', d = c \/ d = victim PROVE Agents(d)' = {}
  <2>1. coordinators'[d].agents = <<>>
    BY <1>1, <1>5, <1>6, <1>7
  <2> QED
    BY <2>1 DEF Agents
<1>8. ASSUME NEW d \in Live', d # c, d # victim
      PROVE  Agents(d)' = Agents(d) /\ Apart(records', Agents(d))
  <2>1. d \in Live /\ d \in Coordinator /\ coordinators'[d] = Refreshed(Scanned, d)
    BY <1>1, <1>5, <1>8
  <2>2. SameTasks(coordinators'[d].agents, coordinators[d].agents)
    BY <1>2, <2>1, ProjectedTasks DEF Refreshed, SameTasks
  <2>3. Apart(recs, Agents(d))
    BY <1>2, <1>4, <2>1, OneOwner, ApproveParts DEF recs
  <2>4. \A t \in Agents(d) : records'[t] = recs[t]
    BY <1>1, <1>3, <1>8, <2>1, OneOwner
  <2> QED
    BY <2>2, <2>3, <2>4, SameAgents DEF Apart
<1>9. \A d \in Live' : Apart(records', Agents(d)')
  BY <1>7, <1>8 DEF Apart
<1> QED
  BY <1>9, NextApart

\* A step that leaves the records and who shows which parts them as before.
LEMMA UntouchedParts ==
  ASSUME ApprovedNotNested, UNCHANGED <<records, slots>>,
         \A d \in Live : coordinators'[d].agents = coordinators[d].agents
  PROVE  ApprovedNotNested'
<1>1. Live' = Live /\ \A d \in Live : Agents(d)' = Agents(d)
  BY DEF Live, Agents
<1>2. \A d \in Live : Apart(records', Agents(d))
  BY DEF Apart, ApprovedNotNested
<1> QED
  BY <1>1, <1>2, NextApart

LEMMA FreeSlotParts ==
  ASSUME StoreInv, ApprovedNotNested, NEW c \in Coordinator, NEW chat \in Chat,
         StartInFreeSlot(c, chat)
  PROVE  ApprovedNotNested'
<1>1. /\ records' = records /\ Live' = Live \cup {c} /\ c \notin Live
      /\ \A d \in Coordinator : d # c => coordinators'[d] = coordinators[d]
  BY StartFreeKeeps
<1>2. coordinators'[c].agents = <<>>
  BY NewCoordinatorType DEF StartInFreeSlot, StoreInv, TypeOK
<1>3. Agents(c)' = {}
  BY <1>2 DEF Agents
<1>4. ASSUME NEW d \in Live PROVE Agents(d)' = Agents(d) /\ Apart(records', Agents(d))
  <2>1. coordinators'[d] = coordinators[d]
    BY <1>1 DEF Live
  <2> QED
    BY <1>1, <2>1 DEF Agents, Apart, ApprovedNotNested
<1>5. \A d \in Live' : Apart(records', Agents(d)')
  BY <1>1, <1>3, <1>4 DEF Apart
<1> QED
  BY <1>5, NextApart

LEMMA StepParts ==
  ASSUME StoreInv, ApprovedNotNested, TableStep \/ UNCHANGED storeVars
  PROVE  ApprovedNotNested'
<1>1. ASSUME NEW t \in Task, NEW c \in Coordinator, NEW implement \in BOOLEAN,
             Plan(c, t, implement)
      PROVE  ApprovedNotNested'
  <2>1. /\ NewRecord("queued", c, implement) \in TaskRecord
        /\ NewRecord("queued", c, implement).status # "free"
    BY StoreAssumption DEF NewRecord, FreeRecord, TaskRecord, TaskStatus
  <2>2. Write(t, NewRecord("queued", c, implement)) /\ records[t].status = "free"
    BY <1>1 DEF Plan, StoreInv, KnownIds
  <2> QED
    BY <2>1, <2>2, WriteParts
<1>2. ASSUME NEW t \in Task, TaskUpdate(t) PROVE ApprovedNotNested'
  <2>1. PICK r : UpdateOf(t, r)
    BY <1>2, TaskUpdateKeeps
  <2> QED
    BY <2>1, WriteParts DEF UpdateOf
<1>3. ASSUME \/ \E c \in Coordinator : MarkStep(c)
             \/ \E chat \in Chat : MarkParentResponseSent(chat)
      PROVE  ApprovedNotNested'
  <2>1. /\ records' = records /\ slots' = slots
        /\ \A d \in Coordinator : Shown(coordinators'[d]) = Shown(coordinators[d])
    BY <1>3, MarkKeeps, ResponseKeeps
  <2>2. \A d \in Live : coordinators'[d].agents = coordinators[d].agents
    BY <2>1 DEF Live, Shown
  <2> QED
    BY <2>1, <2>2, UntouchedParts
<1>4. CASE TableStep
  BY <1>1, <1>2, <1>3, <1>4, FreeSlotParts, StartParts, AttachParts, ReadParts, ReclaimParts
     DEF TableStep
<1>5. CASE UNCHANGED storeVars
  BY <1>5, UntouchedParts DEF storeVars
<1> QED
  BY <1>4, <1>5

\* However tasks are written, attached and read, two of them are approved for
\* one coordinator only if neither list of files contains the other.
THEOREM ApprovalsApart == Spec => []ApprovedNotNested
<1>1. Init => ApprovedNotNested
  BY StoreAssumption DEF Init, Live, ApprovedNotNested
<1>2. StoreInv /\ ApprovedNotNested /\ [Next]_storeVars => ApprovedNotNested'
  BY StepKinds, StepParts
<1> QED
  BY <1>1, <1>2, StoreInvariant, PTL DEF Spec

=============================================================================
