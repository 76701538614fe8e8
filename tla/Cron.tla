-------------------------------- MODULE Cron --------------------------------
(***************************************************************************)
(* The timer service: a table of jobs, its file, the thread that fires     *)
(* what is due, the cron tool that adds and removes, and the heartbeat.    *)
(* The table has no lock. The thread looks at a job, waits up to a second  *)
(* for room in the inbound queue, and goes on with the same index; every   *)
(* change is followed by writing the whole file, which is emptied first.   *)
(* A record of the table is read and written in one step. Overlap = FALSE   *)
(* keeps calls of the tool and scans of the table apart.                    *)
(***************************************************************************)
EXTENDS HostClock, Sequences, FiniteSetsExt

CONSTANTS
    Ids,            \* ids that platform_random hands out, never twice
    Requests,       \* what the tool may be asked to add
    DefaultTarget,  \* is a default Feishu chat configured?
    MaxJobs,        \* CRON_MAX_JOBS
    FileLimit,      \* how many jobs the 8192 bytes that are loaded can hold
    QueueLen,       \* BUS_QUEUE_LEN
    DayLength,      \* time units of a day, 86400 in the code
    MaxTime,        \* bound: the clock stops here
    MaxCrashes      \* bound: how often the process dies

ASSUME CronAssumption ==
    /\ {MaxJobs, FileLimit, QueueLen, DayLength} \subseteq Nat \ {0}
    /\ {MaxTime, MaxCrashes} \subseteq Nat
    /\ DefaultTarget \in BOOLEAN

VARIABLES
    slots,      \* s_jobs; what lies past the count is left over
    count,      \* s_job_count
    file,       \* cron.json; an empty or unreadable file is no jobs
    inbound,    \* the inbound queue of the bus
    cron,       \* locals of the cron thread
    tool,       \* locals of the threads in the tool
    spent,      \* ids handed out
    lastFire,   \* the model's own: when a job was added or last sent, after a crash as the file has it
    crashes

cronVars == <<clock, slots, count, file, inbound, cron, tool, spent, lastFire, crashes>>

Kinds == {"every", "at", "daily", "weekly"}

\* What the tool's arguments can say, before it looks whether they make sense.
ASSUME RequestAssumption ==
    \A r \in Requests : /\ r.kind \in Kinds /\ r.when \in Nat
                        /\ r.days \subseteq 0..6 /\ r.once \in BOOLEAN

NoJob == [id |-> "", kind |-> "every", when |-> 0, days |-> {}, once |-> FALSE,
          route |-> <<"system", "cron">>, enabled |-> FALSE, last |-> 0, next |-> 0]
Asleep == [at |-> "sleep", i |-> 0, now |-> 0, job |-> NoJob, changed |-> FALSE, saving |-> <<>>]
Idle == [at |-> "idle", job |-> NoJob, saving |-> <<>>]

-----------------------------------------------------------------------------
(* Times and destinations                                                  *)

Weekday(t) == (t \div DayLength) % 7

\* The first moment after a time with the given time of day on one of the days.
NextLocal(after, tod, days) ==
    LET wanted == IF days = {} THEN 0..6 ELSE days
        offsets == {k \in 0..7 : Weekday(after + k * DayLength) \in wanted}
        candidates == {(after \div DayLength + k) * DayLength + tod : k \in offsets}
    IN  IF tod >= DayLength THEN 0 ELSE Min({t \in candidates : t > after})

\* Where the reply of a job goes: a chat that does not exist becomes system:cron.
Sanitised(route) ==
    LET channel == IF route[1] = "" THEN "system" ELSE route[1]
        chat == IF channel = "feishu" /\ route[2] \in {"", "cron"} /\ DefaultTarget
                THEN "default" ELSE route[2]
    IN  IF channel \notin {"websocket", "feishu", "system"}
             \/ chat = "" \/ (channel # "system" /\ chat = "cron")
        THEN <<"system", "cron">> ELSE <<channel, chat>>

\* The tool refuses a chat channel without a chat and a time in the past.
Acceptable(r) ==
    /\ \/ r.route[1] \notin {"websocket", "feishu"}
       \/ r.route[2] \notin {"", "cron"}
       \/ r.route[1] = "feishu" /\ DefaultTarget
    /\ CASE r.kind = "every" -> r.when > 0
         [] r.kind = "at" -> r.when > clock
         [] OTHER -> r.when < DayLength /\ r.days # {}

NextRun(job, now) ==
    CASE job.kind = "every" -> now + job.when
      [] job.kind = "at" -> IF job.when > now THEN job.when ELSE 0
      [] OTHER -> NextLocal(now, job.when, job.days)

NewJob(id, r) ==
    LET next == NextRun(r, clock)
    IN  [id |-> id, kind |-> r.kind, when |-> r.when, days |-> r.days, once |-> r.once,
         route |-> Sanitised(r.route), enabled |-> next > 0, last |-> 0, next |-> next]

-----------------------------------------------------------------------------
(* Table and file                                                          *)

Table == SubSeq(slots, 1, count)
IdsOf(jobs) == {jobs[k].id : k \in DOMAIN jobs}

Shifted_OneShort(i) == [k \in DOMAIN slots |-> IF i < k /\ k < count THEN slots[k + 1] ELSE slots[k]]

\* The jobs behind i move up; the last one stays behind as well, past the count.
Shifted(i) == [k \in DOMAIN slots |-> IF i <= k /\ k < count THEN slots[k + 1] ELSE slots[k]]

Put(n, job) == [k \in DOMAIN slots |-> IF k = n THEN job ELSE slots[k]]

Written_Lost(saving) == file

\* What the file holds after a write that began with an empty file: the rest of
\* a longer text another thread wrote in between makes it unreadable.
Written(saving) == IF Len(file) > Len(saving) THEN <<>> ELSE saving

\* A file that is too long, empty or cut short is read as no jobs.
Loaded(f) == IF Len(f) > FileLimit THEN <<>> ELSE SubSeq(f, 1, Min({Len(f), MaxJobs}))

\* Starting gives a job without a time a time.
Started(job) ==
    IF job.enabled /\ job.next <= 0 THEN [job EXCEPT !.next = NextRun(job, clock)] ELSE job

LastRun(jobs, id) == IF id \in IdsOf(jobs) THEN jobs[CHOOSE k \in DOMAIN jobs : jobs[k].id = id].last ELSE 0

Padded(jobs) == [k \in 1..MaxJobs |-> IF k <= Len(jobs) THEN jobs[k] ELSE NoJob]

-----------------------------------------------------------------------------
(* The cron thread                                                         *)

ScanMayBegin == Overlap \/ \A c \in Callers : tool[c].at = "idle"
ToolMayBegin == Overlap \/ (cron.at = "sleep" /\ \A c \in Callers : tool[c].at = "idle")

Due(job) == job.enabled /\ job.next > 0 /\ job.next <= cron.now

Wake ==
    /\ cron.at = "sleep"
    /\ ScanMayBegin
    /\ cron' = [Asleep EXCEPT !.at = "scan", !.i = 1, !.now = clock]
    /\ UNCHANGED <<clock, slots, count, file, inbound, tool, spent, lastFire, crashes>>

\* The next job: passed over, or its message is made up and about to be sent.
Look ==
    /\ cron.at = "scan"
    /\ cron.i <= count
    /\ cron' = IF Due(slots[cron.i]) THEN [cron EXCEPT !.at = "push", !.job = slots[cron.i]]
                                     ELSE [cron EXCEPT !.i = @ + 1]
    /\ UNCHANGED <<clock, slots, count, file, inbound, tool, spent, lastFire, crashes>>

\* The message is queued, or dropped after a second in front of a full queue.
Fire ==
    /\ cron.at = "push"
    /\ \/ /\ Len(inbound) < QueueLen
          /\ inbound' = Append(inbound, [source |-> "cron", id |-> cron.job.id, route |-> cron.job.route])
       \/ /\ Len(inbound) = QueueLen
          /\ UNCHANGED inbound
    /\ cron' = [cron EXCEPT !.at = "update"]
    /\ lastFire' = [lastFire EXCEPT ![cron.job.id] = cron.now]
    /\ UNCHANGED <<clock, slots, count, file, tool, spent, crashes>>

Rolled_FromPlan(job) ==
    IF job.kind = "at" THEN [job EXCEPT !.last = cron.now, !.enabled = FALSE, !.next = 0]
    ELSE [job EXCEPT !.last = cron.now, !.next = NextRun(job, job.next)]

\* A job that goes on: the next time is counted from this firing.
Rolled(job) ==
    IF job.kind = "at" THEN [job EXCEPT !.last = cron.now, !.enabled = FALSE, !.next = 0]
    ELSE [job EXCEPT !.last = cron.now, !.next = NextRun(job, cron.now)]

\* Whatever lies at the index now is taken to be the job that was sent.
Update ==
    /\ cron.at = "update"
    /\ LET job == slots[cron.i]
       IN  IF job.kind = "at" /\ job.once
           THEN /\ slots' = Shifted(cron.i)
                /\ count' = count - 1
                /\ cron' = [cron EXCEPT !.at = "scan", !.changed = TRUE]
           ELSE /\ slots' = Put(cron.i, Rolled(job))
                /\ cron' = [cron EXCEPT !.at = "scan", !.changed = TRUE, !.i = @ + 1]
                /\ UNCHANGED count
    /\ UNCHANGED <<clock, file, inbound, tool, spent, lastFire, crashes>>

EndOfScan ==
    /\ cron.at = "scan"
    /\ cron.i > count
    /\ IF cron.changed THEN cron' = [cron EXCEPT !.at = "write", !.saving = Table] /\ file' = <<>>
                       ELSE cron' = Asleep /\ UNCHANGED file
    /\ UNCHANGED <<clock, slots, count, inbound, tool, spent, lastFire, crashes>>

WriteScan ==
    /\ cron.at = "write"
    /\ file' = Written(cron.saving)
    /\ cron' = Asleep
    /\ UNCHANGED <<clock, slots, count, inbound, tool, spent, lastFire, crashes>>

-----------------------------------------------------------------------------
(* The tool                                                                *)

\* The job is put behind the last one; the count follows.
AddCopy(c) ==
    /\ tool[c].at = "idle"
    /\ ToolMayBegin
    /\ count < MaxJobs
    /\ \E r \in {q \in Requests : Acceptable(q)}, id \in Ids \ spent :
         /\ slots' = Put(count + 1, NewJob(id, r))
         /\ tool' = [tool EXCEPT ![c] = [Idle EXCEPT !.at = "count", !.job = NewJob(id, r)]]
         /\ spent' = spent \cup {id}
         /\ lastFire' = [lastFire EXCEPT ![id] = clock]
    /\ UNCHANGED <<clock, count, file, inbound, cron, crashes>>

AddCount(c) ==
    /\ tool[c].at = "count"
    /\ count' = count + 1
    /\ tool' = [tool EXCEPT ![c].at = "open"]
    /\ UNCHANGED <<clock, slots, file, inbound, cron, spent, lastFire, crashes>>

\* The first job with the id goes; an id that is not there changes nothing.
RemoveJob(c) ==
    /\ tool[c].at = "idle"
    /\ ToolMayBegin
    /\ \E i \in 1..count :
         /\ \A k \in 1..(i - 1) : slots[k].id # slots[i].id
         /\ slots' = Shifted(i)
         /\ tool' = [tool EXCEPT ![c] = [Idle EXCEPT !.at = "open", !.job = slots[i]]]
    /\ count' = count - 1
    /\ UNCHANGED <<clock, file, inbound, cron, spent, lastFire, crashes>>

OpenFile(c) ==
    /\ tool[c].at = "open"
    /\ file' = <<>>
    /\ tool' = [tool EXCEPT ![c].at = "write", ![c].saving = Table]
    /\ UNCHANGED <<clock, slots, count, inbound, cron, spent, lastFire, crashes>>

WriteFile(c) ==
    /\ tool[c].at = "write"
    /\ file' = Written(tool[c].saving)
    /\ tool' = [tool EXCEPT ![c] = Idle]
    /\ UNCHANGED <<clock, slots, count, inbound, cron, spent, lastFire, crashes>>

-----------------------------------------------------------------------------
(* Surroundings                                                            *)

\* The heartbeat's timer: a message if the file of tasks has an open one.
Heartbeat ==
    /\ Len(inbound) < QueueLen
    /\ ~\E k \in DOMAIN inbound : inbound[k].source = "heartbeat"  \* bound: one in the queue
    /\ inbound' = Append(inbound, [source |-> "heartbeat", id |-> "", route |-> <<"system", "heartbeat">>])
    /\ UNCHANGED <<clock, slots, count, file, cron, tool, spent, lastFire, crashes>>

LoopTakes ==
    /\ inbound # <<>>
    /\ inbound' = Tail(inbound)
    /\ UNCHANGED <<clock, slots, count, file, cron, tool, spent, lastFire, crashes>>

CronTick ==
    /\ Tick(MaxTime)
    /\ UNCHANGED <<slots, count, file, inbound, cron, tool, spent, lastFire, crashes>>

\* The process dies and starts again: the file is all that is left.
Restart ==
    /\ crashes < MaxCrashes
    /\ crashes' = crashes + 1
    /\ LET jobs == Loaded(file)
       IN  /\ slots' = [k \in 1..MaxJobs |-> Started(Padded(jobs)[k])]
           /\ count' = Len(jobs)
           /\ lastFire' = [id \in Ids |-> LastRun(jobs, id)]
    /\ inbound' = <<>>
    /\ cron' = Asleep
    /\ tool' = [c \in Callers |-> Idle]
    /\ UNCHANGED <<clock, file, spent>>

CronInit ==
    /\ clock = 1
    /\ slots = [k \in 1..MaxJobs |-> NoJob]
    /\ count = 0
    /\ file = <<>>
    /\ inbound = <<>>
    /\ cron = Asleep
    /\ tool = [c \in Callers |-> Idle]
    /\ spent = {}
    /\ lastFire = [id \in Ids |-> 0]
    /\ crashes = 0

CronThread == Wake \/ Look \/ Fire \/ Update \/ EndOfScan \/ WriteScan
Caller(c) == AddCopy(c) \/ AddCount(c) \/ RemoveJob(c) \/ OpenFile(c) \/ WriteFile(c)

CronNext ==
    \/ CronThread
    \/ \E c \in Callers : Caller(c)
    \/ Heartbeat \/ LoopTakes \/ CronTick \/ Restart

CronSpec == CronInit /\ [][CronNext]_cronVars

-----------------------------------------------------------------------------
(* Properties                                                              *)

\* A job leaves the table because it was removed by its id or because it was a
\* one-shot job that has just been sent ("remove a job by its id", "remove the
\* job after it ran"), and for no other job's sake.
NothingElseVanishes ==
    [][\A id \in IdsOf(Table) \ IdsOf(Table)' :
          \/ \E c \in Callers : tool[c].at = "idle" /\ tool'[c].at = "open" /\ tool'[c].job.id = id
          \/ cron.at = "update" /\ cron.job.id = id
          \/ crashes' # crashes]_cronVars

\* Whenever no scan and no call of the tool is under way, a restart would find
\* the very jobs of the table, with the times they have now.
SavedIsCurrent ==
    (cron.at = "sleep" /\ \A c \in Callers : tool[c].at = "idle") => Loaded(file) = Table

\* A job is sent once for each time it is due: at least an interval after it was
\* sent last, at its one moment, or for a day and hour not sent before. After a
\* restart "before" is what the file remembers.
Timely(job, before) ==
    CASE job.kind = "every" -> cron.now >= before + job.when
      [] job.kind = "at" -> before < job.when /\ job.when <= cron.now
      [] OTHER -> \E t \in (before + 1)..cron.now : t % DayLength = job.when /\ Weekday(t) \in job.days
FiresOnSchedule ==
    [][(cron.at = "push" /\ cron'.at = "update") => Timely(cron.job, lastFire[cron.job.id])]_cronVars

=============================================================================
