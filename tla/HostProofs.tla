------------------------------ MODULE HostProofs ------------------------------
(***************************************************************************)
(* What the two users of the host's clock keep.                            *)
(*                                                                         *)
(* Cron: the timer service, for any number of jobs, callers, days and      *)
(* deaths of the process, as long as no call of the tool overlaps a scan   *)
(* of the table or another call (JobsInv).                                 *)
(*                                                                         *)
(* FileEdits: the file tools, for every number of files, callers,          *)
(* checkpoints and prints, as long as calls do not overlap and a path gets *)
(* one checkpoint in a second: what was replaced is in a checkpoint        *)
(* (KeptInv), a restoring writes it back (UndoInv), and what was read is   *)
(* not edited blindly (PrintInv).                                          *)
(***************************************************************************)
EXTENDS Cron, FileEdits, SequenceTheorems, FiniteSetTheorems, WellFoundedInduction, TLAPS

-----------------------------------------------------------------------------
(*                           The timer service.                            *)

-----------------------------------------------------------------------------
(* The next day that fits. *)

LEMMA LeastOfEight ==
  ASSUME NEW K \in SUBSET (0..7), K # {}
  PROVE  \E m \in K : \A k \in K : m <= k
<1> DEFINE First(i) == i \in K /\ \A k \in K : i <= k
<1>1. First(0) \/ (First(1) \/ \A k \in K : 2 <= k)
  OBVIOUS
<1>2. (\A k \in K : 2 <= k) => First(2) \/ First(3) \/ \A k \in K : 4 <= k
  OBVIOUS
<1>3. (\A k \in K : 4 <= k) => First(4) \/ First(5) \/ \A k \in K : 6 <= k
  OBVIOUS
<1>4. (\A k \in K : 6 <= k) => First(6) \/ First(7)
  <2>1. PICK x \in K : x \in 0..7
    OBVIOUS
  <2>2. CASE 6 \in K
    BY <2>2
  <2>3. CASE 6 \notin K
    BY <2>1, <2>3
  <2> QED
    BY <2>2, <2>3
<1> QED
  BY <1>1, <1>2, <1>3, <1>4

LEMMA DayAndTime ==
  ASSUME NEW D \in Nat \ {0}, NEW q \in Nat, NEW t \in 0..(D - 1)
  PROVE  q * D + t \in Nat /\ (q * D + t) \div D = q /\ (q * D + t) % D = t
OBVIOUS

LEMMA DayOf ==
  ASSUME NEW D \in Nat \ {0}, NEW a \in Nat
  PROVE  a \div D \in Nat /\ a < ((a \div D) + 1) * D
OBVIOUS

LEMMA SomeDayFits ==
  ASSUME NEW w \in Nat, NEW d \in 0..6 PROVE \E k \in 1..7 : (w + k) % 7 = d
<1> DEFINE k == IF d > w % 7 THEN d - (w % 7) ELSE d - (w % 7) + 7
<1>1. k \in 1..7 /\ (w + k) % 7 = d
  OBVIOUS
<1> QED
  BY <1>1

LEMMA DaysOn ==
  ASSUME NEW D \in Nat \ {0}, NEW a \in Nat, NEW k \in Nat
  PROVE  (a + k * D) \div D = (a \div D) + k
OBVIOUS

\* The next run of a daily or weekly job lies ahead, at its hour, on one of its days.
LEMMA NextLocalFits ==
  ASSUME NEW after \in Nat, NEW tod \in 0..(DayLength - 1), NEW days \in SUBSET (0..6)
  PROVE  /\ NextLocal(after, tod, days) \in Nat
         /\ NextLocal(after, tod, days) > after
         /\ NextLocal(after, tod, days) % DayLength = tod
         /\ days # {} => Weekday(NextLocal(after, tod, days)) \in days
<1> DEFINE D == DayLength
           q == after \div D
           wanted == IF days = {} THEN 0..6 ELSE days
           offsets == {k \in 0..7 : Weekday(after + k * D) \in wanted}
           at(k) == (q + k) * D + tod
           ahead == {k \in offsets : at(k) > after}
           candidates == {at(k) : k \in offsets}
           C == {t \in candidates : t > after}
<1>1. D \in Nat \ {0}
  BY CronAssumption
<1>2. q \in Nat /\ after < (q + 1) * D
  BY <1>1, DayOf
<1>3. \A k \in 0..7 : Weekday(after + k * D) = (q + k) % 7
  <2> SUFFICES ASSUME NEW k \in 0..7 PROVE Weekday(after + k * D) = (q + k) % 7
    OBVIOUS
  <2>1. k \in Nat
    OBVIOUS
  <2>2. (after + k * D) \div D = q + k
    BY <1>1, <2>1, DaysOn
  <2> QED
    BY <2>2 DEF Weekday
<1>4. \A k \in 0..7 : at(k) \in Nat /\ at(k) \div D = q + k /\ at(k) % D = tod
  <2> SUFFICES ASSUME NEW k \in 0..7
               PROVE  (q + k) * D + tod \in Nat /\ ((q + k) * D + tod) \div D = q + k /\ ((q + k) * D + tod) % D = tod
    OBVIOUS
  <2> DEFINE whole == q + k
  <2>1. whole \in Nat
    BY <1>2
  <2> HIDE DEF whole
  <2>2. whole * D + tod \in Nat /\ (whole * D + tod) \div D = whole /\ (whole * D + tod) % D = tod
    BY <1>1, <2>1, DayAndTime
  <2> QED
    BY <2>2 DEF whole
<1>5. PICK d \in wanted : d \in 0..6
  OBVIOUS
<1>6. PICK k1 \in 1..7 : (q + k1) % 7 = d
  BY <1>2, SomeDayFits
<1>7. k1 \in ahead
  <2>1. k1 \in offsets
    BY <1>3, <1>6
  <2>2. at(k1) >= (q + 1) * D
    <3>1. (q + k1) * D >= (q + 1) * D
      BY <1>1, <1>2
    <3> QED
      BY <1>1, <1>2, <3>1
  <2> QED
    BY <1>1, <1>2, <1>4, <2>1, <2>2
<1>8. PICK m \in ahead : \A k \in ahead : m <= k
  BY <1>7, LeastOfEight
<1>9. \A k \in ahead : at(m) <= at(k)
  BY <1>1, <1>2, <1>8
<1>10. at(m) \in C /\ \A t \in C : at(m) <= t
  BY <1>9
<1>11. Min(C) \in C
  BY <1>10 DEF Min
<1>12. NextLocal(after, tod, days) = Min(C)
  BY <1>1 DEF NextLocal
<1>13. PICK k \in offsets : Min(C) = at(k)
  BY <1>11
<1>14. k \in 0..7 /\ (q + k) % 7 \in wanted
  BY <1>3
<1>15. Min(C) \in Nat /\ Min(C) > after /\ Min(C) % D = tod /\ Weekday(Min(C)) \in wanted
  <2>1. Min(C) > after
    BY <1>11
  <2>2. at(k) \in Nat /\ at(k) \div D = q + k /\ at(k) % D = tod
    BY <1>4, <1>14
  <2> QED
    BY <1>13, <1>14, <2>1, <2>2 DEF Weekday
<1> QED
  BY <1>12, <1>15

-----------------------------------------------------------------------------
(* What a job, the table and the file look like. *)

Routes == {Sanitised(r.route) : r \in Requests} \cup {<<"system", "cron">>}

\* An enabled job has a time, and one of a certain hour has days and an hour of the day.
GoodJobs ==
  {j \in [id : Ids \cup {""}, kind : Kinds, when : Nat, days : SUBSET (0..6), once : BOOLEAN,
          route : Routes, enabled : BOOLEAN, last : Nat, next : Nat] :
     /\ j.enabled => j.next > 0
     /\ j.kind \in {"daily", "weekly"} => j.when < DayLength /\ j.days # {}}

CronTypeOK ==
  /\ clock \in Nat \ {0}
  /\ slots \in [1..MaxJobs -> GoodJobs]
  /\ count \in 0..MaxJobs
  /\ file \in Seq(GoodJobs)
  /\ cron \in [at : {"sleep", "scan", "push", "update", "write"}, i : Nat, now : Nat,
               job : GoodJobs, changed : BOOLEAN, saving : Seq(GoodJobs)]
  /\ tool \in [Callers -> [at : {"idle", "count", "open", "write"}, job : GoodJobs, saving : Seq(GoodJobs)]]

\* One call or one scan at a time.
OneAtATime ==
  \A c \in Callers : tool[c].at # "idle" =>
    /\ cron.at = "sleep"
    /\ \A d \in Callers : tool[d].at # "idle" => d = c

\* The job that is sent is still the one at the index.
ScanOK ==
  /\ cron.at # "sleep" => cron.now > 0 /\ cron.i > 0
  /\ cron.at \in {"push", "update"} => cron.i <= count /\ slots[cron.i] = cron.job

NothingToSave ==
  /\ \A c \in Callers : tool[c].at = "idle"
  /\ cron.at = "sleep" \/ (cron.at \in {"scan", "push", "update"} /\ ~cron.changed)

\* The file is the table unless somebody has changed the table, or it is too long
\* to be loaded; who writes has emptied the file and writes the table.
FileOK ==
  /\ Len(file) <= MaxJobs
  /\ NothingToSave /\ MaxJobs <= FileLimit => file = Table
  /\ cron.at = "write" => file = <<>> /\ cron.saving = Table
  /\ \A c \in Callers : tool[c].at = "write" => file = <<>> /\ tool[c].saving = Table
  /\ \A c \in Callers : tool[c].at = "count" => count < MaxJobs

JobsInv == CronTypeOK /\ OneAtATime /\ ScanOK /\ FileOK

LEMMA Prefix ==
  ASSUME NEW S, NEW n \in Nat, NEW s \in [1..n -> S], NEW m \in 0..n
  PROVE  /\ SubSeq(s, 1, m) \in Seq(S)
         /\ Len(SubSeq(s, 1, m)) = m
         /\ \A k \in 1..m : SubSeq(s, 1, m)[k] = s[k]
<1>1. s \in Seq(S) /\ Len(s) = n
  BY SeqDef, LenProperties
<1> QED
  BY <1>1, SubSeqProperties

LEMMA SamePrefix ==
  ASSUME NEW S, NEW n \in Nat, NEW s \in [1..n -> S], NEW t \in Seq(S), Len(t) <= n,
         \A k \in 1..Len(t) : s[k] = t[k]
  PROVE  SubSeq(s, 1, Len(t)) = t
<1>1. Len(t) \in 0..n
  BY LenProperties
<1> QED
  BY <1>1, Prefix, SeqEqual

LEMMA TableShape ==
  ASSUME CronTypeOK
  PROVE  /\ Table \in Seq(GoodJobs) /\ Len(Table) = count
         /\ \A k \in 1..count : Table[k] = slots[k]
         /\ IdsOf(Table) = {slots[k].id : k \in 1..count}
<1>1. MaxJobs \in Nat
  BY CronAssumption
<1>2. /\ Table \in Seq(GoodJobs) /\ Len(Table) = count
      /\ \A k \in 1..count : Table[k] = slots[k]
  BY <1>1, Prefix DEF CronTypeOK, Table
<1>3. DOMAIN Table = 1..count
  BY <1>2, LenProperties
<1> QED
  BY <1>2, <1>3 DEF IdsOf

LEMMA NoJobIsGood == NoJob \in GoodJobs
BY DEF NoJob, GoodJobs, Kinds, Routes

LEMMA NoCallsMade == Asleep.at = "sleep" /\ Idle.at = "idle"
BY DEF Asleep, Idle

LEMMA LocalsAtRest ==
  /\ Asleep \in [at : {"sleep", "scan", "push", "update", "write"}, i : Nat, now : Nat,
                 job : GoodJobs, changed : BOOLEAN, saving : Seq(GoodJobs)]
  /\ Idle \in [at : {"idle", "count", "open", "write"}, job : GoodJobs, saving : Seq(GoodJobs)]
<1>1. <<>> \in Seq(GoodJobs)
  BY EmptySeq
<1> QED
  BY <1>1, NoJobIsGood DEF Asleep, Idle

LEMMA JobFields ==
  ASSUME NEW job \in GoodJobs
  PROVE  /\ job.kind \in Kinds /\ job.when \in Nat /\ job.days \in SUBSET (0..6)
         /\ job.next \in Nat /\ job.last \in Nat
         /\ job.enabled => job.next > 0
         /\ job.kind \in {"daily", "weekly"} => job.when < DayLength /\ job.days # {}
BY DEF GoodJobs

\* A time of the day, and the days, as NextLocalFits wants them.
LEMMA TimeOfDay ==
  ASSUME NEW t \in Nat, t < DayLength PROVE t \in 0..(DayLength - 1)
<1>1. DayLength \in Nat
  BY CronAssumption
<1> QED
  BY <1>1

LEMMA JobOf ==
  ASSUME NEW id \in Ids, NEW kind \in Kinds, NEW when \in Nat, NEW days \in SUBSET (0..6), NEW once \in BOOLEAN,
         NEW route \in Routes, NEW enabled \in BOOLEAN, NEW next \in Nat, enabled => next > 0,
         kind \in {"daily", "weekly"} => when < DayLength /\ days # {}
  PROVE  [id |-> id, kind |-> kind, when |-> when, days |-> days, once |-> once, route |-> route,
          enabled |-> enabled, last |-> 0, next |-> next] \in GoodJobs
BY DEF GoodJobs

\* The job a request becomes.
LEMMA NewJobIsGood ==
  ASSUME NEW r \in Requests, Acceptable(r), NEW id \in Ids, clock \in Nat \ {0}
  PROVE  NewJob(id, r) \in GoodJobs /\ NewJob(id, r).id = id
<1> DEFINE next == NextRun(r, clock)
<1>1. r.kind \in Kinds /\ r.when \in Nat /\ r.days \in SUBSET (0..6) /\ r.once \in BOOLEAN
  BY RequestAssumption
<1>2. r.kind \in {"daily", "weekly"} => r.when < DayLength /\ r.days # {}
  BY DEF Acceptable
<1>3. next \in Nat
  <2>1. CASE r.kind \in {"every", "at"}
    BY <1>1, <2>1 DEF NextRun
  <2>2. CASE r.kind \in {"daily", "weekly"}
    <3>1. r.when \in 0..(DayLength - 1)
      BY <1>1, <1>2, <2>2, TimeOfDay
    <3> QED
      BY <1>1, <2>2, <3>1, NextLocalFits DEF NextRun
  <2> QED
    BY <1>1, <2>1, <2>2 DEF Kinds
<1> DEFINE to == Sanitised(r.route)
           on == next > 0
<1>4. to \in Routes
  BY DEF Routes
<1>5. NewJob(id, r) = [id |-> id, kind |-> r.kind, when |-> r.when, days |-> r.days, once |-> r.once,
                       route |-> to, enabled |-> on, last |-> 0, next |-> next]
  BY DEF NewJob
<1>6. on \in BOOLEAN /\ (on => next > 0)
  OBVIOUS
<1> HIDE DEF next, to, on
<1> QED
  BY <1>1, <1>2, <1>3, <1>4, <1>5, <1>6, JobOf

\* A job that goes on keeps its id and has a time.
LEMMA RolledIsGood ==
  ASSUME NEW job \in GoodJobs, cron.now \in Nat \ {0}
  PROVE  Rolled(job) \in GoodJobs /\ Rolled(job).id = job.id
<1> DEFINE next == NextRun(job, cron.now)
<1>1. CASE job.kind = "at"
  BY <1>1 DEF Rolled, GoodJobs
<1>2. CASE job.kind # "at"
  <2>1. next \in Nat /\ next > 0
    <3>1. CASE job.kind = "every"
      BY <3>1, JobFields DEF NextRun
    <3>2. CASE job.kind # "every"
      <4>1. job.kind \in {"daily", "weekly"}
        BY <1>2, <3>2, JobFields DEF Kinds
      <4>2. job.when \in 0..(DayLength - 1) /\ job.days \in SUBSET (0..6)
        BY <4>1, JobFields, TimeOfDay
      <4>3. next = NextLocal(cron.now, job.when, job.days)
        BY <4>1 DEF NextRun
      <4> QED
        BY <4>2, <4>3, NextLocalFits
    <3> QED
      BY <3>1, <3>2
  <2>2. Rolled(job) = [job EXCEPT !.last = cron.now, !.next = next]
    BY <1>2 DEF Rolled
  <2> HIDE DEF next
  <2> QED
    BY <2>1, <2>2 DEF GoodJobs
<1> QED
  BY <1>1, <1>2

\* Jobs that move up.
LEMMA ShiftedShape ==
  ASSUME CronTypeOK, NEW i \in 1..count
  PROVE  /\ Shifted(i) \in [1..MaxJobs -> GoodJobs]
         /\ \A k \in 1..(count - 1) : Shifted(i)[k] = slots[IF i <= k THEN k + 1 ELSE k]
<1>1. MaxJobs \in Nat \ {0} /\ count \in 0..MaxJobs /\ slots \in [1..MaxJobs -> GoodJobs]
  BY CronAssumption DEF CronTypeOK
<1>2. DOMAIN slots = 1..MaxJobs
  BY <1>1
<1>3. ASSUME NEW k \in 1..MaxJobs PROVE (IF i <= k /\ k < count THEN slots[k + 1] ELSE slots[k]) \in GoodJobs
  <2>1. CASE i <= k /\ k < count
    <3>1. k + 1 \in 1..MaxJobs
      BY <1>1, <2>1
    <3> QED
      BY <1>1, <2>1, <3>1
  <2>2. CASE ~(i <= k /\ k < count)
    BY <1>1, <2>2
  <2> QED
    BY <2>1, <2>2
<1>4. Shifted(i) = [k \in 1..MaxJobs |-> IF i <= k /\ k < count THEN slots[k + 1] ELSE slots[k]]
  BY <1>2 DEF Shifted
<1>5. Shifted(i) \in [1..MaxJobs -> GoodJobs]
  BY <1>3, <1>4
<1>6. ASSUME NEW k \in 1..(count - 1) PROVE Shifted(i)[k] = slots[IF i <= k THEN k + 1 ELSE k]
  <2>1. k \in 1..MaxJobs /\ k < count
    BY <1>1
  <2> QED
    BY <1>4, <2>1
<1> QED
  BY <1>5, <1>6

-----------------------------------------------------------------------------
(* The cron thread. *)

CronLocals == [at : {"sleep", "scan", "push", "update", "write"}, i : Nat, now : Nat,
               job : GoodJobs, changed : BOOLEAN, saving : Seq(GoodJobs)]

\* A step of the scan that leaves the table and the file alone.
LEMMA ScanGoesOn ==
  ASSUME JobsInv, cron.at # "sleep", cron.at # "write",
         UNCHANGED <<clock, slots, count, file, tool>>,
         NEW at \in {"scan", "push", "update"}, NEW i \in Nat \ {0}, NEW job \in GoodJobs,
         cron' = [cron EXCEPT !.at = at, !.i = i, !.job = job],
         at # "scan" => i <= count /\ slots[i] = job
  PROVE  JobsInv'
<1>1. cron \in CronLocals
  BY DEF JobsInv, CronTypeOK, CronLocals
<1>2. cron' \in CronLocals /\ cron'.at = at /\ cron'.i = i /\ cron'.job = job
      /\ cron'.now = cron.now /\ cron'.changed = cron.changed
  BY <1>1 DEF CronLocals
<1>3. CronTypeOK'
  BY <1>2 DEF JobsInv, CronTypeOK, CronLocals
<1>4. \A c \in Callers : tool[c].at = "idle"
  BY DEF JobsInv, OneAtATime
<1>5. OneAtATime' /\ ScanOK'
  BY <1>2, <1>4 DEF JobsInv, OneAtATime, ScanOK
<1>6. cron.at \in {"scan", "push", "update"}
  BY <1>1 DEF CronLocals
<1>7. NothingToSave' => NothingToSave
  BY <1>2, <1>4, <1>6 DEF NothingToSave
<1>8. FileOK'
  BY <1>2, <1>4, <1>7 DEF JobsInv, FileOK, Table
<1> QED
  BY <1>3, <1>5, <1>8 DEF JobsInv

\* A scan begins when no call is under way.
LEMMA WakeKeeps ==
  ASSUME JobsInv, ~Overlap, Wake PROVE JobsInv'
<1>1. cron.at = "sleep" /\ UNCHANGED <<clock, slots, count, file, tool>> /\ \A c \in Callers : tool[c].at = "idle"
  BY DEF Wake, ScanMayBegin
<1>2. Asleep \in CronLocals /\ cron' = [Asleep EXCEPT !.at = "scan", !.i = 1, !.now = clock] /\ clock \in Nat \ {0}
  BY LocalsAtRest DEF Wake, CronLocals, JobsInv, CronTypeOK
<1>3. cron' \in CronLocals /\ cron'.at = "scan" /\ cron'.i = 1 /\ cron'.now = clock
  BY <1>2 DEF CronLocals
<1>4. CronTypeOK'
  BY <1>1, <1>3 DEF JobsInv, CronTypeOK, CronLocals
<1>5. OneAtATime' /\ ScanOK'
  BY <1>1, <1>2, <1>3 DEF OneAtATime, ScanOK
<1>6. FileOK'
  BY <1>1, <1>3 DEF JobsInv, FileOK, NothingToSave, Table
<1> QED
  BY <1>4, <1>5, <1>6 DEF JobsInv

LEMMA LookKeeps ==
  ASSUME JobsInv, Look PROVE JobsInv'
<1>1. cron.at = "scan" /\ cron.i \in 1..count /\ UNCHANGED <<clock, slots, count, file, tool>>
  BY DEF Look, JobsInv, CronTypeOK, ScanOK
<1>2. cron \in CronLocals /\ cron.job \in GoodJobs /\ slots[cron.i] \in GoodJobs
      /\ cron.i \in Nat \ {0} /\ cron.i + 1 \in Nat \ {0} /\ cron.i <= count
  BY <1>1, CronAssumption DEF JobsInv, CronTypeOK, CronLocals
<1>3. CASE Due(slots[cron.i])
  <2>1. cron' = [cron EXCEPT !.at = "push", !.i = cron.i, !.job = slots[cron.i]]
    BY <1>2, <1>3 DEF Look, CronLocals
  <2> QED
    BY <1>1, <1>2, <2>1, ScanGoesOn
<1>4. CASE ~Due(slots[cron.i])
  <2>1. cron' = [cron EXCEPT !.at = "scan", !.i = cron.i + 1, !.job = cron.job]
    BY <1>1, <1>2, <1>4 DEF Look, CronLocals
  <2> QED
    BY <1>1, <1>2, <2>1, ScanGoesOn
<1> QED
  BY <1>3, <1>4

LEMMA FireKeeps ==
  ASSUME JobsInv, Fire PROVE JobsInv'
<1>1. cron.at = "push" /\ UNCHANGED <<clock, slots, count, file, tool>>
  BY DEF Fire
<1>2. cron \in CronLocals /\ cron.job \in GoodJobs /\ cron.i \in Nat \ {0}
      /\ cron.i <= count /\ slots[cron.i] = cron.job
  BY <1>1 DEF JobsInv, CronTypeOK, CronLocals, ScanOK
<1>3. cron' = [cron EXCEPT !.at = "update", !.i = cron.i, !.job = cron.job]
  BY <1>2 DEF Fire, CronLocals
<1> QED
  BY <1>1, <1>2, <1>3, ScanGoesOn

LEMMA UpdateKeeps ==
  ASSUME JobsInv, Update PROVE JobsInv'
<1> DEFINE job == slots[cron.i]
<1>1. cron.at = "update" /\ UNCHANGED <<clock, file, tool>>
  BY DEF Update
<1>2. cron \in CronLocals /\ cron.i \in 1..count /\ cron.now \in Nat \ {0} /\ count \in 0..MaxJobs
  BY <1>1 DEF JobsInv, CronTypeOK, CronLocals, ScanOK
<1>3. job \in GoodJobs
  BY <1>2, CronAssumption DEF JobsInv, CronTypeOK
<1>4. /\ slots' \in [1..MaxJobs -> GoodJobs] /\ count' \in 0..MaxJobs
      /\ cron' = [cron EXCEPT !.at = "scan", !.changed = TRUE] \/ cron' = [cron EXCEPT !.at = "scan", !.changed = TRUE, !.i = @ + 1]
  <2>1. CASE job.kind = "at" /\ job.once
    <3>1. slots' = Shifted(cron.i) /\ count' = count - 1 /\ cron' = [cron EXCEPT !.at = "scan", !.changed = TRUE]
      BY <2>1 DEF Update
    <3> QED
      BY <1>2, <3>1, ShiftedShape, CronAssumption DEF JobsInv
  <2>2. CASE ~(job.kind = "at" /\ job.once)
    <3>1. slots' = Put(cron.i, Rolled(job)) /\ count' = count /\ cron' = [cron EXCEPT !.at = "scan", !.changed = TRUE, !.i = @ + 1]
      BY <2>2 DEF Update
    <3>2. Rolled(job) \in GoodJobs
      BY <1>2, <1>3, RolledIsGood
    <3> QED
      BY <1>2, <3>1, <3>2 DEF JobsInv, CronTypeOK, Put
  <2> QED
    BY <2>1, <2>2
<1>5. cron' \in CronLocals /\ cron'.at = "scan" /\ cron'.i > 0 /\ cron'.now = cron.now /\ cron'.changed = TRUE
  <2>1. CASE cron' = [cron EXCEPT !.at = "scan", !.changed = TRUE]
    <3>1. cron.i > 0
      BY <1>2
    <3>2. cron' = [cron EXCEPT !.at = "scan", !.changed = TRUE, !.i = cron.i]
      BY <1>2, <2>1 DEF CronLocals
    <3> QED
      BY <1>2, <3>1, <3>2 DEF CronLocals
  <2>2. CASE cron' = [cron EXCEPT !.at = "scan", !.changed = TRUE, !.i = @ + 1]
    <3>1. cron.i + 1 \in Nat /\ cron.i + 1 > 0
      BY <1>2
    <3> QED
      BY <1>2, <2>2, <3>1 DEF CronLocals
  <2> QED
    BY <1>4, <2>1, <2>2
<1>6. CronTypeOK'
  BY <1>1, <1>4, <1>5 DEF JobsInv, CronTypeOK, CronLocals
<1>7. \A c \in Callers : tool[c].at = "idle"
  BY <1>1 DEF JobsInv, OneAtATime
<1>8. OneAtATime' /\ ScanOK'
  BY <1>1, <1>2, <1>5, <1>7 DEF OneAtATime, ScanOK
<1>9. FileOK'
  BY <1>1, <1>5, <1>7 DEF JobsInv, FileOK, NothingToSave
<1> QED
  BY <1>6, <1>8, <1>9 DEF JobsInv

LEMMA EndOfScanKeeps ==
  ASSUME JobsInv, EndOfScan PROVE JobsInv'
<1>1. cron.at = "scan" /\ UNCHANGED <<clock, slots, count, tool>>
  BY DEF EndOfScan
<1>2. cron \in CronLocals /\ Table \in Seq(GoodJobs) /\ \A c \in Callers : tool[c].at = "idle"
  BY <1>1, TableShape DEF JobsInv, CronTypeOK, CronLocals, OneAtATime
<1>3. CASE cron.changed
  <2>1. cron' = [cron EXCEPT !.at = "write", !.saving = Table] /\ file' = <<>>
    BY <1>3 DEF EndOfScan
  <2>2. cron' \in CronLocals /\ cron'.at = "write" /\ cron'.saving = Table /\ cron'.now = cron.now /\ cron'.i = cron.i
    BY <1>2, <2>1 DEF CronLocals
  <2>3. CronTypeOK'
    BY <1>1, <2>1, <2>2, EmptySeq DEF JobsInv, CronTypeOK, CronLocals
  <2>4. OneAtATime' /\ ScanOK'
    BY <1>1, <1>2, <2>2 DEF JobsInv, OneAtATime, ScanOK
  <2>5. Len(<<>>) <= MaxJobs /\ Table' = Table
    BY <1>1, EmptySeq, CronAssumption DEF Table
  <2>6. FileOK'
    BY <1>1, <1>2, <2>1, <2>2, <2>5 DEF FileOK, NothingToSave
  <2> QED
    BY <2>3, <2>4, <2>6 DEF JobsInv
<1>4. CASE ~cron.changed
  <2>1. cron' = Asleep /\ file' = file
    BY <1>4 DEF EndOfScan
  <2>2. CronTypeOK'
    BY <1>1, <2>1, LocalsAtRest DEF JobsInv, CronTypeOK
  <2>3. OneAtATime' /\ ScanOK'
    BY <1>1, <1>2, <2>1, NoCallsMade DEF OneAtATime, ScanOK
  <2>4. Table' = Table /\ NothingToSave
    BY <1>1, <1>2, <1>4 DEF Table, NothingToSave
  <2>5. FileOK'
    BY <1>1, <1>2, <2>1, <2>4, NoCallsMade DEF JobsInv, FileOK
  <2> QED
    BY <2>2, <2>3, <2>5 DEF JobsInv
<1> QED
  BY <1>3, <1>4

\* Nobody has written since the file was emptied.
LEMMA WrittenIsSaved ==
  ASSUME NEW s \in Seq(GoodJobs), file = <<>> PROVE Written(s) = s
<1>1. Len(file) = 0 /\ Len(s) \in Nat
  BY EmptySeq, LenProperties
<1> QED
  BY <1>1 DEF Written

LEMMA WriteScanKeeps ==
  ASSUME JobsInv, WriteScan PROVE JobsInv'
<1>1. cron.at = "write" /\ UNCHANGED <<clock, slots, count, tool>> /\ cron' = Asleep
  BY DEF WriteScan
<1>2. \A c \in Callers : tool[c].at = "idle"
  BY <1>1 DEF JobsInv, OneAtATime
<1>3. file' = Table /\ Table \in Seq(GoodJobs) /\ Len(Table) <= MaxJobs /\ Table' = Table
  <2>1. file' = Written(cron.saving) /\ cron.saving = Table /\ file = <<>>
    BY <1>1 DEF WriteScan, JobsInv, FileOK
  <2>2. Table \in Seq(GoodJobs) /\ Len(Table) = count /\ count \in 0..MaxJobs
    BY TableShape DEF JobsInv, CronTypeOK
  <2>3. Table' = Table
    BY <1>1 DEF Table
  <2>4. Written(Table) = Table
    BY <2>1, <2>2, WrittenIsSaved
  <2>5. Len(Table) <= MaxJobs
    BY <2>2
  <2> QED
    BY <2>1, <2>2, <2>3, <2>4, <2>5
<1>4. CronTypeOK'
  BY <1>1, <1>3, LocalsAtRest DEF JobsInv, CronTypeOK
<1>5. OneAtATime' /\ ScanOK'
  BY <1>1, <1>2, NoCallsMade DEF OneAtATime, ScanOK
<1>6. FileOK'
  BY <1>1, <1>2, <1>3, NoCallsMade DEF FileOK
<1> QED
  BY <1>4, <1>5, <1>6 DEF JobsInv

-----------------------------------------------------------------------------
(* The tool. *)

ToolLocals == [at : {"idle", "count", "open", "write"}, job : GoodJobs, saving : Seq(GoodJobs)]

\* A call begins while the cron thread sleeps and no other call is under way.
LEMMA CallBegins ==
  ASSUME JobsInv, ~Overlap, NEW c \in Callers, ToolMayBegin,
         NEW r \in ToolLocals, r.at \in {"count", "open"}, tool' = [tool EXCEPT ![c] = r], UNCHANGED <<clock, file, cron>>,
         slots' \in [1..MaxJobs -> GoodJobs], count' \in 0..MaxJobs, r.at = "count" => count' < MaxJobs
  PROVE  JobsInv'
<1>1. cron.at = "sleep" /\ \A d \in Callers : tool[d].at = "idle"
  BY DEF ToolMayBegin
<1>2. tool \in [Callers -> ToolLocals]
  BY DEF JobsInv, CronTypeOK, ToolLocals
<1>3. tool' \in [Callers -> ToolLocals] /\ tool'[c] = r /\ \A d \in Callers : d # c => tool'[d] = tool[d]
  BY <1>2
<1>4. CronTypeOK'
  BY <1>3 DEF JobsInv, CronTypeOK, ToolLocals
<1>5. OneAtATime' /\ ScanOK'
  BY <1>1, <1>3 DEF OneAtATime, ScanOK
<1>6. FileOK'
  BY <1>1, <1>3 DEF JobsInv, FileOK, NothingToSave
<1> QED
  BY <1>4, <1>5, <1>6 DEF JobsInv

LEMMA AddCopyKeeps ==
  ASSUME JobsInv, ~Overlap, NEW c \in Callers, AddCopy(c) PROVE JobsInv'
<1>1. PICK r \in Requests, id \in Ids :
        /\ Acceptable(r)
        /\ slots' = Put(count + 1, NewJob(id, r))
        /\ tool' = [tool EXCEPT ![c] = [Idle EXCEPT !.at = "count", !.job = NewJob(id, r)]]
  BY DEF AddCopy
<1> DEFINE job == NewJob(id, r)
           r2 == [Idle EXCEPT !.at = "count", !.job = job]
<1>2. job \in GoodJobs
  BY <1>1, NewJobIsGood DEF JobsInv, CronTypeOK
<1> HIDE DEF job
<1>3. r2 \in ToolLocals /\ r2.at = "count"
  BY <1>2, LocalsAtRest DEF ToolLocals
<1>4. slots' \in [1..MaxJobs -> GoodJobs]
  BY <1>1, <1>2 DEF job, Put, JobsInv, CronTypeOK
<1>5. ToolMayBegin /\ count < MaxJobs /\ UNCHANGED <<clock, count, file, cron>> /\ count' \in 0..MaxJobs
  BY DEF AddCopy, JobsInv, CronTypeOK
<1>6. tool' = [tool EXCEPT ![c] = r2]
  BY <1>1 DEF job
<1> HIDE DEF r2
<1> QED
  BY <1>3, <1>4, <1>5, <1>6, CallBegins

LEMMA RemoveJobKeeps ==
  ASSUME JobsInv, ~Overlap, NEW c \in Callers, RemoveJob(c) PROVE JobsInv'
<1>1. PICK i \in 1..count :
        slots' = Shifted(i) /\ tool' = [tool EXCEPT ![c] = [Idle EXCEPT !.at = "open", !.job = slots[i]]]
  BY DEF RemoveJob
<1> DEFINE r == [Idle EXCEPT !.at = "open", !.job = slots[i]]
<1>0. i \in 1..MaxJobs
  BY CronAssumption DEF JobsInv, CronTypeOK
<1>2. count \in 0..MaxJobs /\ slots[i] \in GoodJobs
  BY <1>0 DEF JobsInv, CronTypeOK
<1>3. r \in ToolLocals /\ r.at = "open"
  BY <1>2, LocalsAtRest DEF ToolLocals
<1>4. slots' \in [1..MaxJobs -> GoodJobs]
  BY <1>1, ShiftedShape DEF JobsInv
<1>5. ToolMayBegin /\ count' = count - 1 /\ UNCHANGED <<clock, file, cron>>
  BY DEF RemoveJob
<1>6. count' \in 0..MaxJobs
  BY <1>2, <1>5, CronAssumption
<1>7. tool' = [tool EXCEPT ![c] = r]
  BY <1>1
<1> HIDE DEF r
<1> QED
  BY <1>3, <1>4, <1>5, <1>6, <1>7, CallBegins

\* A call under way, the only one, goes on.
LEMMA CallGoesOn ==
  ASSUME JobsInv, NEW c \in Callers, tool[c].at # "idle",
         NEW r \in ToolLocals, tool' = [tool EXCEPT ![c] = r], UNCHANGED <<clock, cron, slots>>,
         count' \in 0..MaxJobs, file' \in Seq(GoodJobs), Len(file') <= MaxJobs, r.at # "count",
         r.at = "write" => file' = <<>> /\ r.saving = Table',
         r.at = "idle" => file' = Table'
  PROVE  JobsInv'
<1>1. cron.at = "sleep" /\ \A d \in Callers : d # c => tool[d].at = "idle"
  BY DEF JobsInv, OneAtATime
<1>2. tool \in [Callers -> ToolLocals]
  BY DEF JobsInv, CronTypeOK, ToolLocals
<1>3. tool' \in [Callers -> ToolLocals] /\ tool'[c] = r /\ \A d \in Callers : d # c => tool'[d] = tool[d]
  BY <1>2
<1>4. CronTypeOK'
  BY <1>3 DEF JobsInv, CronTypeOK, ToolLocals
<1>5. OneAtATime' /\ ScanOK'
  BY <1>1, <1>3 DEF OneAtATime, ScanOK
<1>6. FileOK'
  BY <1>1, <1>3 DEF FileOK, NothingToSave
<1> QED
  BY <1>4, <1>5, <1>6 DEF JobsInv

LEMMA AddCountKeeps ==
  ASSUME JobsInv, NEW c \in Callers, AddCount(c) PROVE JobsInv'
<1> DEFINE r == [tool[c] EXCEPT !.at = "open"]
<1>1. tool[c].at = "count" /\ count' = count + 1 /\ UNCHANGED <<clock, cron, slots, file>>
  BY DEF AddCount
<1>2. tool[c] \in ToolLocals /\ file' \in Seq(GoodJobs) /\ Len(file') <= MaxJobs
  BY <1>1 DEF JobsInv, CronTypeOK, FileOK, ToolLocals
<1>3. r \in ToolLocals /\ r.at = "open"
  BY <1>2 DEF ToolLocals
<1>4. count' \in 0..MaxJobs
  BY <1>1, CronAssumption DEF JobsInv, CronTypeOK, FileOK
<1>5. tool' = [tool EXCEPT ![c] = r]
  BY DEF AddCount
<1> HIDE DEF r
<1> QED
  BY <1>1, <1>2, <1>3, <1>4, <1>5, CallGoesOn

LEMMA OpenFileKeeps ==
  ASSUME JobsInv, NEW c \in Callers, OpenFile(c) PROVE JobsInv'
<1> DEFINE r == [tool[c] EXCEPT !.at = "write", !.saving = Table]
<1>1. tool[c].at = "open" /\ file' = <<>> /\ UNCHANGED <<clock, cron, slots, count>> /\ tool' = [tool EXCEPT ![c] = r]
  BY DEF OpenFile
<1>2. tool[c] \in ToolLocals /\ Table \in Seq(GoodJobs) /\ count' \in 0..MaxJobs
  BY <1>1, TableShape DEF JobsInv, CronTypeOK, ToolLocals
<1>3. r \in ToolLocals /\ r.at = "write" /\ r.saving = Table
  BY <1>2 DEF ToolLocals
<1>4. file' \in Seq(GoodJobs) /\ Len(file') <= MaxJobs /\ Table' = Table
  BY <1>1, EmptySeq, CronAssumption DEF Table
<1> HIDE DEF r
<1> QED
  BY <1>1, <1>2, <1>3, <1>4, CallGoesOn

LEMMA WriteFileKeeps ==
  ASSUME JobsInv, NEW c \in Callers, WriteFile(c) PROVE JobsInv'
<1>1. tool[c].at = "write" /\ UNCHANGED <<clock, cron, slots, count>> /\ tool' = [tool EXCEPT ![c] = Idle]
      /\ file' = Written(tool[c].saving)
  BY DEF WriteFile
<1>2. Table \in Seq(GoodJobs) /\ Len(Table) = count /\ count \in 0..MaxJobs
  BY TableShape DEF JobsInv, CronTypeOK
<1>3. file = <<>> /\ tool[c].saving = Table
  BY <1>1 DEF JobsInv, FileOK
<1>4. file' = Table /\ Len(Table) <= MaxJobs
  BY <1>1, <1>2, <1>3, WrittenIsSaved
<1>5. Table' = Table
  BY <1>1 DEF Table
<1>6. Idle \in ToolLocals
  BY LocalsAtRest DEF ToolLocals
<1> QED
  BY <1>1, <1>2, <1>4, <1>5, <1>6, NoCallsMade, CallGoesOn

-----------------------------------------------------------------------------
(* Surroundings. *)

\* A file that can be loaded is loaded as it is.
LEMMA LoadedWhole ==
  ASSUME CronTypeOK, Len(file) <= MaxJobs
  PROVE  /\ Loaded(file) \in Seq(GoodJobs) /\ Len(Loaded(file)) <= MaxJobs
         /\ Loaded(file) = <<>> \/ Loaded(file) = file
         /\ MaxJobs <= FileLimit => Loaded(file) = file
<1>1. Len(file) \in Nat /\ MaxJobs \in Nat \ {0} /\ FileLimit \in Nat \ {0} /\ file \in Seq(GoodJobs)
  BY CronAssumption, LenProperties DEF CronTypeOK
<1>2. Min({Len(file), MaxJobs}) = Len(file)
  <2>1. \A x \in {Len(file), MaxJobs} : (\A y \in {Len(file), MaxJobs} : x <= y) => x = Len(file)
    BY <1>1
  <2>2. \A y \in {Len(file), MaxJobs} : Len(file) <= y
    BY <1>1
  <2> QED
    BY <2>1, <2>2 DEF Min
<1>3. SubSeq(file, 1, Len(file)) = file
  BY <1>1, SubSeqFull
<1>4. CASE Len(file) > FileLimit
  <2>1. Loaded(file) = <<>>
    BY <1>4 DEF Loaded
  <2> QED
    BY <1>1, <1>4, <2>1, EmptySeq
<1>5. CASE ~(Len(file) > FileLimit)
  <2>1. Loaded(file) = file
    BY <1>2, <1>3, <1>5 DEF Loaded
  <2> QED
    BY <1>1, <2>1
<1> QED
  BY <1>4, <1>5

\* After a restart the table is what was loaded.
LEMMA Reloaded ==
  ASSUME NEW jobs \in Seq(GoodJobs), Len(jobs) <= MaxJobs,
         slots' = [k \in 1..MaxJobs |-> Started(Padded(jobs)[k])], count' = Len(jobs)
  PROVE  /\ slots' \in [1..MaxJobs -> GoodJobs]
         /\ count' \in 0..MaxJobs
         /\ \A k \in 1..count' : slots'[k] = jobs[k]
         /\ Table' = jobs
<1>1. Len(jobs) \in Nat /\ MaxJobs \in Nat
  BY CronAssumption, LenProperties
<1>2. \A k \in 1..MaxJobs : Padded(jobs)[k] = IF k <= Len(jobs) THEN jobs[k] ELSE NoJob
  BY DEF Padded
<1>3. \A k \in 1..MaxJobs : k <= Len(jobs) => jobs[k] \in GoodJobs
  BY <1>1, ElementOfSeq
<1>4. \A k \in 1..MaxJobs : Padded(jobs)[k] \in GoodJobs
  BY <1>2, <1>3, NoJobIsGood
<1>5. \A job \in GoodJobs : Started(job) = job
  BY JobFields DEF Started
<1>6. slots' = [k \in 1..MaxJobs |-> Padded(jobs)[k]]
  BY <1>4, <1>5
<1>7. slots' \in [1..MaxJobs -> GoodJobs] /\ \A k \in 1..Len(jobs) : slots'[k] = jobs[k]
  BY <1>1, <1>2, <1>4, <1>6
<1>8. SubSeq(slots', 1, Len(jobs)) = jobs
  BY <1>1, <1>7, SamePrefix
<1>9. Table' = jobs
  BY <1>8 DEF Table
<1>10. count' \in 0..MaxJobs
  BY <1>1
<1> QED
  BY <1>7, <1>9, <1>10

LEMMA RestartKeeps ==
  ASSUME JobsInv, Restart PROVE JobsInv'
<1> DEFINE jobs == Loaded(file)
<1>1. jobs \in Seq(GoodJobs) /\ Len(jobs) <= MaxJobs /\ (MaxJobs <= FileLimit => jobs = file)
  BY LoadedWhole DEF JobsInv, FileOK
<1>2. /\ slots' = [k \in 1..MaxJobs |-> Started(Padded(jobs)[k])] /\ count' = Len(jobs)
      /\ cron' = Asleep /\ tool' = [c \in Callers |-> Idle] /\ UNCHANGED <<clock, file>>
  BY DEF Restart
<1> HIDE DEF jobs
<1>3. slots' \in [1..MaxJobs -> GoodJobs] /\ count' \in 0..MaxJobs /\ Table' = jobs
  BY <1>1, <1>2, Reloaded
<1>4. CronTypeOK'
  BY <1>2, <1>3, LocalsAtRest DEF JobsInv, CronTypeOK
<1>5. OneAtATime' /\ ScanOK'
  BY <1>2, NoCallsMade DEF OneAtATime, ScanOK
<1>6. FileOK'
  BY <1>1, <1>2, <1>3, NoCallsMade DEF JobsInv, FileOK
<1> QED
  BY <1>4, <1>5, <1>6 DEF JobsInv

LEMMA JobsInit == CronInit => JobsInv
<1> SUFFICES ASSUME CronInit PROVE JobsInv
  OBVIOUS
<1>1. MaxJobs \in Nat /\ Len(<<>>) = 0 /\ <<>> \in Seq(GoodJobs)
  BY CronAssumption, EmptySeq
<1>2. CronTypeOK
  BY <1>1, NoJobIsGood, LocalsAtRest DEF CronInit, CronTypeOK
<1>3. Table = <<>>
  <2>1. Table \in Seq(GoodJobs) /\ Len(Table) = 0
    BY <1>2, TableShape DEF CronInit
  <2> QED
    BY <2>1, EmptySeq
<1>4. OneAtATime /\ ScanOK
  BY NoCallsMade DEF CronInit, OneAtATime, ScanOK
<1>5. FileOK
  BY <1>1, <1>3, NoCallsMade DEF CronInit, FileOK
<1> QED
  BY <1>2, <1>4, <1>5 DEF JobsInv

LEMMA JobsStep ==
  ASSUME JobsInv, ~Overlap, [CronNext]_cronVars PROVE JobsInv'
<1>1. CASE CronThread
  BY <1>1, WakeKeeps, LookKeeps, FireKeeps, UpdateKeeps, EndOfScanKeeps, WriteScanKeeps DEF CronThread
<1>2. ASSUME NEW c \in Callers, Caller(c) PROVE JobsInv'
  BY <1>2, AddCopyKeeps, AddCountKeeps, RemoveJobKeeps, OpenFileKeeps, WriteFileKeeps DEF Caller
<1>3. CASE Heartbeat \/ LoopTakes \/ CronTick \/ UNCHANGED cronVars
  <2>1. UNCHANGED <<slots, count, file, cron, tool>>
    BY <1>3 DEF Heartbeat, LoopTakes, CronTick, cronVars
  <2>2. clock' \in Nat \ {0}
    <3>1. clock' = clock \/ clock' = clock + 1
      BY <1>3 DEF Heartbeat, LoopTakes, CronTick, Tick, cronVars
    <3>2. clock \in Nat \ {0}
      BY DEF JobsInv, CronTypeOK
    <3> QED
      BY <3>1, <3>2
  <2> QED
    BY <2>1, <2>2 DEF JobsInv, CronTypeOK, OneAtATime, ScanOK, FileOK, NothingToSave, Table
<1>4. CASE Restart
  BY <1>4, RestartKeeps
<1> QED
  BY <1>1, <1>2, <1>3, <1>4 DEF CronNext

\* Whenever no scan and no call of the tool is under way, a restart would find the
\* very jobs of the table (timer.c:259, called after every change), as
\* long as calls do not overlap and the file of a full table can be loaded.
THEOREM JobsAreSaved ==
  ASSUME ~Overlap, MaxJobs <= FileLimit PROVE CronSpec => []SavedIsCurrent
<1>1. JobsInv => SavedIsCurrent
  BY LoadedWhole DEF JobsInv, FileOK, NothingToSave, SavedIsCurrent
<1> QED
  BY <1>1, JobsInit, JobsStep, PTL DEF CronSpec

-----------------------------------------------------------------------------
(* No job vanishes for another's sake. *)

LEMMA IdsOfPrefix ==
  ASSUME NEW n \in Nat, NEW s \in [1..n -> GoodJobs], NEW m \in 0..n
  PROVE  IdsOf(SubSeq(s, 1, m)) = {s[k].id : k \in 1..m}
<1>1. /\ SubSeq(s, 1, m) \in Seq(GoodJobs) /\ Len(SubSeq(s, 1, m)) = m
      /\ \A k \in 1..m : SubSeq(s, 1, m)[k] = s[k]
  BY Prefix
<1>2. DOMAIN SubSeq(s, 1, m) = 1..m
  BY <1>1, LenProperties
<1> QED
  BY <1>1, <1>2 DEF IdsOf

\* An id is gone only if a job with it was below the count, and none is any more.
LEMMA Vanished ==
  ASSUME JobsInv, JobsInv', NEW id \in IdsOf(Table) \ IdsOf(Table)'
  PROVE  /\ \E k \in 1..count : slots[k].id = id
         /\ \A k \in 1..count' : slots'[k].id # id
<1>1. MaxJobs \in Nat
  BY CronAssumption
<1>2. IdsOf(SubSeq(slots, 1, count)) = {slots[k].id : k \in 1..count}
  BY <1>1, IdsOfPrefix DEF JobsInv, CronTypeOK
<1>3. IdsOf(SubSeq(slots', 1, count')) = {slots'[k].id : k \in 1..count'}
  BY <1>1, IdsOfPrefix DEF JobsInv, CronTypeOK
<1>4. IdsOf(Table) = IdsOf(SubSeq(slots, 1, count)) /\ IdsOf(Table)' = IdsOf(SubSeq(slots', 1, count'))
  BY DEF Table, IdsOf
<1> QED
  BY <1>2, <1>3, <1>4

\* What moves up keeps every job but the one at the index.
LEMMA ShiftedLoses ==
  ASSUME CronTypeOK, NEW i \in 1..count, slots' = Shifted(i), count' = count - 1,
         NEW k \in 1..count, \A l \in 1..count' : slots'[l].id # slots[k].id
  PROVE  k = i
<1>1. \A l \in 1..(count - 1) : Shifted(i)[l] = slots[IF i <= l THEN l + 1 ELSE l]
  BY ShiftedShape
<1>2. count \in Nat
  BY CronAssumption DEF CronTypeOK
<1>3. CASE k < i
  <2>1. k \in 1..(count - 1) /\ ~(i <= k)
    BY <1>2, <1>3
  <2> QED
    BY <1>1, <2>1
<1>4. CASE k > i
  <2>1. k - 1 \in 1..(count - 1) /\ i <= k - 1 /\ (k - 1) + 1 = k
    BY <1>2, <1>4
  <2> QED
    BY <1>1, <2>1
<1> QED
  BY <1>3, <1>4

CrashesOK == crashes \in Nat

LEMMA CrashesCounted == (CronInit => CrashesOK) /\ (CrashesOK /\ [CronNext]_cronVars => CrashesOK')
<1>1. CronInit => CrashesOK
  BY DEF CronInit, CrashesOK
<1>2. ASSUME CrashesOK, [CronNext]_cronVars PROVE CrashesOK'
  <2>1. Restart \/ UNCHANGED crashes
    BY <1>2 DEF CronNext, CronThread, Caller, Wake, Look, Fire, Update, EndOfScan, WriteScan, AddCopy, AddCount,
                RemoveJob, OpenFile, WriteFile, Heartbeat, LoopTakes, CronTick, cronVars
  <2> QED
    BY <1>2, <2>1 DEF Restart, CrashesOK
<1> QED
  BY <1>1, <1>2

LEMMA VanishStep ==
  ASSUME JobsInv, JobsInv', ~Overlap, CrashesOK, CronNext, NEW id \in IdsOf(Table) \ IdsOf(Table)'
  PROVE  \/ \E c \in Callers : tool[c].at = "idle" /\ tool'[c].at = "open" /\ tool'[c].job.id = id
         \/ cron.at = "update" /\ cron.job.id = id
         \/ crashes' # crashes
<1>1. PICK k \in 1..count : slots[k].id = id
  BY Vanished
<1>2. \A l \in 1..count' : slots'[l].id # id
  BY Vanished
<1>3. count \in 0..MaxJobs /\ MaxJobs \in Nat /\ slots \in [1..MaxJobs -> GoodJobs] /\ CronTypeOK
  BY CronAssumption DEF JobsInv, CronTypeOK
<1>4. CASE UNCHANGED <<slots, count>>
  BY <1>1, <1>2, <1>4
<1>5. CASE Update
  <2> DEFINE i == cron.i
             job == slots[i]
  <2>1. cron.at = "update" /\ i \in 1..count /\ job = cron.job /\ job \in GoodJobs /\ cron.now \in Nat \ {0}
    BY <1>3, <1>5 DEF Update, JobsInv, ScanOK, CronTypeOK
  <2>2. k = i
    <3>1. CASE job.kind = "at" /\ job.once
      <4>1. slots' = Shifted(i) /\ count' = count - 1
        BY <1>5, <3>1 DEF Update
      <4> QED
        BY <1>1, <1>2, <1>3, <2>1, <4>1, ShiftedLoses
    <3>2. CASE ~(job.kind = "at" /\ job.once)
      <4>1. slots' = Put(i, Rolled(job)) /\ count' = count
        BY <1>5, <3>2 DEF Update
      <4>2. k # i => slots'[k] = slots[k]
        BY <1>3, <4>1 DEF Put
      <4> QED
        BY <1>1, <1>2, <4>1, <4>2
    <3> QED
      BY <3>1, <3>2
  <2> QED
    BY <1>1, <2>1, <2>2
<1>6. ASSUME NEW c \in Callers, AddCopy(c) PROVE FALSE
  <2>1. PICK r \in Requests, new \in Ids : slots' = Put(count + 1, NewJob(new, r))
    BY <1>6 DEF AddCopy
  <2>2. count' = count /\ k # count + 1
    BY <1>3, <1>6 DEF AddCopy
  <2>3. slots'[k] = slots[k]
    BY <1>3, <2>1, <2>2 DEF Put
  <2> QED
    BY <1>1, <1>2, <2>2, <2>3
<1>7. ASSUME NEW c \in Callers, AddCount(c) PROVE FALSE
  BY <1>1, <1>2, <1>3, <1>7 DEF AddCount
<1>8. ASSUME NEW c \in Callers, RemoveJob(c)
      PROVE  tool[c].at = "idle" /\ tool'[c].at = "open" /\ tool'[c].job.id = id
  <2>1. PICK i \in 1..count :
          slots' = Shifted(i) /\ tool' = [tool EXCEPT ![c] = [Idle EXCEPT !.at = "open", !.job = slots[i]]]
    BY <1>8 DEF RemoveJob
  <2>2. tool[c].at = "idle" /\ count' = count - 1
    BY <1>8 DEF RemoveJob
  <2>3. k = i
    BY <1>1, <1>2, <1>3, <2>1, <2>2, ShiftedLoses
  <2>4. tool'[c] = [Idle EXCEPT !.at = "open", !.job = slots[i]]
    BY <2>1 DEF JobsInv, CronTypeOK
  <2>5. tool'[c].at = "open" /\ tool'[c].job = slots[i]
    BY <2>4 DEF Idle
  <2> QED
    BY <1>1, <2>2, <2>3, <2>5
<1>9. CASE Restart
  BY <1>9 DEF Restart, CrashesOK
<1>10. CASE CronThread \/ Heartbeat \/ LoopTakes \/ CronTick
  <2>1. Update \/ UNCHANGED <<slots, count>>
    BY <1>10 DEF CronThread, Wake, Look, Fire, EndOfScan, WriteScan, Heartbeat, LoopTakes, CronTick
  <2> QED
    BY <1>4, <1>5, <2>1
<1>11. ASSUME NEW c \in Callers, OpenFile(c) \/ WriteFile(c) PROVE UNCHANGED <<slots, count>>
  BY <1>11 DEF OpenFile, WriteFile
<1> QED
  BY <1>4, <1>6, <1>7, <1>8, <1>9, <1>10, <1>11 DEF CronNext, Caller

\* A job leaves the table because it was removed by its id or because it was a
\* one-shot job just sent (timer.c:363, timer.c:519), never for
\* another job's sake, as long as calls and scans do not overlap.
THEOREM OnlyTheirOwn ==
  ASSUME ~Overlap PROVE CronSpec => NothingElseVanishes
<1>1. JobsInv /\ JobsInv' /\ CrashesOK /\ [CronNext]_cronVars =>
        [\A id \in IdsOf(Table) \ IdsOf(Table)' :
          \/ \E c \in Callers : tool[c].at = "idle" /\ tool'[c].at = "open" /\ tool'[c].job.id = id
          \/ cron.at = "update" /\ cron.job.id = id
          \/ crashes' # crashes]_cronVars
  BY VanishStep
<1> QED
  BY <1>1, JobsInit, JobsStep, CrashesCounted, PTL DEF CronSpec, NothingElseVanishes

-----------------------------------------------------------------------------
(* A job is sent once for each time it is due. *)

\* The time a job waits for has not been sent yet.
Ahead(job, before) ==
  job.enabled =>
    CASE job.kind = "every" -> job.next >= before + job.when
      [] job.kind = "at" -> before < job.when /\ job.next = job.when
      [] OTHER -> before < job.next /\ job.next % DayLength = job.when /\ Weekday(job.next) \in job.days

\* Jobs with ids of their own, each ahead of the last time it remembers.
Sound(s, n, ids) ==
  \A k \in 1..n : /\ s[k].id \in ids
                  /\ Ahead(s[k], s[k].last)
                  /\ \A l \in 1..n : s[k].id = s[l].id => k = l

\* Every job is ahead of the time it was sent last, but the one being sent.
SentOK ==
  \A k \in 1..count : ~(cron.at = "update" /\ k = cron.i) => Ahead(slots[k], lastFire[slots[k].id])

ScheduleInv ==
  /\ spent \subseteq Ids /\ lastFire \in [Ids -> Nat]
  /\ Sound(slots, count, spent)
  /\ Sound(file, Len(file), spent)
  /\ SentOK
  /\ cron.at = "push" => Due(cron.job)
  /\ cron.at = "update" => lastFire[cron.job.id] = cron.now
  /\ \A c \in Callers : tool[c].at = "count" =>
        Sound(slots, count + 1, spent) /\ Ahead(slots[count + 1], lastFire[slots[count + 1].id])

LEMMA NewJobAhead ==
  ASSUME NEW r \in Requests, Acceptable(r), NEW id \in Ids, clock \in Nat \ {0}, NEW before \in 0..clock
  PROVE  Ahead(NewJob(id, r), before)
<1> DEFINE next == NextRun(r, clock)
           job == NewJob(id, r)
<1>1. r.kind \in Kinds /\ r.when \in Nat /\ r.days \in SUBSET (0..6)
  BY RequestAssumption
<1>2. job.kind = r.kind /\ job.when = r.when /\ job.days = r.days /\ job.next = next /\ job.enabled = (next > 0)
  BY DEF NewJob
<1>3. CASE r.kind = "every"
  <2>1. next = clock + r.when
    BY <1>3 DEF NextRun
  <2> QED
    BY <1>1, <1>2, <1>3, <2>1 DEF Ahead
<1>4. CASE r.kind = "at"
  <2>1. next = r.when /\ r.when > clock
    BY <1>1, <1>4 DEF NextRun, Acceptable
  <2> QED
    BY <1>1, <1>2, <1>4, <2>1 DEF Ahead
<1>5. CASE r.kind \in {"daily", "weekly"}
  <2>1. r.when \in 0..(DayLength - 1) /\ r.days # {}
    BY <1>1, <1>5, TimeOfDay DEF Acceptable
  <2>2. next = NextLocal(clock, r.when, r.days)
    BY <1>5 DEF NextRun
  <2>3. next \in Nat /\ next > clock /\ next % DayLength = r.when /\ Weekday(next) \in r.days
    BY <1>1, <2>1, <2>2, NextLocalFits
  <2>4. before < next
    BY <2>3
  <2> QED
    BY <1>2, <1>5, <2>3, <2>4 DEF Ahead
<1> QED
  BY <1>1, <1>3, <1>4, <1>5 DEF Kinds

LEMMA RolledAhead ==
  ASSUME NEW job \in GoodJobs, cron.now \in Nat \ {0}
  PROVE  Ahead(Rolled(job), cron.now) /\ Rolled(job).last = cron.now
<1> DEFINE next == NextRun(job, cron.now)
<1>1. CASE job.kind = "at"
  <2>1. Rolled(job).enabled = FALSE /\ Rolled(job).last = cron.now
    BY <1>1 DEF Rolled, GoodJobs
  <2> QED
    BY <2>1 DEF Ahead
<1>2. CASE job.kind # "at"
  <2>1. Rolled(job) = [job EXCEPT !.last = cron.now, !.next = next]
    BY <1>2 DEF Rolled
  <2>2. /\ Rolled(job).last = cron.now /\ Rolled(job).next = next /\ Rolled(job).kind = job.kind
        /\ Rolled(job).when = job.when /\ Rolled(job).days = job.days
    BY <2>1 DEF GoodJobs
  <2>3. CASE job.kind = "every"
    <3>1. next = cron.now + job.when /\ job.when \in Nat
      BY <2>3, JobFields DEF NextRun
    <3> QED
      BY <2>2, <2>3, <3>1 DEF Ahead
  <2>4. CASE job.kind # "every"
    <3>1. job.kind \in {"daily", "weekly"}
      BY <1>2, <2>4, JobFields DEF Kinds
    <3>2. job.when \in 0..(DayLength - 1) /\ job.days \in SUBSET (0..6) /\ job.days # {}
      BY <3>1, JobFields, TimeOfDay
    <3>3. next = NextLocal(cron.now, job.when, job.days)
      BY <3>1 DEF NextRun
    <3>4. next > cron.now /\ next % DayLength = job.when /\ Weekday(next) \in job.days
      BY <3>2, <3>3, NextLocalFits
    <3> QED
      BY <2>2, <3>1, <3>4 DEF Ahead
  <2> QED
    BY <2>3, <2>4
<1> QED
  BY <1>1, <1>2

\* Sending a job that is due and ahead is sending it in time.
LEMMA FiredInTime ==
  ASSUME JobsInv, ScheduleInv, Fire PROVE Timely(cron.job, lastFire[cron.job.id])
<1> DEFINE job == cron.job
           before == lastFire[job.id]
<1>1. cron.at = "push" /\ cron.i \in 1..count /\ slots[cron.i] = job /\ Due(job) /\ job \in GoodJobs /\ cron.now \in Nat
  BY DEF Fire, JobsInv, ScanOK, CronTypeOK, ScheduleInv
<1>2. Ahead(job, before) /\ job.id \in Ids
  BY <1>1 DEF ScheduleInv, SentOK, Sound
<1>3. before \in Nat
  BY <1>2 DEF ScheduleInv
<1>4. job.enabled /\ job.next \in Nat /\ job.next <= cron.now /\ job.when \in Nat /\ job.kind \in Kinds
  BY <1>1, JobFields DEF Due
<1>5. CASE job.kind = "every"
  <2>1. job.next >= before + job.when
    BY <1>2, <1>4, <1>5 DEF Ahead
  <2>2. cron.now >= before + job.when
    BY <1>1, <1>3, <1>4, <2>1
  <2> QED
    BY <1>5, <2>2 DEF Timely
<1>6. CASE job.kind = "at"
  <2>1. before < job.when /\ job.next = job.when
    BY <1>2, <1>4, <1>6 DEF Ahead
  <2> QED
    BY <1>4, <1>6, <2>1 DEF Timely
<1>7. CASE job.kind \in {"daily", "weekly"}
  <2>1. before < job.next /\ job.next % DayLength = job.when /\ Weekday(job.next) \in job.days
    BY <1>2, <1>4, <1>7 DEF Ahead
  <2>2. job.next \in (before + 1)..cron.now
    BY <1>1, <1>3, <1>4, <2>1
  <2> QED
    BY <1>7, <2>1, <2>2 DEF Timely
<1> QED
  BY <1>4, <1>5, <1>6, <1>7 DEF Kinds

LEMMA SoundTable ==
  ASSUME JobsInv, Sound(slots, count, spent) PROVE Sound(Table, Len(Table), spent)
<1>1. Len(Table) = count /\ \A k \in 1..count : Table[k] = slots[k]
  BY TableShape DEF JobsInv
<1> QED
  BY <1>1 DEF Sound

LEMMA SoundEmpty == Sound(<<>>, Len(<<>>), spent)
<1>1. Len(<<>>) = 0
  BY EmptySeq
<1> QED
  BY <1>1 DEF Sound

\* A step that sends nothing and leaves the table alone.
LEMMA QuietSchedule ==
  ASSUME JobsInv, ScheduleInv, UNCHANGED <<slots, count, spent, lastFire>>,
         file' = file \/ file' = <<>> \/ file' = Table,
         cron' = cron \/ (cron.at # "update" /\ cron'.at \notin {"push", "update"}),
         \A c \in Callers : tool'[c].at = "count" => tool[c].at = "count"
  PROVE  ScheduleInv'
<1>1. Sound(file', Len(file'), spent)
  BY SoundTable, SoundEmpty DEF ScheduleInv
<1>2. SentOK'
  BY DEF ScheduleInv, SentOK
<1>3. /\ cron'.at = "push" => Due(cron.job)'
      /\ cron'.at = "update" => lastFire'[cron'.job.id] = cron'.now
  BY DEF ScheduleInv, Due
<1> QED
  BY <1>1, <1>2, <1>3 DEF ScheduleInv

LEMMA LookSchedule ==
  ASSUME JobsInv, ScheduleInv, Look PROVE ScheduleInv'
<1>1. cron.at = "scan" /\ UNCHANGED <<slots, count, file, spent, lastFire, tool>>
  BY DEF Look
<1>2. cron \in CronLocals
  BY DEF JobsInv, CronTypeOK, CronLocals
<1>3. CASE Due(slots[cron.i])
  <2>1. cron'.at = "push" /\ cron'.job = slots[cron.i] /\ cron'.now = cron.now
    BY <1>2, <1>3 DEF Look, CronLocals
  <2>2. Due(cron.job)'
    BY <1>3, <2>1 DEF Due
  <2>3. SentOK'
    BY <1>1, <2>1 DEF ScheduleInv, SentOK
  <2> QED
    BY <1>1, <2>1, <2>2, <2>3 DEF ScheduleInv
<1>4. CASE ~Due(slots[cron.i])
  <2>1. cron'.at = "scan"
    BY <1>1, <1>2, <1>4 DEF Look, CronLocals
  <2> QED
    BY <1>1, <2>1, QuietSchedule
<1> QED
  BY <1>3, <1>4

LEMMA FireSchedule ==
  ASSUME JobsInv, ScheduleInv, Fire PROVE ScheduleInv'
<1>1. cron.at = "push" /\ UNCHANGED <<slots, count, file, spent, tool>>
      /\ lastFire' = [lastFire EXCEPT ![cron.job.id] = cron.now]
  BY DEF Fire
<1>2. cron \in CronLocals /\ cron.i \in 1..count /\ slots[cron.i] = cron.job /\ cron.now \in Nat
  BY <1>1 DEF JobsInv, CronTypeOK, CronLocals, ScanOK
<1>3. cron'.at = "update" /\ cron'.i = cron.i /\ cron'.job = cron.job /\ cron'.now = cron.now
  BY <1>2 DEF Fire, CronLocals
<1>4. cron.job.id \in Ids
  BY <1>2 DEF ScheduleInv, Sound
<1>5. lastFire' \in [Ids -> Nat] /\ lastFire'[cron.job.id] = cron.now
      /\ \A id \in Ids : id # cron.job.id => lastFire'[id] = lastFire[id]
  BY <1>1, <1>2, <1>4 DEF ScheduleInv
<1>6. SentOK'
  <2> SUFFICES ASSUME NEW k \in 1..count, k # cron.i PROVE Ahead(slots[k], lastFire'[slots[k].id])
    BY <1>1, <1>3 DEF SentOK
  <2>1. slots[k].id \in Ids /\ slots[k].id # cron.job.id
    BY <1>2 DEF ScheduleInv, Sound
  <2>2. Ahead(slots[k], lastFire[slots[k].id])
    BY <1>1 DEF ScheduleInv, SentOK
  <2> QED
    BY <1>5, <2>1, <2>2
<1>7. \A c \in Callers : tool[c].at = "idle"
  BY <1>1 DEF JobsInv, OneAtATime
<1> QED
  BY <1>1, <1>3, <1>5, <1>6, <1>7 DEF ScheduleInv

\* What moves up is as sound as it was.
LEMMA ShiftedSound ==
  ASSUME CronTypeOK, NEW i \in 1..count, Sound(slots, count, spent)
  PROVE  Sound(Shifted(i), count - 1, spent)
<1>1. count \in Nat /\ \A k \in 1..(count - 1) : Shifted(i)[k] = slots[IF i <= k THEN k + 1 ELSE k]
  BY ShiftedShape, CronAssumption DEF CronTypeOK
<1> SUFFICES ASSUME NEW k \in 1..(count - 1)
             PROVE  /\ Shifted(i)[k].id \in spent /\ Ahead(Shifted(i)[k], Shifted(i)[k].last)
                    /\ \A l \in 1..(count - 1) : Shifted(i)[k].id = Shifted(i)[l].id => k = l
  BY DEF Sound
<1> DEFINE from(n) == IF i <= n THEN n + 1 ELSE n
<1>2. \A n \in 1..(count - 1) : from(n) \in 1..count /\ Shifted(i)[n] = slots[from(n)]
  BY <1>1
<1>3. \A l \in 1..(count - 1) : from(k) = from(l) => k = l
  BY <1>1
<1> HIDE DEF from
<1> QED
  BY <1>2, <1>3 DEF Sound

\* A job is gone, nothing is being sent.
LEMMA ShiftedSchedule ==
  ASSUME JobsInv, ScheduleInv, NEW i \in 1..count, slots' = Shifted(i), count' = count - 1,
         UNCHANGED <<file, spent, lastFire>>, cron'.at \notin {"push", "update"},
         \A k \in 1..count : k # i => Ahead(slots[k], lastFire[slots[k].id]),
         \A c \in Callers : tool'[c].at # "count"
  PROVE  ScheduleInv'
<1>1. count \in Nat /\ \A k \in 1..(count - 1) : Shifted(i)[k] = slots[IF i <= k THEN k + 1 ELSE k]
  <2>1. CronTypeOK
    BY DEF JobsInv
  <2>2. count \in Nat
    BY <2>1, CronAssumption DEF CronTypeOK
  <2> QED
    BY <2>1, <2>2, ShiftedShape
<1>2. Sound(slots', count', spent)
  BY ShiftedSound DEF JobsInv, ScheduleInv
<1>3. SentOK'
  <2> SUFFICES ASSUME NEW k \in 1..(count - 1) PROVE Ahead(slots'[k], lastFire[slots'[k].id])
    BY DEF SentOK
  <2> DEFINE j == IF i <= k THEN k + 1 ELSE k
  <2>1. j \in 1..count /\ j # i /\ slots'[k] = slots[j]
    BY <1>1
  <2> HIDE DEF j
  <2> QED
    BY <2>1
<1> QED
  BY <1>2, <1>3 DEF ScheduleInv

LEMMA UpdateSchedule ==
  ASSUME JobsInv, ScheduleInv, Update PROVE ScheduleInv'
<1> DEFINE i == cron.i
           job == slots[i]
<1>1. cron.at = "update" /\ UNCHANGED <<file, tool, spent, lastFire>> /\ \A c \in Callers : tool[c].at = "idle"
  BY DEF Update, JobsInv, OneAtATime
<1>2. cron \in CronLocals /\ i \in 1..count /\ job = cron.job /\ job \in GoodJobs /\ cron.now \in Nat \ {0}
  BY <1>1 DEF JobsInv, CronTypeOK, CronLocals, ScanOK
<1>3. cron'.at = "scan"
  BY <1>2 DEF Update, CronLocals
<1>4. \A k \in 1..count : k # i => Ahead(slots[k], lastFire[slots[k].id])
  BY <1>1 DEF ScheduleInv, SentOK
<1>5. CASE job.kind = "at" /\ job.once
  <2>1. slots' = Shifted(i) /\ count' = count - 1
    BY <1>5 DEF Update
  <2> QED
    BY <1>1, <1>2, <1>3, <1>4, <2>1, ShiftedSchedule
<1>6. CASE ~(job.kind = "at" /\ job.once)
  <2>1. slots' = Put(i, Rolled(job)) /\ count' = count
    BY <1>6 DEF Update
  <2>2. Rolled(job).id = job.id /\ Ahead(Rolled(job), cron.now) /\ Rolled(job).last = cron.now
    BY <1>2, RolledIsGood, RolledAhead
  <2>3. slots'[i] = Rolled(job) /\ \A k \in 1..count : k # i => slots'[k] = slots[k]
    BY <1>2, <2>1, CronAssumption DEF Put, JobsInv, CronTypeOK
  <2>4. \A k \in 1..count : slots'[k].id = slots[k].id /\ Ahead(slots'[k], slots'[k].last)
    BY <2>2, <2>3 DEF ScheduleInv, Sound
  <2>5. Sound(slots', count', spent)
    BY <2>1, <2>4 DEF ScheduleInv, Sound
  <2>6. \A k \in 1..count : Ahead(slots'[k], lastFire[slots'[k].id])
    BY <1>1, <1>2, <1>4, <2>2, <2>3 DEF ScheduleInv
  <2>7. SentOK'
    BY <1>1, <2>1, <2>6 DEF SentOK
  <2> QED
    BY <1>1, <1>3, <2>5, <2>7 DEF ScheduleInv
<1> QED
  BY <1>5, <1>6

LEMMA AddCopySchedule ==
  ASSUME JobsInv, ScheduleInv, ~Overlap, NEW c \in Callers, AddCopy(c) PROVE ScheduleInv'
<1>1. PICK r \in Requests, id \in Ids \ spent :
        /\ Acceptable(r)
        /\ slots' = Put(count + 1, NewJob(id, r))
        /\ spent' = spent \cup {id}
        /\ lastFire' = [lastFire EXCEPT ![id] = clock]
  BY DEF AddCopy
<1> DEFINE job == NewJob(id, r)
<1>2. cron.at = "sleep" /\ count < MaxJobs /\ UNCHANGED <<count, file, cron>> /\ count \in Nat /\ clock \in Nat \ {0}
  BY CronAssumption DEF AddCopy, ToolMayBegin, JobsInv, CronTypeOK
<1>3. job.id = id /\ job.last = 0 /\ Ahead(job, 0) /\ Ahead(job, clock)
  <2>1. 0 \in 0..clock /\ clock \in 0..clock
    BY <1>2
  <2>2. Ahead(job, 0) /\ Ahead(job, clock)
    BY <1>1, <1>2, <2>1, NewJobAhead
  <2> QED
    BY <2>2 DEF NewJob
<1>4. slots'[count + 1] = job /\ \A k \in 1..count : slots'[k] = slots[k]
  BY <1>1, <1>2, CronAssumption DEF Put, JobsInv, CronTypeOK
<1> HIDE DEF job
<1>5. lastFire' \in [Ids -> Nat] /\ lastFire'[id] = clock /\ \A x \in spent : lastFire'[x] = lastFire[x]
  BY <1>1, <1>2 DEF ScheduleInv
<1>6. \A k \in 1..count : slots[k].id \in spent /\ slots[k].id # id
  BY <1>1 DEF ScheduleInv, Sound
<1>7. Sound(slots', count, spent')
  BY <1>1, <1>4 DEF ScheduleInv, Sound
<1>8. Sound(slots', count + 1, spent')
  <2>1. \A k \in 1..(count + 1) : k = count + 1 \/ k \in 1..count
    BY <1>2
  <2> QED
    BY <1>1, <1>3, <1>4, <1>6, <1>7, <2>1 DEF Sound
<1>9. SentOK'
  BY <1>2, <1>4, <1>5, <1>6 DEF ScheduleInv, SentOK
<1>10. Sound(file, Len(file), spent')
  BY <1>1 DEF ScheduleInv, Sound
<1>11. Ahead(slots'[count + 1], lastFire'[slots'[count + 1].id])
  BY <1>3, <1>4, <1>5
<1>12. spent' \subseteq Ids
  BY <1>1 DEF ScheduleInv
<1> QED
  BY <1>2, <1>5, <1>7, <1>8, <1>9, <1>10, <1>11, <1>12 DEF ScheduleInv

LEMMA AddCountSchedule ==
  ASSUME JobsInv, ScheduleInv, NEW c \in Callers, AddCount(c) PROVE ScheduleInv'
<1>1. tool[c].at = "count" /\ count' = count + 1 /\ UNCHANGED <<slots, file, cron, spent, lastFire>> /\ count \in Nat
  BY CronAssumption DEF AddCount, JobsInv, CronTypeOK
<1>2. cron.at = "sleep" /\ \A d \in Callers : d # c => tool[d].at = "idle"
  BY <1>1 DEF JobsInv, OneAtATime
<1>3. \A d \in Callers : tool'[d].at # "count"
  BY <1>2 DEF AddCount, JobsInv, CronTypeOK
<1>4. Sound(slots, count + 1, spent) /\ Ahead(slots[count + 1], lastFire[slots[count + 1].id])
  BY <1>1 DEF ScheduleInv
<1>5. SentOK'
  <2>1. \A k \in 1..(count + 1) : k = count + 1 \/ k \in 1..count
    BY <1>1
  <2> QED
    BY <1>1, <1>2, <1>4, <2>1 DEF ScheduleInv, SentOK
<1> QED
  BY <1>1, <1>2, <1>3, <1>4, <1>5 DEF ScheduleInv

LEMMA RemoveJobSchedule ==
  ASSUME JobsInv, ScheduleInv, ~Overlap, NEW c \in Callers, RemoveJob(c) PROVE ScheduleInv'
<1>1. PICK i \in 1..count :
        slots' = Shifted(i) /\ tool' = [tool EXCEPT ![c] = [Idle EXCEPT !.at = "open", !.job = slots[i]]]
  BY DEF RemoveJob
<1>2. count' = count - 1 /\ UNCHANGED <<file, cron, spent, lastFire>>
  BY DEF RemoveJob
<1>3. cron.at = "sleep" /\ \A d \in Callers : tool[d].at = "idle"
  BY DEF RemoveJob, ToolMayBegin
<1>4. \A d \in Callers : tool'[d].at # "count"
  BY <1>1, <1>3 DEF JobsInv, CronTypeOK, Idle
<1>5. \A k \in 1..count : k # i => Ahead(slots[k], lastFire[slots[k].id])
  BY <1>3 DEF ScheduleInv, SentOK
<1> QED
  BY <1>1, <1>2, <1>3, <1>4, <1>5, ShiftedSchedule

\* After a restart the last time a job was sent is the one in the file.
LEMMA RestartSchedule ==
  ASSUME JobsInv, ScheduleInv, Restart PROVE ScheduleInv'
<1> DEFINE jobs == Loaded(file)
<1>1. jobs \in Seq(GoodJobs) /\ Len(jobs) <= MaxJobs /\ (jobs = <<>> \/ jobs = file)
  BY LoadedWhole DEF JobsInv, FileOK
<1>2. /\ slots' = [k \in 1..MaxJobs |-> Started(Padded(jobs)[k])] /\ count' = Len(jobs)
      /\ lastFire' = [id \in Ids |-> LastRun(jobs, id)]
      /\ cron' = Asleep /\ tool' = [c \in Callers |-> Idle] /\ UNCHANGED <<file, spent>>
  BY DEF Restart
<1>3. Sound(jobs, Len(jobs), spent)
  BY <1>1, SoundEmpty DEF ScheduleInv
<1> HIDE DEF jobs
<1>4. \A k \in 1..count' : slots'[k] = jobs[k]
  BY <1>1, <1>2, Reloaded
<1>5. Sound(slots', count', spent)
  <2>1. count' = Len(jobs)
    BY <1>2
  <2> SUFFICES ASSUME NEW k \in 1..count'
               PROVE  /\ slots'[k].id \in spent
                      /\ Ahead(slots'[k], slots'[k].last)
                      /\ \A l \in 1..count' : slots'[k].id = slots'[l].id => k = l
    BY DEF Sound
  <2>2. slots'[k] = jobs[k] /\ \A l \in 1..count' : slots'[l] = jobs[l]
    BY <1>4
  <2>3. /\ jobs[k].id \in spent /\ Ahead(jobs[k], jobs[k].last)
        /\ \A l \in 1..count' : jobs[k].id = jobs[l].id => k = l
    BY <1>3, <2>1 DEF Sound
  <2> QED
    BY <2>2, <2>3
<1>6. DOMAIN jobs = 1..Len(jobs) /\ \A k \in 1..Len(jobs) : jobs[k] \in GoodJobs
  BY <1>1, LenProperties, ElementOfSeq
<1>7. \A k \in 1..Len(jobs) : LastRun(jobs, jobs[k].id) = jobs[k].last
  <2> SUFFICES ASSUME NEW k \in 1..Len(jobs) PROVE LastRun(jobs, jobs[k].id) = jobs[k].last
    OBVIOUS
  <2>1. jobs[k].id \in IdsOf(jobs)
    BY <1>6 DEF IdsOf
  <2>2. (CHOOSE n \in DOMAIN jobs : jobs[n].id = jobs[k].id) = k
    BY <1>3, <1>6 DEF Sound
  <2> QED
    BY <2>1, <2>2 DEF LastRun
<1>8. lastFire' \in [Ids -> Nat]
  <2> SUFFICES ASSUME NEW id \in Ids PROVE LastRun(jobs, id) \in Nat
    BY <1>2
  <2>1. CASE id \in IdsOf(jobs)
    <3>1. PICK k \in 1..Len(jobs) : jobs[k].id = id
      BY <1>6, <2>1 DEF IdsOf
    <3> QED
      BY <1>6, <1>7, <3>1, JobFields
  <2>2. CASE id \notin IdsOf(jobs)
    BY <2>2 DEF LastRun
  <2> QED
    BY <2>1, <2>2
<1>9. SentOK'
  <2> SUFFICES ASSUME NEW k \in 1..Len(jobs) PROVE Ahead(jobs[k], lastFire'[jobs[k].id])
    BY <1>2, <1>4 DEF SentOK
  <2>1. jobs[k].id \in Ids
    BY <1>3 DEF ScheduleInv, Sound
  <2> QED
    BY <1>2, <1>3, <1>7, <2>1 DEF Sound
<1>10. cron'.at = "sleep" /\ \A c \in Callers : tool'[c].at = "idle"
  BY <1>2, NoCallsMade
<1> QED
  BY <1>2, <1>5, <1>8, <1>9, <1>10 DEF ScheduleInv

LEMMA ScheduleStep ==
  ASSUME JobsInv, ScheduleInv, ~Overlap, [CronNext]_cronVars PROVE ScheduleInv'
<1>1. CASE UNCHANGED <<slots, count, spent, lastFire, cron, file, tool>>
  BY <1>1, QuietSchedule
<1>2. CASE Wake \/ EndOfScan \/ WriteScan
  <2>1. UNCHANGED <<slots, count, spent, lastFire, tool>> /\ cron.at # "update"
    BY <1>2 DEF Wake, EndOfScan, WriteScan
  <2>2. cron \in CronLocals /\ Asleep \in CronLocals
    BY LocalsAtRest DEF JobsInv, CronTypeOK, CronLocals
  <2>3. cron'.at \notin {"push", "update"}
    BY <1>2, <2>2, NoCallsMade DEF Wake, EndOfScan, WriteScan, CronLocals
  <2>4. file' = file \/ file' = <<>> \/ file' = Table
    BY <1>2, WrittenIsSaved DEF Wake, EndOfScan, WriteScan, JobsInv, CronTypeOK, FileOK
  <2> QED
    BY <2>1, <2>3, <2>4, QuietSchedule
<1>3. ASSUME NEW c \in Callers, OpenFile(c) \/ WriteFile(c) PROVE ScheduleInv'
  <2>1. UNCHANGED <<slots, count, spent, lastFire, cron>>
    BY <1>3 DEF OpenFile, WriteFile
  <2>2. tool'[c].at # "count" /\ \A d \in Callers : d # c => tool'[d] = tool[d]
    BY <1>3, NoCallsMade DEF OpenFile, WriteFile, JobsInv, CronTypeOK
  <2>3. file' = file \/ file' = <<>> \/ file' = Table
    BY <1>3, WrittenIsSaved DEF OpenFile, WriteFile, JobsInv, CronTypeOK, FileOK
  <2> QED
    BY <2>1, <2>2, <2>3, QuietSchedule
<1>4. CASE Heartbeat \/ LoopTakes \/ CronTick \/ UNCHANGED cronVars
  BY <1>1, <1>4 DEF Heartbeat, LoopTakes, CronTick, cronVars
<1>5. CASE CronThread
  BY <1>2, <1>5, LookSchedule, FireSchedule, UpdateSchedule DEF CronThread
<1>6. ASSUME NEW c \in Callers, Caller(c) PROVE ScheduleInv'
  BY <1>3, <1>6, AddCopySchedule, AddCountSchedule, RemoveJobSchedule DEF Caller
<1> QED
  BY <1>4, <1>5, <1>6, RestartSchedule DEF CronNext

LEMMA ScheduleInit == CronInit => ScheduleInv
<1> SUFFICES ASSUME CronInit PROVE ScheduleInv
  OBVIOUS
<1>1. Sound(slots, count, spent) /\ SentOK
  BY DEF CronInit, Sound, SentOK
<1>2. Sound(file, Len(file), spent)
  BY SoundEmpty DEF CronInit
<1> QED
  BY <1>1, <1>2, NoCallsMade DEF CronInit, ScheduleInv

\* A job is sent only when its time has come, and once for that time: an interval
\* after it was sent last, at its one moment, or for a day and hour not sent before
\* (timer.c's cron_process_due_jobs and compute_initial_next_run), across restarts
\* as far as the file remembers, as long as calls and scans do not overlap.
THEOREM OncePerTime ==
  ASSUME ~Overlap PROVE CronSpec => FiresOnSchedule
<1>1. JobsInv /\ ScheduleInv /\ [CronNext]_cronVars =>
        [(cron.at = "push" /\ cron'.at = "update") => Timely(cron.job, lastFire[cron.job.id])]_cronVars
  <2> SUFFICES ASSUME JobsInv, ScheduleInv, CronNext, cron.at = "push", cron'.at = "update"
               PROVE  Timely(cron.job, lastFire[cron.job.id])
    OBVIOUS
  <2>1. Fire
    <3>1. ~Restart
      BY NoCallsMade DEF Restart
    <3>2. \A c \in Callers : ~Caller(c)
      BY DEF Caller, AddCopy, AddCount, RemoveJob, OpenFile, WriteFile
    <3>3. ~(Heartbeat \/ LoopTakes \/ CronTick)
      BY DEF Heartbeat, LoopTakes, CronTick
    <3> QED
      BY <3>1, <3>2, <3>3 DEF CronNext, CronThread, Wake, Look, Update, EndOfScan, WriteScan
  <2> QED
    BY <2>1, FiredInTime
<1> QED
  BY <1>1, JobsInit, JobsStep, ScheduleInit, ScheduleStep, PTL DEF CronSpec, FiresOnSchedule

-----------------------------------------------------------------------------
(*                             The file tools.                             *)

-----------------------------------------------------------------------------
(* The shapes of the tables and of a call's locals. *)

Fields == {"at", "op", "path", "text", "result", "blind", "second"}
IsCall(r) == r = [f \in Fields |-> r[f]]

Shapes ==
  /\ files = [p \in Paths |-> files[p]]
  /\ replaced = [p \in Paths |-> replaced[p]]
  /\ checkpoints = [s \in 1..LastSecond |-> checkpoints[s]]
  /\ \A s \in 1..LastSecond : checkpoints[s] = [p \in Paths |-> checkpoints[s][p]]
  /\ call = [c \in Callers |-> call[c]]
  /\ \A c \in Callers : IsCall(call[c])
  /\ clock \in 1..LastSecond

\* A call under way is the only one; its text is that of its file, and from the
\* saving on that of its checkpoint, unless that cannot be kept; a file that is
\* added is not there.
CallsOK ==
  /\ \A c, d \in Callers : call[c].at # "idle" /\ call[d].at # "idle" => c = d
  /\ \A c \in Callers : call[c].at # "idle" => call[c].path \in Paths
  /\ \A c \in Callers :
       call[c].at \in {"save", "record"} /\ Kept(files[call[c].path])
         => call[c].text = files[call[c].path]
  /\ \A c \in Callers :
       call[c].at = "record" =>
         /\ call[c].second \in 1..LastSecond
         /\ checkpoints[call[c].second][call[c].path] = call[c].text
  /\ \A c \in Callers :
       call[c].at = "open" /\ Kept(files[call[c].path])
         => \E s \in 1..LastSecond : checkpoints[s][call[c].path] = files[call[c].path]

KeptInv == Shapes /\ CallsOK /\ ReplacedIsKept

\* A call that is not under way.
LEMMA NoCallIsCall == IsCall(NoCall) /\ NoCall.at = "idle"
BY DEF NoCall, IsCall, Fields

-----------------------------------------------------------------------------
(* What was replaced is kept. *)

\* A call that begins, as the only one, leaves the files alone.
LEMMA BeginKeeps ==
  ASSUME KeptInv, ~Overlap, NEW c \in Callers, NEW r, IsCall(r), Free(c),
         call' = [call EXCEPT ![c] = r], UNCHANGED <<clock, files, checkpoints, replaced>>,
         r.path \in Paths,
         r.at \in {"save", "open"},
         r.at = "save" /\ Kept(files[r.path]) => r.text = files[r.path],
         r.at = "open" => files[r.path] = Absent
  PROVE  KeptInv'
<1>1. \A d \in Callers : call[d].at = "idle"
  BY DEF Free
<1>2. call'[c] = r /\ (\A d \in Callers : d # c => call'[d] = call[d])
      /\ call' = [d \in Callers |-> call'[d]]
  BY DEF KeptInv, Shapes
<1>3. Shapes'
  BY <1>2 DEF KeptInv, Shapes
<1>4. CallsOK'
  BY <1>1, <1>2 DEF KeptInv, CallsOK, Kept
<1> QED
  BY <1>3, <1>4 DEF KeptInv, ReplacedIsKept

\* A step that leaves the files, the checkpoints and the calls alone.
LEMMA NothingKeeps ==
  ASSUME KeptInv, UNCHANGED <<files, checkpoints, replaced, call>>, clock' \in 1..LastSecond
  PROVE  KeptInv'
BY DEF KeptInv, Shapes, CallsOK, ReplacedIsKept

\* A call that ends.
LEMMA EndKeeps ==
  ASSUME KeptInv, NEW c \in Callers, call' = [call EXCEPT ![c] = NoCall],
         UNCHANGED <<clock, files, checkpoints, replaced>>
  PROVE  KeptInv'
<1>1. call'[c] = NoCall /\ (\A d \in Callers : d # c => call'[d] = call[d])
      /\ call' = [d \in Callers |-> call'[d]]
  BY DEF KeptInv, Shapes
<1>2. Shapes'
  BY <1>1, NoCallIsCall DEF KeptInv, Shapes
<1>3. CallsOK'
  BY <1>1, NoCallIsCall DEF KeptInv, CallsOK
<1> QED
  BY <1>2, <1>3 DEF KeptInv, ReplacedIsKept

LEMMA AskedKeeps ==
  ASSUME KeptInv, ~Overlap, NEW c \in Callers, NEW p \in Paths, Asked(c, p)
  PROVE  KeptInv'
<1>0. clock \in 1..LastSecond
  BY DEF KeptInv, Shapes
<1>1. ASSUME NEW range \in Ranges, Read(c, p, range) PROVE KeptInv'
  BY <1>0, <1>1, NothingKeeps DEF Read, disk
<1>2. CASE AddFile(c, p)
  <2>1. PICK text \in Texts :
          call' = [call EXCEPT ![c] = [NoCall EXCEPT !.at = "open", !.op = "add", !.path = p, !.result = text]]
    BY <1>2 DEF AddFile, Begin
  <2> DEFINE r == [NoCall EXCEPT !.at = "open", !.op = "add", !.path = p, !.result = text]
  <2>2. IsCall(r) /\ r.at = "open" /\ r.path = p
    BY DEF NoCall, IsCall, Fields
  <2>3. Free(c) /\ files[p] = Absent /\ UNCHANGED <<clock, files, checkpoints, replaced>>
    BY <1>2 DEF AddFile, disk
  <2> HIDE DEF r
  <2> QED
    BY <2>1, <2>2, <2>3, BeginKeeps DEF r
<1>3. ASSUME NEW patch \in Patches, UpdateFile(c, p, patch) PROVE KeptInv'
  <2>1. Free(c) /\ UNCHANGED <<clock, files, checkpoints, replaced>>
    BY <1>3 DEF UpdateFile, disk
  <2>2. CASE UNCHANGED call
    BY <1>0, <2>1, <2>2, NothingKeeps
  <2>3. CASE ~UNCHANGED call
    <3> DEFINE r == [NoCall EXCEPT !.at = "save", !.op = "update", !.path = p, !.text = files[p],
                       !.result = Patched(files[p], patch), !.blind = ~ByRefs(p, patch.refs)]
    <3>1. call' = [call EXCEPT ![c] = r]
      BY <1>3, <2>3 DEF UpdateFile, Begin
    <3>2. IsCall(r) /\ r.at = "save" /\ r.path = p /\ r.text = files[p]
      BY DEF NoCall, IsCall, Fields
    <3> HIDE DEF r
    <3> QED
      BY <2>1, <3>1, <3>2, BeginKeeps
  <2> QED
    BY <2>2, <2>3
<1>4. CASE DeleteFile(c, p)
  <2>1. Free(c) /\ UNCHANGED <<clock, files, checkpoints, replaced>>
    BY <1>4 DEF DeleteFile, disk
  <2>2. CASE UNCHANGED call
    BY <1>0, <2>1, <2>2, NothingKeeps
  <2>3. CASE ~UNCHANGED call
    <3> DEFINE r == [NoCall EXCEPT !.at = "save", !.op = "delete", !.path = p,
                       !.text = Whole(files[p]), !.blind = TRUE]
    <3>1. call' = [call EXCEPT ![c] = r]
      BY <1>4, <2>3 DEF DeleteFile, Begin
    <3>2. IsCall(r) /\ r.at = "save" /\ r.path = p /\ r.text = Whole(files[p])
      BY DEF NoCall, IsCall, Fields
    <3>3. Kept(files[p]) => Whole(files[p]) = files[p]
      BY DEF Kept, Whole
    <3> HIDE DEF r
    <3> QED
      BY <2>1, <3>1, <3>2, <3>3, BeginKeeps
  <2> QED
    BY <2>2, <2>3
<1>5. CASE RestoreRecent(c, p) \/ RestoreNamed(c, p)
  <2>1. Free(c) /\ UNCHANGED <<clock, files, checkpoints, replaced>>
    BY <1>5 DEF RestoreRecent, RestoreNamed, disk
  <2>2. PICK op, text : BeginRestore(c, p, op, text)
    BY <1>5 DEF RestoreRecent, RestoreNamed
  <2> DEFINE r == [NoCall EXCEPT !.at = "save", !.op = op, !.path = p,
                     !.text = Whole(files[p]), !.result = Whole(text)]
  <2>3. call' = [call EXCEPT ![c] = r]
    BY <2>2 DEF BeginRestore, Begin
  <2>4. IsCall(r) /\ r.at = "save" /\ r.path = p /\ r.text = Whole(files[p])
    BY DEF NoCall, IsCall, Fields
  <2>5. Kept(files[p]) => Whole(files[p]) = files[p]
    BY DEF Kept, Whole
  <2> HIDE DEF r
  <2> QED
    BY <2>1, <2>3, <2>4, <2>5, BeginKeeps
<1> QED
  BY <1>1, <1>2, <1>3, <1>4, <1>5 DEF Asked

LEMMA SaveKeeps ==
  ASSUME KeptInv, ~SameSecond, NEW c \in Callers, Save(c)
  PROVE  KeptInv'
<1> DEFINE p == call[c].path
<1>1. call[c].at = "save" /\ checkpoints[clock][p] = Absent /\ p \in Paths /\ clock \in 1..LastSecond
  BY DEF Save, KeptInv, Shapes, CallsOK
<1>2. UNCHANGED <<clock, files, replaced>>
  BY DEF Save
<1>3. PICK text :
        /\ checkpoints' = [checkpoints EXCEPT ![clock][p] = text]
        /\ \/ text = call[c].text /\ call' = [call EXCEPT ![c].at = "record", ![c].second = clock]
           \/ call' = [call EXCEPT ![c] = NoCall]
  BY DEF Save, NotSaved
<1>4. /\ checkpoints'[clock][p] = text
      /\ \A s \in 1..LastSecond, q \in Paths :
           s # clock \/ q # p => checkpoints'[s][q] = checkpoints[s][q]
      /\ checkpoints' = [s \in 1..LastSecond |-> checkpoints'[s]]
      /\ \A s \in 1..LastSecond : checkpoints'[s] = [q \in Paths |-> checkpoints'[s][q]]
  BY <1>1, <1>3 DEF KeptInv, Shapes
<1>5. ReplacedIsKept'
  <2> SUFFICES ASSUME NEW q \in Paths, Kept(replaced[q])
               PROVE  \E s \in 1..LastSecond : checkpoints'[s][q] = replaced[q]
    BY <1>2 DEF ReplacedIsKept
  <2>1. PICK s \in 1..LastSecond : checkpoints[s][q] = replaced[q]
    BY DEF KeptInv, ReplacedIsKept
  <2>2. s # clock \/ q # p
    BY <1>1, <2>1 DEF Kept
  <2> QED
    BY <1>4, <2>1, <2>2
<1>6. /\ call' = [d \in Callers |-> call'[d]]
      /\ \A d \in Callers : d # c => call'[d] = call[d]
      /\ IsCall(call'[c])
      /\ \/ call'[c].at = "idle"
         \/ /\ call'[c].at = "record" /\ call'[c].path = p
            /\ call'[c].second = clock /\ call'[c].text = call[c].text /\ text = call[c].text
  <2>1. CASE call' = [call EXCEPT ![c] = NoCall]
    BY <2>1, NoCallIsCall DEF KeptInv, Shapes
  <2>2. CASE text = call[c].text /\ call' = [call EXCEPT ![c].at = "record", ![c].second = clock]
    <3>1. call'[c] = [call[c] EXCEPT !.at = "record", !.second = clock]
          /\ call' = [d \in Callers |-> call'[d]]
          /\ \A d \in Callers : d # c => call'[d] = call[d]
      BY <2>2 DEF KeptInv, Shapes
    <3>2. IsCall(call[c])
      BY DEF KeptInv, Shapes
    <3> QED
      BY <2>2, <3>1, <3>2 DEF IsCall, Fields
  <2> QED
    BY <1>3, <2>1, <2>2
<1>7. Shapes'
  BY <1>2, <1>4, <1>6 DEF KeptInv, Shapes
<1>8. \A d \in Callers : d # c => call'[d].at = "idle"
  BY <1>1, <1>6 DEF KeptInv, CallsOK
<1>9. CallsOK'
  BY <1>1, <1>2, <1>4, <1>6, <1>8 DEF KeptInv, CallsOK
<1> QED
  BY <1>5, <1>7, <1>9 DEF KeptInv

LEMMA RecordKeeps ==
  ASSUME KeptInv, NEW c \in Callers, Record(c)
  PROVE  KeptInv'
<1>1. call[c].at = "record" /\ UNCHANGED <<clock, files, checkpoints, replaced>>
  BY DEF Record, disk
<1>2. /\ call'[c] = [call[c] EXCEPT !.at = "open"]
      /\ \A d \in Callers : d # c => call'[d] = call[d]
      /\ call' = [d \in Callers |-> call'[d]]
      /\ IsCall(call[c])
  BY DEF Record, KeptInv, Shapes
<1>3. IsCall(call'[c]) /\ call'[c].at = "open" /\ call'[c].path = call[c].path
  BY <1>2 DEF IsCall, Fields
<1>4. Shapes'
  BY <1>1, <1>2, <1>3 DEF KeptInv, Shapes
<1>5. \A d \in Callers : d # c => call'[d].at = "idle"
  BY <1>1, <1>2 DEF KeptInv, CallsOK
<1>6. Kept(files[call[c].path]) => \E s \in 1..LastSecond : checkpoints[s][call[c].path] = files[call[c].path]
  BY <1>1 DEF KeptInv, CallsOK
<1>7. CallsOK'
  BY <1>1, <1>3, <1>5, <1>6 DEF KeptInv, CallsOK
<1> QED
  BY <1>1, <1>4, <1>7 DEF KeptInv, ReplacedIsKept

\* Whatever happens to the file then, its text is in a checkpoint.
LEMMA OpenKeeps ==
  ASSUME KeptInv, NEW c \in Callers, Open(c)
  PROVE  KeptInv'
<1> DEFINE p == call[c].path
<1>1. call[c].at = "open" /\ p \in Paths /\ UNCHANGED <<clock, checkpoints>>
  BY DEF Open, KeptInv, CallsOK
<1>2. /\ replaced' = [q \in Paths |-> replaced'[q]]
      /\ replaced'[p] = files[p] /\ \A q \in Paths : q # p => replaced'[q] = replaced[q]
  BY <1>1 DEF Open, KeptInv, Shapes
<1>3. files' = [q \in Paths |-> files'[q]]
  BY <1>1 DEF Open, KeptInv, Shapes
<1>4. ReplacedIsKept'
  BY <1>1, <1>2 DEF KeptInv, CallsOK, ReplacedIsKept
<1>5. call' = [call EXCEPT ![c] = NoCall] \/ call' = [call EXCEPT ![c].at = "write"]
  BY DEF Open, Return
<1>6. /\ call' = [d \in Callers |-> call'[d]]
      /\ \A d \in Callers : d # c => call'[d] = call[d]
      /\ call'[c] = NoCall \/ call'[c] = [call[c] EXCEPT !.at = "write"]
      /\ IsCall(call[c])
  BY <1>5 DEF KeptInv, Shapes
<1>7. /\ IsCall(call'[c])
      /\ call'[c].at = "idle" \/ (call'[c].at = "write" /\ call'[c].path = p)
  BY <1>6, NoCallIsCall DEF IsCall, Fields
<1>8. Shapes'
  BY <1>1, <1>2, <1>3, <1>6, <1>7 DEF KeptInv, Shapes
<1>9. \A d \in Callers : d # c => call'[d].at = "idle"
  BY <1>1, <1>6 DEF KeptInv, CallsOK
<1>10. CallsOK'
  BY <1>1, <1>7, <1>9 DEF KeptInv, CallsOK
<1> QED
  BY <1>4, <1>8, <1>10 DEF KeptInv

LEMMA WriteKeeps ==
  ASSUME KeptInv, NEW c \in Callers, Write(c)
  PROVE  KeptInv'
<1>1. call[c].at = "write" /\ UNCHANGED <<clock, checkpoints, replaced>>
  BY DEF Write
<1>2. files' = [q \in Paths |-> files'[q]]
  BY DEF Write, KeptInv, Shapes
<1>3. call'[c] = NoCall /\ (\A d \in Callers : d # c => call'[d] = call[d])
      /\ call' = [d \in Callers |-> call'[d]]
  BY DEF Write, Return, KeptInv, Shapes
<1>4. Shapes'
  BY <1>1, <1>2, <1>3, NoCallIsCall DEF KeptInv, Shapes
<1>5. \A d \in Callers : call'[d].at = "idle"
  BY <1>1, <1>3, NoCallIsCall DEF KeptInv, CallsOK
<1>6. CallsOK'
  BY <1>5 DEF CallsOK
<1> QED
  BY <1>1, <1>4, <1>6 DEF KeptInv, ReplacedIsKept

\* A user leaves the file of a call under way alone.
LEMMA UserKeeps ==
  ASSUME KeptInv, ~Overlap, NEW p \in Paths, UserChanges(p)
  PROVE  KeptInv'
<1>1. UNCHANGED <<clock, checkpoints, replaced, call>> /\ \A c \in Callers : call[c].path # p
  BY DEF UserChanges, Untouched
<1>2. files' = [q \in Paths |-> files'[q]] /\ \A q \in Paths : q # p => files'[q] = files[q]
  BY DEF UserChanges, KeptInv, Shapes
<1>3. Shapes'
  BY <1>1, <1>2 DEF KeptInv, Shapes
<1>4. CallsOK'
  BY <1>1, <1>2 DEF KeptInv, CallsOK
<1> QED
  BY <1>1, <1>3, <1>4 DEF KeptInv, ReplacedIsKept

LEMMA DieKeeps ==
  ASSUME KeptInv, Die
  PROVE  KeptInv'
<1>1. UNCHANGED <<clock, files, checkpoints, replaced>> /\ call' = [c \in Callers |-> NoCall]
  BY DEF Die, NoCalls, disk
<1>2. Shapes'
  BY <1>1, NoCallIsCall DEF KeptInv, Shapes
<1>3. CallsOK'
  BY <1>1, NoCallIsCall DEF CallsOK
<1> QED
  BY <1>1, <1>2, <1>3 DEF KeptInv, ReplacedIsKept

LEMMA KeptStep ==
  ASSUME KeptInv, ~Overlap, ~SameSecond, FileNext
  PROVE  KeptInv'
<1>1. ASSUME NEW c \in Callers, UnderWay(c) PROVE KeptInv'
  BY <1>1, SaveKeeps, RecordKeeps, OpenKeeps, WriteKeeps DEF UnderWay
<1>2. CASE FileTick
  <2>1. UNCHANGED <<files, checkpoints, replaced, call>>
    BY <1>2 DEF FileTick, disk
  <2>2. clock' \in 1..LastSecond
    BY <1>2, FileAssumption DEF FileTick, Tick, KeptInv, Shapes
  <2> QED
    BY <2>1, <2>2, NothingKeeps
<1> QED
  BY <1>1, <1>2, AskedKeeps, UserKeeps, DieKeeps DEF FileNext

LEMMA KeptAlways ==
  ASSUME ~Overlap, ~SameSecond PROVE FileSpec => []KeptInv
<1>1. FileInit => KeptInv
  <2> SUFFICES ASSUME FileInit PROVE KeptInv
    OBVIOUS
  <2>1. Shapes
    BY FileAssumption, NoCallIsCall DEF FileInit, NoCalls, Shapes
  <2>2. CallsOK
    BY NoCallIsCall DEF FileInit, NoCalls, CallsOK
  <2>3. ReplacedIsKept
    BY DEF FileInit, ReplacedIsKept, Kept
  <2> QED
    BY <2>1, <2>2, <2>3 DEF KeptInv
<1>2. KeptInv /\ [FileNext]_fileVars => KeptInv'
  <2> SUFFICES ASSUME KeptInv, [FileNext]_fileVars PROVE KeptInv'
    OBVIOUS
  <2>1. CASE FileNext
    BY <2>1, KeptStep
  <2>2. CASE UNCHANGED fileVars
    BY <2>2, NothingKeeps DEF fileVars, disk, KeptInv, Shapes
  <2> QED
    BY <2>1, <2>2
<1> QED
  BY <1>1, <1>2, PTL DEF FileSpec

\* The text of up to 32 KB that a tool last wrote over or deleted is in a checkpoint,
\* whenever the disk gets full or the process dies (tool_file_mutations.c:509), if
\* calls do not overlap and no path gets two checkpoints in one second.
THEOREM EditsAreKept ==
  ASSUME ~Overlap, ~SameSecond PROVE FileSpec => []ReplacedIsKept
<1>1. KeptInv => ReplacedIsKept
  BY DEF KeptInv
<1> QED
  BY <1>1, KeptAlways, PTL

-----------------------------------------------------------------------------
(* A restoring takes the last edit back. *)

\* What k records ago went into the ring, and the last record of a path.
Back(c, k) == (c + RingSize - k) % RingSize
Entry(k) == ring[Back(cursor, k)]
Latest(p) ==
  {Entry(k).second : k \in {i \in 1..RingSize :
                              Entry(i).path = p /\ \A j \in 1..(i - 1) : Entry(j).path # p}}
LastSaved(p, text) ==
  \A s \in Latest(p) : Kept(text) => s \in 1..LastSecond /\ checkpoints[s][p] = text

\* The last record of a path is of the text replaced last or, where a call is about
\* to write, of the one it replaces; and that is what a restoring under way writes.
AtOpen(p) == \E c \in Callers : call[c].at = "open" /\ call[c].path = p
Restoring(r) == r.op = "restore" /\ r.at \in {"save", "record", "open"}

RingOK ==
  /\ ring = [k \in 0..(RingSize - 1) |-> ring[k]]
  /\ cursor \in 0..(RingSize - 1)

UndoInv ==
  /\ RingOK
  /\ \A p \in Paths : LastSaved(p, IF AtOpen(p) THEN files[p] ELSE replaced[p])
  /\ \A c \in Callers : Restoring(call[c]) /\ Kept(replaced[call[c].path])
       => call[c].result = replaced[call[c].path]

LEMMA Around ==
  ASSUME NEW c \in 0..(RingSize - 1)
  PROVE  /\ \A k \in 1..RingSize :
              /\ Back(c, k) = IF k <= c THEN c - k ELSE c + RingSize - k
              /\ Back(c, k) \in 0..(RingSize - 1)
         /\ (c + 1) % RingSize = IF c + 1 < RingSize THEN c + 1 ELSE 0
<1>1. RingSize \in Nat \ {0}
  BY FileAssumption
<1>2. ASSUME NEW k \in 1..RingSize
      PROVE  Back(c, k) = IF k <= c THEN c - k ELSE c + RingSize - k
  <2>1. CASE k <= c
    <3>1. c - k \in 0..(RingSize - 1) /\ c + RingSize - k = 1 * RingSize + (c - k)
      BY <1>1, <2>1
    <3> QED
      BY <1>1, <2>1, <3>1, DayAndTime DEF Back
  <2>2. CASE ~(k <= c)
    <3>1. c + RingSize - k \in 0..(RingSize - 1)
          /\ c + RingSize - k = 0 * RingSize + (c + RingSize - k)
      BY <1>1, <2>2
    <3> QED
      BY <1>1, <2>2, <3>1, DayAndTime DEF Back
  <2> QED
    BY <2>1, <2>2
<1>3. (c + 1) % RingSize = IF c + 1 < RingSize THEN c + 1 ELSE 0
  <2>1. CASE c + 1 < RingSize
    <3>1. c + 1 \in 0..(RingSize - 1) /\ c + 1 = 0 * RingSize + (c + 1)
      BY <1>1, <2>1
    <3> QED
      BY <1>1, <2>1, <3>1, DayAndTime
  <2>2. CASE ~(c + 1 < RingSize)
    <3>1. 0 \in 0..(RingSize - 1) /\ c + 1 = 1 * RingSize + 0
      BY <1>1, <2>2
    <3> QED
      BY <1>1, <2>2, <3>1, DayAndTime
  <2> QED
    BY <2>1, <2>2
<1> QED
  BY <1>1, <1>2, <1>3

\* One more record: all others are one further back, and the oldest is gone.
LEMMA OneRecordMore ==
  ASSUME RingOK, NEW e, ring' = [ring EXCEPT ![cursor] = e], cursor' = (cursor + 1) % RingSize
  PROVE  /\ RingOK'
         /\ \A p : Latest(p)' \subseteq IF e.path = p THEN {e.second} ELSE Latest(p)
<1>1. RingSize \in Nat \ {0} /\ cursor \in 0..(RingSize - 1)
  BY FileAssumption DEF RingOK
<1>2. /\ cursor' = IF cursor + 1 < RingSize THEN cursor + 1 ELSE 0
      /\ cursor' \in 0..(RingSize - 1)
  BY <1>1, Around
<1>3. /\ ring' = [k \in 0..(RingSize - 1) |-> ring'[k]] /\ ring'[cursor] = e
      /\ \A k \in 0..(RingSize - 1) : k # cursor => ring'[k] = ring[k]
  BY <1>1 DEF RingOK
<1>4. Entry(1)' = e
  <2>1. Back(cursor', 1) = cursor
    <3>1. 1 \in 1..RingSize
      BY <1>1
    <3>2. Back(cursor', 1) = IF 1 <= cursor' THEN cursor' - 1 ELSE cursor' + RingSize - 1
      BY <1>2, <3>1, Around
    <3>3. CASE cursor + 1 < RingSize
      <4>1. cursor' = cursor + 1
        BY <1>2, <3>3
      <4> QED
        BY <1>1, <3>2, <4>1
    <3>4. CASE ~(cursor + 1 < RingSize)
      <4>1. cursor' = 0 /\ cursor = RingSize - 1
        BY <1>1, <1>2, <3>4
      <4> QED
        BY <1>1, <3>2, <4>1
    <3> QED
      BY <3>3, <3>4
  <2> QED
    BY <1>3, <2>1 DEF Entry
<1>5. ASSUME NEW k \in 2..RingSize PROVE k - 1 \in 1..RingSize /\ Entry(k)' = Entry(k - 1)
  <2>1. k \in 1..RingSize /\ k - 1 \in 1..RingSize
    BY <1>1
  <2>2. /\ Back(cursor', k) = IF k <= cursor' THEN cursor' - k ELSE cursor' + RingSize - k
        /\ Back(cursor, k - 1) =
             IF k - 1 <= cursor THEN cursor - (k - 1) ELSE cursor + RingSize - (k - 1)
        /\ Back(cursor, k - 1) \in 0..(RingSize - 1)
    BY <1>1, <1>2, <2>1, Around
  <2>3. Back(cursor', k) = Back(cursor, k - 1) /\ Back(cursor, k - 1) # cursor
    BY <1>1, <1>2, <2>1, <2>2
  <2> QED
    BY <1>3, <2>1, <2>2, <2>3 DEF Entry
<1>6. ASSUME NEW p, NEW s \in Latest(p)'
      PROVE  IF e.path = p THEN s = e.second ELSE s \in Latest(p)
  <2>1. PICK k \in 1..RingSize : /\ Entry(k)'.path = p /\ s = Entry(k)'.second
                                 /\ \A j \in 1..(k - 1) : Entry(j)'.path # p
    BY DEF Latest
  <2>2. CASE e.path = p
    <3>1. k = 1
      BY <1>1, <1>4, <2>1, <2>2
    <3> QED
      BY <1>4, <2>1, <2>2, <3>1
  <2>3. CASE e.path # p
    <3>1. k \in 2..RingSize
      BY <1>1, <1>4, <2>1, <2>3
    <3>2. Entry(k - 1).path = p /\ s = Entry(k - 1).second /\ k - 1 \in 1..RingSize
      BY <1>5, <2>1, <3>1
    <3>3. ASSUME NEW j \in 1..(k - 1 - 1) PROVE Entry(j).path # p
      <4>1. j + 1 \in 2..RingSize /\ j + 1 \in 1..(k - 1) /\ (j + 1) - 1 = j
        BY <1>1, <3>1
      <4>2. Entry(j + 1)' = Entry(j)
        BY <1>5, <4>1
      <4> QED
        BY <2>1, <4>1, <4>2
    <3> QED
      BY <2>3, <3>2, <3>3 DEF Latest
  <2> QED
    BY <2>2, <2>3
<1> QED
  BY <1>2, <1>3, <1>6 DEF RingOK

\* The least element of a set of numbers is one of its elements.
LEMMA MinIsLeast ==
  ASSUME NEW S \in SUBSET Nat, S # {}
  PROVE  Min(S) \in S /\ \A r \in S : Min(S) <= r
<1> DEFINE R == {p \in Nat \X Nat : p[1] < p[2]}
<1>1. OpToRel(<, Nat) = R
  BY DEF OpToRel
<1>2. IsWellFoundedOn(R, Nat)
  BY <1>1, NatLessThanWellFounded
<1> HIDE DEF R
<1>3. PICK x \in S : \A y \in S : ~(<<y, x>> \in R)
  BY <1>2, WFMin
<1>4. ASSUME NEW y \in S PROVE x <= y
  <2>1. x \in Nat /\ y \in Nat
    OBVIOUS
  <2>2. y < x => <<y, x>> \in R
    BY <2>1 DEF R
  <2>3. ~(y < x)
    BY <1>3, <2>2
  <2> QED
    BY <2>1, <2>3
<1> QED
  BY <1>4 DEF Min

\* The name a restoring finds in the ring is that of the last record.
LEMMA RecentIsLatest ==
  ASSUME NEW p, Ago(p) # {}
  PROVE  Recent(p) \in Latest(p)
<1> DEFINE k == Min(Ago(p))
<1>1. Ago(p) \in SUBSET (1..RingSize) /\ RingSize \in Nat
  BY FileAssumption DEF Ago
<1>2. k \in Ago(p) /\ \A r \in Ago(p) : k <= r
  <2>1. Ago(p) \in SUBSET Nat
    BY <1>1
  <2> QED
    BY <2>1, MinIsLeast
<1> HIDE DEF k
<1>3. k \in 1..RingSize /\ Entry(k).path = p
  BY <1>2 DEF Ago, Entry, Back
<1>4. \A j \in 1..(k - 1) : Entry(j).path # p
  <2> SUFFICES ASSUME NEW j \in 1..(k - 1), Entry(j).path = p PROVE FALSE
    OBVIOUS
  <2>1. j \in 1..RingSize /\ ~(k <= j)
    BY <1>1, <1>3
  <2>2. j \in Ago(p)
    BY <2>1 DEF Ago, Entry, Back
  <2> QED
    BY <1>2, <2>1, <2>2
<1>5. Recent(p) = Entry(k).second
  BY DEF Recent, Entry, Back, k
<1> QED
  BY <1>3, <1>4, <1>5 DEF Latest

\* A step that neither records nor writes: calls may begin, go on or end.
LEMMA UndoQuiet ==
  ASSUME UndoInv, UNCHANGED <<files, ring, cursor, replaced>>,
         \A p \in Paths, s \in 1..LastSecond :
           checkpoints[s][p] # Absent => checkpoints'[s][p] = checkpoints[s][p],
         \A p \in Paths : AtOpen(p)' => AtOpen(p) \/ ~Kept(files[p]),
         \A p \in Paths : AtOpen(p) => AtOpen(p)' \/ Latest(p) = {},
         \A c \in Callers : Restoring(call'[c]) /\ Kept(replaced[call'[c].path]) =>
           call'[c].result = replaced[call'[c].path]
  PROVE  UndoInv'
<1>1. RingOK'
  BY DEF UndoInv, RingOK
<1>2. \A p : Latest(p)' = Latest(p)
  BY DEF Latest, Entry
<1>3. ASSUME NEW p \in Paths PROVE LastSaved(p, IF AtOpen(p) THEN files[p] ELSE replaced[p])'
  <2> SUFFICES ASSUME NEW s \in Latest(p), NEW text,
                      text = IF AtOpen(p)' THEN files[p] ELSE replaced[p], Kept(text)
               PROVE  s \in 1..LastSecond /\ checkpoints'[s][p] = text
    BY <1>2 DEF LastSaved
  <2>1. text = IF AtOpen(p) THEN files[p] ELSE replaced[p]
    OBVIOUS
  <2>2. s \in 1..LastSecond /\ checkpoints[s][p] = text
    BY <2>1 DEF UndoInv, LastSaved
  <2> QED
    BY <2>2 DEF Kept
<1> QED
  BY <1>1, <1>3 DEF UndoInv

\* A step of one call, whose other locals are none.
LEMMA OthersIdle ==
  ASSUME KeptInv, NEW c \in Callers, call[c].at # "idle"
  PROVE  \A d \in Callers : d # c => call[d].at = "idle"
BY DEF KeptInv, CallsOK

LEMMA BeginUndo ==
  ASSUME KeptInv, UndoInv, ~Overlap, NEW c \in Callers, NEW p \in Paths, Asked(c, p)
  PROVE  UndoInv'
<1>1. UNCHANGED <<files, checkpoints, ring, cursor, replaced>>
  BY DEF Asked, Read, AddFile, UpdateFile, DeleteFile, RestoreRecent, RestoreNamed, disk, recent
<1>2. /\ \A d \in Callers : call[d].at = "idle"
      /\ call = [d \in Callers |-> call[d]]
  BY DEF Asked, Read, AddFile, UpdateFile, DeleteFile, RestoreRecent, RestoreNamed, Free,
         KeptInv, Shapes
<1>3. \/ call' = call
      \/ \E r : /\ call' = [call EXCEPT ![c] = r]
                /\ r.at = "open" => r.path = p /\ files[p] = Absent
                /\ Restoring(r) => r.path = p /\ (Kept(replaced[p]) => r.result = replaced[p])
  <2>1. CASE \E range \in Ranges : Read(c, p, range)
    <3>1. call' = call
      BY <2>1 DEF Read
    <3> QED
      BY <3>1
  <2>2. CASE AddFile(c, p)
    <3>1. PICK text \in Texts :
            Begin(c, [NoCall EXCEPT !.at = "open", !.op = "add", !.path = p, !.result = text])
      BY <2>2 DEF AddFile
    <3> DEFINE r == [NoCall EXCEPT !.at = "open", !.op = "add", !.path = p, !.result = text]
    <3>2. call' = [call EXCEPT ![c] = r] /\ files[p] = Absent
      BY <2>2, <3>1 DEF AddFile, Begin
    <3>3. r.at = "open" /\ r.op = "add" /\ r.path = p
      BY DEF NoCall
    <3>4. ~Restoring(r)
      BY <3>3 DEF Restoring
    <3> HIDE DEF r
    <3> QED
      BY <3>2, <3>3, <3>4
  <2>3. CASE \E patch \in Patches : UpdateFile(c, p, patch)
    <3>1. PICK patch \in Patches : UpdateFile(c, p, patch)
      BY <2>3
    <3> DEFINE r == [NoCall EXCEPT !.at = "save", !.op = "update", !.path = p, !.text = files[p],
                       !.result = Patched(files[p], patch), !.blind = ~ByRefs(p, patch.refs)]
    <3>2. call' = call \/ call' = [call EXCEPT ![c] = r]
      BY <3>1 DEF UpdateFile, Begin
    <3>3. r.at = "save" /\ r.op = "update"
      BY DEF NoCall
    <3>4. ~Restoring(r)
      BY <3>3 DEF Restoring
    <3> HIDE DEF r
    <3> QED
      BY <3>2, <3>3, <3>4
  <2>4. CASE DeleteFile(c, p)
    <3> DEFINE r == [NoCall EXCEPT !.at = "save", !.op = "delete", !.path = p,
                       !.text = Whole(files[p]), !.blind = TRUE]
    <3>2. call' = call \/ call' = [call EXCEPT ![c] = r]
      BY <2>4 DEF DeleteFile, Begin
    <3>3. r.at = "save" /\ r.op = "delete"
      BY DEF NoCall
    <3>4. ~Restoring(r)
      BY <3>3 DEF Restoring
    <3> HIDE DEF r
    <3> QED
      BY <3>2, <3>3, <3>4
  <2>5. CASE RestoreRecent(c, p)
    <3> DEFINE r == [NoCall EXCEPT !.at = "save", !.op = "restore", !.path = p,
                       !.text = Whole(files[p]), !.result = Whole(checkpoints[Recent(p)][p])]
    <3>1. call' = [call EXCEPT ![c] = r] /\ Ago(p) # {}
      BY <2>5 DEF RestoreRecent, BeginRestore, Begin
    <3>2. r.at = "save" /\ r.path = p /\ r.result = Whole(checkpoints[Recent(p)][p])
      BY DEF NoCall
    <3>3. ASSUME Kept(replaced[p]) PROVE Whole(checkpoints[Recent(p)][p]) = replaced[p]
      <4>1. LastSaved(p, replaced[p])
        BY <1>2 DEF UndoInv, AtOpen
      <4>2. checkpoints[Recent(p)][p] = replaced[p]
        BY <3>1, <3>3, <4>1, RecentIsLatest DEF LastSaved
      <4> QED
        BY <3>3, <4>2 DEF Whole, Kept
    <3> HIDE DEF r
    <3> QED
      BY <3>1, <3>2, <3>3
  <2>6. CASE RestoreNamed(c, p)
    <3>1. PICK s \in 1..LastSecond, q \in Paths :
            BeginRestore(c, p, "restore named", checkpoints[s][q])
      BY <2>6 DEF RestoreNamed
    <3> DEFINE r == [NoCall EXCEPT !.at = "save", !.op = "restore named", !.path = p,
                       !.text = Whole(files[p]), !.result = Whole(checkpoints[s][q])]
    <3>2. call' = [call EXCEPT ![c] = r]
      BY <3>1 DEF BeginRestore, Begin
    <3>3. r.at = "save" /\ r.op = "restore named"
      BY DEF NoCall
    <3>4. ~Restoring(r)
      BY <3>3 DEF Restoring
    <3> HIDE DEF r
    <3> QED
      BY <3>2, <3>3, <3>4
  <2> QED
    BY <2>1, <2>2, <2>3, <2>4, <2>5, <2>6 DEF Asked
<1>4. CASE call' = call
  BY <1>1, <1>2, <1>4, UndoQuiet DEF AtOpen, Restoring
<1>5. ASSUME NEW r, call' = [call EXCEPT ![c] = r],
             r.at = "open" => r.path = p /\ files[p] = Absent,
             Restoring(r) => r.path = p /\ (Kept(replaced[p]) => r.result = replaced[p])
      PROVE  UndoInv'
  <2>1. call'[c] = r /\ \A d \in Callers : d # c => call'[d] = call[d]
    BY <1>2, <1>5
  <2>2. \A q \in Paths : AtOpen(q)' => ~Kept(files[q])
    BY <1>2, <1>5, <2>1 DEF AtOpen, Kept
  <2>3. \A q \in Paths : ~AtOpen(q)
    BY <1>2 DEF AtOpen
  <2>4. \A d \in Callers : Restoring(call'[d]) /\ Kept(replaced[call'[d].path]) =>
          call'[d].result = replaced[call'[d].path]
    BY <1>2, <1>5, <2>1 DEF Restoring
  <2> QED
    BY <1>1, <2>2, <2>3, <2>4, UndoQuiet
<1> QED
  BY <1>3, <1>4, <1>5

LEMMA SaveUndo ==
  ASSUME KeptInv, UndoInv, ~SameSecond, NEW c \in Callers, Save(c)
  PROVE  UndoInv'
<1>1. /\ call[c].at = "save" /\ UNCHANGED <<files, ring, cursor, replaced>>
      /\ checkpoints[clock][call[c].path] = Absent
  BY DEF Save, recent
<1>2. \A p \in Paths, s \in 1..LastSecond :
        checkpoints[s][p] # Absent => checkpoints'[s][p] = checkpoints[s][p]
  <2>1. PICK text : checkpoints' = [checkpoints EXCEPT ![clock][call[c].path] = text]
    BY DEF Save
  <2> QED
    BY <1>1, <2>1 DEF KeptInv, Shapes
<1>3. /\ \A d \in Callers : d # c => call[d].at = "idle" /\ call'[d] = call[d]
      /\ call'[c] = NoCall \/ /\ call'[c].at = "record" /\ call'[c].op = call[c].op
                              /\ call'[c].path = call[c].path /\ call'[c].result = call[c].result
  <2>1. /\ call = [d \in Callers |-> call[d]] /\ IsCall(call[c])
        /\ call' = [call EXCEPT ![c] = NoCall]
             \/ call' = [call EXCEPT ![c].at = "record", ![c].second = clock]
    BY DEF Save, NotSaved, KeptInv, Shapes
  <2> QED
    BY <1>1, <2>1, OthersIdle DEF IsCall, Fields
<1>4. \A p \in Paths : ~AtOpen(p) /\ ~AtOpen(p)'
  BY <1>1, <1>3, NoCallIsCall DEF AtOpen
<1>5. \A d \in Callers : Restoring(call'[d]) /\ Kept(replaced[call'[d].path]) =>
        call'[d].result = replaced[call'[d].path]
  BY <1>1, <1>3, NoCallIsCall DEF UndoInv, Restoring
<1> QED
  BY <1>1, <1>2, <1>4, <1>5, UndoQuiet

LEMMA RecordUndo ==
  ASSUME KeptInv, UndoInv, NEW c \in Callers, Record(c)
  PROVE  UndoInv'
<1>1. PICK p \in Paths : p = call[c].path
  BY DEF Record, KeptInv, CallsOK
<1>2. /\ call[c].at = "record" /\ UNCHANGED <<files, checkpoints, replaced>>
      /\ ring' = [ring EXCEPT ![cursor] = [path |-> p, second |-> call[c].second]]
      /\ cursor' = (cursor + 1) % RingSize
  BY <1>1 DEF Record, disk
<1>3. /\ RingOK'
      /\ \A q : Latest(q)' \subseteq IF p = q THEN {call[c].second} ELSE Latest(q)
  <2> DEFINE e == [path |-> p, second |-> call[c].second]
  <2>1. e.path = p /\ e.second = call[c].second
    OBVIOUS
  <2>2. ring' = [ring EXCEPT ![cursor] = e]
    BY <1>2
  <2> HIDE DEF e
  <2> QED
    BY <1>2, <2>1, <2>2, OneRecordMore DEF UndoInv
<1>4. /\ \A d \in Callers : d # c => call[d].at = "idle" /\ call'[d] = call[d]
      /\ call'[c].at = "open" /\ call'[c].op = call[c].op
      /\ call'[c].path = p /\ call'[c].result = call[c].result
  <2>1. /\ call = [d \in Callers |-> call[d]] /\ IsCall(call[c])
        /\ call' = [call EXCEPT ![c].at = "open"]
    BY DEF Record, KeptInv, Shapes
  <2> QED
    BY <1>1, <1>2, <2>1, OthersIdle DEF IsCall, Fields
<1>5. AtOpen(p)' /\ \A q \in Paths : ~AtOpen(q) /\ (q # p => ~AtOpen(q)')
  BY <1>2, <1>4 DEF AtOpen
<1>6. ASSUME NEW q \in Paths PROVE LastSaved(q, IF AtOpen(q) THEN files[q] ELSE replaced[q])'
  <2>1. CASE q = p
    <3>1. Kept(files[p]) => call[c].second \in 1..LastSecond
                            /\ checkpoints[call[c].second][p] = files[p]
      BY <1>1, <1>2 DEF KeptInv, CallsOK
    <3> QED
      BY <1>2, <1>3, <1>5, <2>1, <3>1 DEF LastSaved
  <2>2. CASE q # p
    BY <1>2, <1>3, <1>5, <2>2 DEF LastSaved, UndoInv
  <2> QED
    BY <2>1, <2>2
<1>7. \A d \in Callers : Restoring(call'[d]) /\ Kept(replaced[call'[d].path]) =>
        call'[d].result = replaced[call'[d].path]
  BY <1>1, <1>2, <1>4 DEF UndoInv, Restoring
<1> QED
  BY <1>2, <1>3, <1>6, <1>7 DEF UndoInv

LEMMA OpenUndo ==
  ASSUME KeptInv, UndoInv, NEW c \in Callers, Open(c)
  PROVE  UndoInv'
<1>1. PICK p \in Paths : p = call[c].path
  BY DEF Open, KeptInv, CallsOK
<1>2. /\ call[c].at = "open" /\ UNCHANGED <<checkpoints, ring, cursor>>
      /\ replaced'[p] = files[p] /\ \A q \in Paths : q # p => replaced'[q] = replaced[q]
  BY <1>1 DEF Open, recent, KeptInv, Shapes
<1>3. /\ \A d \in Callers : d # c => call[d].at = "idle" /\ call'[d] = call[d]
      /\ call'[c].at \in {"idle", "write"}
  <2>1. /\ call = [d \in Callers |-> call[d]] /\ IsCall(call[c])
        /\ call' = [call EXCEPT ![c] = NoCall] \/ call' = [call EXCEPT ![c].at = "write"]
    BY DEF Open, Return, KeptInv, Shapes
  <2> QED
    BY <1>2, <2>1, NoCallIsCall, OthersIdle DEF IsCall, Fields
<1>4. AtOpen(p) /\ \A q \in Paths : ~AtOpen(q)' /\ (q # p => ~AtOpen(q))
  BY <1>1, <1>2, <1>3 DEF AtOpen
<1>5. \A q : Latest(q)' = Latest(q)
  BY <1>2 DEF Latest, Entry
<1>6. ASSUME NEW q \in Paths PROVE LastSaved(q, IF AtOpen(q) THEN files[q] ELSE replaced[q])'
  <2>1. LastSaved(q, replaced'[q])
    BY <1>2, <1>4 DEF UndoInv
  <2> QED
    BY <1>2, <1>4, <1>5, <2>1 DEF LastSaved
<1>7. \A d \in Callers : ~Restoring(call'[d])
  BY <1>3 DEF Restoring
<1>8. RingOK'
  BY <1>2 DEF UndoInv, RingOK
<1> QED
  BY <1>6, <1>7, <1>8 DEF UndoInv

LEMMA WriteUndo ==
  ASSUME KeptInv, UndoInv, NEW c \in Callers, Write(c)
  PROVE  UndoInv'
<1>1. call[c].at = "write" /\ UNCHANGED <<checkpoints, ring, cursor, replaced>>
  BY DEF Write, recent
<1>2. \A d \in Callers : (d # c => call[d].at = "idle") /\ call'[d].at = "idle"
  BY <1>1, NoCallIsCall, OthersIdle DEF Write, Return, KeptInv, Shapes
<1>3. \A q \in Paths : ~AtOpen(q)' /\ ~AtOpen(q)
  BY <1>1, <1>2 DEF AtOpen
<1>4. \A q : Latest(q)' = Latest(q)
  BY <1>1 DEF Latest, Entry
<1>5. \A d \in Callers : ~Restoring(call'[d])
  BY <1>2 DEF Restoring
<1> QED
  BY <1>1, <1>3, <1>4, <1>5 DEF UndoInv, LastSaved, RingOK

LEMMA UserUndo ==
  ASSUME UndoInv, ~Overlap, NEW p \in Paths, UserChanges(p), Shapes
  PROVE  UndoInv'
<1>1. /\ UNCHANGED <<checkpoints, ring, cursor, replaced, call>>
      /\ \A q \in Paths : q # p => files'[q] = files[q]
      /\ ~AtOpen(p)
  BY DEF UserChanges, Untouched, recent, AtOpen, Shapes
<1>2. \A q : Latest(q)' = Latest(q) /\ (AtOpen(q)' <=> AtOpen(q))
  BY <1>1 DEF Latest, Entry, AtOpen
<1> QED
  BY <1>1, <1>2 DEF UndoInv, LastSaved, RingOK

\* Nobody has a file that the empty ring names.
LEMMA NoneLatest ==
  ASSUME ring = EmptyRing, cursor = 0 PROVE RingOK /\ \A p \in Paths : Latest(p) = {}
<1>1. RingSize \in Nat \ {0} /\ cursor \in 0..(RingSize - 1)
  BY FileAssumption
<1>2. \A k \in 1..RingSize : Entry(k).path = Absent
  BY <1>1, Around DEF Entry, EmptyRing, NoCheckpoint
<1> QED
  BY <1>1, <1>2, FileAssumption DEF Latest, RingOK, EmptyRing

LEMMA NoneLatestNext ==
  (ring = EmptyRing /\ cursor = 0)' => RingOK' /\ (\A p \in Paths : Latest(p) = {})'
<1>1. (ring = EmptyRing /\ cursor = 0) => RingOK /\ (\A p \in Paths : Latest(p) = {})
  BY NoneLatest
<1> QED
  BY <1>1, PTL

LEMMA DieUndo ==
  ASSUME Die PROVE UndoInv'
<1>1. ring' = EmptyRing /\ cursor' = 0 /\ \A c \in Callers : call'[c] = NoCall
  BY DEF Die, NoCalls
<1>2. RingOK' /\ \A p \in Paths : Latest(p)' = {}
  BY <1>1, NoneLatestNext DEF EmptyRing
<1> QED
  BY <1>1, <1>2, NoCallIsCall DEF UndoInv, LastSaved, Restoring

LEMMA UndoStep ==
  ASSUME KeptInv, UndoInv, ~Overlap, ~SameSecond, [FileNext]_fileVars
  PROVE  UndoInv'
<1>1. ASSUME NEW c \in Callers, UnderWay(c) PROVE UndoInv'
  BY <1>1, SaveUndo, RecordUndo, OpenUndo, WriteUndo DEF UnderWay
<1>2. CASE FileTick \/ UNCHANGED fileVars
  <2>1. UNCHANGED <<files, checkpoints, ring, cursor, replaced, call>>
    BY <1>2 DEF FileTick, disk, recent, fileVars
  <2> QED
    BY <2>1, UndoQuiet DEF AtOpen, UndoInv
<1> QED
  BY <1>1, <1>2, BeginUndo, UserUndo, DieUndo DEF FileNext, KeptInv

\* Restoring a file by no name (tool_file_mutations.c:509) writes the text its last
\* edit, or last restoring, replaced, whatever failed in between and however the
\* ring has gone round.
THEOREM RestoringUndoes ==
  ASSUME ~Overlap, ~SameSecond PROVE FileSpec => RestoreUndoes
<1>1. FileInit => UndoInv
  <2> SUFFICES ASSUME FileInit PROVE UndoInv
    OBVIOUS
  <2>1. RingOK /\ (\A p \in Paths : Latest(p) = {}) /\ \A c \in Callers : call[c] = NoCall
    BY NoneLatest DEF FileInit, NoCalls
  <2> QED
    BY <2>1, NoCallIsCall DEF UndoInv, LastSaved, Restoring
<1>2. KeptInv /\ UndoInv /\ [FileNext]_fileVars => UndoInv'
  BY UndoStep
<1>3. UndoInv => [\A c \in Callers :
          (call[c].op = "restore" /\ call[c].at = "open" /\ call'[c].at = "write" /\ Kept(replaced[call[c].path]))
          => call[c].result = replaced[call[c].path]]_fileVars
  BY DEF UndoInv, Restoring
<1> QED
  BY <1>1, <1>2, <1>3, KeptAlways, PTL DEF FileSpec, RestoreUndoes

-----------------------------------------------------------------------------
(* What was read is not edited blindly. *)

\* A print is that of the path's last reading; the reading of a path that counts
\* as remembered still has its print.
PrintInv ==
  /\ prints = [p \in Paths |-> prints[p]] /\ seen = [p \in Paths |-> seen[p]]
  /\ clock \in Nat \ {0}
  /\ \A p \in Paths : seen[p].at \in Nat /\ seen[p].at <= clock
  /\ \A p \in Paths : prints[p] # NoPrint => prints[p] = seen[p]
  /\ \A p \in Paths : Remembered(p) => prints[p] = seen[p]

\* Callers without a call have not found anything.
IdleInv ==
  /\ call = [c \in Callers |-> call[c]]
  /\ \A c \in Callers : IsCall(call[c])
  /\ \A c \in Callers : call[c].at = "idle" => ~call[c].blind

LEMMA ReadKeeps ==
  ASSUME PrintInv, NEW c \in Callers, NEW p \in Paths, NEW range, Read(c, p, range)
  PROVE  PrintInv'
<1> DEFINE to == Min({range[1] + range[2] - 1, Len(files[p])})
           print == [lines |-> Lines(files[p], range[1], to), from |-> range[1], to |-> to, at |-> clock]
<1>1. clock' = clock
  BY DEF Read
<1>2. \/ UNCHANGED <<prints, seen>>
      \/ prints' \in Registered(p, print) /\ seen' = [seen EXCEPT ![p] = print]
  BY DEF Read
<1>3. print.at = clock
  OBVIOUS
<1> HIDE DEF print
<1>4. CASE UNCHANGED <<prints, seen>>
  BY <1>1, <1>4 DEF PrintInv, Remembered
<1>5. CASE prints' \in Registered(p, print) /\ seen' = [seen EXCEPT ![p] = print]
  <2>1. PICK out \in Paths :
          /\ prints' = [prints EXCEPT ![out] = NoPrint, ![p] = print]
          /\ \/ out = p
             \/ /\ p \notin Tracked /\ ~(Cardinality(Tracked) < PrintSlots)
                /\ out \in Tracked /\ \A r \in Tracked : prints[out].at <= prints[r].at
    BY <1>5 DEF Registered, Tracked
  <2>2. /\ prints'[p] = print /\ seen'[p] = print
        /\ \A q \in Paths : q # p => seen'[q] = seen[q]
        /\ \A q \in Paths : q # p => prints'[q] = IF q = out THEN NoPrint ELSE prints[q]
        /\ prints' = [q \in Paths |-> prints'[q]] /\ seen' = [q \in Paths |-> seen'[q]]
    BY <1>5, <2>1 DEF PrintInv
  <2>3. ASSUME NEW q \in Paths, Remembered(q)' PROVE prints'[q] = seen'[q]
    <3>1. CASE q = p
      BY <2>2, <3>1
    <3>2. CASE q # p
      <4> DEFINE later == {r \in Paths \ {q} : seen[r] # NoPrint /\ seen[r].at >= seen[q].at}
                 after == {r \in Paths \ {q} : seen'[r] # NoPrint /\ seen'[r].at >= seen'[q].at}
      <4>1. later \subseteq Paths /\ after \subseteq Paths
        OBVIOUS
      <4>2. IsFiniteSet(Paths)
        BY FileAssumption
      <4>3. IsFiniteSet(after) /\ IsFiniteSet(later) /\ Cardinality(after) \in Nat /\ Cardinality(later) \in Nat
        BY <4>1, <4>2, FS_Subset, FS_CardinalityType
      <4>4. /\ seen[q] # NoPrint /\ clock - seen[q].at <= PrintLife
            /\ Cardinality(after) < PrintSlots
        BY <1>1, <2>2, <2>3, <3>2 DEF Remembered
      <4>5. PrintSlots \in Nat
        BY FileAssumption
      <4>6. CASE print = NoPrint
        BY <1>3, <4>6 DEF NoPrint, PrintInv
      <4>7. CASE print # NoPrint
        <5>1. p \in after
          BY <1>3, <2>2, <3>2, <4>7 DEF PrintInv
        <5>2. later \subseteq after
          BY <1>3, <2>2, <3>2, <4>7 DEF PrintInv
        <5>3. Cardinality(later) <= Cardinality(after)
          BY <4>3, <5>2, FS_Subset
        <5>4. Remembered(q)
          BY <4>3, <4>4, <4>5, <5>3 DEF Remembered
        <5>5. prints[q] = seen[q] /\ q \in Tracked
          BY <4>4, <5>4 DEF PrintInv, Tracked
        <5>6. out # q
          <6> SUFFICES ASSUME out = q PROVE FALSE
            OBVIOUS
          <6>1. p \notin Tracked /\ ~(Cardinality(Tracked) < PrintSlots)
                /\ \A r \in Tracked : prints[q].at <= prints[r].at
            BY <2>1, <3>2
          <6>2. IsFiniteSet(Tracked) /\ Cardinality(Tracked) \in Nat
            BY <4>2, FS_Subset, FS_CardinalityType DEF Tracked
          <6>3. Tracked \ {q} \subseteq after
            BY <2>2, <5>5, <6>1 DEF PrintInv, Tracked
          <6>4. IsFiniteSet(Tracked \ {q}) /\ Cardinality(Tracked \ {q}) = Cardinality(Tracked) - 1
            BY <5>5, <6>2, FS_RemoveElement
          <6>5. /\ IsFiniteSet((Tracked \ {q}) \cup {p})
                /\ Cardinality((Tracked \ {q}) \cup {p}) = Cardinality(Tracked) - 1 + 1
            BY <6>1, <6>4, FS_AddElement
          <6>6. Cardinality((Tracked \ {q}) \cup {p}) <= Cardinality(after)
            BY <4>3, <5>1, <6>3, FS_Subset
          <6> QED
            BY <4>3, <4>4, <4>5, <6>1, <6>2, <6>5, <6>6
        <5> QED
          BY <2>2, <3>2, <5>5, <5>6
      <4> QED
        BY <4>6, <4>7
    <3> QED
      BY <3>1, <3>2
  <2> QED
    BY <1>1, <1>3, <2>2, <2>3 DEF PrintInv
<1> QED
  BY <1>2, <1>4, <1>5

\* A print that is forgotten is too old to count.
LEMMA ForgetKeeps ==
  ASSUME PrintInv, NEW p \in Paths, NEW refs, ForgetIfExpired(p, refs), clock' = clock
  PROVE  PrintInv'
<1>1. seen' = seen /\ (prints' = prints \/ (Expired(p) /\ p \in Tracked /\ prints' = [prints EXCEPT ![p] = NoPrint]))
  BY DEF ForgetIfExpired
<1>2. CASE prints' = prints
  BY <1>1, <1>2 DEF PrintInv, Remembered
<1>3. CASE Expired(p) /\ p \in Tracked /\ prints' = [prints EXCEPT ![p] = NoPrint]
  <2>1. /\ prints' = [q \in Paths |-> prints'[q]] /\ prints'[p] = NoPrint
        /\ \A q \in Paths : q # p => prints'[q] = prints[q]
    BY <1>3 DEF PrintInv
  <2>2. prints[p] = seen[p]
    BY <1>3 DEF PrintInv, Tracked
  <2>3. ~Remembered(p)
    BY <1>3, <2>2, FileAssumption DEF Expired, Remembered, PrintInv
  <2>4. \A q \in Paths : Remembered(q)' <=> Remembered(q)
    BY <1>1 DEF Remembered
  <2> QED
    BY <1>1, <2>1, <2>3, <2>4 DEF PrintInv
<1> QED
  BY <1>1, <1>2, <1>3

LEMMA PrintStep ==
  ASSUME PrintInv, FileNext
  PROVE  PrintInv'
<1>1. ASSUME UNCHANGED <<clock, prints, seen>> PROVE PrintInv'
  BY <1>1 DEF PrintInv, Remembered
<1>2. ASSUME NEW c \in Callers, UnderWay(c) PROVE PrintInv'
  BY <1>1, <1>2 DEF UnderWay, Save, Record, Open, Write, read
<1>3. ASSUME NEW c \in Callers, NEW p \in Paths, Asked(c, p) PROVE PrintInv'
  <2>1. CASE AddFile(c, p) \/ RestoreRecent(c, p) \/ RestoreNamed(c, p)
    BY <1>1, <2>1 DEF AddFile, RestoreRecent, RestoreNamed, read
  <2>2. ASSUME NEW range \in Ranges, Read(c, p, range) PROVE PrintInv'
    BY <2>2, ReadKeeps
  <2>3. ASSUME NEW patch \in Patches, UpdateFile(c, p, patch) PROVE PrintInv'
    <3>1. ForgetIfExpired(p, patch.refs) /\ clock' = clock
      BY <2>3 DEF UpdateFile
    <3> QED
      BY <3>1, ForgetKeeps
  <2>4. CASE DeleteFile(c, p)
    <3>1. ForgetIfExpired(p, {}) /\ clock' = clock
      BY <2>4 DEF DeleteFile
    <3> QED
      BY <3>1, ForgetKeeps
  <2> QED
    BY <1>3, <2>1, <2>2, <2>3, <2>4 DEF Asked
<1>4. ASSUME NEW p \in Paths, UserChanges(p) PROVE PrintInv'
  BY <1>1, <1>4 DEF UserChanges, read
<1>5. CASE FileTick
  <2>1. clock' = clock + 1 /\ UNCHANGED <<prints, seen>>
    BY <1>5 DEF FileTick, Tick, read
  <2>2. \A p \in Paths : Remembered(p)' => Remembered(p)
    BY <2>1, FileAssumption DEF PrintInv, Remembered
  <2> QED
    BY <2>1, <2>2 DEF PrintInv
<1>6. CASE Die
  <2>1. clock' = clock /\ prints' = [p \in Paths |-> NoPrint] /\ seen' = [p \in Paths |-> NoPrint]
    BY <1>6 DEF Die, NoPrints
  <2>2. NoPrint.at = 0
    BY DEF NoPrint
  <2> QED
    BY <2>1, <2>2 DEF PrintInv
<1> QED
  BY <1>2, <1>3, <1>4, <1>5, <1>6 DEF FileNext

\* A call begins to edit without line references only after what was read, if it is
\* remembered, was found unchanged.
EditStep(c) ==
  (call[c].at = "idle" /\ call'[c].blind /\ Remembered(call'[c].path))
  => LET p == call'[c].path
     IN  Lines(files[p], seen[p].from, seen[p].to) = seen[p].lines

LEMMA BlindStep ==
  ASSUME PrintInv, IdleInv, FileNext
  PROVE  IdleInv' /\ \A c \in Callers : EditStep(c)
<1>1. ASSUME UNCHANGED call PROVE IdleInv' /\ \A c \in Callers : EditStep(c)
  BY <1>1 DEF IdleInv, EditStep
<1>2. ASSUME NEW c \in Callers, NEW r, IsCall(r), call' = [call EXCEPT ![c] = r],
             r.at # "idle" \/ ~r.blind,
             r.blind /\ call[c].at = "idle" => r.path \in Paths /\ SafeEdit(r.path)
      PROVE  IdleInv' /\ \A d \in Callers : EditStep(d)
  <2>1. /\ call'[c] = r /\ (\A d \in Callers : d # c => call'[d] = call[d])
        /\ call' = [d \in Callers |-> call'[d]]
    BY <1>2 DEF IdleInv
  <2>2. IdleInv'
    BY <1>2, <2>1 DEF IdleInv
  <2>3. EditStep(c)
    <3> SUFFICES ASSUME call[c].at = "idle", r.blind, Remembered(r.path)
                 PROVE  Lines(files[r.path], seen[r.path].from, seen[r.path].to) = seen[r.path].lines
      BY <2>1 DEF EditStep
    <3>1. r.path \in Paths /\ SafeEdit(r.path) /\ prints[r.path] = seen[r.path]
      BY <1>2 DEF PrintInv
    <3>2. r.path \in Tracked /\ ~Expired(r.path)
      BY <3>1, FileAssumption DEF Remembered, Tracked, Expired, PrintInv
    <3> QED
      BY <3>1, <3>2 DEF SafeEdit
  <2> QED
    BY <2>1, <2>2, <2>3 DEF EditStep, IdleInv
<1>3. ASSUME NEW c \in Callers, UnderWay(c) PROVE IdleInv' /\ \A d \in Callers : EditStep(d)
  <2>1. PICK r : /\ call' = [call EXCEPT ![c] = r]
                 /\ \/ r = NoCall
                    \/ r = [call[c] EXCEPT !.at = "record", !.second = clock]
                    \/ r = [call[c] EXCEPT !.at = "open"]
                    \/ r = [call[c] EXCEPT !.at = "write"]
    <3>1. CASE Save(c)
      <4>1. \/ call' = [call EXCEPT ![c].at = "record", ![c].second = clock]
            \/ call' = [call EXCEPT ![c] = NoCall]
        BY <3>1 DEF Save, NotSaved
      <4>2. CASE call' = [call EXCEPT ![c].at = "record", ![c].second = clock]
        <5> DEFINE saved == [call[c] EXCEPT !.at = "record", !.second = clock]
        <5>1. call' = [call EXCEPT ![c] = saved]
          BY <4>2 DEF IdleInv
        <5> QED
          BY <5>1
      <4>3. CASE call' = [call EXCEPT ![c] = NoCall]
        BY <4>3
      <4> QED
        BY <4>1, <4>2, <4>3
    <3>2. CASE Record(c)
      BY <3>2 DEF Record
    <3>3. CASE Open(c)
      BY <3>3 DEF Open, Return
    <3>4. CASE Write(c)
      BY <3>4 DEF Write, Return
    <3> QED
      BY <1>3, <3>1, <3>2, <3>3, <3>4 DEF UnderWay
  <2>2. IsCall(call[c])
    BY DEF IdleInv
  <2>3. IsCall(r) /\ (r.at # "idle" \/ ~r.blind)
    <3>1. CASE r = NoCall
      BY <3>1, NoCallIsCall DEF NoCall
    <3>2. CASE r = [call[c] EXCEPT !.at = "record", !.second = clock]
      BY <2>2, <3>2 DEF IsCall, Fields
    <3>3. CASE r = [call[c] EXCEPT !.at = "open"]
      BY <2>2, <3>3 DEF IsCall, Fields
    <3>4. CASE r = [call[c] EXCEPT !.at = "write"]
      BY <2>2, <3>4 DEF IsCall, Fields
    <3> QED
      BY <2>1, <3>1, <3>2, <3>3, <3>4
  <2>4. call[c].at # "idle"
    BY <1>3 DEF UnderWay, Save, Record, Open, Write
  <2> QED
    BY <1>2, <2>1, <2>3, <2>4
<1>4. ASSUME NEW c \in Callers, NEW p \in Paths, Asked(c, p)
      PROVE  IdleInv' /\ \A d \in Callers : EditStep(d)
  <2>1. ASSUME NEW range \in Ranges, Read(c, p, range) PROVE UNCHANGED call
    BY <2>1 DEF Read
  <2>2. CASE AddFile(c, p)
    <3>1. PICK text \in Texts :
            call' = [call EXCEPT ![c] = [NoCall EXCEPT !.at = "open", !.op = "add", !.path = p, !.result = text]]
      BY <2>2 DEF AddFile, Begin
    <3> DEFINE r == [NoCall EXCEPT !.at = "open", !.op = "add", !.path = p, !.result = text]
    <3>2. IsCall(r) /\ ~r.blind
      BY DEF NoCall, IsCall, Fields
    <3> HIDE DEF r
    <3> QED
      BY <1>2, <3>1, <3>2 DEF r
  <2>3. ASSUME NEW patch \in Patches, UpdateFile(c, p, patch), ~UNCHANGED call
        PROVE  IdleInv' /\ \A d \in Callers : EditStep(d)
    <3> DEFINE r == [NoCall EXCEPT !.at = "save", !.op = "update", !.path = p, !.text = files[p],
                       !.result = Patched(files[p], patch), !.blind = ~ByRefs(p, patch.refs)]
    <3>1. call' = [call EXCEPT ![c] = r] /\ Verified(p, patch.refs)
      BY <2>3 DEF UpdateFile, Begin
    <3>2. IsCall(r) /\ r.at # "idle" /\ r.path = p /\ r.blind = ~ByRefs(p, patch.refs)
      BY DEF NoCall, IsCall, Fields
    <3>3. r.blind => SafeEdit(p)
      BY <3>1, <3>2 DEF Verified
    <3> HIDE DEF r
    <3> QED
      BY <1>2, <3>1, <3>2, <3>3
  <2>4. CASE DeleteFile(c, p) /\ ~UNCHANGED call
    <3> DEFINE r == [NoCall EXCEPT !.at = "save", !.op = "delete", !.path = p,
                       !.text = Whole(files[p]), !.blind = TRUE]
    <3>1. call' = [call EXCEPT ![c] = r] /\ Verified(p, {})
      BY <2>4 DEF DeleteFile, Begin
    <3>2. IsCall(r) /\ r.at # "idle" /\ r.path = p
      BY DEF NoCall, IsCall, Fields
    <3>3. SafeEdit(p)
      BY <3>1 DEF Verified, ByRefs
    <3> HIDE DEF r
    <3> QED
      BY <1>2, <3>1, <3>2, <3>3
  <2>5. CASE RestoreRecent(c, p) \/ RestoreNamed(c, p)
    <3>1. PICK op, text : BeginRestore(c, p, op, text)
      BY <2>5 DEF RestoreRecent, RestoreNamed
    <3> DEFINE r == [NoCall EXCEPT !.at = "save", !.op = op, !.path = p,
                       !.text = Whole(files[p]), !.result = Whole(text)]
    <3>2. call' = [call EXCEPT ![c] = r]
      BY <3>1 DEF BeginRestore, Begin
    <3>3. IsCall(r) /\ ~r.blind
      BY DEF NoCall, IsCall, Fields
    <3> HIDE DEF r
    <3> QED
      BY <1>2, <3>2, <3>3
  <2> QED
    BY <1>1, <1>4, <2>1, <2>2, <2>3, <2>4, <2>5 DEF Asked
<1>5. CASE FileTick \/ \E p \in Paths : UserChanges(p)
  BY <1>1, <1>5 DEF FileTick, UserChanges
<1>6. CASE Die
  <2>1. call' = [c \in Callers |-> NoCall]
    BY <1>6 DEF Die, NoCalls
  <2>2. ~NoCall.blind
    BY DEF NoCall
  <2> QED
    BY <2>1, <2>2, NoCallIsCall DEF IdleInv, EditStep
<1> QED
  BY <1>3, <1>4, <1>5, <1>6 DEF FileNext

\* However calls overlap: a file whose reading is remembered is written over or
\* deleted by a patch without line references only if the lines that were read are
\* as they were (tool_safe_edit.c:147).
THEOREM EditsAreNotBlind == FileSpec => NoBlindEdit
<1>1. FileInit => PrintInv /\ IdleInv
  <2> SUFFICES ASSUME FileInit PROVE PrintInv /\ IdleInv
    OBVIOUS
  <2>1. NoPrint.at = 0 /\ ~NoCall.blind
    BY DEF NoPrint, NoCall
  <2>2. PrintInv
    BY <2>1 DEF FileInit, NoPrints, PrintInv
  <2>3. IdleInv
    BY <2>1, NoCallIsCall DEF FileInit, NoCalls, IdleInv
  <2> QED
    BY <2>2, <2>3
<1>2. PrintInv /\ IdleInv /\ [FileNext]_fileVars =>
        PrintInv' /\ IdleInv' /\ [\A c \in Callers : EditStep(c)]_fileVars
  <2> SUFFICES ASSUME PrintInv, IdleInv, [FileNext]_fileVars
               PROVE  PrintInv' /\ IdleInv' /\ [\A c \in Callers : EditStep(c)]_fileVars
    OBVIOUS
  <2>1. CASE FileNext
    BY <2>1, PrintStep, BlindStep
  <2>2. CASE UNCHANGED fileVars
    BY <2>2 DEF fileVars, read, PrintInv, Remembered, IdleInv
  <2> QED
    BY <2>1, <2>2
<1> QED
  BY <1>1, <1>2, PTL DEF FileSpec, NoBlindEdit, EditStep

===============================================================================
