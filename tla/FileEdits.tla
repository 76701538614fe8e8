------------------------------ MODULE FileEdits ------------------------------
(***************************************************************************)
(* The file tools: reading, which remembers what was shown; patching,      *)
(* which checks that against the file, saves the old text as a checkpoint  *)
(* and writes the new one; and restoring, which is an edit of its own. A   *)
(* text is a sequence of lines, Huge the line that makes a file too large  *)
(* to be read whole. A call fails half way when the disk is full, and the  *)
(* process may die between any two steps. Overlap = FALSE lets one call be  *)
(* under way at a time, and users leave its file alone.                     *)
(***************************************************************************)
EXTENDS HostClock, Sequences, FiniteSetsExt, SequencesExt

CONSTANTS
    Paths,
    Absent,         \* what a path without a file holds
    Huge,           \* a line of more than 32 KB
    Texts,          \* what users put into files, and what Add File is given
    Patches,        \* [old, new, refs] of Update File; a ref names a line and what it says
    Ranges,         \* <<offset, limit>> of reads
    SameSecond,     \* may a path get two checkpoints in one second?
    RingSize,       \* TOOL_FILES_RECENT_CHECKPOINTS
    PrintSlots,     \* SAFE_EDIT_MAX_TRACKED
    PrintLife,      \* SAFE_EDIT_TTL_SECONDS
    LastSecond,     \* bound: the clock stops here
    Initial,        \* the files at the start
    MaxCalls,       \* bound: how many calls are made
    MaxFaults       \* bound: how often users change files, writing fails or the process dies

ASSUME FileAssumption ==
    /\ {RingSize, PrintSlots, LastSecond} \subseteq Nat \ {0}
    /\ {PrintLife, MaxCalls, MaxFaults} \subseteq Nat
    /\ SameSecond \in BOOLEAN
    /\ IsFiniteSet(Paths) /\ Absent \notin Paths /\ Initial = [p \in Paths |-> Initial[p]]

VARIABLES
    files,
    modified,     \* st_mtime
    checkpoints,  \* <second>_<slug>.bak; the paths' slugs are taken to be distinct
    ring,         \* s_recent_checkpoints
    cursor,       \* s_recent_checkpoint_cursor modulo the ring's size
    prints,       \* s_fingerprints, by path
    lastRead,     \* s_last_read
    call,         \* locals of the calls under way
    seen,         \* the model's own: the lines a path's last reading showed
    replaced,     \* the model's own: the text of a path that was last written over or deleted
    calls, faults

disk == <<files, modified, checkpoints>>
recent == <<ring, cursor>>
read == <<prints, lastRead, seen>>
bounds == <<calls, faults>>
fileVars == <<clock, disk, recent, read, call, replaced, bounds>>

NoPrint == [lines |-> <<>>, from |-> 1, to |-> 0, at |-> 0]
NoRead == [path |-> Absent, range |-> <<0, 0>>, mtime |-> 0]
NoCheckpoint == [path |-> Absent, second |-> 0]
NoCall == [at |-> "idle", op |-> "none", path |-> Absent, text |-> <<>>, result |-> <<>>, blind |-> FALSE, second |-> 0]

-----------------------------------------------------------------------------
(* Texts                                                                   *)

Big(text) == text # Absent /\ Contains(text, Huge)

\* What a tool gets that reads a text whole: nothing of a missing or a large one.
Whole(text) == IF text = Absent \/ Big(text) THEN <<>> ELSE text

Lines(text, from, to) == SubSeq(text, from, Min({to, Len(text)}))

\* Only the first occurrence of the old lines is replaced, wherever it is.
Patched(text, patch) == ReplaceFirstSubSeq(patch.new, patch.old, text)

-----------------------------------------------------------------------------
(* Reading, and the checks before an edit                                  *)

Counted == calls < MaxCalls /\ calls' = calls + 1
Fault == faults < MaxFaults /\ faults' = faults + 1

Free(c) == \A d \in Callers : (d = c \/ ~Overlap) => call[d].at = "idle"
Untouched(p) == \A d \in Callers : call[d].path # p

Tracked == {p \in Paths : prints[p] # NoPrint}

Registered_Kept(p, print) == {IF p \in Tracked THEN prints ELSE [prints EXCEPT ![p] = print]}

\* A path's print replaces its last one, takes a free slot, or the one read first.
Registered(p, print) ==
    LET taken == IF p \in Tracked \/ Cardinality(Tracked) < PrintSlots THEN {p}
                 ELSE {q \in Tracked : \A r \in Tracked : prints[q].at <= prints[r].at}
    IN  {[prints EXCEPT ![q] = NoPrint, ![p] = print] : q \in taken}

\* The same range read again, by whomever, of a file with the same time: nothing
\* is shown, and the print stays as old as it is.
Read(c, p, range) ==
    /\ Free(c) /\ Counted
    /\ files[p] # Absent
    /\ lastRead # [path |-> p, range |-> range, mtime |-> modified[p]]
    /\ LET to == Min({range[1] + range[2] - 1, Len(files[p])})
           print == [lines |-> Lines(files[p], range[1], to), from |-> range[1], to |-> to, at |-> clock]
       IN  IF print.lines = <<>> THEN UNCHANGED <<prints, seen>>
           ELSE prints' \in Registered(p, print) /\ seen' = [seen EXCEPT ![p] = print]
    /\ lastRead' = [path |-> p, range |-> range, mtime |-> modified[p]]
    /\ UNCHANGED <<clock, disk, recent, call, replaced, faults>>

Expired(p) == clock - prints[p].at > PrintLife

SafeEdit(p) ==
    p \in Tracked /\ ~Expired(p) =>
        files[p] # Absent /\ Lines(files[p], prints[p].from, prints[p].to) = prints[p].lines

\* Line references are enough; without them, what was read must not have changed.
ByRefs(p, refs) == refs # {} /\ Whole(files[p]) # <<>>
Verified(p, refs) ==
    IF ByRefs(p, refs)
    THEN \A r \in refs : r.line \in DOMAIN files[p] /\ files[p][r.line] = r.says
    ELSE SafeEdit(p)

ForgetIfExpired(p, refs) ==
    /\ prints' = IF p \in Tracked /\ Expired(p) /\ ~ByRefs(p, refs)
                 THEN [prints EXCEPT ![p] = NoPrint] ELSE prints
    /\ UNCHANGED <<lastRead, seen>>

-----------------------------------------------------------------------------
(* The calls                                                               *)

Begin(c, new) == Counted /\ call' = [call EXCEPT ![c] = new]

AddFile(c, p) ==
    /\ Free(c) /\ Untouched(p)
    /\ files[p] = Absent
    /\ \E text \in Texts : Begin(c, [NoCall EXCEPT !.at = "open", !.op = "add", !.path = p, !.result = text])
    /\ UNCHANGED <<clock, disk, recent, read, replaced, faults>>

UpdateFile(c, p, patch) ==
    /\ Free(c) /\ Untouched(p)
    /\ Verified(p, patch.refs)
    /\ ForgetIfExpired(p, patch.refs)
    /\ IF patch.old \in SubSeqs(Whole(files[p])) /\ Whole(files[p]) # <<>>
       THEN Begin(c, [NoCall EXCEPT !.at = "save", !.op = "update", !.path = p, !.text = files[p],
                                    !.result = Patched(files[p], patch), !.blind = ~ByRefs(p, patch.refs)])
       ELSE UNCHANGED <<call, calls>>
    /\ UNCHANGED <<clock, disk, recent, replaced, faults>>

\* The text that is saved of a large file is empty.
DeleteFile(c, p) ==
    /\ Free(c) /\ Untouched(p)
    /\ Verified(p, {})
    /\ ForgetIfExpired(p, {})
    /\ IF files[p] # Absent
       THEN Begin(c, [NoCall EXCEPT !.at = "save", !.op = "delete", !.path = p,
                                    !.text = Whole(files[p]), !.blind = TRUE])
       ELSE UNCHANGED <<call, calls>>
    /\ UNCHANGED <<clock, disk, recent, replaced, faults>>

\* How far back in the ring a path's entries are.
Ago(p) == {k \in 1..RingSize : ring[(cursor + RingSize - k) % RingSize].path = p}

Recent_Oldest(p) == ring[(cursor + RingSize - Max(Ago(p))) % RingSize].second

\* The second of a path's last checkpoint in the ring.
Recent(p) == ring[(cursor + RingSize - Min(Ago(p))) % RingSize].second

BeginRestore(c, p, op, text) ==
    Begin(c, [NoCall EXCEPT !.at = "save", !.op = op, !.path = p, !.text = Whole(files[p]), !.result = Whole(text)])

RestoreRecent(c, p) ==
    /\ Free(c) /\ Untouched(p)
    /\ Ago(p) # {}
    /\ BeginRestore(c, p, "restore", checkpoints[Recent(p)][p])
    /\ UNCHANGED <<clock, disk, recent, read, replaced, faults>>

\* Any name in the directory of checkpoints will do, also one that does not exist.
RestoreNamed(c, p) ==
    /\ Free(c) /\ Untouched(p)
    /\ \E s \in 1..LastSecond, q \in Paths : BeginRestore(c, p, "restore named", checkpoints[s][q])
    /\ UNCHANGED <<clock, disk, recent, read, replaced, faults>>

-----------------------------------------------------------------------------
(* Saving and writing                                                      *)

Return(c) == call' = [call EXCEPT ![c] = NoCall]

NotSaved_WriteAnyway(c) == [call[c] EXCEPT !.at = "open"]

\* Without a checkpoint the edit is given up.
NotSaved(c) == NoCall

Save(c) ==
    /\ call[c].at = "save"
    /\ SameSecond \/ checkpoints[clock][call[c].path] = Absent
    /\ \/ /\ checkpoints' = [checkpoints EXCEPT ![clock][call[c].path] = call[c].text]
          /\ call' = [call EXCEPT ![c].at = "record", ![c].second = clock]
          /\ UNCHANGED faults
       \/ /\ Fault
          /\ checkpoints' = [checkpoints EXCEPT ![clock][call[c].path] = <<>>]
          /\ call' = [call EXCEPT ![c] = NotSaved(c)]
    /\ UNCHANGED <<clock, files, modified, recent, read, replaced, calls>>

Record(c) ==
    /\ call[c].at = "record"
    /\ ring' = [ring EXCEPT ![cursor] = [path |-> call[c].path, second |-> call[c].second]]
    /\ cursor' = (cursor + 1) % RingSize
    /\ call' = [call EXCEPT ![c].at = "open"]
    /\ UNCHANGED <<clock, disk, read, replaced, bounds>>

Opened(c) == IF call[c].op = "delete" THEN Absent ELSE <<>>

\* The file is deleted, or emptied to be written; or neither is possible.
Open(c) ==
    /\ call[c].at = "open"
    /\ LET p == call[c].path
       IN  /\ replaced' = [replaced EXCEPT ![p] = files[p]]
           /\ \/ /\ files' = [files EXCEPT ![p] = Opened(c)]
                 /\ modified' = [modified EXCEPT ![p] = clock]
                 /\ IF call[c].op = "delete" THEN Return(c) ELSE call' = [call EXCEPT ![c].at = "write"]
                 /\ UNCHANGED faults
              \/ /\ Fault
                 /\ Return(c)
                 /\ UNCHANGED <<files, modified>>
    /\ UNCHANGED <<clock, checkpoints, recent, read, calls>>

Write(c) ==
    /\ call[c].at = "write"
    /\ \/ /\ files' = [files EXCEPT ![call[c].path] = call[c].result]
          /\ modified' = [modified EXCEPT ![call[c].path] = clock]
          /\ UNCHANGED faults
       \/ /\ Fault
          /\ UNCHANGED <<files, modified>>
    /\ Return(c)
    /\ UNCHANGED <<clock, checkpoints, recent, read, replaced, calls>>

-----------------------------------------------------------------------------
(* Surroundings                                                            *)

\* A user or a command of the terminal writes or deletes a file.
UserChanges(p) ==
    /\ Fault
    /\ Overlap \/ Untouched(p)
    /\ \E text \in Texts \cup {Absent} : files' = [files EXCEPT ![p] = text]
    /\ modified' = [modified EXCEPT ![p] = clock]
    /\ UNCHANGED <<clock, checkpoints, recent, read, call, replaced, calls>>

FileTick ==
    /\ Tick(LastSecond)
    /\ UNCHANGED <<disk, recent, read, call, replaced, bounds>>

EmptyRing == [k \in 0..(RingSize - 1) |-> NoCheckpoint]
NoPrints == [p \in Paths |-> NoPrint]
NoCalls == [c \in Callers |-> NoCall]

\* The process dies: the files are all that is left.
Die ==
    /\ Fault
    /\ ring' = EmptyRing /\ cursor' = 0
    /\ prints' = NoPrints /\ lastRead' = NoRead /\ seen' = NoPrints
    /\ call' = NoCalls
    /\ UNCHANGED <<clock, disk, replaced, calls>>

FileInit ==
    /\ clock = 1
    /\ files = Initial
    /\ modified = [p \in Paths |-> 0]
    /\ checkpoints = [s \in 1..LastSecond |-> [p \in Paths |-> Absent]]
    /\ ring = EmptyRing /\ cursor = 0
    /\ prints = NoPrints /\ lastRead = NoRead /\ seen = NoPrints
    /\ call = NoCalls
    /\ replaced = [p \in Paths |-> Absent]
    /\ calls = 0 /\ faults = 0

Asked(c, p) ==
    \/ \E range \in Ranges : Read(c, p, range)
    \/ AddFile(c, p)
    \/ \E patch \in Patches : UpdateFile(c, p, patch)
    \/ DeleteFile(c, p)
    \/ RestoreRecent(c, p)
    \/ RestoreNamed(c, p)

UnderWay(c) == Save(c) \/ Record(c) \/ Open(c) \/ Write(c)

FileNext ==
    \/ \E c \in Callers : UnderWay(c) \/ \E p \in Paths : Asked(c, p)
    \/ \E p \in Paths : UserChanges(p)
    \/ FileTick \/ Die

FileSpec == FileInit /\ [][FileNext]_fileVars

-----------------------------------------------------------------------------
(* Properties                                                              *)

Kept(text) == text # Absent /\ ~Big(text)

\* The text of up to 32 KB that a tool last wrote over or deleted is in a
\* checkpoint, also when the disk was full or the process died half way.
ReplacedIsKept ==
    \A p \in Paths : Kept(replaced[p]) => \E s \in 1..LastSecond : checkpoints[s][p] = replaced[p]

\* "For a quick way back": restoring a file without naming a checkpoint writes
\* the text that the last edit of this file, or the last restoring, replaced.
RestoreUndoes ==
    [][\A c \in Callers :
          (call[c].op = "restore" /\ call[c].at = "open" /\ call'[c].at = "write" /\ Kept(replaced[call[c].path]))
          => call[c].result = replaced[call[c].path]]_fileVars

\* A file that was read less than a print's life ago, after which no more other
\* files were read than prints are kept, is written over or deleted by a patch
\* without line references only if the lines that were read are as they were.
Remembered(p) ==
    /\ seen[p] # NoPrint
    /\ clock - seen[p].at <= PrintLife
    /\ Cardinality({q \in Paths \ {p} : seen[q] # NoPrint /\ seen[q].at >= seen[p].at}) < PrintSlots
NoBlindEdit ==
    [][\A c \in Callers :
          (call[c].at = "idle" /\ call'[c].blind /\ Remembered(call'[c].path))
          => LET p == call'[c].path
             IN  Lines(files[p], seen[p].from, seen[p].to) = seen[p].lines]_fileVars

=============================================================================
