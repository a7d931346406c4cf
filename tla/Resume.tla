------------------------------- MODULE Resume -------------------------------
(***************************************************************************)
(* Which stored row a log file belongs to and where it is read from, while *)
(* the web server appends and logrotate renames, copies, packs and removes *)
(* files between runs, and rollback rewinds the rows.                      *)
(*                                                                         *)
(* Data abstraction.  The server writes the lines 1, 2, ...; line l has    *)
(* the time stamp l.  A file holds consecutive lines, so its content is    *)
(* the number of lines before it and its size, and an offset is a number   *)
(* of lines.  A packed file is as long as what it was made from.  A head   *)
(* fingerprint is the identity of the first HeadSize lines, or of all of   *)
(* a file that is shorter.  Batches, threads and dropped lines are the     *)
(* subject of module Pipeline: here a file is read up to a checkpoint or   *)
(* to its end in one step.  All files are looked at in one step.           *)
(***************************************************************************)
EXTENDS Naturals, Sequences, SequencesExt

CONSTANTS
  MaxLines,    \* bound: lines the server writes
  Inodes,      \* bound: inode numbers
  HeadSize,    \* FINGERPRINT_SAMPLE, in lines
  Globs,       \* what log_glob may match
  Trouble,     \* what else may happen to files, see below
  Targets,     \* where a user may roll back to
  MaxRollbacks,\* bound
  MaxCrashes   \* bound

Live == "access.log"
Rotated == "access.log.1"
Packed == "access.log.2.gz"
Paths == {Live, Rotated, Packed}
Line == 1..MaxLines
NoInode == 0
NoHead == <<>>
NoTs == 0

\* Glob results come in the order of their paths.
PathOrder == [p \in Paths |-> IF p = Live THEN 1 ELSE IF p = Rotated THEN 2 ELSE 3]
IsCompressed(p) == p = Packed

\* Each of these makes a row be taken for a file it does not describe, or
\* hides the one that does; without them the properties below hold.
\*   fill              the first line is written between plan and reading
\*   swap              a planned path gets another file before it is opened
\*   outgrow           a truncated file grows past its size when last read
\*   copy again        a second copy takes the path of the first
\*   pack over         a packed file replaces an older one
\*   pack interrupted  a file is packed while a part of it is read
\*   reuse             a new file gets the inode of one that is remembered
Troubles == {"fill", "swap", "outgrow", "copy again", "pack over", "pack interrupted", "reuse"}

ASSUME ResumeAssumption ==
  /\ MaxLines \in Nat /\ HeadSize \in Nat \ {0}
  /\ Inodes \subseteq Nat \ {0} /\ 1 \in Inodes
  /\ Trouble \subseteq Troubles
  /\ Globs \subseteq SUBSET Paths
  /\ Targets \subseteq 2..MaxLines
  /\ MaxRollbacks \in Nat /\ MaxCrashes \in Nat

VARIABLES
  glob,       \* the files webstat looks at
  dir,        \* directory: the inode of each path, or NoInode
  file,       \* content of each inode
  written,    \* lines written so far
  \* The database.
  count,      \* how often each line is in the tables
  parseState, \* table parse_state
  archive,    \* table parse_state_archive
  lastLog,    \* meta.last_log_ts
  \* The run.
  pc,         \* "idle" or "run"
  todo,       \* plans of files the loader has not opened
  active,     \* the ActiveFile, or NoFile
  acc,        \* lines counted since the last flush
  pending,    \* pending_parse_states
  retired,    \* retired_parse_states
  \* History.
  due,        \* lines on disk when the run began, if nothing disturbed it
  targets,    \* rolled back to
  rollbacks, crashes

fsVars  == <<glob, dir, file, written>>
dbVars  == <<count, parseState, archive, lastLog>>
runVars == <<pc, todo, active, acc, pending, retired>>
histVars == <<due, targets, rollbacks, crashes>>
vars == <<fsVars, dbVars, runVars, histVars>>

NoRow == [path |-> "", inode |-> NoInode, csize |-> 0, usize |-> 0, chead |-> NoHead,
          uhead |-> NoHead, coff |-> 0, uoff |-> 0, mtime |-> 0, completed |-> FALSE,
          earliest |-> NoTs, latest |-> NoTs, skip |-> NoTs]
NoFile == [plan |-> NoRow, inode |-> NoInode, at |-> 0, earliest |-> NoTs, latest |-> NoTs]
NoCount == [l \in Line |-> 0]

HeadType == {NoHead} \cup (0..MaxLines) \X (1..HeadSize)
Row == [path : Paths, inode : Inodes, csize : 0..MaxLines, usize : 0..MaxLines, chead : HeadType,
        uhead : HeadType, coff : 0..MaxLines, uoff : 0..MaxLines, mtime : Nat, completed : BOOLEAN,
        earliest : 0..MaxLines, latest : 0..MaxLines, skip : 0..MaxLines]

Content == [from : 0..MaxLines, size : 0..MaxLines, mtime : Nat]
Empty(now) == [from |-> now, size |-> 0, mtime |-> now + 1]

LinesOf(c, lo, hi) == {l \in Line : c.from + lo < l /\ l <= c.from + hi}
AllLines(c) == LinesOf(c, 0, c.size)

Init ==
  /\ glob \in Globs
  /\ dir = [p \in Paths |-> IF p = Live THEN 1 ELSE NoInode]
  /\ file = [i \in Inodes |-> Empty(0)]
  /\ written = 0
  /\ count = NoCount /\ parseState = {} /\ archive = {} /\ lastLog = 0
  /\ pc = "idle" /\ todo = <<>> /\ active = NoFile
  /\ acc = NoCount /\ pending = <<>> /\ retired = {}
  /\ due = {} /\ targets = {} /\ rollbacks = 0 /\ crashes = 0

-----------------------------------------------------------------------------
(* The web server and logrotate. *)

At(p) == file[dir[p]]
OnDisk == {p \in glob : dir[p] # NoInode}

Inuse == {dir[p] : p \in Paths} \cup {active.inode}
Remembered == {r.inode : r \in parseState \cup archive \cup Range(pending) \cup Range(todo)}

\* The inode of a file that is created: the least free one, as most file
\* systems choose it.
IsFresh(i) ==
  LET free == Inodes \ (IF "reuse" \in Trouble THEN Inuse ELSE Inuse \cup Remembered)
  IN i \in free /\ \A j \in free : i <= j

\* A path that is planned and not yet opened gets another file, or the file
\* that is being read other lines.
Swaps ==
  \/ \E k \in DOMAIN todo : dir'[todo[k].path] \notin {todo[k].inode, NoInode}
  \/ \E i \in {todo[k].inode : k \in DOMAIN todo} \cup ({active.inode} \ {NoInode}) :
       file'[i].from # file[i].from

\* What happens to files other than growth, during a run, voids its promise.
Disturb ==
  /\ pc = "run" => ~Swaps \/ "swap" \in Trouble
  /\ due' = IF pc = "run" THEN {} ELSE due

\* A run has stopped, or may yet, after a part of the file.
PartlyRead(i) == i = active.inode \/ \E r \in parseState : r.inode = i /\ ~r.completed

\* The file was truncated since it was read and becomes as long as it was.
Outgrows(i) ==
  \E r \in parseState \cup archive :
    r.inode = i /\ r.uhead # NoHead /\ r.uhead[1] # file[i].from /\ file[i].size + 1 >= r.usize

WriteLine ==
  /\ written < MaxLines
  /\ pc = "idle" \/ At(Live).size > 0 \/ "fill" \in Trouble
  /\ ~Outgrows(dir[Live]) \/ "outgrow" \in Trouble
  /\ written' = written + 1
  /\ file' = [file EXCEPT ![dir[Live]].size = @ + 1, ![dir[Live]].mtime = written + 2]
  /\ UNCHANGED <<glob, dir, dbVars, runVars, histVars>>

\* rename and create
Rename ==
  /\ At(Live).size > 0 /\ dir[Rotated] = NoInode
  /\ \E i \in Inodes :
       /\ IsFresh(i)
       /\ dir' = [dir EXCEPT ![Rotated] = dir[Live], ![Live] = i]
       /\ file' = [file EXCEPT ![i] = Empty(written)]
  /\ Disturb
  /\ UNCHANGED <<glob, written, dbVars, runVars, targets, rollbacks, crashes>>

CopyTruncate ==
  /\ "copy again" \in Trouble
     \/ \A r \in parseState \cup Range(pending) \cup Range(todo) : r.path # Rotated
  /\ At(Live).size > 0 /\ dir[Rotated] = NoInode
  /\ \E i \in Inodes :
       /\ IsFresh(i)
       /\ dir' = [dir EXCEPT ![Rotated] = i]
       /\ file' = [file EXCEPT ![i] = [At(Live) EXCEPT !.mtime = written + 1],
                               ![dir[Live]] = Empty(written)]
  /\ Disturb
  /\ UNCHANGED <<glob, written, dbVars, runVars, targets, rollbacks, crashes>>

\* gzip keeps the time of the file, and the oldest file is removed.
PackNew ==
  /\ dir[Rotated] # NoInode
  /\ dir[Packed] = NoInode \/ "pack over" \in Trouble \/ glob = {Packed}
  /\ ~PartlyRead(dir[Rotated]) \/ "pack interrupted" \in Trouble \/ glob = {Packed}
  /\ \E i \in Inodes :
       /\ IsFresh(i)
       /\ dir' = [dir EXCEPT ![Rotated] = NoInode, ![Packed] = i]
       /\ file' = [file EXCEPT ![i] = At(Rotated)]
  /\ Disturb
  /\ UNCHANGED <<glob, written, dbVars, runVars, targets, rollbacks, crashes>>

\* The file is appended to the packed one as a member of its own.
PackMember ==
  /\ glob = {Packed}
  /\ dir[Rotated] # NoInode /\ dir[Packed] # NoInode
  /\ dir' = [dir EXCEPT ![Rotated] = NoInode]
  /\ file' = [file EXCEPT ![dir[Packed]] = [from  |-> @.from,
                                            size  |-> @.size + At(Rotated).size,
                                            mtime |-> written + 1]]
  /\ Disturb
  /\ UNCHANGED <<glob, written, dbVars, runVars, targets, rollbacks, crashes>>

-----------------------------------------------------------------------------
(* Looking rows up. *)

Lesser(x, y) == IF x <= y THEN x ELSE y
TheOnly(S) == IF S = {} THEN NoRow ELSE CHOOSE r \in S : TRUE

\* ORDER BY completed DESC, offset DESC LIMIT 1
BestBy(S, off(_)) ==
  TheOnly({r \in S : \A s \in S :
    \/ r.completed /\ ~s.completed
    \/ r.completed = s.completed /\ off(r) >= off(s)})
BestByUncompressed(S) == BestBy(S, LAMBDA r : r.uoff)

StateByPath(p) == TheOnly({r \in parseState : r.path = p})
StateByInode(i) ==
  LET current == {r \in parseState : r.inode = i}
  IN IF current # {} THEN TheOnly(current)
     ELSE BestByUncompressed({r \in archive : r.inode = i})

\* Mutant: what was retired is not looked up.
CurrentRows == parseState

KnownRows == parseState \cup archive

\* Mutant: the path before the inode.
PathFirst(byPath, byInode, i) == IF byPath # NoRow THEN byPath ELSE byInode

\* A path record whose inode still matches, else an inode record, else the
\* path record of a file that was recreated.
ChoosePrimary(byPath, byInode, i) ==
  IF byPath # NoRow /\ byPath.inode = i THEN byPath
  ELSE IF byInode # NoRow THEN byInode ELSE byPath

ByPath(p)  == StateByPath(p)
ByInode(p) == StateByInode(dir[p])
Primary(p) == ChoosePrimary(ByPath(p), ByInode(p), dir[p])
InodeChanged(p) == ByPath(p) # NoRow /\ ByPath(p).inode # dir[p]

HeadOf(c) == IF c.size = 0 THEN NoHead ELSE <<c.from, Lesser(c.size, HeadSize)>>

PreviousSize(p, r) == IF IsCompressed(p) THEN r.csize ELSE r.usize

\* Rows that another file has taken the place of.
RetiredStates(p) ==
  {r \in {ByPath(p)} \ {NoRow} : r.inode # dir[p] \/ At(p).size < PreviousSize(p, r)}
  \cup {r \in {ByInode(p)} \ {NoRow} : r.path # p}

MetadataExactMatch(p) ==
  LET r == Primary(p)
  IN /\ r.completed /\ r.inode = dir[p] /\ r.mtime = At(p).mtime
     /\ PreviousSize(p, r) = At(p).size
     /\ (IF IsCompressed(p) THEN r.coff ELSE r.uoff) >= At(p).size

\* Of a packed file that kept its inode only the packed head is read.
ComputeFingerprints(p) ==
  LET r == Primary(p)
      same == IsCompressed(p) /\ dir[p] = r.inode
  IN [chead |-> IF IsCompressed(p) THEN HeadOf(At(p)) ELSE NoHead,
      uhead |-> IF same THEN r.uhead ELSE HeadOf(At(p)),
      usize |-> IF same THEN r.usize ELSE IF IsCompressed(p) THEN 0 ELSE At(p).size]

CompressedMatch(p) ==
  LET r == Primary(p)
  IN /\ IsCompressed(p) /\ r.completed /\ r.inode = dir[p]
     /\ r.mtime \in {0, At(p).mtime}
     /\ r.csize = At(p).size /\ r.chead = HeadOf(At(p))

FindHeadMatch(p) ==
  LET fps == ComputeFingerprints(p)
      byPacked == {r \in KnownRows : IsCompressed(p) /\ r.chead = fps.chead}
      byHead == {r \in KnownRows : fps.uhead # NoHead /\ r.uhead = fps.uhead}
  IN IF byPacked # {} THEN BestBy(byPacked, LAMBDA r : r.coff) ELSE BestByUncompressed(byHead)

HeadMatch(p) ==
  IF (ByPath(p) = NoRow /\ ByInode(p) = NoRow) \/ InodeChanged(p)
  THEN FindHeadMatch(p) ELSE NoRow

-----------------------------------------------------------------------------
(* classify_relation and derive_resume_point. *)

\* Identical, AliasPath
IsSameFile(p) ==
  LET r == Primary(p)
  IN /\ ~IsCompressed(p) /\ r.completed
     /\ r.usize = At(p).size /\ r.uhead = ComputeFingerprints(p).uhead
     /\ r.mtime \in {0, At(p).mtime}

SameHead(p) == LET fps == ComputeFingerprints(p)
               IN Primary(p).uhead # NoHead /\ Primary(p).uhead = fps.uhead

RotatedPlainToGz(p) ==
  IsCompressed(p) /\ Primary(p).csize = 0 /\ SameHead(p) /\ Primary(p).uoff > 0

\* Interrupted: the row is not completed.
InProgress(p) ==
  LET r == Primary(p)
  IN /\ ~r.completed /\ r.inode = dir[p] /\ r.uoff > 0
     /\ IF IsCompressed(p) THEN At(p).size >= r.csize ELSE At(p).size = r.usize

Grew(p) ==
  LET r == Primary(p)
  IN /\ At(p).size > PreviousSize(p, r) /\ PreviousSize(p, r) > 0
     /\ IF IsCompressed(p) THEN r.inode = dir[p] \/ (SameHead(p) /\ r.uoff > 0)
                           ELSE ~InodeChanged(p) \/ SameHead(p)

IsExtended(p) == RotatedPlainToGz(p) \/ InProgress(p) \/ Grew(p)

\* The file shrank or its head is another one.
IsReplaced(p) ==
  \/ At(p).size < PreviousSize(p, Primary(p))
  \/ ~IsCompressed(p) /\ Primary(p).uhead # NoHead /\ ~SameHead(p)

Clamped(p, off) == IF IsCompressed(p) THEN off ELSE Lesser(off, At(p).size)

ResumeOffset(p) ==
  IF Primary(p) # NoRow /\ IsExtended(p) THEN Clamped(p, Primary(p).uoff)
  ELSE IF Primary(p) # NoRow /\ IsReplaced(p) THEN 0
  ELSE Clamped(p, HeadMatch(p).uoff)

\* An inode that is known, and not in place of another, is not looked up by
\* its content.
SkipGlobalDedup(p) ==
  \/ ByPath(p).inode = dir[p] /\ At(p).size > PreviousSize(p, ByPath(p))
  \/ ByInode(p) # NoRow /\ ~InodeChanged(p)

\* Completed rows with the same content.
Duplicates(p) ==
  LET fps == ComputeFingerprints(p)
  IN {r \in KnownRows :
        /\ r.completed
        /\ IF IsCompressed(p) THEN r.chead = fps.chead /\ r.csize = At(p).size
           ELSE fps.usize > 0 /\ r.uhead = fps.uhead /\ r.usize = fps.usize}

SkipBefore(p) == IF ByPath(p).skip # NoTs THEN ByPath(p).skip ELSE ByInode(p).skip

-----------------------------------------------------------------------------
(* What is decided about a file: rows to store and a plan, if any. *)

AliasRow(p) == [Primary(p) EXCEPT !.path = p, !.inode = dir[p], !.mtime = At(p).mtime,
                                  !.completed = TRUE, !.skip = NoTs]

AliasUpdate(p) == IF Primary(p).path = p THEN {} ELSE {AliasRow(p)}

AliasUpdateWithFps(p) ==
  LET packed == IF IsCompressed(p) THEN At(p).size ELSE 0
      fps == ComputeFingerprints(p)
  IN IF Primary(p).path = p THEN {}
     ELSE {[AliasRow(p) EXCEPT !.csize = packed, !.coff = packed, !.chead = fps.chead,
                               !.uhead = IF fps.uhead # NoHead THEN fps.uhead ELSE @]}

CompletedUpdate(p) ==
  LET packed == IF IsCompressed(p) THEN At(p).size ELSE 0
      fps == ComputeFingerprints(p)
      usize == IF IsCompressed(p) THEN TheOnly(Duplicates(p)).usize ELSE fps.usize
  IN [NoRow EXCEPT !.path = p, !.inode = dir[p], !.csize = packed, !.usize = usize,
                   !.chead = fps.chead, !.uhead = fps.uhead, !.coff = packed,
                   !.uoff = usize, !.mtime = At(p).mtime, !.completed = TRUE]

\* A FileResumePlan is kept as the row it will be stored as.  uoff is the
\* offset to start from and skip the time stamp to start counting from.
PlanOf(p) ==
  LET fps == ComputeFingerprints(p)
  IN [NoRow EXCEPT !.path = p, !.inode = dir[p],
                   !.csize = IF IsCompressed(p) THEN At(p).size ELSE 0,
                   !.usize = fps.usize, !.chead = fps.chead, !.uhead = fps.uhead,
                   !.uoff = ResumeOffset(p), !.mtime = At(p).mtime, !.skip = SkipBefore(p)]

IsDuplicate(p) == ~SkipGlobalDedup(p) /\ Duplicates(p) # {}

NeedsPlan(p) == ~CompressedMatch(p) /\ ~IsDuplicate(p) /\ ~IsSameFile(p)

SkippedUpdate(p) ==
  IF MetadataExactMatch(p) THEN AliasUpdate(p)
  ELSE IF CompressedMatch(p) THEN AliasUpdateWithFps(p)
  ELSE IF IsDuplicate(p) THEN {CompletedUpdate(p)}
  ELSE IF IsSameFile(p) THEN AliasUpdateWithFps(p)
  ELSE {}

-----------------------------------------------------------------------------
(* The run. *)

\* read_first_line_ts, or the file's time if it has no line.
FirstTs(p) == IF At(p).size > 0 THEN At(p).from + 1 ELSE NoTs
SortKey(p) == IF At(p).size > 0 THEN FirstTs(p) ELSE At(p).mtime
Precedes(p, q) ==
  \/ SortKey(p) < SortKey(q)
  \/ SortKey(p) = SortKey(q) /\ PathOrder[p] < PathOrder[q]

Pending == {p \in OnDisk : ~MetadataExactMatch(p)}
OrderSkip ==
  {p \in Pending : \E q \in Pending : Precedes(p, q) /\ FirstTs(q) \in 1..(lastLog - 1)}
Resolved == Pending \ OrderSkip

\* The one sequence of the paths S that is sorted.
InOrder(S) == {s \in SetToSeqs(S) : \A i, j \in DOMAIN s : i < j => Precedes(s[i], s[j])}

StartRun ==
  /\ pc = "idle"
  /\ \E work \in InOrder({p \in Resolved : NeedsPlan(p)}) :
       todo' = [k \in DOMAIN work |-> PlanOf(work[k])]
  /\ LET updated(S) == {p \in S : SkippedUpdate(p) # {}}
         rows(paths) == [k \in DOMAIN paths |-> TheOnly(SkippedUpdate(paths[k]))]
     IN \E early \in InOrder(updated(OnDisk \ Pending)), late \in InOrder(updated(Resolved)) :
          pending' = rows(early) \o rows(late)
  /\ retired' = UNION {RetiredStates(p) : p \in OnDisk \ OrderSkip}
  /\ pc' = "run"
  /\ due' = UNION {AllLines(At(p)) : p \in OnDisk}
  /\ UNCHANGED <<fsVars, dbVars, active, acc, targets, rollbacks, crashes>>

OpenFile ==
  /\ pc = "run" /\ active = NoFile /\ todo # <<>>
  /\ dir[Head(todo).path] # NoInode
  /\ active' = [plan |-> Head(todo), inode |-> dir[Head(todo).path], at |-> Head(todo).uoff,
                earliest |-> NoTs, latest |-> NoTs]
  /\ todo' = Tail(todo)
  /\ UNCHANGED <<fsVars, dbVars, pc, acc, pending, retired, histVars>>

Kept(end) == {l \in LinesOf(file[active.inode], active.at, end) : l >= active.plan.skip}

\* ActiveFile::observe_ts for the lines up to `end`.
ReadTo(end) ==
  [active EXCEPT !.at = IF end > @ THEN end ELSE @,
     !.earliest = IF @ = NoTs /\ Kept(end) # {} THEN Min(Kept(end)) ELSE @,
     !.latest = IF Kept(end) # {} THEN Max(Kept(end)) ELSE @]

AccWith(end) == [l \in Line |-> acc[l] + (IF l \in Kept(end) THEN 1 ELSE 0)]

PlanSize(plan) == IF IsCompressed(plan.path) THEN plan.csize ELSE plan.usize

\* partial_parse_state and make_file_parse_state: what is known of the file
\* is what was planned, the rest is what was read.
RowFor(f, completed) ==
  [f.plan EXCEPT !.uoff = f.at,
     !.usize = IF IsCompressed(f.plan.path) THEN f.at ELSE @,
     !.coff = IF IsCompressed(f.plan.path) /\ completed THEN f.plan.csize ELSE 0,
     !.completed = completed, !.earliest = f.earliest, !.latest = f.latest, !.skip = NoTs]

FileDone ==
  /\ active # NoFile
  /\ LET end == file[active.inode].size
         f == ReadTo(end)
     IN /\ acc' = AccWith(end)
        /\ pending' = Append(pending, RowFor(f, IsCompressed(f.plan.path) \/ f.at >= PlanSize(f.plan)))
  /\ active' = NoFile
  /\ UNCHANGED <<fsVars, dbVars, pc, todo, retired, histVars>>

-----------------------------------------------------------------------------
(* Database::flush, the tables of parse states. *)

Coalesce(new, old) == IF new # NoTs THEN new ELSE old

\* INSERT ... ON CONFLICT (filepath) DO UPDATE keeps the old time stamps.
Merged(r, old) ==
  [r EXCEPT !.earliest = Coalesce(@, old.earliest), !.latest = Coalesce(@, old.latest)]

SameFilePath(rows, r) == {s \in rows : s.path = r.path}

\* The unique index on the inode, which ON CONFLICT does not mention.
InodeTaken(rows, r) == \E s \in rows : s.path # r.path /\ s.inode = r.inode

Upsert(rows, r) ==
  (rows \ SameFilePath(rows, r)) \cup {Merged(r, TheOnly(SameFilePath(rows, r)))}

Archived(rows) ==
  LET sameKey(r) == {s \in archive : s.path = r.path /\ s.inode = r.inode}
  IN (archive \ UNION {sameKey(r) : r \in rows})
     \cup {[Merged(r, TheOnly(sameKey(r))) EXCEPT !.skip = NoTs] : r \in rows}

\* Mutant: rows are copied to the archive and stay.
AllStay == parseState

Unretired == {s \in parseState : ~\E r \in retired : r.path = s.path /\ r.inode = s.inode}

\* The table after each of the rows that are written to it one by one.
InTurn(Write(_, _), table, rows) ==
  LET after[k \in 0..Len(rows)] == IF k = 0 THEN table ELSE Write(after[k - 1], rows[k])
  IN after

CanStore(rows) ==
  \A k \in DOMAIN rows : ~InodeTaken(InTurn(Upsert, Unretired, rows)[k - 1], rows[k])

Flush(counted, rows) ==
  /\ CanStore(rows)
  /\ count' = [l \in Line |-> count[l] + counted[l]]
  /\ parseState' = InTurn(Upsert, Unretired, rows)[Len(rows)]
  /\ archive' = Archived(retired)
  /\ lastLog' = Max({lastLog} \cup {l \in Line : counted[l] > 0})
  /\ pending' = <<>> /\ retired' = {}

\* A checkpoint or the end of a month.
Checkpoint ==
  /\ active # NoFile
  /\ \E end \in (active.at + 1)..file[active.inode].size :
       /\ Kept(end) # {}
       /\ Flush(AccWith(end), Append(pending, RowFor(ReadTo(end), FALSE)))
       /\ active' = ReadTo(end)
  /\ acc' = NoCount
  /\ UNCHANGED <<fsVars, pc, todo, histVars>>

EndRun ==
  /\ pc = "run" /\ active = NoFile /\ todo = <<>>
  /\ Flush(acc, pending)
  /\ pc' = "idle"
  /\ acc' = NoCount
  /\ UNCHANGED <<fsVars, todo, active, histVars>>

Stop ==
  /\ pc' = "idle" /\ todo' = <<>> /\ active' = NoFile
  /\ acc' = NoCount /\ pending' = <<>> /\ retired' = {}
  /\ due' = {}

\* The file to be opened is gone, or rows cannot be stored.
AbortRun ==
  /\ pc = "run" /\ active = NoFile
  /\ IF todo # <<>> THEN dir[Head(todo).path] = NoInode ELSE ~CanStore(pending)
  /\ Stop
  /\ UNCHANGED <<fsVars, dbVars, targets, rollbacks, crashes>>

Crash ==
  /\ pc = "run"
  /\ crashes < MaxCrashes
  /\ crashes' = crashes + 1
  /\ Stop
  /\ UNCHANGED <<fsVars, dbVars, targets, rollbacks>>

-----------------------------------------------------------------------------
(* rollback *)

Affected(r, t) == r.latest >= t \/ r.latest = NoTs

\* Mutant: offsets are reset and the mark of a finished file is not.
RewoundButDone(r, t) ==
  [r EXCEPT !.coff = 0, !.uoff = 0,
            !.skip = IF r.earliest = NoTs \/ r.earliest < t THEN t ELSE NoTs]

Rewound(r, t) ==
  [r EXCEPT !.coff = 0, !.uoff = 0, !.completed = FALSE,
            !.skip = IF r.earliest = NoTs \/ r.earliest < t THEN t ELSE NoTs]

\* Mutant: as if there were no unique index on the inode.
ReplacePath(rows, r) == {s \in rows : s.path # r.path} \cup {r}

\* INSERT OR REPLACE makes room for a row by path and by inode.
Replace(rows, r) == {s \in rows : s.path # r.path /\ s.inode # r.inode} \cup {r}

Rollback(t) ==
  /\ pc = "idle" /\ rollbacks < MaxRollbacks /\ t <= written + 1
  /\ count' = [l \in Line |-> IF l >= t THEN 0 ELSE count[l]]
  /\ lastLog' = t - 1
  /\ LET rewound == {IF Affected(r, t) THEN Rewound(r, t) ELSE r : r \in parseState}
         back == {r \in archive : Affected(r, t)}
     IN /\ \E order \in SetToSeqs(back) :
             LET rows == [k \in DOMAIN order |-> Rewound(order[k], t)]
             IN parseState' = InTurn(Replace, rewound, rows)[Len(rows)]
        /\ archive' = archive \ back
  /\ targets' = targets \cup {t}
  /\ rollbacks' = rollbacks + 1
  /\ due' = {}
  /\ UNCHANGED <<fsVars, runVars, crashes>>

-----------------------------------------------------------------------------
Next ==
  \/ WriteLine \/ Rename \/ CopyTruncate \/ PackNew \/ PackMember
  \/ StartRun \/ OpenFile \/ FileDone \/ Checkpoint \/ EndRun
  \/ AbortRun \/ Crash
  \/ \E t \in Targets : Rollback(t)

Spec == Init /\ [][Next]_vars

-----------------------------------------------------------------------------
(* Properties. *)

\* The variables hold values of their types; paths and inodes are unique in
\* parse_state, and rows of the archive by both.
TypeOK ==
  /\ glob \in Globs
  /\ dir \in [Paths -> Inodes \cup {NoInode}] /\ file \in [Inodes -> Content]
  /\ written \in 0..MaxLines /\ lastLog \in 0..MaxLines
  /\ count \in [Line -> Nat] /\ acc \in [Line -> Nat]
  /\ parseState \cup archive \cup retired \subseteq Row
  /\ \A r, s \in parseState : r.path = s.path \/ r.inode = s.inode => r = s
  /\ \A r, s \in archive : r.path = s.path /\ r.inode = s.inode => r = s
  /\ pc \in {"idle", "run"}
  /\ todo \in Seq(Row) /\ pending \in Seq(Row)
  /\ active \in {NoFile} \cup
       [plan : Row, inode : Inodes, at : 0..MaxLines, earliest : 0..MaxLines, latest : 0..MaxLines]
  /\ due \subseteq Line /\ targets \subseteq Targets
  /\ rollbacks \in 0..MaxRollbacks /\ crashes \in 0..MaxCrashes

\* A line older than a month that was rolled back to.
BeforeTarget(l) == \E t \in targets : l < t

\* A line is counted at most once, however files were rotated and packed, runs
\* interrupted and months rolled back; but for lines before a rollback's target.
CountedOnce == \A l \in Line : count[l] > 1 => BeforeTarget(l)

\* A run that nobody disturbed has counted every line that was on disk when
\* it began, also those that a rollback removed.
NothingMissed == pc = "idle" => \A l \in due : count[l] > 0 \/ BeforeTarget(l)

\* Every line before the offset a file is resumed from has been counted, and
\* none after it: the row that was found is about this file.
ResumedWhereLeftOff ==
  [][pc = "idle" /\ pc' = "run" =>
       \A k \in DOMAIN todo' :
         LET c == file[dir[todo'[k].path]]
         IN \A l \in AllLines(c) :
              BeforeTarget(l) \/ (count[l] > 0 <=> l <= c.from + todo'[k].uoff)]_vars

\* Every commit of a run can store its rows, whatever the order they come in: no
\* inode is given to a path while another path still holds it.
RowsFitTogether ==
  CanStore(IF active = NoFile THEN pending ELSE Append(pending, RowFor(active, FALSE)))
=============================================================================
