----------------------------- MODULE ResumeCover -----------------------------
(***************************************************************************)
(* Why no line is counted twice: an inductive invariant of Resume.  It is  *)
(* about the files that are on disk, the tables as they are and as the     *)
(* next commit would leave them, and the lines that are counted in each.   *)
(***************************************************************************)
EXTENDS Resume

\* Where nothing makes webstat take a row for a file it does not describe, and a
\* file has its head as soon as it has a line.
Untroubled == Trouble = {} /\ HeadSize = 1 /\ Globs \subseteq {Paths, {Packed}}

-----------------------------------------------------------------------------
(* What is on disk. *)

WorldOf(g, d, f, e) ==
  [only |-> g = {Packed}, inode |-> d, end |-> e,
   at |-> [p \in Paths |-> IF d[p] = NoInode THEN Empty(0) ELSE f[d[p]]]]
World == WorldOf(glob, dir, file, written)

On(w, p) == w.inode[p] # NoInode
HeadAt(w, p) == HeadOf(w.at[p])
EndOfAll(c) == c.from + c.size
EndAt(w, p) == EndOfAll(w.at[p])

\* If only packed files are looked at, lines after this one have not been.
Edge(w) == IF On(w, Rotated) THEN w.at[Rotated].from ELSE w.at[Live].from

\* Files follow one another, and only the live one can be empty.
Tidy(w) ==
  /\ On(w, Live) /\ EndAt(w, Live) = w.end
  /\ w.at[Live].size = 0 => w.at[Live].mtime = w.at[Live].from + 1
  /\ On(w, Rotated) => w.at[Rotated].size > 0 /\ EndAt(w, Rotated) = w.at[Live].from
  /\ On(w, Packed) => w.at[Packed].size > 0 /\ EndAt(w, Packed) = Edge(w)
  /\ \A p, q \in Paths : On(w, p) /\ w.inode[p] = w.inode[q] => p = q

-----------------------------------------------------------------------------
(* What rows say. *)

Note(r) == [path |-> r.path, inode |-> r.inode, head |-> r.uhead, chead |-> r.chead,
            size |-> PreviousSize(r.path, r), upto |-> r.uoff, mtime |-> r.mtime,
            done |-> r.completed]
Notes(rows) == {Note(r) : r \in rows}

SameKey(n, m) == n.path = m.path /\ n.inode = m.inode

WellMade(w, n) ==
  /\ n.chead = IF IsCompressed(n.path) THEN n.head ELSE NoHead
  /\ n.head = NoHead => n.path = Live /\ n.size = 0 /\ n.upto = 0
  /\ n.head # NoHead => n.size > 0 /\ n.head[2] = 1 /\ n.head[1] < w.end
  /\ w.only => n.path = Packed /\ n.head[1] < Edge(w)
  /\ ~w.only /\ n.path = Packed => n.inode = w.inode[Packed]

\* A row of the inode of a file is about the file, and then no larger, and as old if
\* it is as large; or about what was there before, and then larger.
Sized(w, n, p) ==
  On(w, p) /\ n.inode = w.inode[p] /\ n.head # NoHead =>
    \/ /\ n.head = HeadAt(w, p)
       /\ n.size <= w.at[p].size
       /\ n.size = w.at[p].size => n.mtime = w.at[p].mtime
    \/ n.head # HeadAt(w, p) /\ n.size > w.at[p].size

-----------------------------------------------------------------------------
(* The tables cur and old. *)

\* A key of the rotated file stands for one content, a content has one row of the
\* live file.
Single(cur, old) ==
  /\ \A n, m \in cur \cup old : n.path = Rotated /\ SameKey(n, m) => n.head = m.head
  /\ \A n \in cur \cup old, m \in old :
       n.path = Live /\ m.path = Live /\ n.head = m.head /\ n.head # NoHead => n = m /\ n \notin cur

LiveRows(w, cur, old) ==
  \A n \in cur \cup old :
    /\ n.inode = w.inode[Live] => n.path = Live
    /\ n.head = HeadAt(w, Live) /\ n.head # NoHead =>
         n.path = Live /\ n.inode = w.inode[Live] /\ n \notin old

RotatedRows(w, cur, old) == On(w, Rotated) =>
  \A n \in cur \cup old :
    /\ n.inode = w.inode[Rotated] =>
         \/ n.path = Live
         \/ n.path = Rotated /\ n.head = HeadAt(w, Rotated) /\ n.size = w.at[Rotated].size /\ n \notin old
    /\ n.head = HeadAt(w, Rotated) =>
         n.path = Live \/ (n.path = Rotated /\ n.inode = w.inode[Rotated])

PackedRows(w, cur, old) == On(w, Packed) =>
  \A n \in cur \cup old :
    /\ n.inode = w.inode[Packed] => n.path = Packed /\ n.head = HeadAt(w, Packed) /\ n \notin old
    /\ n.path = Packed /\ n.head = HeadAt(w, Packed) => n.inode = w.inode[Packed]

Kinds(w, cur, old) ==
  /\ \A n \in cur \cup old : WellMade(w, n) /\ \A p \in Paths : Sized(w, n, p)
  /\ Single(cur, old)
  /\ LiveRows(w, cur, old) /\ RotatedRows(w, cur, old) /\ PackedRows(w, cur, old)

-----------------------------------------------------------------------------
(* The tables and the lines S that are counted in them. *)

SeenOf(c, S) == S \cap AllLines(c)
SeenAt(w, p, S) == On(w, p) /\ SeenOf(w.at[p], S) # {}

\* All that is counted of the content comes before this offset.
Within(c, upto, S) == \A l \in SeenOf(c, S) : l <= c.from + upto
Covers(w, n, p, S) == Within(w.at[p], n.upto, S)

HasOwn(w, p, cur) == \E n \in cur : n.inode = w.inode[p]
OwnCovers(w, p, cur, S) ==
  /\ HasOwn(w, p, cur)
  /\ \A n \in cur : n.inode = w.inode[p] => n.head = HeadAt(w, p) /\ Covers(w, n, p, S)

\* All there is about a file that was rotated are rows of the live file, and
\* nothing has been counted since.
Alone(w, p, cur, old, S) ==
  /\ \E n \in cur \cup old : n.head = HeadAt(w, p)
  /\ \A n \in cur \cup old : n.head = HeadAt(w, p) => n.path = Live /\ Covers(w, n, p, S)
  /\ \A l \in S : l <= EndAt(w, p)
  /\ \A n \in cur : n.path = Live => n.head = HeadAt(w, p)

\* The packed file was read to its end when it was the rotated one.
ReadRotated(w, cur, old, S) ==
  /\ \E n \in cur \cup old : n.head = HeadAt(w, Packed) /\ n.path = Rotated
  /\ \A n \in cur \cup old :
       n.head = HeadAt(w, Packed) /\ n.path = Rotated => n.done /\ Covers(w, n, Packed, S)

CoveredLive(w, cur, S) == SeenAt(w, Live, S) => OwnCovers(w, Live, cur, S)

CoveredRotated(w, cur, old, S) ==
  SeenAt(w, Rotated, S) =>
    \/ OwnCovers(w, Rotated, cur, S)
    \/ /\ ~HasOwn(w, Rotated, cur)
       /\ \A n \in cur : n.path # Rotated
       /\ \A n \in old : n.inode = w.inode[Rotated] => n.head = HeadAt(w, Rotated)
       /\ Alone(w, Rotated, cur, old, S)

CoveredPacked(w, cur, old, S) ==
  SeenAt(w, Packed, S) =>
    \/ OwnCovers(w, Packed, cur, S)
    \/ /\ ~HasOwn(w, Packed, cur)
       /\ \A n \in cur : n.path # Packed
       /\ ReadRotated(w, cur, old, S) \/ Alone(w, Packed, cur, old, S)

Counted(w, S) == \A l \in S : l <= w.end /\ (w.only => l <= Edge(w))

Book(w, cur, old, S) ==
  /\ Kinds(w, cur, old) /\ Counted(w, S)
  /\ CoveredLive(w, cur, S) /\ CoveredRotated(w, cur, old, S) /\ CoveredPacked(w, cur, old, S)

-----------------------------------------------------------------------------
(* The tables as they are, and as the next commit would leave them. *)

Current == Notes(parseState)
Former  == Notes(archive)
Storing == Notes(Range(pending)) \cup (IF active = NoFile THEN {} ELSE {Note(RowFor(active, FALSE))})
NextCurrent == {n \in Notes(Unretired) : \A m \in Storing : n.path # m.path} \cup Storing
NextFormer  == {n \in Former : \A m \in Notes(retired) : ~SameKey(n, m)} \cup Notes(retired)

\* Lines that are counted, and that are not before a rollback's target.
Seen     == {l \in Line : count[l] > 0 /\ ~BeforeTarget(l)}
SeenNext == {l \in Line : count[l] + acc[l] > 0 /\ ~BeforeTarget(l)}

Books == Book(World, Current, Former, Seen) /\ Book(World, NextCurrent, NextFormer, SeenNext)

-----------------------------------------------------------------------------
(* The run. *)

\* The row or plan is about the content.
About(w, n, c) ==
  /\ WellMade(w, n) /\ n.head = HeadOf(c)
  /\ n.size <= c.size /\ (n.size = c.size => n.mtime = c.mtime)
  /\ n.path = Rotated => n.size = c.size

\* What is needed of the files before one that is read.
Settled(w, p, cur, old, S) ==
  SeenAt(w, p, S) => HasOwn(w, p, cur) \/ (p = Packed /\ ReadRotated(w, cur, old, S))
SettledBefore(w, from, cur, old, S) ==
  \A p \in {Rotated, Packed} : On(w, p) /\ EndAt(w, p) <= from => Settled(w, p, cur, old, S)

\* The file of a plan is where it was, or is the rotated one and has been packed.
PlanFits(w, plan, c, cur, S) ==
  /\ \A p \in Paths : w.inode[p] = plan.inode => p = plan.path
  /\ w.inode[plan.path] = plan.inode \/ (plan.path = Rotated /\ ~On(w, Rotated))
  /\ w.inode[plan.path] = plan.inode => About(w, Note(plan), c) /\ Within(c, plan.uoff, S)
  /\ \A n \in cur : n.path = plan.path => n.inode = plan.inode /\ n.head \in {plan.uhead, NoHead}

PlansFit(w, f, g, plans, cur, old, S) ==
  \A k \in DOMAIN plans :
    LET c == f[plans[k].inode]
    IN /\ plans[k].path \in g /\ PlanFits(w, plans[k], c, cur, S)
       /\ \A j \in DOMAIN plans : j < k => f[plans[j].inode].from < c.from
       /\ \A p \in {Rotated, Packed} : On(w, p) /\ EndAt(w, p) <= c.from =>
            \/ Settled(w, p, cur, old, S)
            \/ \E j \in DOMAIN plans : j < k /\ (~On(w, plans[j].path) \/ plans[j].path = p)

Planned == PlansFit(World, file, glob, todo, NextCurrent, NextFormer, SeenNext)

\* The file that is read is where it was, or the live one and has been rotated,
\* or packed and gone.
Placed(w, path, inode, c) ==
  \/ w.inode[path] = inode
  \/ path = Live /\ w.inode[Rotated] = inode
  \/ /\ w.only /\ \A p \in Paths : w.inode[p] # inode
     /\ EndOfAll(c) <= Edge(w) /\ (On(w, Packed) => EndOfAll(c) <= w.at[Packed].from)

ReadFits(w, f, g, a, plans, cur, old, S) ==
  LET c == f[a.inode]
  IN /\ a.plan.path \in g /\ a.plan.inode = a.inode
     /\ About(w, Note(a.plan), c) /\ Within(c, a.at, S)
     /\ \A k \in DOMAIN plans : c.from < f[plans[k].inode].from
     /\ SettledBefore(w, c.from, cur, old, S)
     /\ Placed(w, a.plan.path, a.inode, c)

Reading ==
  active # NoFile => ReadFits(World, file, glob, active, todo, NextCurrent, NextFormer, SeenNext)

\* Each file is in one place.
Distinct ==
  /\ \A j, k \in DOMAIN pending : pending[j].path = pending[k].path => j = k
  /\ \A j \in DOMAIN pending, k \in DOMAIN todo : pending[j].path # todo[k].path
  /\ active # NoFile =>
       /\ \A j \in DOMAIN pending : pending[j].path # active.plan.path
       /\ \A k \in DOMAIN todo : todo[k].path # active.plan.path

Done ==
  /\ \A r \in Range(pending) :
       r.completed /\ (r.inode = dir[Live] /\ At(Live).size > 0 => r.uhead = HeadOf(At(Live)))
  /\ retired \subseteq parseState \cup archive
  /\ pc = "idle" => acc = NoCount

\* The last line that was counted is among those that are.
LastSeen ==
  /\ lastLog <= written /\ \A t \in targets : t <= written + 1
  /\ \A l \in Line : count[l] > 0 => l <= lastLog
  /\ lastLog \in Line /\ ~BeforeTarget(lastLog) => lastLog \in Seen

Once == \A l \in Line : count[l] + acc[l] > 1 => BeforeTarget(l)

CoverInv ==
  /\ Tidy(World) /\ Books
  /\ Planned /\ Reading /\ Distinct /\ Done
  /\ LastSeen /\ Once
=============================================================================
